------------------------------ MODULE Pipeline ------------------------------
(***************************************************************************)
(* From the syntax tree to what a program does: main runs the compiler     *)
(* (Compilation, with the optimizer) and hands the ProgramBytecode it      *)
(* filled to the interpreter (BytecodeVM).  Each of the two is shown by    *)
(* itself elsewhere; here they work on the same program.                   *)
(***************************************************************************)
EXTENDS BytecodeVM

CONSTANTS
  CompileTree(_),  \* the compiler's pass over a tree (CompileProgram of Compiler)
  Sources          \* name -> [tree, listing (see Compilation), collections (see
                   \*   BytecodeVM), meaning: what the tree means (TreeMeaning),
                   \*   disputed: errors the code may report instead of a TypeError]

VARIABLES source, phase, chunks, pool, current, next, fresh, offsets, chain, marks

compilerVars == <<source, phase, chunks, pool, current, next, fresh, offsets, chain, marks>>

C == INSTANCE Compilation WITH constants <- pool

PipelineInit ==
  /\ C!Init
  /\ program = [chunks |-> <<>>, constants |-> <<>>, collections |-> 0]
  /\ constants = <<>>
  /\ stack = <<>>
  /\ buffer = [cap |-> 0, moves |-> 0]
  /\ frames = <<TopLevel>>
  /\ calls = <<>>
  /\ heap = HeapAtStart
  /\ upvalues = [u \in UpvalueCells |-> Free]
  /\ out = <<>>
  /\ mode = "waiting"
  /\ error = ""
  /\ collected = 0

Compilation ==
  /\ C!Compile \/ C!Optimization \/ C!Deduplicate
  /\ UNCHANGED vars

\* The constructor of the VM and the start of execute.
Execute ==
  /\ phase = "done"
  /\ mode = "waiting"
  /\ program' = [chunks |-> chunks, constants |-> [i \in 0 .. Len(pool) - 1 |-> pool[i + 1]],
                 collections |-> Sources[source].collections]
  /\ constants' = program'.constants
  /\ mode' = "run"
  /\ UNCHANGED <<compilerVars, stack, buffer, frames, calls, heap, upvalues, out, error,
                 collected>>

Interpretation ==
  /\ MaybeGc \/ Instruction \/ Activation
  /\ UNCHANGED compilerVars

Stopped == phase \in {"rejected", "thrown"} \/ Ended

PipelineNext ==
  \/ Compilation
  \/ Execute
  \/ Interpretation
  \/ Stopped /\ UNCHANGED <<vars, compilerVars>>

\* One thread that makes steps until it stops.
PipelineSpec ==
  PipelineInit /\ [][PipelineNext]_<<vars, compilerVars>>
    /\ ([]<>Stopped \/ []<><<TRUE>>_<<vars, compilerVars>>)

----------------------------------------------------------------------------
(* Properties *)

\* A compiled and optimized program does what its tree means: it prints the same
\* and ends with the same error, where another is known to be reported with one of
\* the known errors, or without one, and no exception escapes (Compiler, the
\* optimizer and every handler of the VM together).
RunsAsMeant ==
  LET meaning == Sources[source].meaning
  IN  /\ phase \notin {"rejected", "thrown"}
      /\ mode \notin {"aborted", "undefined"}
      /\ mode \in {"done", "failed"} => out = meaning.out
      /\ mode = "done" => meaning.result = "done"
      /\ mode = "failed" => error \in {meaning.result} \cup Sources[source].disputed

\* Compiling, optimizing and running a program ends.
Finishes == <>Stopped
=============================================================================
