---------------------------- MODULE Compilation -----------------------------
(***************************************************************************)
(* Compiler::compile: the pass over the syntax tree (CompileTree), the     *)
(* optimizer (Peephole) and the merging of equal constants, on one of      *)
(* several sources.                                                        *)
(***************************************************************************)
EXTENDS Peephole, ChunkShapes, FiniteSetsExt

CONSTANTS
  CompileTree(_),  \* the compiler's pass over a tree (CompileProgram of Compiler)
  Sources          \* name -> [tree, listing (<<>> or <<chunks, constants>>)]

VARIABLES
  source,   \* the name of the program being compiled
  marks     \* history: <<chunk, offset, number of locals>> per statement

vars == <<source, marks, optimizerVars>>

\* "parsed": before compile; "done": compiled; "rejected": a CompileError.
Phases == {"parsed", "optimizing", "optimized", "done", "rejected", "thrown"}

Init ==
  /\ source \in DOMAIN Sources
  /\ phase = "parsed"
  /\ chunks = <<>>
  /\ constants = <<>>
  /\ marks = {}
  /\ OptimizerInit

Compile ==
  LET compiled == CompileTree(Sources[source].tree)
  IN  /\ phase = "parsed"
      /\ IF compiled.error
         THEN phase' = "rejected" /\ UNCHANGED <<chunks, constants, marks>>
         ELSE /\ phase' = "optimizing"
              /\ chunks' = compiled.chunks
              /\ constants' = compiled.constants
              /\ marks' = compiled.marks
      /\ UNCHANGED <<source, current, next, fresh, offsets, chain>>

\* A statement is where the instruction at its start has gone.
MoveMarks ==
  marks' = {IF mark[1] = current - 1 THEN <<mark[1], offsets[mark[2] + 1], mark[3]>>
            ELSE mark : mark \in marks}

Optimization ==
  \/ Round /\ UNCHANGED <<source, marks>>
  \/ ShorterPass /\ MoveMarks /\ UNCHANGED source
  \/ LastPass /\ UNCHANGED <<source, marks>>

\* Mutant: functions are compared by their names.
MergeNames(acc, d) ==
  LET equal == {i \in DOMAIN acc.kept :
                  \/ ~IsFunction(d) /\ acc.kept[i] = d
                  \/ IsFunction(d) /\ IsFunction(acc.kept[i]) /\ acc.kept[i][2].name = d[2].name}
  IN  IF equal = {}
      THEN [kept |-> Append(acc.kept, d), index |-> Append(acc.index, Len(acc.kept))]
      ELSE [acc EXCEPT !.index = Append(@, Min(equal) - 1)]

\* deduplicate_constants: the first of equal constants stands for all of them.
\* Functions are compared by address, so every one is kept.
Merge(acc, d) ==
  LET equal == {i \in DOMAIN acc.kept : ~IsFunction(d) /\ acc.kept[i] = d}
  IN  IF equal = {}
      THEN [kept |-> Append(acc.kept, d), index |-> Append(acc.index, Len(acc.kept))]
      ELSE [acc EXCEPT !.index = Append(@, Min(equal) - 1)]

Deduplicated == FoldLeft(Merge, [kept |-> <<>>, index |-> <<>>], constants)

\* Mutant: the names of globals are forgotten.
RenumberedConstants(instr, index) ==
  CASE instr.op = "CONSTANT" -> [instr EXCEPT !.index = index[@ + 1]]
    [] instr.op = "CLOSURE" -> [instr EXCEPT !.function = index[@ + 1]]
    [] OTHER -> instr
Renumbered(instr, index) ==
  CASE instr.op \in {"CONSTANT", "GET_GLOBAL", "SET_GLOBAL"} ->
         [instr EXCEPT !.index = index[@ + 1]]
    [] instr.op = "CLOSURE" -> [instr EXCEPT !.function = index[@ + 1]]
    [] OTHER -> instr

Deduplicate ==
  LET merged == Deduplicated
  IN  /\ phase = "optimized"
      /\ phase' = "done"
      /\ constants' = merged.kept
      /\ chunks' = [c \in DOMAIN chunks |->
                      [i \in DOMAIN chunks[c] |-> Renumbered(chunks[c][i], merged.index)]]
      /\ UNCHANGED <<source, marks, current, next, fresh, offsets, chain>>

Ended == phase \in {"done", "rejected", "thrown"}

Next ==
  \/ Compile
  \/ Optimization
  \/ Deduplicate
  \/ Ended /\ UNCHANGED vars

Spec == Init /\ [][Next]_vars

\* The compiler is one thread that only compiles.  Compile and Deduplicate go
\* through finite data once; whether the optimizer's loops end is in question.
FairSpec == Spec /\ WF_vars(Optimization)

----------------------------------------------------------------------------
(* The ProgramBytecode; its constants are numbered from 0. *)

Bytecode ==
  [chunks |-> chunks,
   constants |-> [i \in 0 .. Len(constants) - 1 |-> constants[i + 1]]]

----------------------------------------------------------------------------
(* Properties *)

TypeOK ==
  /\ phase \in Phases
  /\ current \in 1 .. Len(chunks) \/ chunks = <<>>
  /\ chunks # <<>> => next = Len(offsets) /\ next \in 0 .. Len(Scanned)
  /\ Len(fresh) <= next
  /\ \A c \in DOMAIN chunks : \A i \in DOMAIN chunks[c] :
       chunks[c][i].op \in {"CONSTANT", "GET_GLOBAL", "SET_GLOBAL"} =>
         chunks[c][i].index \in 0 .. Len(constants) - 1

\* The code after the compiler or after a pass of the optimizer.
Compiled == phase \in {"optimizing", "optimized", "done"} /\ next = 0

\* Where the code of the current chunk may be entered: jumps lead there, or a statement
\* begins.
Places == Targets(Scanned) \cup {mark[2] : mark \in {m \in marks : m[1] = current - 1}}

\* No jump leads into a window that is replaced, and no statement begins there.
WindowsSound == SoundWindow(Places)

\* Every upvalue an instruction names is one that the closures of its function
\* hold, in the functions in between, too, which only pass it on.
UpvaluesResolved ==
  Compiled =>
    \A c \in DOMAIN chunks : \A i \in DOMAIN chunks[c] :
      LET instr == chunks[c][i]
      IN  /\ instr.op \in {"GET_UPVALUE", "SET_UPVALUE"} => instr.index < CapturedCells(Bytecode, c)
          /\ instr.op = "CLOSURE" =>
               \A u \in ToSet(instr.upvalues) : ~u.local => u.index < CapturedCells(Bytecode, c)

\* The result is what the snapshot test of the repository expects.
ListingsMatch ==
  phase = "done" /\ Sources[source].listing # <<>> =>
    <<chunks, constants>> = Sources[source].listing

\* The optimizer ends: the passes over a chunk make it shorter until one does
\* not, and the chains of jumps it follows end.
OptimizerEnds == phase = "optimizing" ~> phase # "optimizing"
=============================================================================
