---------------------------- MODULE CompiledCode -----------------------------
(***************************************************************************)
(* The heights of the frame in what the compiler and the optimizer make:   *)
(* the properties of Compilation for which they have to be computed.       *)
(***************************************************************************)
EXTENDS Compilation, StackHeights

\* Whatever way execution takes to an instruction, the frame has the same
\* number of values there, enough of them for the instruction's operands, and
\* every slot it names is one of them.
StackDiscipline ==
  Compiled => \A c \in DOMAIN chunks : Disciplined(chunks[c], Arity(Bytecode, c), {})

\* At the start of a statement the frame holds the locals in scope and nothing
\* else, so that a local's number is its slot.  The ways through the code that begin at
\* its statements, those that cannot be reached among them, agree on it.
LocalsInPlace ==
  Compiled =>
    \A c \in DOMAIN chunks :
      LET statements == {mark \in marks : mark[1] = c - 1}
      IN  Disciplined(chunks[c], Arity(Bytecode, c), {<<mark[2], mark[3]>> : mark \in statements})

\* The program keeps to everything the interpreter relies on without a check, after the
\* compiler and after every pass: heights, slots, upvalues and constants, and all
\* closures of a function hold the same number of cells (the premise of SafeVM).  What
\* instructions name exists even where they cannot be reached, for the optimizer may
\* look at them.
ProgramWellFormed ==
  Compiled =>
    LET shape == Shape(Bytecode)
    IN  /\ WellFormed(Bytecode, shape)
        /\ \A c \in DOMAIN chunks : \A i \in DOMAIN chunks[c] :
             OperandsFit(Bytecode, shape, shape[c].cells, chunks[c][i])
=============================================================================
