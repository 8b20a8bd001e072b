----------------------------- MODULE StackHeights -----------------------------
(***************************************************************************)
(* Computes the height of the frame in front of every instruction that can *)
(* be reached: what a program has to be well formed with.                  *)
(***************************************************************************)
EXTENDS ChunkShapes

\* A step further on every way through a chunk: "reached" are the offsets with their
\* heights, "last" the ones of the last step.
Further(code, ways) ==
  LET found == (UNION {Successors(code, at) : at \in ways.last}) \ ways.reached
  IN  IF \E at \in ways.last : at[1] >= Len(code) THEN ways
      ELSE [reached |-> ways.reached \cup found, last |-> found]

\* Everything that can be reached from where execution may start.  There are as many
\* steps as instructions, enough to reach them all, if each has one height.
Heights(code, starts) ==
  FoldLeft(LAMBDA ways, instr : Further(code, ways),
           [reached |-> starts, last |-> starts], code).reached

OneHeight(heights) == Cardinality({at[1] : at \in heights}) = Cardinality(heights)

\* The same as a function; where there are several heights, one of them.
HeightMap(code, starts) ==
  LET heights == Heights(code, starts)
  IN  [ip \in {at[1] : at \in heights} |-> (CHOOSE at \in heights : at[1] = ip)[2]]

\* A function is entered at its first instruction, with its arguments.
Entry(arity) == {<<0, arity>>}

\* One height per instruction, enough operands, no slot above the top, no
\* way out of the code.
Disciplined(code, arity, starts) ==
  LET from == Entry(arity) \cup starts
  IN  OneHeight(Heights(code, from)) /\ HeightsFit(code, arity, HeightMap(code, from))

----------------------------------------------------------------------------
(* The shape of a program *)

Shape(p) ==
  [c \in DOMAIN p.chunks |->
     [arity |-> Arity(p, c), cells |-> CapturedCells(p, c),
      heights |-> HeightMap(p.chunks[c], Entry(Arity(p, c)))]]
=============================================================================
