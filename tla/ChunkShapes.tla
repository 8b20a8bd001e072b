----------------------------- MODULE ChunkShapes -----------------------------
(***************************************************************************)
(* What a program says of the functions its chunks belong to: how many     *)
(* parameters they have and how many cells their closures hold.            *)
(***************************************************************************)
EXTENDS WellFormedness

\* The parameters of the function a chunk belongs to; chunk 0 has none.
Arity(p, c) ==
  LET templates == {i \in Templates(p) : p.constants[i][2].chunk = c - 1}
  IN  IF templates = {} THEN 0 ELSE p.constants[CHOOSE i \in templates : TRUE][2].arity

\* The instructions that make closures of chunk c.
Makes(p, c, instr) ==
  instr.op = "CLOSURE" /\ p.constants[instr.function][2].chunk = c - 1

Makers(p, c) ==
  {at \in UNION {{b} \X DOMAIN p.chunks[b] : b \in DOMAIN p.chunks} :
     Makes(p, c, p.chunks[at[1]][at[2]])}

\* How many cells a function of chunk c holds.
CapturedCells(p, c) ==
  IF Makers(p, c) = {} THEN 0
  ELSE LET m == CHOOSE m \in Makers(p, c) : TRUE IN Len(p.chunks[m[1]][m[2]].upvalues)
=============================================================================
