---------------------------- MODULE WellFormedness ----------------------------
(***************************************************************************)
(* What the instructions do to the height of a frame, and when a program   *)
(* is well formed: every instruction that can be reached has one height of *)
(* the frame, finds its operands, and names only what there is.            *)
(*                                                                         *)
(* The code has no such check: execute_op trusts the compiler.             *)
(* CompiledCode says that what the compiler and the optimizer make is well *)
(* formed, and SafeVM what the interpreter guarantees for such programs.   *)
(***************************************************************************)
EXTENDS Instructions, FiniteSets

\* How many values an instruction takes, and how many it leaves.
Takes(instr) ==
  CASE instr.op \in ArithmeticOps \cup CompareOps \cup {"GET_INDEX"} -> 2
    [] instr.op = "SET_INDEX" -> 3
    [] instr.op \in {"POP", "MAKE_ARRAY"} -> instr.count
    [] instr.op = "DUPLICATE" -> instr.index + 1
    [] instr.op = "CALL" -> instr.argc + 1
    [] instr.op \in {"NEGATE", "NOT", "JUMP_IF", "RETURN"}
                      \cup {"SET_LOCAL", "SET_GLOBAL", "SET_UPVALUE"} -> 1
    [] OTHER -> 0

Leaves(instr) ==
  CASE instr.op \in CompareOps -> IF instr.keep_rhs THEN 2 ELSE 1
    [] instr.op \in ArithmeticOps -> 1
    [] instr.op \in {"NEGATE", "NOT", "MAKE_ARRAY", "GET_INDEX", "CONSTANT", "CLOSURE",
                     "GET_LOCAL", "GET_GLOBAL", "GET_UPVALUE"} -> 1
    [] instr.op = "DUPLICATE" -> instr.index + 2
    [] instr.op = "CALL" -> IF instr.keep THEN 1 ELSE 0
    [] OTHER -> 0

\* Slots an instruction names.
SlotsOf(instr) ==
  CASE instr.op \in {"GET_LOCAL", "SET_LOCAL"} -> {instr.index}
    [] instr.op = "FOR_LOOP" -> {instr.control, instr.limit, instr.step}
    [] instr.op = "CLOSURE" -> {u.index : u \in {v \in ToSet(instr.upvalues) : v.local}}
    [] OTHER -> {}

\* Where execution goes from an instruction, with which height.
Successors(code, at) ==
  LET instr == code[at[1] + 1]
      rest == at[2] - Takes(instr)
      behind == <<at[1] + 1, rest + Leaves(instr)>>
  IN  CASE instr.op = "RETURN" -> {}
        [] instr.op = "JUMP" -> {<<instr.offset, at[2]>>}
        [] instr.op = "JUMP_IF" ->
             {<<at[1] + 1, IF instr.keep_stay THEN at[2] ELSE rest>>,
              <<instr.offset, IF instr.keep_jump THEN at[2] ELSE rest>>}
        [] instr.op = "FOR_LOOP" -> {behind, <<instr.body, at[2]>>}
        [] OTHER -> {behind}

----------------------------------------------------------------------------
(* Heights that fit: a function from the offsets that can be reached.       *)

\* SET_LOCAL takes its operand before it writes the slot.
Reserves(instr) == IF instr.op = "SET_LOCAL" THEN 1 ELSE 0

FitsAt(code, heights, ip) ==
  LET instr == code[ip + 1]
  IN  /\ heights[ip] \in Nat
      /\ Takes(instr) <= heights[ip]
      /\ \A slot \in SlotsOf(instr) : slot < heights[ip] - Reserves(instr)
      /\ \A at \in Successors(code, <<ip, heights[ip]>>) :
           at[1] \in DOMAIN heights /\ heights[at[1]] = at[2]

HeightsFit(code, arity, heights) ==
  /\ DOMAIN heights \subseteq 0 .. Len(code) - 1
  /\ 0 \in DOMAIN heights /\ heights[0] = arity
  /\ \A ip \in DOMAIN heights : FitsAt(code, heights, ip)

----------------------------------------------------------------------------
(* Programs.  "shape" says of every chunk how many parameters and captured *)
(* cells its function has, and the heights of its offsets.                 *)

Templates(p) == {i \in DOMAIN p.constants : IsA("fun", p.constants[i])}

\* How many cells the closures made of a template hold.
CellsOf(p, shape, i) == shape[p.constants[i][2].chunk + 1].cells

\* The constants that are complete values: a function that captures variables is
\* not one before OpClosure has made a closure of it.
Loadable(p, shape) == {i \in DOMAIN p.constants : i \in Templates(p) => CellsOf(p, shape, i) = 0}

ConstantFits(shape, d) ==
  \/ d \in {Nil} \cup ({"bool"} \X BOOLEAN) \cup ({"int"} \X Int) \cup ({"str"} \X Seq(STRING))
  \/ /\ d \in {"fun"} \X [chunk : Nat, arity : Nat, name : STRING, curried : {<<>>}, upvals : {<<>>}]
     /\ d[2].chunk + 1 \in DOMAIN shape
     /\ d[2].arity = shape[d[2].chunk + 1].arity

\* The operands of an instruction in a function that holds a number of cells.
OperandsFit(p, shape, cells, instr) ==
  /\ instr.op \in {"POP", "MAKE_ARRAY"} => instr.count \in Nat
  /\ instr.op \in {"DUPLICATE", "GET_LOCAL", "SET_LOCAL"} => instr.index \in Nat
  /\ instr.op \in CompareOps => instr.keep_rhs \in BOOLEAN
  /\ instr.op = "JUMP_IF" => {instr.expected, instr.keep_jump, instr.keep_stay} \subseteq BOOLEAN
  /\ instr.op = "CALL" => instr.argc \in Nat /\ instr.keep \in BOOLEAN
  /\ instr.op = "FOR_LOOP" => {instr.control, instr.limit} \subseteq Nat /\ instr.step \in Int
  /\ instr.op = "CONSTANT" => instr.index \in Loadable(p, shape)
  /\ instr.op \in {"GET_GLOBAL", "SET_GLOBAL"} => instr.index \in DOMAIN p.constants
  /\ instr.op \in {"GET_UPVALUE", "SET_UPVALUE"} => instr.index \in 0 .. cells - 1
  /\ instr.op = "CLOSURE" =>
       /\ instr.function \in DOMAIN p.constants
       /\ instr.upvalues \in Seq([local : BOOLEAN, index : Nat])
       /\ \A i \in DOMAIN instr.upvalues : instr.upvalues[i].local \/ instr.upvalues[i].index < cells
       /\ instr.function \in Templates(p) =>
            Len(instr.upvalues) = CellsOf(p, shape, instr.function)

WellFormed(p, shape) ==
  /\ DOMAIN shape = DOMAIN p.chunks
  /\ 1 \in DOMAIN shape /\ shape[1].arity = 0 /\ shape[1].cells = 0
  /\ \A c \in DOMAIN shape :
       /\ shape[c].arity \in Nat /\ shape[c].cells \in Nat
       /\ HeightsFit(p.chunks[c], shape[c].arity, shape[c].heights)
       /\ \A ip \in DOMAIN shape[c].heights :
            OperandsFit(p, shape, shape[c].cells, p.chunks[c][ip + 1])
  /\ IsFiniteSet(DOMAIN p.constants)
  /\ \A i \in DOMAIN p.constants : ConstantFits(shape, p.constants[i])
=============================================================================
