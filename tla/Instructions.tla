---------------------------- MODULE Instructions ----------------------------
(***************************************************************************)
(* The instructions of bytecode.cppm as records, for the compiler, the     *)
(* optimizer and the listings.  Offsets, slots, constants and counts start *)
(* at 0, as in the code.                                                   *)
(***************************************************************************)
EXTENDS Values

\* Instructions without operands are told apart by their name only.
Plain(op) == [op |-> op]
Return == Plain("RETURN")

Constant(i) == [op |-> "CONSTANT", index |-> i]
GetLocal(i) == [op |-> "GET_LOCAL", index |-> i]
SetLocal(i) == [op |-> "SET_LOCAL", index |-> i]
GetGlobal(i) == [op |-> "GET_GLOBAL", index |-> i]
SetGlobal(i) == [op |-> "SET_GLOBAL", index |-> i]
GetUpvalue(i) == [op |-> "GET_UPVALUE", index |-> i]
SetUpvalue(i) == [op |-> "SET_UPVALUE", index |-> i]

Pop(n) == [op |-> "POP", count |-> n]
Duplicate(i) == [op |-> "DUPLICATE", index |-> i]
MakeArray(n) == [op |-> "MAKE_ARRAY", count |-> n]
CallWith(n, keep) == [op |-> "CALL", argc |-> n, keep |-> keep]

\* A comparison; the links of a chain keep the right operand for the next.
Compares(op, keepRhs) == [op |-> op, keep_rhs |-> keepRhs]

Jump(to) == [op |-> "JUMP", offset |-> to]
JumpIf(to, expected, keepJump) ==
  [op |-> "JUMP_IF", offset |-> to, expected |-> expected, keep_jump |-> keepJump,
   keep_stay |-> FALSE]

\* step is the slot of the step; a negative one stands for std::nullopt.
ForLoop(control, limit, body, inclusive, step) ==
  [op |-> "FOR_LOOP", control |-> control, limit |-> limit, body |-> body,
   inclusive |-> inclusive, step |-> step]

MakeClosure(i, captured) == [op |-> "CLOSURE", function |-> i, upvalues |-> captured]
LocalSlot(i) == [local |-> TRUE, index |-> i]
OuterUpvalue(i) == [local |-> FALSE, index |-> i]

\* The template of a function in the constants.
Template(chunk, name, arity) ==
  Fun([chunk |-> chunk, arity |-> arity, name |-> name, curried |-> <<>>, upvals |-> <<>>])
=============================================================================
