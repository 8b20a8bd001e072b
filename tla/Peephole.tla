------------------------------ MODULE Peephole ------------------------------
(***************************************************************************)
(* peephole.cpp: the optimizer.  run_pass goes over a chunk once, replaces *)
(* the windows of instructions that a pattern matches and moves the        *)
(* targets of jumps along; optimize repeats it for every chunk until a     *)
(* pass leaves the chunk as long as it was.  An action is one round of the *)
(* loop of run_pass, of the loop of follow_jump_chain, or the end of a     *)
(* pass, so an optimizer that does not end is a behavior that does not.    *)
(***************************************************************************)
EXTENDS Instructions

CONSTANT
  CompareValues(_, _, _)  \* the order of two values (DeepValues)

VARIABLES
  phase,      \* "optimizing"; "optimized"; "thrown": an exception nothing catches
  chunks,     \* ProgramBytecode::chunks
  constants,  \* ProgramBytecode::constants
  current,    \* the chunk being optimized
  next,       \* i: the offset of the next instruction to look at
  fresh,      \* new_code
  offsets,    \* old_to_new, as far as it is known
  chain       \* <<offset>> while follow_jump_chain is under way

optimizerVars == <<phase, chunks, constants, current, next, fresh, offsets, chain>>

OptimizerInit ==
  /\ current = 1
  /\ next = 0
  /\ fresh = <<>>
  /\ offsets = <<>>
  /\ chain = <<>>

----------------------------------------------------------------------------
(* The window *)

Scanned == chunks[current]

\* The j-th instruction of the window, and the constant it loads.
At(j) == Scanned[next + j]
ValueAt(j) == constants[At(j).index + 1]

Scanning == phase = "optimizing" /\ next < Len(Scanned) /\ chain = <<>>

\* Do the next instructions have these names?
Window(names) ==
  /\ next + Len(names) <= Len(Scanned)
  /\ \A j \in DOMAIN names : At(j).op \in names[j]

\* What run_pass does with a match: the consumed instructions now are where
\* their replacement is.
Replace(consumed, replacement, added) ==
  /\ fresh' = fresh \o replacement
  /\ offsets' = offsets \o [j \in 1 .. consumed |-> Len(fresh)]
  /\ constants' = constants \o added
  /\ next' = next + consumed
  /\ chain' = <<>>
  /\ UNCHANGED <<phase, chunks, current>>

\* add_constant, and the instruction that loads what was computed.
Fold(consumed, d) == Replace(consumed, <<Constant(Len(constants))>>, <<d>>)

----------------------------------------------------------------------------
(* Patterns.  At most one of them matches: try_match looks for pop_zero    *)
(* before merge_pops and for zero_jump before jump_chaining, and the other *)
(* ones differ in their first two instructions.                            *)

Jumps == {"JUMP", "JUMP_IF"}

IsPopZero == Window(<<{"POP"}>>) /\ At(1).count = 0
IsMergePops == Window(<<{"POP"}, {"POP"}>>) /\ ~IsPopZero

\* A conditional jump, too, although it may pop its condition.
IsZeroJump == Window(<<Jumps>>) /\ At(1).offset = next + 1

IsUnaryFold == Window(<<{"CONSTANT"}, {"NEGATE", "NOT"}>>) /\ IsPrimitive(ValueAt(1))

\* fold_unary
UnaryValue == IF At(2).op = "NOT" THEN NotOp(ValueAt(1)) ELSE Negative(ValueAt(1))

\* Mutant: the jump may keep the value it tests.
ConstJumpIfKeeping ==
  /\ Window(<<{"CONSTANT"}, {"JUMP_IF"}>>)
  /\ IsPrimitive(ValueAt(1)) \/ ValueAt(1) = Nil
IsConstJumpIf ==
  /\ Window(<<{"CONSTANT"}, {"JUMP_IF"}>>)
  /\ IsPrimitive(ValueAt(1)) \/ ValueAt(1) = Nil
  /\ ~At(2).keep_jump /\ ~At(2).keep_stay

IsFoldable(d) == IsPrimitive(d) \/ IsA("str", d)

\* fold_binary: a comparison is folded whether it keeps its right operand or
\* not, and what throws is left to the VM.
BinaryValue ==
  IF At(3).op \in CompareOps
  THEN Bool(Accepts(At(3).op, CompareValues([heap |-> <<>>, constants |-> <<>>],
                                            ValueAt(1), ValueAt(2))))
  ELSE Arithmetic(At(3).op, ValueAt(1), ValueAt(2))

IsBinaryFold ==
  /\ Window(<<{"CONSTANT"}, {"CONSTANT"}, ArithmeticOps \cup CompareOps>>)
  /\ IsFoldable(ValueAt(1)) /\ IsFoldable(ValueAt(2))
  /\ ~Failed(BinaryValue)

\* At an offset where follow_jump_chain goes on.
Hops(offset) == Scanned[offset + 1].op = "JUMP" /\ Scanned[offset + 1].offset # offset

IsJumpChain == Window(<<Jumps>>) /\ ~IsZeroJump /\ Hops(At(1).offset)

----------------------------------------------------------------------------
(* One round of run_pass *)

PopZero == Scanning /\ IsPopZero /\ Replace(1, <<>>, <<>>)
ZeroJump == Scanning /\ IsZeroJump /\ Replace(1, <<>>, <<>>)

MergePops ==
  Scanning /\ IsMergePops /\ Replace(2, <<Pop(At(1).count + At(2).count)>>, <<>>)

UnaryFold == Scanning /\ IsUnaryFold /\ ~Failed(UnaryValue) /\ Fold(2, UnaryValue)

\* negative() of a bool throws UnsupportedOperation.
UnaryFoldThrows ==
  /\ Scanning /\ IsUnaryFold /\ Failed(UnaryValue)
  /\ phase' = "thrown"
  /\ UNCHANGED <<chunks, constants, current, next, fresh, offsets, chain>>

ConstJumpIfTaken ==
  /\ Scanning /\ IsConstJumpIf /\ Truthy(ValueAt(1)) = Bool(At(2).expected)
  /\ Replace(2, <<Jump(At(2).offset)>>, <<>>)

ConstJumpIfNotTaken ==
  /\ Scanning /\ IsConstJumpIf /\ Truthy(ValueAt(1)) # Bool(At(2).expected)
  /\ Replace(2, <<>>, <<>>)

BinaryFold == Scanning /\ IsBinaryFold /\ Fold(3, BinaryValue)

Copy ==
  /\ Scanning
  /\ ~(IsPopZero \/ IsZeroJump \/ IsMergePops \/ IsUnaryFold \/ IsConstJumpIf)
  /\ ~(IsBinaryFold \/ IsJumpChain)
  /\ Replace(1, <<At(1)>>, <<>>)

\* match_jump_chaining with the loop of follow_jump_chain.
FollowChain ==
  /\ Scanning /\ IsJumpChain
  /\ chain' = <<At(1).offset>>
  /\ UNCHANGED <<phase, chunks, constants, current, next, fresh, offsets>>

Hop ==
  /\ chain # <<>> /\ Hops(chain[1])
  /\ chain' = <<Scanned[chain[1] + 1].offset>>
  /\ UNCHANGED <<phase, chunks, constants, current, next, fresh, offsets>>

EndChain ==
  /\ chain # <<>> /\ ~Hops(chain[1])
  /\ Replace(1, <<[At(1) EXCEPT !.offset = chain[1]]>>, <<>>)

----------------------------------------------------------------------------
(* The end of a pass *)

PassEnds == phase = "optimizing" /\ next = Len(Scanned)
NextPass == next' = 0 /\ fresh' = <<>> /\ offsets' = <<>>

\* Mutant: conditional jumps stay as they were.
AdjustedJumps(instr) ==
  CASE instr.op = "JUMP" -> [instr EXCEPT !.offset = offsets[@ + 1]]
    [] instr.op = "FOR_LOOP" -> [instr EXCEPT !.body = offsets[@ + 1]]
    [] OTHER -> instr
\* adjust_offsets
Adjusted(instr) ==
  CASE instr.op \in Jumps -> [instr EXCEPT !.offset = offsets[@ + 1]]
    [] instr.op = "FOR_LOOP" -> [instr EXCEPT !.body = offsets[@ + 1]]
    [] OTHER -> instr

\* Mutants: a pass as long as its chunk is followed by another one; every chunk
\* has one pass only.
PassNotLonger ==
  /\ PassEnds /\ Len(fresh) <= Len(Scanned)
  /\ chunks' = [chunks EXCEPT ![current] = [i \in DOMAIN fresh |-> Adjusted(fresh[i])]]
  /\ NextPass
  /\ UNCHANGED <<phase, constants, current, chain>>
OnlyPass ==
  /\ PassEnds /\ Len(fresh) < Len(Scanned)
  /\ chunks' = [chunks EXCEPT ![current] = [i \in DOMAIN fresh |-> Adjusted(fresh[i])]]
  /\ IF current < Len(chunks)
     THEN current' = current + 1 /\ UNCHANGED phase
     ELSE phase' = "optimized" /\ UNCHANGED current
  /\ NextPass
  /\ UNCHANGED <<constants, chain>>

\* The chunk became shorter: it is replaced, and another pass follows.
ShorterPass ==
  /\ PassEnds /\ Len(fresh) < Len(Scanned)
  /\ chunks' = [chunks EXCEPT ![current] = [i \in DOMAIN fresh |-> Adjusted(fresh[i])]]
  /\ NextPass
  /\ UNCHANGED <<phase, constants, current, chain>>

\* It did not: the new code is thrown away, and the next chunk follows.
LastPass ==
  /\ PassEnds /\ Len(fresh) = Len(Scanned)
  /\ IF current < Len(chunks)
     THEN current' = current + 1 /\ UNCHANGED phase
     ELSE phase' = "optimized" /\ UNCHANGED current
  /\ NextPass
  /\ UNCHANGED <<chunks, constants, chain>>

Round ==
  \/ PopZero \/ ZeroJump \/ MergePops \/ UnaryFold \/ UnaryFoldThrows
  \/ ConstJumpIfTaken \/ ConstJumpIfNotTaken \/ BinaryFold \/ Copy
  \/ FollowChain \/ Hop \/ EndChain

Optimize == Round \/ ShorterPass \/ LastPass

----------------------------------------------------------------------------
(* Properties *)

\* Where jumps lead, and the offsets of a window behind its first.
Targets(code) ==
  {code[i].offset : i \in {i \in DOMAIN code : code[i].op \in Jumps}}
    \cup {code[i].body : i \in {i \in DOMAIN code : code[i].op = "FOR_LOOP"}}
Inside(consumed) == next + 1 .. next + consumed - 1

\* What no pattern asks for, and what a replacement is wrong without: nothing that has to
\* keep its place is inside the window (its second instruction or further), a jump that
\* is dropped pops nothing, and a comparison that is folded keeps no operand.
SoundWindow(places) ==
  Scanning =>
    /\ IsMergePops \/ IsUnaryFold \/ IsConstJumpIf => places \cap Inside(2) = {}
    /\ IsBinaryFold =>
         /\ places \cap Inside(3) = {}
         /\ At(3).op \in CompareOps => ~At(3).keep_rhs
    /\ IsZeroJump => At(1).op = "JUMP"

\* Where an instruction may lead: inside the code.
Leads(instr, code) ==
  /\ instr.op \in Jumps => instr.offset \in 0 .. Len(code) - 1
  /\ instr.op = "FOR_LOOP" => instr.body \in 0 .. Len(code) - 1

Contained(code) ==
  /\ code # <<>>
  /\ code[Len(code)].op = "RETURN"
  /\ \A i \in DOMAIN code : Leads(code[i], code)

\* Execution cannot run out of a chunk: every jump leads to an instruction of the
\* chunk, and the last instruction is a return, after the compiler has patched
\* the jumps and after every pass that has moved them along.
StaysInCode == \A c \in DOMAIN chunks : Contained(chunks[c])
=============================================================================
