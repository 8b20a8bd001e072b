-------------------------- MODULE Compilation_proofs --------------------------
(***************************************************************************)
(* Proofs about the optimizer and the merging of constants, for whatever   *)
(* code the compiler hands over: execution stays inside every chunk, what  *)
(* instructions name exists, and, where the windows are sound, the program *)
(* stays well formed.                                                      *)
(***************************************************************************)
EXTENDS CompiledCode, SequenceTheorems, FiniteSetTheorems, TLAPS

\* Instructions that name a constant in "index".
Loads == {"CONSTANT", "GET_GLOBAL", "SET_GLOBAL"}

\* The fields of the instructions that are rewritten.
Shaped(instr) ==
  /\ instr.op \in Jumps => {"op", "offset"} \subseteq DOMAIN instr
  /\ instr.op = "FOR_LOOP" => {"op", "body"} \subseteq DOMAIN instr
  /\ instr.op \in Loads => {"op", "index"} \subseteq DOMAIN instr
  /\ instr.op = "CLOSURE" => {"op", "function"} \subseteq DOMAIN instr

\* There is no set of all values, so code is a sequence over some set.
Typed == \E S : /\ chunks \in Seq(Seq(S)) /\ fresh \in Seq(S)
                /\ \A instr \in S : Shaped(instr)

\* What the optimizer is given.
Start ==
  /\ phase = "optimizing"
  /\ chunks # <<>>
  /\ StaysInCode
  /\ Typed
  /\ OptimizerInit

OptimizerSpec == Start /\ [][Optimize]_optimizerVars

\* A pass under way.  The instructions of the new code still lead to where they
\* led in the old code; an old instruction is now somewhere in the new code, or
\* behind it, which ends when the last instruction, the return, is copied.
PassInv ==
  /\ current \in 1 .. Len(chunks)
  /\ next \in 0 .. Len(Scanned)
  /\ offsets \in Seq(0 .. Len(fresh)) /\ Len(offsets) = next
  /\ \A i \in 1 .. Len(fresh) : Leads(fresh[i], Scanned)
  /\ next = Len(Scanned) =>
       /\ fresh # <<>> /\ fresh[Len(fresh)].op = "RETURN"
       /\ \A j \in 1 .. next : offsets[j] < Len(fresh)

\* follow_jump_chain under way.
ChainInv ==
  chain # <<>> =>
    /\ next < Len(Scanned) /\ At(1).op \in Jumps
    /\ \E offset \in 0 .. Len(Scanned) - 1 : chain = <<offset>>

Inv == Typed /\ StaysInCode /\ PassInv /\ ChainInv

----------------------------------------------------------------------------
\* The code being scanned.
LEMMA ScannedCode ==
  ASSUME Inv
  PROVE  \E S : /\ chunks \in Seq(Seq(S)) /\ fresh \in Seq(S)
                /\ \A instr \in S : Shaped(instr)
                /\ Scanned \in Seq(S) /\ Len(Scanned) \in Nat \ {0}
                /\ Scanned[Len(Scanned)].op = "RETURN"
                /\ \A i \in 1 .. Len(Scanned) :
                     Scanned[i] \in S /\ Leads(Scanned[i], Scanned)
<1>1. PICK S : /\ chunks \in Seq(Seq(S)) /\ fresh \in Seq(S)
               /\ \A instr \in S : Shaped(instr)
  BY DEF Inv, Typed
<1>2. current \in DOMAIN chunks /\ Scanned \in Seq(S)
  BY <1>1 DEF Inv, PassInv, Scanned
<1>3. Contained(Scanned)
  BY <1>2 DEF Inv, StaysInCode, Scanned
<1>4. Len(Scanned) \in Nat \ {0} /\ DOMAIN Scanned = 1 .. Len(Scanned)
  BY <1>2, <1>3, EmptySeq DEF Contained
<1>5. \A i \in 1 .. Len(Scanned) : Scanned[i] \in S /\ Leads(Scanned[i], Scanned)
  BY <1>2, <1>3, <1>4 DEF Contained
<1> QED
  BY <1>1, <1>2, <1>3, <1>4, <1>5 DEF Contained

\* A window whose last instruction is no return is not at the end of the code.
LEMMA WindowInside ==
  ASSUME Inv, NEW n \in 1 .. 3, next + n <= Len(Scanned), At(n).op # "RETURN"
  PROVE  next + n < Len(Scanned)
<1>1. Len(Scanned) \in Nat /\ Scanned[Len(Scanned)].op = "RETURN"
  BY ScannedCode
<1>2. next \in Nat
  BY <1>1 DEF Inv, PassInv
<1> QED
  BY <1>1, <1>2 DEF At

\* Replacing a window by instructions that lead into the old code.
LEMMA Replacing ==
  ASSUME Inv, NEW n \in 1 .. 3, NEW r, NEW added,
         Replace(n, r, added),
         r = <<>> \/ \E instr : r = <<instr>> /\ Leads(instr, Scanned) /\ Shaped(instr),
         \/ next + n < Len(Scanned)
         \/ n = 1 /\ next + 1 = Len(Scanned) /\ r = <<At(1)>>
  PROVE  Inv'
<1>1. PICK S : /\ chunks \in Seq(Seq(S)) /\ fresh \in Seq(S)
               /\ \A instr \in S : Shaped(instr)
               /\ Scanned \in Seq(S) /\ Len(Scanned) \in Nat \ {0}
               /\ Scanned[Len(Scanned)].op = "RETURN"
  BY ScannedCode
<1> DEFINE T == S \cup {instr \in {r[1]} : r # <<>>}
<1>2. r \in Seq(T) /\ Len(r) \in 0 .. 1 /\ (Len(r) = 0 <=> r = <<>>)
      /\ \A instr \in T : Shaped(instr)
      /\ \A i \in 1 .. Len(r) : Leads(r[i], Scanned)
  <2>1. CASE r = <<>>
    BY <1>1, <2>1
  <2>2. CASE \E instr : r = <<instr>> /\ Leads(instr, Scanned) /\ Shaped(instr)
    <3>1. PICK instr : r = <<instr>> /\ Leads(instr, Scanned) /\ Shaped(instr)
      BY <2>2
    <3>2. r # <<>> /\ r[1] = instr /\ Len(r) = 1
      BY <3>1
    <3>3. T = S \cup {instr}
      BY <3>2
    <3> QED
      BY <1>1, <3>1, <3>2, <3>3
  <2> QED
    BY <2>1, <2>2
<1>3. S \subseteq T
  OBVIOUS
<1> HIDE DEF T
<1>4. fresh \in Seq(T) /\ chunks \in Seq(Seq(T))
  <2>1. fresh \in Seq(T)
    BY <1>1, <1>3, SeqMonotonic
  <2>2. Seq(S) \subseteq Seq(T)
    BY <1>3, SeqMonotonic
  <2>3. chunks \in Seq(Seq(T))
    BY <1>1, <2>2, SeqMonotonic
  <2> QED
    BY <2>1, <2>3
<1>5. /\ fresh' \in Seq(T) /\ Len(fresh') = Len(fresh) + Len(r)
      /\ Len(fresh) \in Nat
      /\ \A i \in 1 .. Len(fresh') :
           fresh'[i] = IF i <= Len(fresh) THEN fresh[i] ELSE r[i - Len(fresh)]
  BY <1>2, <1>4, ConcatProperties, LenProperties DEF Replace
<1>6. Typed'
  BY <1>2, <1>4, <1>5 DEF Typed, Replace
<1>7. chunks' = chunks /\ current' = current /\ Scanned' = Scanned /\ chain' = <<>>
      /\ next' = next + n
  BY DEF Replace, Scanned
<1>8. StaysInCode' /\ ChainInv'
  BY <1>7 DEF Inv, StaysInCode, ChainInv
<1>9. /\ offsets' \in Seq(0 .. Len(fresh')) /\ Len(offsets') = next + n
      /\ \A j \in 1 .. next + n : offsets'[j] <= Len(fresh)
  <2> DEFINE moved == [j \in 1 .. n |-> Len(fresh)]
  <2>1. moved \in Seq(0 .. Len(fresh')) /\ Len(moved) = n
    <3>1. moved \in [1 .. n -> 0 .. Len(fresh')]
      BY <1>2, <1>5
    <3> QED
      BY <3>1
  <2>2. offsets \in Seq(0 .. Len(fresh')) /\ Len(offsets) = next
    <3>1. 0 .. Len(fresh) \subseteq 0 .. Len(fresh')
      BY <1>2, <1>5
    <3> QED
      BY <3>1, SeqMonotonic DEF Inv, PassInv
  <2>3. /\ offsets' \in Seq(0 .. Len(fresh')) /\ Len(offsets') = next + n
        /\ \A j \in 1 .. next + n :
             offsets'[j] = IF j <= next THEN offsets[j] ELSE moved[j - next]
    <3> DEFINE U == 0 .. Len(fresh')
    <3>1. offsets' = offsets \o moved
      BY DEF Replace
    <3>2. moved \in Seq(U) /\ offsets \in Seq(U) /\ Len(moved) = n /\ Len(offsets) = next
      BY <2>1, <2>2
    <3> HIDE DEF moved, U
    <3>3. /\ offsets \o moved \in Seq(U)
          /\ Len(offsets \o moved) = Len(offsets) + Len(moved)
          /\ \A j \in 1 .. Len(offsets) + Len(moved) :
               (offsets \o moved)[j] =
                 IF j <= Len(offsets) THEN offsets[j] ELSE moved[j - Len(offsets)]
      BY <3>2, ConcatProperties
    <3> QED
      BY <3>1, <3>2, <3>3 DEF U
  <2>4. \A j \in 1 .. next : offsets[j] <= Len(fresh)
    BY <2>2, <1>5 DEF Inv, PassInv
  <2>5. next \in Nat
    BY <1>1 DEF Inv, PassInv
  <2> QED
    BY <2>3, <2>4, <2>5
<1>10. \A i \in 1 .. Len(fresh') : Leads(fresh'[i], Scanned)
  <2> TAKE i \in 1 .. Len(fresh')
  <2>1. CASE i <= Len(fresh)
    BY <1>5, <2>1 DEF Inv, PassInv
  <2>2. CASE ~(i <= Len(fresh))
    <3>1. i - Len(fresh) \in 1 .. Len(r) /\ fresh'[i] = r[i - Len(fresh)]
      BY <1>2, <1>5, <2>2
    <3> QED
      BY <1>2, <3>1
  <2> QED
    BY <2>1, <2>2
<1>11. next' = Len(Scanned) =>
         /\ fresh' # <<>> /\ fresh'[Len(fresh')].op = "RETURN"
         /\ \A j \in 1 .. next' : offsets'[j] < Len(fresh')
  <2> SUFFICES ASSUME next + n = Len(Scanned)
               PROVE  /\ fresh' # <<>> /\ fresh'[Len(fresh')].op = "RETURN"
                      /\ \A j \in 1 .. next + n : offsets'[j] < Len(fresh')
    BY <1>7
  <2>1. n = 1 /\ r = <<At(1)>> /\ next \in Nat
    BY <1>1 DEF Inv, PassInv
  <2>2. At(1).op = "RETURN"
    BY <1>1, <2>1 DEF At
  <2>3. Len(r) = 1 /\ r[1] = At(1)
    BY <2>1
  <2>4. fresh'[Len(fresh')] = At(1) /\ Len(fresh') = Len(fresh) + 1
    BY <1>5, <2>3
  <2>5. fresh' # <<>>
    BY <1>5, <2>4
  <2> QED
    BY <1>5, <1>9, <2>1, <2>2, <2>4, <2>5
<1>12. PassInv'
  BY <1>1, <1>7, <1>9, <1>10, <1>11 DEF Inv, PassInv
<1> QED
  BY <1>6, <1>8, <1>12 DEF Inv

----------------------------------------------------------------------------
(* The rounds *)

\* What the instructions of a window are.
LEMMA WindowOfOne ==
  ASSUME Inv, NEW a, Window(<<a>>)
  PROVE  next + 1 <= Len(Scanned) /\ At(1).op \in a
BY DEF Window

\* A window of two instructions lies inside the code.
LEMMA WindowOfTwo ==
  ASSUME Inv, NEW a, NEW b, Window(<<a, b>>)
  PROVE  next + 2 <= Len(Scanned) /\ At(1).op \in a /\ At(2).op \in b
BY DEF Window

\* So does a window of three.
LEMMA WindowOfThree ==
  ASSUME Inv, NEW a, NEW b, NEW c, Window(<<a, b, c>>)
  PROVE  next + 3 <= Len(Scanned) /\ At(1).op \in a /\ At(2).op \in b /\ At(3).op \in c
BY DEF Window

\* Every instruction of a window leads into the code.
LEMMA WindowLeads ==
  ASSUME Inv, NEW j \in 1 .. 3, next + j <= Len(Scanned)
  PROVE  Leads(At(j), Scanned) /\ Shaped(At(j))
<1>1. PICK S : /\ \A instr \in S : Shaped(instr)
               /\ Len(Scanned) \in Nat
               /\ \A i \in 1 .. Len(Scanned) :
                    Scanned[i] \in S /\ Leads(Scanned[i], Scanned)
  BY ScannedCode
<1>2. next + j \in 1 .. Len(Scanned)
  BY <1>1 DEF Inv, PassInv
<1> QED
  BY <1>1, <1>2 DEF At

\* A round drops or rewrites a window that holds no return.
LEMMA WindowReplaced ==
  ASSUME Inv, NEW n \in 1 .. 3, NEW r, NEW added,
         Replace(n, r, added),
         r = <<>> \/ \E instr : r = <<instr>> /\ Leads(instr, Scanned) /\ Shaped(instr),
         next + n <= Len(Scanned), At(n).op # "RETURN"
  PROVE  Inv'
BY WindowInside, Replacing

\* The instructions that the optimizer writes are well shaped, and jumps among them
\* stay inside the code.
LEMMA JumpsOut ==
  ASSUME NEW code
  PROVE  /\ \A n : Leads(Pop(n), code) /\ Shaped(Pop(n))
         /\ \A i : Leads(Constant(i), code) /\ Shaped(Constant(i))
         /\ \A to \in 0 .. Len(code) - 1 : Leads(Jump(to), code) /\ Shaped(Jump(to))
BY DEF Leads, Shaped, Jumps, Loads, Pop, Constant, Jump

\* Dropping POP 0 and jumps to the next instruction keeps the invariant.
LEMMA DroppedWindows ==
  ASSUME Inv, PopZero \/ ZeroJump
  PROVE  Inv'
<1>1. next + 1 <= Len(Scanned) /\ At(1).op # "RETURN"
  BY WindowOfOne DEF PopZero, ZeroJump, IsPopZero, IsZeroJump, Jumps
<1>2. Replace(1, <<>>, <<>>)
  BY DEF PopZero, ZeroJump
<1> QED
  BY <1>1, <1>2, WindowReplaced

\* Merging two POPs keeps the invariant.
LEMMA MergedPops ==
  ASSUME Inv, MergePops
  PROVE  Inv'
<1>1. next + 2 <= Len(Scanned) /\ At(2).op # "RETURN"
  BY WindowOfTwo DEF MergePops, IsMergePops
<1>2. Replace(2, <<Pop(At(1).count + At(2).count)>>, <<>>)
  BY DEF MergePops
<1> QED
  BY <1>1, <1>2, WindowReplaced, JumpsOut

\* Replacing a window by a constant keeps the invariant, if no return is lost.
LEMMA FoldedWindow ==
  ASSUME Inv, NEW n \in 1 .. 3, NEW d, Fold(n, d),
         next + n <= Len(Scanned), At(n).op # "RETURN"
  PROVE  Inv'
BY WindowReplaced, JumpsOut DEF Fold

\* Folding an operator on a constant keeps the invariant.
LEMMA FoldedUnary ==
  ASSUME Inv, UnaryFold
  PROVE  Inv'
<1>1. next + 2 <= Len(Scanned) /\ At(2).op # "RETURN"
  BY WindowOfTwo DEF UnaryFold, IsUnaryFold
<1> QED
  BY <1>1, FoldedWindow DEF UnaryFold

\* Folding an operator on two constants keeps the invariant.
LEMMA FoldedBinary ==
  ASSUME Inv, BinaryFold
  PROVE  Inv'
<1>1. next + 3 <= Len(Scanned) /\ At(3).op # "RETURN"
  BY WindowOfThree DEF BinaryFold, IsBinaryFold, ArithmeticOps, CompareOps
<1> QED
  BY <1>1, FoldedWindow DEF BinaryFold

\* Folding a condition that is a constant keeps the invariant.
LEMMA FoldedCondition ==
  ASSUME Inv, ConstJumpIfTaken \/ ConstJumpIfNotTaken
  PROVE  Inv'
<1>1. next + 2 <= Len(Scanned) /\ At(2).op = "JUMP_IF"
  BY WindowOfTwo DEF ConstJumpIfTaken, ConstJumpIfNotTaken, IsConstJumpIf
<1>2. At(2).offset \in 0 .. Len(Scanned) - 1
  BY <1>1, WindowLeads DEF Leads, Jumps
<1>3. CASE ConstJumpIfTaken
  BY <1>1, <1>2, <1>3, WindowReplaced, JumpsOut DEF ConstJumpIfTaken
<1>4. CASE ConstJumpIfNotTaken
  BY <1>1, <1>4, WindowReplaced DEF ConstJumpIfNotTaken
<1> QED
  BY <1>3, <1>4

\* Copying an instruction that no window starts at keeps the invariant.
LEMMA CopiedInstruction ==
  ASSUME Inv, Copy
  PROVE  Inv'
<1>1. next + 1 <= Len(Scanned) /\ Len(Scanned) \in Nat /\ next \in Nat
  BY ScannedCode DEF Inv, PassInv, Copy, Scanning
<1>2. Leads(At(1), Scanned) /\ Shaped(At(1))
  BY <1>1, WindowLeads
<1>3. Replace(1, <<At(1)>>, <<>>)
  BY DEF Copy
<1>4. next + 1 < Len(Scanned) \/ next + 1 = Len(Scanned)
  BY <1>1
<1> QED
  BY <1>2, <1>3, <1>4, Replacing

\* Every step along a chain of jumps leads into the code.
LEMMA HopInside ==
  ASSUME Inv, NEW offset \in 0 .. Len(Scanned) - 1, Hops(offset)
  PROVE  Scanned[offset + 1].offset \in 0 .. Len(Scanned) - 1
<1>1. Len(Scanned) \in Nat /\ \A i \in 1 .. Len(Scanned) : Leads(Scanned[i], Scanned)
  BY ScannedCode
<1>2. Leads(Scanned[offset + 1], Scanned)
  BY <1>1
<1> QED
  BY <1>2 DEF Hops, Leads, Jumps

\* Following a chain of jumps keeps the invariant.
LEMMA FollowedChain ==
  ASSUME Inv, FollowChain \/ Hop
  PROVE  Inv'
<1>1. /\ UNCHANGED <<phase, chunks, constants, current, next, fresh, offsets>>
      /\ Scanned' = Scanned
  BY DEF FollowChain, Hop, Scanned
<1>2. Typed' /\ StaysInCode' /\ PassInv'
  BY <1>1 DEF Inv, Typed, StaysInCode, PassInv
<1>3. /\ next < Len(Scanned) /\ At(1).op \in Jumps
      /\ \E offset \in 0 .. Len(Scanned) - 1 : chain' = <<offset>>
  <2>1. CASE FollowChain
    <3>1. next + 1 <= Len(Scanned) /\ At(1).op \in Jumps /\ next < Len(Scanned)
      BY <2>1, WindowOfOne DEF FollowChain, IsJumpChain, Scanning
    <3>2. At(1).offset \in 0 .. Len(Scanned) - 1
      BY <3>1, WindowLeads DEF Leads
    <3> QED
      BY <2>1, <3>1, <3>2 DEF FollowChain
  <2>2. CASE Hop
    <3>1. PICK offset \in 0 .. Len(Scanned) - 1 : chain = <<offset>>
      BY <2>2 DEF Hop, Inv, ChainInv
    <3>2. chain[1] = offset /\ Hops(offset)
      BY <2>2, <3>1 DEF Hop
    <3>3. Scanned[offset + 1].offset \in 0 .. Len(Scanned) - 1
      BY <3>2, HopInside
    <3> QED
      BY <2>2, <3>2, <3>3 DEF Hop, Inv, ChainInv
  <2> QED
    BY <2>1, <2>2
<1>4. ChainInv'
  BY <1>1, <1>3 DEF ChainInv, At
<1> QED
  BY <1>2, <1>4 DEF Inv

\* Writing the end of a chain of jumps keeps the invariant.
LEMMA EndedChain ==
  ASSUME Inv, EndChain
  PROVE  Inv'
<1>1. PICK offset \in 0 .. Len(Scanned) - 1 : chain = <<offset>>
  BY DEF EndChain, Inv, ChainInv
<1>2. next < Len(Scanned) /\ At(1).op \in Jumps
  BY DEF EndChain, Inv, ChainInv
<1>3. next + 1 <= Len(Scanned)
  BY <1>2, ScannedCode DEF Inv, PassInv
<1>4. Leads(At(1), Scanned) /\ Shaped(At(1))
  BY <1>3, WindowLeads
<1> DEFINE moved == [At(1) EXCEPT !.offset = chain[1]]
<1>5. Leads(moved, Scanned) /\ Shaped(moved)
  BY <1>1, <1>2, <1>4 DEF Leads, Shaped, Jumps, Loads
<1>6. Replace(1, <<moved>>, <<>>)
  BY DEF EndChain
<1> HIDE DEF moved
<1>7. At(1).op # "RETURN"
  BY <1>2 DEF Jumps
<1> QED
  BY <1>3, <1>5, <1>6, <1>7, WindowReplaced

----------------------------------------------------------------------------
(* The end of a pass *)

\* An instruction whose target is moved along leads into the new code.
LEMMA AdjustedLeads ==
  ASSUME Inv, next = Len(Scanned), NEW instr, Leads(instr, Scanned), Shaped(instr),
         NEW code, Len(code) = Len(fresh)
  PROVE  Leads(Adjusted(instr), code) /\ Shaped(Adjusted(instr))
         /\ Adjusted(instr).op = instr.op
<1>1. \A to \in 0 .. Len(Scanned) - 1 : offsets[to + 1] \in 0 .. Len(code) - 1
  <2>1. PICK S : fresh \in Seq(S) /\ Len(Scanned) \in Nat
    BY ScannedCode
  <2>2. Len(fresh) \in Nat
    BY <2>1
  <2>3. \A j \in 1 .. next : offsets[j] \in 0 .. Len(fresh) /\ offsets[j] < Len(fresh)
    BY <2>1 DEF Inv, PassInv
  <2> QED
    BY <2>1, <2>2, <2>3
<1>2. CASE instr.op \in Jumps
  <2>1. Adjusted(instr) = [instr EXCEPT !.offset = offsets[instr.offset + 1]]
    BY <1>2 DEF Adjusted, Jumps
  <2>2. offsets[instr.offset + 1] \in 0 .. Len(code) - 1
    BY <1>1, <1>2 DEF Leads
  <2> QED
    BY <1>2, <2>1, <2>2 DEF Leads, Shaped, Jumps, Loads
<1>3. CASE instr.op = "FOR_LOOP"
  <2>1. Adjusted(instr) = [instr EXCEPT !.body = offsets[instr.body + 1]]
    BY <1>3 DEF Adjusted, Jumps
  <2>2. offsets[instr.body + 1] \in 0 .. Len(code) - 1
    BY <1>1, <1>3 DEF Leads
  <2> QED
    BY <1>3, <2>1, <2>2 DEF Leads, Shaped, Jumps, Loads
<1>4. CASE ~(instr.op \in Jumps) /\ instr.op # "FOR_LOOP"
  BY <1>4 DEF Adjusted, Leads, Shaped
<1> QED
  BY <1>2, <1>3, <1>4

\* Going over a chunk again keeps the invariant.
LEMMA ShorterChunk ==
  ASSUME Inv, ShorterPass
  PROVE  Inv'
<1> DEFINE code == [i \in DOMAIN fresh |-> Adjusted(fresh[i])]
<1>1. PICK S : /\ chunks \in Seq(Seq(S)) /\ fresh \in Seq(S)
               /\ \A instr \in S : Shaped(instr)
               /\ Len(Scanned) \in Nat \ {0}
  BY ScannedCode
<1> DEFINE T == S \cup {Adjusted(instr) : instr \in {fresh[i] : i \in 1 .. Len(fresh)}}
<1>2. next = Len(Scanned) /\ fresh # <<>> /\ fresh[Len(fresh)].op = "RETURN"
  BY DEF ShorterPass, PassEnds, Inv, PassInv
<1>3. Len(fresh) \in Nat \ {0} /\ DOMAIN fresh = 1 .. Len(fresh)
  BY <1>1, <1>2, EmptySeq
<1>4. code \in Seq(T) /\ Len(code) = Len(fresh) /\ DOMAIN code = 1 .. Len(fresh)
      /\ \A i \in 1 .. Len(fresh) : code[i] = Adjusted(fresh[i])
  <2>1. code \in [1 .. Len(fresh) -> T]
    BY <1>3
  <2> HIDE DEF code, T
  <2>2. code \in Seq(T) /\ Len(code) = Len(fresh)
    BY <1>3, <2>1
  <2> QED
    BY <1>3, <2>1, <2>2 DEF code
<1> HIDE DEF code
<1>5. \A i \in 1 .. Len(fresh) :
        /\ Leads(code[i], code) /\ Shaped(code[i])
        /\ code[i].op = fresh[i].op
  <2> TAKE i \in 1 .. Len(fresh)
  <2>1. Leads(fresh[i], Scanned) /\ Shaped(fresh[i])
    <3>1. fresh[i] \in S
      BY <1>1
    <3> QED
      BY <1>1, <3>1 DEF Inv, PassInv
  <2> QED
    BY <1>2, <1>4, <2>1, AdjustedLeads
<1>6. Contained(code)
  BY <1>2, <1>3, <1>4, <1>5, EmptySeq DEF Contained
<1>7. \A instr \in T : Shaped(instr)
  BY <1>1, <1>4, <1>5
<1>8. S \subseteq T
  OBVIOUS
<1> HIDE DEF T
<1>9. chunks' = [chunks EXCEPT ![current] = code] /\ current' = current
      /\ next' = 0 /\ fresh' = <<>> /\ offsets' = <<>> /\ chain' = chain
  BY DEF ShorterPass, NextPass, code
<1>10. current \in 1 .. Len(chunks) /\ DOMAIN chunks = 1 .. Len(chunks)
  BY <1>1 DEF Inv, PassInv
<1>11. chunks \in Seq(Seq(T))
  <2>1. Seq(S) \subseteq Seq(T)
    BY <1>8, SeqMonotonic
  <2> QED
    BY <1>1, <2>1, SeqMonotonic
<1>12. chunks' \in Seq(Seq(T)) /\ Len(chunks') = Len(chunks)
       /\ DOMAIN chunks' = DOMAIN chunks
       /\ \A c \in DOMAIN chunks : chunks'[c] = IF c = current THEN code ELSE chunks[c]
  BY <1>4, <1>9, <1>10, <1>11, ExceptSeq
<1>13. Typed'
  BY <1>7, <1>9, <1>12, EmptySeq DEF Typed
<1>14. StaysInCode'
  BY <1>6, <1>12 DEF Inv, StaysInCode
<1>15. Scanned' = code
  BY <1>9, <1>10, <1>12 DEF Scanned
<1>16. chain = <<>>
  BY <1>1, <1>2 DEF Inv, ChainInv
<1>17. PassInv' /\ ChainInv'
  BY <1>3, <1>4, <1>9, <1>10, <1>12, <1>15, <1>16, EmptySeq DEF PassInv, ChainInv
<1> QED
  BY <1>13, <1>14, <1>17 DEF Inv

\* Going on to the next chunk keeps the invariant.
LEMMA LastChunk ==
  ASSUME Inv, LastPass
  PROVE  Inv'
<1>1. PICK S : /\ chunks \in Seq(Seq(S)) /\ fresh \in Seq(S)
               /\ \A instr \in S : Shaped(instr)
               /\ Len(Scanned) \in Nat \ {0}
  BY ScannedCode
<1>2. UNCHANGED <<chunks, chain>> /\ next' = 0 /\ fresh' = <<>> /\ offsets' = <<>>
  BY DEF LastPass, NextPass
<1>3. Typed' /\ StaysInCode'
  BY <1>1, <1>2, EmptySeq DEF Inv, Typed, StaysInCode
<1>4. current' \in 1 .. Len(chunks)
  BY <1>1 DEF LastPass, Inv, PassInv
<1>5. Len(Scanned') \in Nat \ {0}
  <2>1. Contained(chunks[current']) /\ chunks[current'] \in Seq(S)
    BY <1>1, <1>4 DEF Inv, StaysInCode
  <2>2. chunks[current'] # <<>>
    BY <2>1 DEF Contained
  <2>3. Scanned' = chunks[current']
    BY <1>2 DEF Scanned
  <2> QED
    BY <2>1, <2>2, <2>3, EmptySeq
<1>6. chain = <<>>
  BY <1>1 DEF LastPass, PassEnds, Inv, ChainInv
<1>7. PassInv' /\ ChainInv'
  BY <1>2, <1>4, <1>5, <1>6, EmptySeq DEF PassInv, ChainInv
<1> QED
  BY <1>3, <1>7 DEF Inv

----------------------------------------------------------------------------
(* The theorem *)

\* What the compiler hands over is a pass about to begin.
LEMMA StartInv == Start => Inv
<1> SUFFICES ASSUME Start PROVE Inv
  OBVIOUS
<1>1. PICK S : chunks \in Seq(Seq(S))
  BY DEF Start, Typed
<1>2. current \in 1 .. Len(chunks)
  BY <1>1, EmptySeq DEF Start, OptimizerInit
<1>3. Scanned \in Seq(S) /\ Scanned # <<>>
  BY <1>1, <1>2 DEF Start, StaysInCode, Contained, Scanned
<1>4. Len(Scanned) \in Nat \ {0}
  BY <1>3, EmptySeq
<1>5. PassInv /\ ChainInv
  BY <1>2, <1>4, EmptySeq DEF Start, OptimizerInit, PassInv, ChainInv
<1> QED
  BY <1>5 DEF Start, Inv

\* Every step of the optimizer keeps the invariant.
LEMMA OptimizerStep == Inv /\ [Optimize]_optimizerVars => Inv'
<1> SUFFICES ASSUME Inv, [Optimize]_optimizerVars
             PROVE  Inv'
  OBVIOUS
<1>1. CASE PopZero \/ ZeroJump
  BY <1>1, DroppedWindows
<1>2. CASE MergePops
  BY <1>2, MergedPops
<1>3. CASE UnaryFold
  BY <1>3, FoldedUnary
<1>4. CASE UnaryFoldThrows
  BY <1>4 DEF UnaryFoldThrows, Inv, Typed, StaysInCode, PassInv, ChainInv, Scanned, At
<1>5. CASE ConstJumpIfTaken \/ ConstJumpIfNotTaken
  BY <1>5, FoldedCondition
<1>6. CASE BinaryFold
  BY <1>6, FoldedBinary
<1>7. CASE Copy
  BY <1>7, CopiedInstruction
<1>8. CASE FollowChain \/ Hop
  BY <1>8, FollowedChain
<1>9. CASE EndChain
  BY <1>9, EndedChain
<1>10. CASE ShorterPass
  BY <1>10, ShorterChunk
<1>11. CASE LastPass
  BY <1>11, LastChunk
<1>12. CASE UNCHANGED optimizerVars
  BY <1>12 DEF optimizerVars, Inv, Typed, StaysInCode, PassInv, ChainInv, Scanned, At
<1> QED
  BY <1>1, <1>2, <1>3, <1>4, <1>5, <1>6, <1>7, <1>8, <1>9, <1>10, <1>11, <1>12
     DEF Optimize, Round

\* Whatever patterns match, and however often run_pass is repeated: if every jump
\* of every chunk leads to an instruction of the chunk and the chunk ends with a
\* return before optimize, it is so at any time afterwards.
THEOREM StaysInCodeCorrect == OptimizerSpec => []StaysInCode
<1>1. Inv => StaysInCode
  BY DEF Inv
<1> QED
  BY <1>1, StartInv, OptimizerStep, PTL DEF OptimizerSpec
----------------------------------------------------------------------------
(* The constants that are folded *)

\* The values a constant may be folded to.
Data == ({"bool"} \X BOOLEAN) \cup ({"int"} \X Int) \cup ({"str"} \X Seq(STRING))

\* Their first element tells what they are; none is a template.
LEMMA DataKinds ==
  ASSUME NEW d \in Data
  PROVE  /\ IsA("bool", d) => d[2] \in BOOLEAN
         /\ IsA("int", d) => d[2] \in Int
         /\ IsA("str", d) => d[2] \in Seq(STRING)
         /\ d[1] \in {"bool", "int", "str"}
         /\ ~Failed(d) /\ ~IsA("fun", d)
         /\ \A signature : ConstantFits(signature, d)
BY DEF Data, IsA, Failed, ConstantFits

\* A constant that a pattern looks for is one of them.
LEMMA FoldableData ==
  ASSUME NEW signature, NEW d, ConstantFits(signature, d), IsPrimitive(d) \/ IsFoldable(d)
  PROVE  d \in Data
BY DEF ConstantFits, IsPrimitive, IsFoldable, IsA, Nil, Data

\* What the operators make of values.
LEMMA DataMade ==
  /\ \A b \in BOOLEAN : Bool(b) \in Data
  /\ \A n \in Int : Num(n) \in Data
  /\ \A s \in Seq(STRING) : <<"str", s>> \in Data
  /\ \A kind : Failed(Error(kind))
  /\ Failed(Undefined)
BY DEF Bool, Num, Data, Failed, Error, Undefined, IsA

\* fold_unary gives such a value or throws.
LEMMA UnaryData ==
  ASSUME NEW d \in Data, IsPrimitive(d)
  PROVE  NotOp(d) \in Data /\ (Failed(Negative(d)) \/ Negative(d) \in Data)
<1>1. CASE IsA("bool", d)
  <2>1. ~IsA("int", d) /\ d[2] \in BOOLEAN
    BY <1>1, DataKinds DEF IsA
  <2>2. ~IsA("nil", d) /\ ~IsContainer(d) /\ ~IsFunction(d) /\ d # Free
    BY <1>1 DEF IsA, IsContainer, IsFunction, Free
  <2>3. Truthy(d) = d
    BY <1>1, <2>1, <2>2, Zenon DEF Truthy
  <2>4. NotOp(d) = Bool(~d[2])
    BY <2>3, DataKinds, Zenon DEF NotOp
  <2>5. (~d[2]) \in BOOLEAN
    OBVIOUS
  <2>6. NotOp(d) \in Data
    BY <2>4, <2>5, DataMade, Zenon
  <2> QED BY <2>1, <2>6, DataMade DEF Negative
<1>2. CASE IsA("int", d)
  <2>1. ~IsA("bool", d) /\ d[2] \in Int
    BY <1>2, DataKinds DEF IsA
  <2>2. ~IsA("nil", d) /\ ~IsContainer(d) /\ ~IsFunction(d) /\ d # Free
    BY <1>2 DEF IsA, IsContainer, IsFunction, Free
  <2>3. Truthy(d) = Bool(d[2] # 0)
    BY <1>2, <2>1, <2>2, Zenon DEF Truthy
  <2>4. ~Failed(Bool(d[2] # 0)) /\ Bool(d[2] # 0)[2] = (d[2] # 0)
    BY DEF Failed, Bool, IsA
  <2>5. NotOp(d) = Bool(~(d[2] # 0))
    BY <2>3, <2>4, Zenon DEF NotOp
  <2>6. (~(d[2] # 0)) \in BOOLEAN
    OBVIOUS
  <2>7. NotOp(d) \in Data
    BY <2>5, <2>6, DataMade, Zenon
  <2> QED BY <1>2, <2>1, <2>7, DataMade DEF Negative
<1> QED BY <1>1, <1>2 DEF IsPrimitive, IsA

\* A comparison gives a truth value.
LEMMA AcceptsBoolean ==
  ASSUME NEW op \in CompareOps, NEW order
  PROVE  Accepts(op, order) \in BOOLEAN
<1>1. CASE op = "EQUAL"
  BY <1>1 DEF Accepts
<1>2. CASE op = "NOT_EQUAL"
  BY <1>2 DEF Accepts
<1>3. CASE op = "LESS"
  BY <1>3 DEF Accepts
<1>4. CASE op = "LESS_EQUAL"
  BY <1>4 DEF Accepts
<1>5. CASE op = "GREATER"
  BY <1>5 DEF Accepts
<1>6. CASE op = "GREATER_EQUAL"
  BY <1>6 DEF Accepts
<1> QED BY <1>1, <1>2, <1>3, <1>4, <1>5, <1>6 DEF CompareOps

\* Division that rounds towards zero gives an integer.
LEMMA QuotientInteger ==
  ASSUME NEW m \in Int, NEW n \in Int, n # 0
  PROVE  Quotient(m, n) \in Int
<1> DEFINE a == IF m < 0 THEN -m ELSE m
           b == IF n < 0 THEN -n ELSE n
<1>1. a \in Nat /\ b \in Nat /\ b > 0
  OBVIOUS
<1>2. a \div b \in Int
  <2> HIDE DEF a, b
  <2> QED BY <1>1
<1>3. Quotient(m, n) = IF (m < 0) = (n < 0) THEN a \div b ELSE -(a \div b)
  BY Zenon DEF Quotient
<1> HIDE DEF a, b
<1> QED BY <1>2, <1>3

TimesOp(m, result, i) == result * m
TimesKeeps(m, k, result) == result \in Int
Times == INSTANCE FoldTheorems WITH Op <- TimesOp, Keeps <- TimesKeeps

\* So does the loop of pow_op.
LEMMA PowerInteger ==
  ASSUME NEW m \in Int, NEW n \in Int
  PROVE  Power(m, n) \in Int
<1> DEFINE s == [i \in 1 .. n |-> i]
           last == IF n < 0 THEN 0 ELSE n
<1>1. last \in Nat /\ DOMAIN s = 1 .. last
  OBVIOUS
<1>2. Power(m, n) = Times!Folded(m, 1, s)
  BY Zenon DEF Power, TimesOp, FoldLeft, Times!Folded, Times!FoldLeft, MapThenFoldSet,
               Times!MapThenFoldSet, Max, Times!Max
<1>3. \A k \in 1 .. last : \A r : TimesKeeps(m, k - 1, r) => TimesKeeps(m, k, TimesOp(m, r, s[k]))
  BY DEF TimesKeeps, TimesOp
<1>4. TimesKeeps(m, last, Times!Folded(m, 1, s))
  <2>1. TimesKeeps(m, 0, 1)
    BY DEF TimesKeeps
  <2> HIDE DEF s, last
  <2> QED BY <1>1, <1>3, <2>1, Times!FoldLeftKeeps, Zenon
<1> QED BY <1>2, <1>4, Zenon DEF TimesKeeps

\* The operators on two integers.
LEMMA IntegerData ==
  ASSUME NEW op \in ArithmeticOps, NEW m \in Int, NEW n \in Int
  PROVE  Failed(IntegerOp(op, m, n)) \/ IntegerOp(op, m, n) \in Data
<1>1. CASE op \in {"ADD", "SUBTRACT", "MULTIPLY"}
  <2>1. m + n \in Int /\ m - n \in Int /\ m * n \in Int
    OBVIOUS
  <2> QED BY <1>1, <2>1, DataMade DEF IntegerOp
<1>2. CASE op = "DIVIDE"
  <2>1. IntegerOp(op, m, n) =
          IF n = 0 THEN Error("UnsupportedOperation") ELSE Num(Quotient(m, n))
    BY <1>2 DEF IntegerOp
  <2> QED BY <2>1, QuotientInteger, DataMade
<1>3. CASE op = "MODULO"
  <2>1. IntegerOp(op, m, n) = IF n = 0 THEN Undefined ELSE Num(m - n * Quotient(m, n))
    BY <1>3 DEF IntegerOp
  <2>2. n # 0 => m - n * Quotient(m, n) \in Int
    BY QuotientInteger
  <2> QED BY <2>1, <2>2, DataMade
<1>4. CASE op = "POWER"
  <2>1. IntegerOp(op, m, n) = Num(Power(m, n))
    BY <1>4 DEF IntegerOp
  <2> QED BY <2>1, PowerInteger, DataMade
<1> QED BY <1>1, <1>2, <1>3, <1>4 DEF ArithmeticOps

\* A string, repeated.
LEMMA RepeatedString ==
  ASSUME NEW s \in Seq(STRING), NEW count \in Nat
  PROVE  Repeated(s, count) \in Seq(STRING)
<1> DEFINE n == Len(s)
<1>0. n \in Nat /\ count * n \in Nat
  OBVIOUS
<1>1. ASSUME NEW i \in 1 .. count * n
      PROVE  s[((i - 1) % n) + 1] \in STRING
  <2>1. n # 0
    <3> SUFFICES ASSUME n = 0 PROVE FALSE
      OBVIOUS
    <3> HIDE DEF n
    <3>1. count * n = 0
      BY <1>0
    <3> QED BY <1>1, <3>1
  <2>2. i - 1 \in Nat
    BY <1>0, <1>1
  <2>3. ((i - 1) % n) + 1 \in 1 .. n
    <3> HIDE DEF n
    <3> QED BY <1>0, <2>1, <2>2
  <2> QED BY <2>3
<1>2. Repeated(s, count) = [i \in 1 .. count * n |-> s[((i - 1) % n) + 1]]
  BY Zenon DEF Repeated
<1> HIDE DEF n
<1> QED BY <1>0, <1>1, <1>2

\* multiply_container on a string.
LEMMA MultipliedData ==
  ASSUME NEW d \in Data, NEW count \in Data, IsA("str", d)
  PROVE  Failed(MultiplyContainer(d, count)) \/ MultiplyContainer(d, count) \in Data
<1>1. CASE IsA("int", count) /\ count[2] > 0
  <2>1. count[2] \in Nat
    BY <1>1, DataKinds
  <2>2. Repeated(d[2], count[2]) \in Seq(STRING)
    BY <2>1, DataKinds, RepeatedString
  <2>3. MultiplyContainer(d, count) = <<"str", Repeated(d[2], count[2])>>
    BY <1>1 DEF MultiplyContainer, IsA
  <2> QED BY <2>2, <2>3, DataMade
<1>2. CASE ~(IsA("int", count) /\ count[2] > 0)
  <2>1. MultiplyContainer(d, count) = Error("UnsupportedOperation")
    BY <1>2 DEF MultiplyContainer
  <2> QED BY <2>1, DataMade
<1> QED BY <1>1, <1>2

\* add, sub, mul, div, mod and pow give such a value or throw.
LEMMA ArithmeticData ==
  ASSUME NEW op \in ArithmeticOps, NEW a \in Data, NEW b \in Data
  PROVE  Failed(Arithmetic(op, a, b)) \/ Arithmetic(op, a, b) \in Data
<1>1. CASE IsA("int", a) /\ IsA("int", b)
  <2>1. ~IsContainer(a) /\ ~IsContainer(b)
    BY <1>1 DEF IsA, IsContainer
  <2>2. Arithmetic(op, a, b) = IntegerOp(op, a[2], b[2])
    BY <1>1, <2>1, Zenon DEF Arithmetic
  <2> QED BY <1>1, <2>2, DataKinds, IntegerData
<1>2. CASE op = "ADD" /\ IsContainer(a) /\ a[1] = b[1]
  <2>1. ~IsA("int", a) /\ IsA("str", a) /\ IsA("str", b) /\ op # "MULTIPLY"
    BY <1>2, DataKinds DEF IsA, IsContainer
  <2>2. Arithmetic(op, a, b) = <<a[1], a[2] \o b[2]>>
    BY <1>2, <2>1, Zenon DEF Arithmetic
  <2>3. a[2] \o b[2] \in Seq(STRING) /\ a[1] = "str"
    BY <2>1, DataKinds DEF IsA
  <2> QED BY <2>2, <2>3, DataMade
<1>3. CASE op = "MULTIPLY" /\ IsContainer(a) /\ IsPrimitive(b)
  <2>1. ~IsA("int", a) /\ ~IsContainer(b) /\ ~IsPrimitive(a) /\ op # "ADD" /\ IsA("str", a)
    BY <1>3, DataKinds DEF IsA, IsContainer, IsPrimitive
  <2>2. Arithmetic(op, a, b) = MultiplyContainer(a, b)
    BY <1>3, <2>1, Zenon DEF Arithmetic
  <2> QED BY <2>1, <2>2, MultipliedData
<1>4. CASE op = "MULTIPLY" /\ IsPrimitive(a) /\ IsContainer(b)
  <2>1. ~IsA("int", b) /\ ~IsContainer(a) /\ op # "ADD" /\ IsA("str", b)
    BY <1>4, DataKinds DEF IsA, IsContainer, IsPrimitive
  <2>2. Arithmetic(op, a, b) = MultiplyContainer(b, a)
    BY <1>4, <2>1, Zenon DEF Arithmetic
  <2> QED BY <2>1, <2>2, MultipliedData
<1>5. CASE ~ \/ IsA("int", a) /\ IsA("int", b)
             \/ op = "ADD" /\ IsContainer(a) /\ a[1] = b[1]
             \/ op = "MULTIPLY" /\ IsContainer(a) /\ IsPrimitive(b)
             \/ op = "MULTIPLY" /\ IsPrimitive(a) /\ IsContainer(b)
  <2>1. Arithmetic(op, a, b) = Error("UnsupportedOperation")
    BY <1>5, Zenon DEF Arithmetic
  <2> QED BY <2>1, DataMade
<1> QED BY <1>1, <1>2, <1>3, <1>4, <1>5

----------------------------------------------------------------------------
(* What instructions name *)

\* The operands of an instruction in a chunk are what its operation asks for: the
\* constants, the upvalues and the templates it names exist.
Operands(signature, c, instr) ==
  /\ OperandsFit(Bytecode, signature, signature[c].cells, instr)
  /\ instr.op = "CLOSURE" => instr.function \in Templates(Bytecode)

\* "signature" says of every chunk how many parameters its function has and how many
\* cells its closures hold.  All instructions fit it, those that cannot be reached,
\* too, those of the new code, and those that make the closures are kept.
Fitting(signature) ==
  /\ DOMAIN signature = DOMAIN chunks
  /\ \A c \in DOMAIN signature : signature[c].arity \in Nat /\ signature[c].cells \in Nat
  /\ signature[1].arity = 0 /\ signature[1].cells = 0
  /\ \E C : constants \in Seq(C)
  /\ \A i \in DOMAIN constants : ConstantFits(signature, constants[i])
  /\ \A c \in DOMAIN chunks : \A i \in DOMAIN chunks[c] : Operands(signature, c, chunks[c][i])
  /\ \A i \in DOMAIN fresh : Operands(signature, current, fresh[i])
  /\ Len(fresh) <= next
  /\ \A j \in 1 .. next :
       Scanned[j].op = "CLOSURE" => \E i \in DOMAIN fresh : fresh[i] = Scanned[j]
  /\ \A c \in DOMAIN chunks :
       \/ signature[c].cells = 0
       \/ \E b \in DOMAIN chunks : \E i \in DOMAIN chunks[b] : Makes(Bytecode, c, chunks[b][i])

\* The constants of the program, by the numbers instructions name them with.
LEMMA Numbering ==
  ASSUME NEW C, constants \in Seq(C)
  PROVE  /\ DOMAIN Bytecode.constants = 0 .. Len(constants) - 1
         /\ \A i \in DOMAIN Bytecode.constants :
              i + 1 \in DOMAIN constants /\ Bytecode.constants[i] = constants[i + 1]
         /\ \A i \in DOMAIN constants :
              i - 1 \in DOMAIN Bytecode.constants /\ Bytecode.constants[i - 1] = constants[i]
         /\ Len(constants) \in Nat /\ DOMAIN constants = 1 .. Len(constants)
BY DEF Bytecode

\* More constants do no harm.
LEMMA OperandsGrow ==
  ASSUME NEW p, NEW q, NEW signature, NEW cells, NEW instr,
         DOMAIN p.constants \subseteq DOMAIN q.constants,
         \A i \in DOMAIN p.constants : q.constants[i] = p.constants[i],
         OperandsFit(p, signature, cells, instr)
  PROVE  OperandsFit(q, signature, cells, instr)
<1>1. \A i \in DOMAIN p.constants : i \in Templates(p) <=> i \in Templates(q)
  BY DEF Templates
<1>2. \A i \in DOMAIN p.constants : CellsOf(p, signature, i) = CellsOf(q, signature, i)
  BY DEF CellsOf
<1>3. Loadable(p, signature) \subseteq Loadable(q, signature)
  BY <1>1, <1>2 DEF Loadable
<1> QED BY <1>1, <1>2, <1>3 DEF OperandsFit

\* What a window holds fits.
LEMMA WindowFits ==
  ASSUME Inv, NEW signature, Fitting(signature), NEW j \in 1 .. 3, next + j <= Len(Scanned)
  PROVE  /\ Operands(signature, current, At(j))
         /\ At(j).op = "CONSTANT" =>
              /\ ConstantFits(signature, ValueAt(j))
              /\ IsPrimitive(ValueAt(j)) \/ IsFoldable(ValueAt(j)) => ValueAt(j) \in Data
<1>1. current \in DOMAIN chunks /\ Scanned = chunks[current] /\ next + j \in DOMAIN Scanned
  <2>1. PICK S : chunks \in Seq(Seq(S)) /\ Scanned \in Seq(S) /\ Len(Scanned) \in Nat
    BY ScannedCode
  <2> QED BY <2>1 DEF Inv, PassInv, Scanned
<1>2. Operands(signature, current, At(j))
  BY <1>1 DEF Fitting, At
<1>3. ASSUME At(j).op = "CONSTANT"
      PROVE  ConstantFits(signature, ValueAt(j))
  <2>1. At(j).index \in DOMAIN Bytecode.constants
    BY <1>2, <1>3 DEF Operands, OperandsFit, Loadable
  <2>2. At(j).index + 1 \in DOMAIN constants
    BY <2>1, Numbering DEF Fitting
  <2> QED BY <2>2 DEF ValueAt, Fitting
<1> QED BY <1>2, <1>3, FoldableData

----------------------------------------------------------------------------
(* What a round does to the code *)

\* Instructions that the optimizer makes up.
Written(instr, added) ==
  \/ instr.op = "POP" /\ instr.count \in Nat
  \/ instr.op = "CONSTANT" /\ instr.index = Len(constants) /\ added # <<>>
  \/ instr.op = "JUMP"
  \/ instr.op = "JUMP_IF" /\ {instr.expected, instr.keep_jump, instr.keep_stay} \subseteq BOOLEAN

\* A window becomes one of them or nothing, or is an instruction that is copied.
Rewrites(n, r, added) ==
  /\ next + n <= Len(Scanned)
  /\ added = <<>> \/ \E d \in Data : added = <<d>>
  /\ \/ n = 1 /\ r = <<At(1)>>
     \/ /\ \A j \in 1 .. n : At(j).op # "CLOSURE"
        /\ r = <<>> \/ \E instr : r = <<instr>> /\ Written(instr, added)

\* Dropping a window.
LEMMA DropRewrites ==
  ASSUME NEW n \in 1 .. 3, next + n <= Len(Scanned), \A j \in 1 .. n : At(j).op # "CLOSURE"
  PROVE  Rewrites(n, <<>>, <<>>)
BY DEF Rewrites

\* Replacing a window by an instruction.
LEMMA WriteRewrites ==
  ASSUME NEW n \in 1 .. 3, next + n <= Len(Scanned), \A j \in 1 .. n : At(j).op # "CLOSURE",
         NEW instr, NEW added, Written(instr, added),
         added = <<>> \/ \E d \in Data : added = <<d>>
  PROVE  Rewrites(n, <<instr>>, added)
BY DEF Rewrites

\* Every round leaves the code alone or rewrites one window.
LEMMA RoundRewrites ==
  ASSUME Inv, NEW signature, Fitting(signature), Round
  PROVE  \/ UNCHANGED <<chunks, constants, current, next, fresh, offsets>>
         \/ \E n \in 1 .. 3 : \E r, added : Replace(n, r, added) /\ Rewrites(n, r, added)
<1> DEFINE Rewriting == \E n \in 1 .. 3 : \E r, added : Replace(n, r, added) /\ Rewrites(n, r, added)
<1>1. CASE PopZero \/ ZeroJump
  <2>1. next + 1 <= Len(Scanned) /\ At(1).op \in {"POP"} \cup Jumps
    BY <1>1, WindowOfOne DEF PopZero, ZeroJump, IsPopZero, IsZeroJump
  <2>2. Rewrites(1, <<>>, <<>>)
    BY <2>1, DropRewrites DEF Jumps
  <2> QED BY <1>1, <2>2 DEF PopZero, ZeroJump
<1>2. CASE MergePops
  <2>1. next + 2 <= Len(Scanned) /\ At(1).op = "POP" /\ At(2).op = "POP"
    BY <1>2, WindowOfTwo DEF MergePops, IsMergePops
  <2> DEFINE instr == Pop(At(1).count + At(2).count)
  <2>2. next \in Nat /\ Len(Scanned) \in Nat
    BY ScannedCode DEF Inv, PassInv
  <2>3. At(1).count \in Nat /\ At(2).count \in Nat
    <3>1. next + 1 <= Len(Scanned)
      BY <2>1, <2>2
    <3>2. Operands(signature, current, At(1)) /\ Operands(signature, current, At(2))
      BY <2>1, <3>1, WindowFits
    <3> QED BY <2>1, <3>2 DEF Operands, OperandsFit
  <2>4. Written(instr, <<>>)
    BY <2>3 DEF Written, Pop
  <2> HIDE DEF instr
  <2>5. Rewrites(2, <<instr>>, <<>>)
    BY <2>1, <2>4, WriteRewrites
  <2> QED BY <1>2, <2>5 DEF MergePops, instr
<1>3. ASSUME NEW n \in 2 .. 3, NEW d \in Data, Fold(n, d), next + n <= Len(Scanned),
             \A j \in 1 .. n : At(j).op # "CLOSURE"
      PROVE  Rewriting
  <2>1. Written(Constant(Len(constants)), <<d>>)
    BY DEF Written, Constant
  <2>2. Rewrites(n, <<Constant(Len(constants))>>, <<d>>)
    BY <1>3, <2>1, WriteRewrites
  <2> QED BY <1>3, <2>2 DEF Fold
<1>4. CASE UnaryFold
  <2>1. next + 2 <= Len(Scanned) /\ At(1).op = "CONSTANT" /\ At(2).op \in {"NEGATE", "NOT"}
        /\ IsPrimitive(ValueAt(1)) /\ ~Failed(UnaryValue)
    BY <1>4, WindowOfTwo DEF UnaryFold, IsUnaryFold
  <2>2. next + 1 <= Len(Scanned)
    BY <2>1, ScannedCode DEF Inv, PassInv
  <2>3. UnaryValue \in Data
    BY <2>1, <2>2, WindowFits, UnaryData DEF UnaryValue
  <2> QED BY <1>3, <1>4, <2>1, <2>3 DEF UnaryFold
<1>5. CASE BinaryFold
  <2>1. /\ next + 3 <= Len(Scanned) /\ At(1).op = "CONSTANT" /\ At(2).op = "CONSTANT"
        /\ At(3).op \in ArithmeticOps \cup CompareOps
        /\ IsFoldable(ValueAt(1)) /\ IsFoldable(ValueAt(2)) /\ ~Failed(BinaryValue)
    BY <1>5, WindowOfThree DEF BinaryFold, IsBinaryFold
  <2>2. next + 1 <= Len(Scanned) /\ next + 2 <= Len(Scanned)
    BY <2>1, ScannedCode DEF Inv, PassInv
  <2>3. ValueAt(1) \in Data /\ ValueAt(2) \in Data
    BY <2>1, <2>2, WindowFits
  <2>4. BinaryValue \in Data
    <3>1. CASE At(3).op \in CompareOps
      <4> DEFINE order == CompareValues([heap |-> <<>>, constants |-> <<>>], ValueAt(1), ValueAt(2))
      <4>1. BinaryValue = Bool(Accepts(At(3).op, order))
        BY <3>1, Zenon DEF BinaryValue
      <4> HIDE DEF order
      <4>2. \A op \in CompareOps : Accepts(op, order) \in BOOLEAN
        BY AcceptsBoolean
      <4> QED BY <3>1, <4>1, <4>2, DataMade
    <3>2. CASE At(3).op \notin CompareOps
      <4>1. BinaryValue = Arithmetic(At(3).op, ValueAt(1), ValueAt(2))
        BY <3>2, Zenon DEF BinaryValue
      <4> QED BY <2>1, <2>3, <3>2, <4>1, ArithmeticData
    <3> QED BY <3>1, <3>2
  <2> QED BY <1>3, <1>5, <2>1, <2>4 DEF BinaryFold, ArithmeticOps, CompareOps
<1>6. CASE ConstJumpIfTaken \/ ConstJumpIfNotTaken
  <2>1. next + 2 <= Len(Scanned) /\ At(1).op = "CONSTANT" /\ At(2).op = "JUMP_IF"
    BY <1>6, WindowOfTwo DEF ConstJumpIfTaken, ConstJumpIfNotTaken, IsConstJumpIf
  <2>2. Rewrites(2, <<>>, <<>>)
    BY <2>1, DropRewrites
  <2>3. Written(Jump(At(2).offset), <<>>)
    BY DEF Written, Jump
  <2>4. Rewrites(2, <<Jump(At(2).offset)>>, <<>>)
    BY <2>1, <2>3, WriteRewrites
  <2> QED BY <1>6, <2>2, <2>4 DEF ConstJumpIfTaken, ConstJumpIfNotTaken
<1>7. CASE Copy
  <2>1. next + 1 <= Len(Scanned)
    BY <1>7, ScannedCode DEF Inv, PassInv, Copy, Scanning
  <2>2. Rewrites(1, <<At(1)>>, <<>>)
    BY <2>1 DEF Rewrites
  <2> QED BY <1>7, <2>2 DEF Copy
<1>8. CASE EndChain
  <2>1. next < Len(Scanned) /\ At(1).op \in Jumps
    BY <1>8 DEF EndChain, Inv, ChainInv
  <2>2. next + 1 <= Len(Scanned) /\ Shaped(At(1)) /\ Operands(signature, current, At(1))
    BY <2>1, ScannedCode, WindowLeads, WindowFits DEF Inv, PassInv
  <2> DEFINE instr == [At(1) EXCEPT !.offset = chain[1]]
  <2>3. /\ instr.op = At(1).op /\ instr.expected = At(1).expected
        /\ instr.keep_jump = At(1).keep_jump /\ instr.keep_stay = At(1).keep_stay
    BY <2>1, <2>2 DEF Shaped
  <2>4. Written(instr, <<>>)
    <3> HIDE DEF instr
    <3> QED BY <2>1, <2>2, <2>3 DEF Written, Jumps, Operands, OperandsFit
  <2> HIDE DEF instr
  <2>5. Rewrites(1, <<instr>>, <<>>)
    BY <2>1, <2>2, <2>4, WriteRewrites DEF Jumps
  <2> QED BY <1>8, <2>5 DEF EndChain, instr
<1>9. CASE UnaryFoldThrows \/ FollowChain \/ Hop
  BY <1>9 DEF UnaryFoldThrows, FollowChain, Hop
<1> HIDE DEF Rewriting
<1> QED BY <1>1, <1>2, <1>4, <1>5, <1>6, <1>7, <1>8, <1>9 DEF Round, Rewriting

----------------------------------------------------------------------------
(* Rounds keep what instructions name *)

\* t is s with at most one element more, that of r.
Grown(s, r, t) ==
  /\ Len(s) \in Nat /\ DOMAIN s = 1 .. Len(s)
  /\ r = <<>> => t = s
  /\ \A x : r = <<x>> =>
       /\ DOMAIN t = 1 .. Len(s) + 1 /\ Len(t) = Len(s) + 1
       /\ t[Len(s) + 1] = x
       /\ \A i \in 1 .. Len(s) : t[i] = s[i]

\* Appending at most one element.
LEMMA OneMore ==
  ASSUME NEW T, NEW s \in Seq(T), NEW r, r = <<>> \/ \E x : r = <<x>>
  PROVE  Grown(s, r, s \o r) /\ \E U : s \o r \in Seq(U)
<1>1. CASE r = <<>>
  <2>1. \A x : r # <<x>>
    BY <1>1
  <2>2. s \o r = s
    BY <1>1
  <2> QED BY <1>1, <2>1, <2>2 DEF Grown
<1>2. ASSUME NEW x, r = <<x>>
      PROVE  Grown(s, r, s \o r) /\ \E U : s \o r \in Seq(U)
  <2> DEFINE U == T \cup {x}
  <2>1. s \in Seq(U)
    BY SeqMonotonic
  <2>2. r \in Seq(U) /\ Len(r) = 1 /\ r[1] = x /\ r # <<>> /\ \A y : r = <<y>> => y = x
    BY <1>2
  <2> DEFINE t == s \o r
  <2> HIDE DEF U
  <2>3. /\ t \in Seq(U) /\ Len(t) = Len(s) + 1
        /\ \A i \in 1 .. Len(s) + 1 : t[i] = IF i <= Len(s) THEN s[i] ELSE r[i - Len(s)]
    BY <2>1, <2>2, ConcatProperties
  <2> HIDE DEF t
  <2>4. Len(s) \in Nat /\ DOMAIN t = 1 .. Len(s) + 1 /\ DOMAIN s = 1 .. Len(s)
    BY <2>3
  <2>5. t[Len(s) + 1] = x /\ \A i \in 1 .. Len(s) : t[i] = s[i]
    BY <2>2, <2>3, <2>4
  <2>6. Grown(s, r, t)
    BY <2>2, <2>3, <2>4, <2>5 DEF Grown
  <2> QED BY <2>3, <2>6 DEF t
<1> QED BY <1>1, <1>2

\* A window that is rewritten: the new code and the constants grow.
LEMMA RewriteGrows ==
  ASSUME Inv, NEW signature, Fitting(signature), NEW n \in 1 .. 3, NEW r, NEW added,
         Replace(n, r, added), Rewrites(n, r, added)
  PROVE  /\ Grown(fresh, r, fresh') /\ Grown(constants, added, constants')
         /\ \E D : constants' \in Seq(D)
<1>1. PICK S : fresh \in Seq(S)
  BY DEF Inv, Typed
<1>2. PICK C : constants \in Seq(C)
  BY DEF Fitting
<1>3. fresh' = fresh \o r /\ constants' = constants \o added
  BY DEF Replace
<1>4. r = <<>> \/ \E instr : r = <<instr>>
  BY DEF Rewrites
<1>5. added = <<>> \/ \E d : added = <<d>>
  BY DEF Rewrites
<1>6. Grown(fresh, r, fresh \o r)
  BY <1>1, <1>4, OneMore
<1>7. Grown(constants, added, constants \o added) /\ \E D : constants \o added \in Seq(D)
  BY <1>2, <1>5, OneMore
<1> QED BY <1>3, <1>6, <1>7, Zenon

\* What fits before a window is rewritten fits afterwards.
LEMMA OperandsKept ==
  ASSUME Inv, NEW signature, Fitting(signature), NEW n \in 1 .. 3, NEW r, NEW added,
         Replace(n, r, added), Rewrites(n, r, added),
         NEW c, NEW instr, Operands(signature, c, instr)
  PROVE  Operands(signature, c, instr)'
<1> DEFINE p == Bytecode
           q == Bytecode'
<1>1. PICK C : constants \in Seq(C)
  BY DEF Fitting
<1>2. PICK D : constants' \in Seq(D)
  BY RewriteGrows
<1>3. added = <<>> \/ \E d : added = <<d>>
  BY DEF Rewrites
<1>4. Len(constants) \in Nat /\ Len(constants') \in Nat /\ Len(constants) <= Len(constants')
      /\ \A i \in 1 .. Len(constants) : constants'[i] = constants[i]
  <2>1. Grown(constants, added, constants')
    BY RewriteGrows
  <2> QED BY <1>2, <1>3, <2>1 DEF Grown
<1>5. /\ p.constants = [i \in 0 .. Len(constants) - 1 |-> constants[i + 1]]
      /\ q.constants = [i \in 0 .. Len(constants') - 1 |-> constants'[i + 1]]
  BY DEF Bytecode
<1>6. DOMAIN p.constants \subseteq DOMAIN q.constants
      /\ \A i \in DOMAIN p.constants : q.constants[i] = p.constants[i]
  <2>1. DOMAIN p.constants = 0 .. Len(constants) - 1 /\ DOMAIN q.constants = 0 .. Len(constants') - 1
    BY <1>5
  <2>2. \A i \in 0 .. Len(constants) - 1 : i \in 0 .. Len(constants') - 1 /\ i + 1 \in 1 .. Len(constants)
    BY <1>4
  <2>3. \A i \in 0 .. Len(constants) - 1 :
          p.constants[i] = constants[i + 1] /\ q.constants[i] = constants'[i + 1]
    BY <1>5, <2>2
  <2> HIDE DEF p, q
  <2> QED BY <1>4, <2>1, <2>2, <2>3
<1>7. OperandsFit(p, signature, signature[c].cells, instr)
      /\ (instr.op = "CLOSURE" => instr.function \in Templates(p))
  BY DEF Operands
<1>8. Templates(p) \subseteq Templates(q)
  <2> HIDE DEF p, q
  <2> QED BY <1>6 DEF Templates
<1>9. OperandsFit(q, signature, signature[c].cells, instr)
  <2> HIDE DEF p, q
  <2> QED BY <1>6, <1>7, OperandsGrow
<1> QED BY <1>7, <1>8, <1>9 DEF Operands

\* What makes closures of a chunk goes on to do so.
LEMMA MakersKept ==
  ASSUME Inv, NEW signature, Fitting(signature), NEW n \in 1 .. 3, NEW r, NEW added,
         Replace(n, r, added), Rewrites(n, r, added),
         NEW b \in DOMAIN chunks, NEW i \in DOMAIN chunks[b], NEW c, Makes(Bytecode, c, chunks[b][i])
  PROVE  Makes(Bytecode, c, chunks[b][i])'
<1> DEFINE instr == chunks[b][i]
<1>1. chunks' = chunks
  BY DEF Replace
<1>2. Operands(signature, b, instr) /\ instr.op = "CLOSURE"
  BY DEF Fitting, Makes
<1>3. instr.function \in 0 .. Len(constants) - 1
  BY <1>2, Numbering DEF Fitting, Operands, OperandsFit
<1>4. added = <<>> \/ \E d : added = <<d>>
  BY DEF Rewrites
<1>5. Len(constants) \in Nat /\ Len(constants') \in Nat /\ Len(constants) <= Len(constants')
      /\ \A j \in 1 .. Len(constants) : constants'[j] = constants[j]
  <2>1. Grown(constants, added, constants') /\ \E D : constants' \in Seq(D)
    BY RewriteGrows
  <2> QED BY <1>4, <2>1 DEF Grown
<1>6. Bytecode'.constants[instr.function] = Bytecode.constants[instr.function]
  <2>1. Bytecode.constants[instr.function] = constants[instr.function + 1]
    BY <1>3 DEF Bytecode
  <2>2. instr.function \in 0 .. Len(constants') - 1 /\ instr.function + 1 \in 1 .. Len(constants)
    BY <1>3, <1>5
  <2>3. Bytecode'.constants = [j \in 0 .. Len(constants') - 1 |-> constants'[j + 1]]
    BY DEF Bytecode
  <2>4. Bytecode'.constants[instr.function] = constants'[instr.function + 1]
    BY <2>2, <2>3
  <2> QED BY <1>5, <2>1, <2>2, <2>4
<1> QED BY <1>1, <1>6 DEF Makes

\* An instruction that a pattern makes up fits.
LEMMA WrittenFits ==
  ASSUME Inv, NEW signature, Fitting(signature), NEW n \in 1 .. 3, NEW r, NEW added,
         Replace(n, r, added), Rewrites(n, r, added),
         NEW c, NEW instr, Written(instr, added)
  PROVE  Operands(signature, c, instr)'
<1> DEFINE q == Bytecode'
<1>1. CASE instr.op = "CONSTANT" /\ instr.index = Len(constants) /\ added # <<>>
  <2>1. PICK d \in Data : added = <<d>>
    BY <1>1 DEF Rewrites
  <2>2. Len(constants) \in Nat /\ Len(constants') = Len(constants) + 1
        /\ constants'[Len(constants) + 1] = d
    BY <2>1, RewriteGrows DEF Grown
  <2>3. q.constants = [j \in 0 .. Len(constants') - 1 |-> constants'[j + 1]]
    BY DEF Bytecode
  <2>4. instr.index \in 0 .. Len(constants') - 1
    BY <1>1, <2>2
  <2>5. instr.index \in DOMAIN q.constants /\ q.constants[instr.index] = d
    BY <1>1, <2>2, <2>3, <2>4
  <2> HIDE DEF q
  <2>6. instr.index \in Loadable(q, signature)
    BY <2>1, <2>5, DataKinds DEF Loadable, Templates
  <2>7. OperandsFit(q, signature, signature[c].cells, instr)
    BY <1>1, <2>6 DEF OperandsFit, CompareOps
  <2> QED BY <1>1, <2>7 DEF Operands, q
<1>2. CASE \/ instr.op = "POP" /\ instr.count \in Nat
           \/ instr.op = "JUMP"
           \/ /\ instr.op = "JUMP_IF"
              /\ {instr.expected, instr.keep_jump, instr.keep_stay} \subseteq BOOLEAN
  <2> HIDE DEF q
  <2>1. OperandsFit(q, signature, signature[c].cells, instr) /\ instr.op # "CLOSURE"
    BY <1>2 DEF OperandsFit, CompareOps
  <2> QED BY <2>1 DEF Operands, q
<1> QED BY <1>1, <1>2 DEF Written

\* A round that rewrites a window keeps what instructions name.
LEMMA RewriteFits ==
  ASSUME Inv, NEW signature, Fitting(signature), NEW n \in 1 .. 3, NEW r, NEW added,
         Replace(n, r, added), Rewrites(n, r, added)
  PROVE  Fitting(signature)'
<1>1. chunks' = chunks /\ current' = current /\ Scanned' = Scanned /\ next' = next + n
  BY DEF Replace, Scanned
<1>2. Grown(fresh, r, fresh') /\ Grown(constants, added, constants')
  BY RewriteGrows
<1>3. r = <<>> \/ \E instr : r = <<instr>>
  BY DEF Rewrites
<1>4. next \in Nat /\ Len(Scanned) \in Nat /\ current \in DOMAIN chunks
      /\ next + n <= Len(Scanned)
  <2>1. PICK S : chunks \in Seq(Seq(S)) /\ Len(Scanned) \in Nat
    BY ScannedCode
  <2> QED BY <2>1 DEF Inv, PassInv, Rewrites
<1>5. \A i \in DOMAIN constants' : ConstantFits(signature, constants'[i])
  <2>1. CASE added = <<>>
    BY <1>2, <2>1 DEF Grown, Fitting
  <2>2. CASE added # <<>>
    <3>1. PICK d \in Data : added = <<d>>
      BY <2>2 DEF Rewrites
    <3>2. ConstantFits(signature, d)
      BY DataKinds
    <3>3. /\ Len(constants) \in Nat /\ DOMAIN constants = 1 .. Len(constants)
          /\ DOMAIN constants' = 1 .. Len(constants) + 1
          /\ constants'[Len(constants) + 1] = d
          /\ \A i \in 1 .. Len(constants) : constants'[i] = constants[i]
      BY <1>2, <3>1 DEF Grown
    <3> QED BY <3>2, <3>3 DEF Fitting
  <2> QED BY <2>1, <2>2
<1>6. \A c \in DOMAIN chunks : \A i \in DOMAIN chunks[c] : Operands(signature, c, chunks[c][i])'
  <2> TAKE c \in DOMAIN chunks
  <2> TAKE i \in DOMAIN chunks[c]
  <2> DEFINE instr == chunks[c][i]
  <2>1. Operands(signature, c, instr)
    BY DEF Fitting
  <2>2. \A x : Operands(signature, c, x) => Operands(signature, c, x)'
    BY OperandsKept
  <2>3. instr' = instr
    BY <1>1
  <2> QED BY <2>1, <2>2, <2>3 DEF Operands
<1>7. \A i \in DOMAIN fresh' : Operands(signature, current, fresh[i])'
  <2>1. \A x : Operands(signature, current, x) => Operands(signature, current, x)'
    <3>1. \A c, x : Operands(signature, c, x) => Operands(signature, c, x)'
      BY OperandsKept
    <3> QED BY <1>1, <3>1 DEF Operands
  <2>2. CASE r = <<>>
    <3> TAKE i \in DOMAIN fresh'
    <3> DEFINE instr == fresh[i]
    <3>1. Operands(signature, current, instr) /\ instr' = instr /\ current' = current
      BY <1>1, <1>2, <2>2 DEF Grown, Fitting
    <3> QED BY <2>1, <3>1 DEF Operands
  <2>3. CASE r # <<>>
    <3>1. PICK instr : r = <<instr>> /\ (instr = At(1) \/ Written(instr, added))
      BY <2>3 DEF Rewrites
    <3>2. Operands(signature, current, instr)'
      <4>1. CASE instr = At(1)
        <5>1. next + 1 <= Len(Scanned)
          BY <1>4
        <5>2. Operands(signature, current, instr)
          BY <4>1, <5>1, WindowFits
        <5> QED BY <2>1, <5>2
      <4>2. CASE Written(instr, added)
        BY <4>2, WrittenFits, <1>1 DEF Operands
      <4> QED BY <3>1, <4>1, <4>2
    <3>3. /\ Len(fresh) \in Nat /\ DOMAIN fresh = 1 .. Len(fresh)
          /\ DOMAIN fresh' = 1 .. Len(fresh) + 1
          /\ fresh'[Len(fresh) + 1] = instr
          /\ \A i \in 1 .. Len(fresh) : fresh'[i] = fresh[i]
      BY <1>2, <3>1 DEF Grown
    <3> SUFFICES ASSUME NEW i \in DOMAIN fresh'
                 PROVE  Operands(signature, current, fresh[i])'
      OBVIOUS
    <3>4. CASE i = Len(fresh) + 1
      BY <3>2, <3>3, <3>4 DEF Operands
    <3>5. CASE i # Len(fresh) + 1
      <4>1. i \in DOMAIN fresh
        BY <3>3, <3>5
      <4> DEFINE old == fresh[i]
      <4>2. Operands(signature, current, old) /\ old' = old /\ current' = current
        BY <1>1, <3>3, <4>1 DEF Fitting
      <4> QED BY <2>1, <4>2 DEF Operands
    <3> QED BY <3>4, <3>5
  <2> QED BY <2>2, <2>3
<1>8. Len(fresh') <= next'
  <2>1. Len(fresh) \in Nat /\ (Len(fresh') = Len(fresh) \/ Len(fresh') = Len(fresh) + 1)
    BY <1>2, <1>3 DEF Grown
  <2> QED BY <1>1, <1>4, <2>1 DEF Fitting
<1>9. \A j \in 1 .. next' :
        Scanned'[j].op = "CLOSURE" => \E i \in DOMAIN fresh' : fresh'[i] = Scanned'[j]
  <2> SUFFICES ASSUME NEW j \in 1 .. next + n, Scanned[j].op = "CLOSURE"
               PROVE  \E i \in DOMAIN fresh' : fresh'[i] = Scanned[j]
    BY <1>1
  <2>1. CASE j <= next
    <3>1. PICK i \in DOMAIN fresh : fresh[i] = Scanned[j]
      BY <1>4, <2>1 DEF Fitting
    <3>2. i \in DOMAIN fresh' /\ fresh'[i] = fresh[i]
      BY <1>2, <1>3, <3>1 DEF Grown
    <3> QED BY <3>1, <3>2
  <2>2. CASE ~(j <= next)
    <3>1. j - next \in 1 .. n /\ Scanned[j] = At(j - next)
      BY <1>4, <2>2 DEF At
    <3>2. n = 1 /\ r = <<At(1)>>
      BY <3>1 DEF Rewrites
    <3>3. Scanned[j] = At(1)
      BY <3>1, <3>2
    <3> QED BY <1>2, <3>2, <3>3 DEF Grown
  <2> QED BY <2>1, <2>2
<1>10. \A c \in DOMAIN chunks :
         \/ signature[c].cells = 0
         \/ \E b \in DOMAIN chunks' : \E i \in DOMAIN chunks'[b] : Makes(Bytecode, c, chunks[b][i])'
  <2> SUFFICES ASSUME NEW c \in DOMAIN chunks, signature[c].cells # 0
               PROVE  \E b \in DOMAIN chunks : \E i \in DOMAIN chunks[b] :
                        Makes(Bytecode, c, chunks[b][i])'
    BY <1>1
  <2>1. PICK b \in DOMAIN chunks : \E i \in DOMAIN chunks[b] : Makes(Bytecode, c, chunks[b][i])
    BY DEF Fitting
  <2>2. PICK i \in DOMAIN chunks[b] : Makes(Bytecode, c, chunks[b][i])
    BY <2>1
  <2>3. Makes(Bytecode, c, chunks[b][i])'
    BY <2>2, MakersKept
  <2> QED BY <2>3
<1>11. \E C : constants' \in Seq(C)
  BY RewriteGrows
<1> QED BY <1>1, <1>5, <1>6, <1>7, <1>8, <1>9, <1>10, <1>11 DEF Fitting

----------------------------------------------------------------------------
(* The end of a pass keeps what instructions name *)

\* Only the constants matter for what an instruction names.
LEMMA SameConstants ==
  ASSUME UNCHANGED constants, NEW signature, NEW c, NEW instr
  PROVE  /\ Operands(signature, c, instr) => Operands(signature, c, instr)'
         /\ Makes(Bytecode, c, instr) => Makes(Bytecode, c, instr)'
<1> DEFINE p == Bytecode
           q == Bytecode'
<1>1. p.constants = q.constants
  BY DEF Bytecode
<1>2. OperandsFit(p, signature, signature[c].cells, instr) =>
        OperandsFit(q, signature, signature[c].cells, instr)
  <2> HIDE DEF p, q
  <2> QED BY <1>1, OperandsGrow
<1>3. Templates(p) = Templates(q)
  <2> HIDE DEF p, q
  <2> QED BY <1>1 DEF Templates
<1>4. Makes(p, c, instr) => Makes(q, c, instr)
  <2> HIDE DEF p, q
  <2> QED BY <1>1 DEF Makes
<1> QED BY <1>2, <1>3, <1>4 DEF Operands

\* Moving a target along changes nothing that an instruction names.
LEMMA AdjustedFits ==
  ASSUME NEW signature, NEW c, NEW instr, Shaped(instr), Operands(signature, c, instr)
  PROVE  /\ Operands(signature, c, Adjusted(instr))
         /\ instr.op = "CLOSURE" => Adjusted(instr) = instr
<1>1. CASE instr.op \in Jumps
  <2> DEFINE moved == [instr EXCEPT !.offset = offsets[instr.offset + 1]]
  <2>1. Adjusted(instr) = moved
    BY <1>1 DEF Adjusted, Jumps
  <2>2. /\ moved.op = instr.op /\ moved.expected = instr.expected
        /\ moved.keep_jump = instr.keep_jump /\ moved.keep_stay = instr.keep_stay
    BY <1>1 DEF Shaped
  <2> HIDE DEF moved
  <2>3. OperandsFit(Bytecode, signature, signature[c].cells, moved)
    BY <1>1, <2>2 DEF Operands, OperandsFit, Jumps, CompareOps
  <2> QED BY <1>1, <2>1, <2>2, <2>3 DEF Operands, Jumps
<1>2. CASE instr.op = "FOR_LOOP"
  <2> DEFINE moved == [instr EXCEPT !.body = offsets[instr.body + 1]]
  <2>1. Adjusted(instr) = moved
    BY <1>2 DEF Adjusted, Jumps
  <2>2. /\ moved.op = instr.op /\ moved.control = instr.control
        /\ moved.limit = instr.limit /\ moved.step = instr.step
    BY <1>2 DEF Shaped
  <2> HIDE DEF moved
  <2>3. OperandsFit(Bytecode, signature, signature[c].cells, moved)
    BY <1>2, <2>2 DEF Operands, OperandsFit, CompareOps
  <2> QED BY <1>2, <2>1, <2>2, <2>3 DEF Operands
<1>3. CASE ~(instr.op \in Jumps) /\ instr.op # "FOR_LOOP"
  BY <1>3 DEF Adjusted
<1> QED BY <1>1, <1>2, <1>3 DEF Jumps

\* Going over a chunk again keeps what instructions name.
LEMMA ShorterFits ==
  ASSUME Inv, NEW signature, Fitting(signature), ShorterPass
  PROVE  Fitting(signature)'
<1> DEFINE code == [i \in DOMAIN fresh |-> Adjusted(fresh[i])]
<1>1. PICK S : /\ chunks \in Seq(Seq(S)) /\ fresh \in Seq(S)
               /\ \A instr \in S : Shaped(instr)
               /\ Scanned \in Seq(S) /\ Len(Scanned) \in Nat
  BY ScannedCode
<1>2. /\ next = Len(Scanned) /\ chunks' = [chunks EXCEPT ![current] = code]
      /\ next' = 0 /\ fresh' = <<>> /\ UNCHANGED <<constants, current>>
  BY DEF ShorterPass, PassEnds, NextPass
<1>3. current \in DOMAIN chunks /\ Scanned = chunks[current]
  BY <1>1 DEF Inv, PassInv, Scanned
<1>4. /\ DOMAIN code = DOMAIN fresh
      /\ \A i \in DOMAIN fresh : code[i] = Adjusted(fresh[i]) /\ Shaped(fresh[i])
  BY <1>1
<1> HIDE DEF code
<1>5. /\ DOMAIN chunks' = DOMAIN chunks
      /\ \A c \in DOMAIN chunks : chunks'[c] = IF c = current THEN code ELSE chunks[c]
  BY <1>1, <1>2, <1>3
<1>6. \A c \in DOMAIN chunks' : \A i \in DOMAIN chunks'[c] : Operands(signature, c, chunks[c][i])'
  <2> SUFFICES ASSUME NEW c \in DOMAIN chunks', NEW i \in DOMAIN chunks'[c]
               PROVE  Operands(signature, c, chunks[c][i])'
    OBVIOUS
  <2>1. PICK instr : instr = chunks'[c][i]
    OBVIOUS
  <2>2. Operands(signature, c, instr)
    <3>1. CASE c = current
      <4>1. i \in DOMAIN fresh /\ instr = Adjusted(fresh[i]) /\ Shaped(fresh[i])
        BY <1>4, <1>5, <2>1, <3>1
      <4>2. Operands(signature, c, fresh[i])
        BY <3>1, <4>1 DEF Fitting
      <4> QED BY <4>1, <4>2, AdjustedFits
    <3>2. CASE c # current
      BY <1>5, <2>1, <3>2 DEF Fitting
    <3> QED BY <3>1, <3>2
  <2>3. Operands(signature, c, instr)'
    BY <1>2, <2>2, SameConstants
  <2> QED BY <2>1, <2>3 DEF Operands
<1>7. \A c \in DOMAIN chunks' :
        \/ signature[c].cells = 0
        \/ \E b \in DOMAIN chunks' : \E i \in DOMAIN chunks'[b] : Makes(Bytecode, c, chunks[b][i])'
  <2> SUFFICES ASSUME NEW c \in DOMAIN chunks, signature[c].cells # 0
               PROVE  \E b \in DOMAIN chunks' : \E i \in DOMAIN chunks'[b] :
                        Makes(Bytecode, c, chunks[b][i])'
    BY <1>5
  <2>1. PICK b \in DOMAIN chunks : \E i \in DOMAIN chunks[b] : Makes(Bytecode, c, chunks[b][i])
    BY DEF Fitting
  <2>2. PICK i \in DOMAIN chunks[b] : Makes(Bytecode, c, chunks[b][i])
    BY <2>1
  <2>3. PICK instr : instr = chunks[b][i]
    OBVIOUS
  <2>4. Makes(Bytecode, c, instr)'
    BY <1>2, <2>2, <2>3, SameConstants
  <2>5. PICK k \in DOMAIN chunks'[b] : chunks'[b][k] = instr
    <3>1. CASE b = current
      <4>1. i \in 1 .. next /\ Scanned[i] = instr /\ instr.op = "CLOSURE"
        BY <1>1, <1>2, <1>3, <2>2, <2>3, <3>1 DEF Makes
      <4>2. PICK k \in DOMAIN fresh : fresh[k] = instr
        BY <4>1 DEF Fitting
      <4>3. Operands(signature, current, instr) /\ Shaped(instr)
        BY <1>4, <4>2 DEF Fitting
      <4>4. code[k] = instr
        BY <1>4, <4>1, <4>2, <4>3, AdjustedFits
      <4> QED BY <1>4, <1>5, <3>1, <4>2, <4>4
    <3>2. CASE b # current
      BY <1>5, <2>3, <3>2
    <3> QED BY <3>1, <3>2
  <2>6. Makes(Bytecode, c, chunks[b][k])'
    BY <2>4, <2>5 DEF Makes
  <2> QED BY <1>5, <2>5, <2>6
<1>8. DOMAIN fresh' = {} /\ Len(fresh') <= next' /\ 1 .. next' = {}
  BY <1>2
<1> QED BY <1>2, <1>5, <1>6, <1>7, <1>8 DEF Fitting

\* Going on to the next chunk keeps what instructions name.
LEMMA LastFits ==
  ASSUME Inv, NEW signature, Fitting(signature), LastPass
  PROVE  Fitting(signature)'
<1>1. chunks' = chunks /\ UNCHANGED constants /\ next' = 0 /\ fresh' = <<>>
  BY DEF LastPass, NextPass
<1>2. \A c \in DOMAIN chunks : \A i \in DOMAIN chunks[c] : Operands(signature, c, chunks[c][i])'
  <2> SUFFICES ASSUME NEW c \in DOMAIN chunks, NEW i \in DOMAIN chunks[c]
               PROVE  Operands(signature, c, chunks[c][i])'
    OBVIOUS
  <2>1. PICK instr : instr = chunks[c][i]
    OBVIOUS
  <2>2. Operands(signature, c, instr)'
    BY <1>1, <2>1, SameConstants DEF Fitting
  <2> QED BY <1>1, <2>1, <2>2 DEF Operands
<1>3. \A c \in DOMAIN chunks :
        \/ signature[c].cells = 0
        \/ \E b \in DOMAIN chunks : \E i \in DOMAIN chunks[b] : Makes(Bytecode, c, chunks[b][i])'
  <2> SUFFICES ASSUME NEW c \in DOMAIN chunks, signature[c].cells # 0
               PROVE  \E b \in DOMAIN chunks : \E i \in DOMAIN chunks[b] :
                        Makes(Bytecode, c, chunks[b][i])'
    OBVIOUS
  <2>1. PICK b \in DOMAIN chunks : \E i \in DOMAIN chunks[b] : Makes(Bytecode, c, chunks[b][i])
    BY DEF Fitting
  <2>2. PICK i \in DOMAIN chunks[b] : Makes(Bytecode, c, chunks[b][i])
    BY <2>1
  <2>3. PICK instr : instr = chunks[b][i]
    OBVIOUS
  <2>4. Makes(Bytecode, c, instr)'
    BY <1>1, <2>2, <2>3, SameConstants
  <2>5. Makes(Bytecode, c, chunks[b][i])'
    BY <1>1, <2>3, <2>4 DEF Makes
  <2> QED BY <2>5
<1>4. DOMAIN fresh' = {} /\ Len(fresh') <= next' /\ 1 .. next' = {}
  BY <1>1
<1> QED BY <1>1, <1>2, <1>3, <1>4 DEF Fitting

\* Every step of the optimizer keeps what instructions name.
LEMMA FittingStep ==
  ASSUME Inv, NEW signature, Fitting(signature), Optimize
  PROVE  Fitting(signature)'
<1>1. CASE Round
  <2>1. CASE UNCHANGED <<chunks, constants, current, next, fresh, offsets>>
    BY <2>1 DEF Fitting, Operands, Bytecode, Scanned
  <2>2. CASE \E n \in 1 .. 3 : \E r, added : Replace(n, r, added) /\ Rewrites(n, r, added)
    BY <2>2, RewriteFits
  <2> QED BY <1>1, <2>1, <2>2, RoundRewrites
<1>2. CASE ShorterPass
  BY <1>2, ShorterFits
<1>3. CASE LastPass
  BY <1>3, LastFits
<1> QED BY <1>1, <1>2, <1>3 DEF Optimize

----------------------------------------------------------------------------
(* The merging of equal constants *)

\* What the loop of deduplicate_constants keeps: after k constants, every one of them
\* has a number, under which an equal one is kept, and nothing else is.
MergeOp(given, acc, d) == Merge(acc, d)
MergeKeeps(given, k, acc) ==
  /\ acc = [kept |-> acc.kept, index |-> acc.index]
  /\ \E T : acc.kept \in Seq(T)
  /\ acc.index \in Seq(Nat) /\ Len(acc.index) = k
  /\ \A i \in 1 .. k : acc.index[i] \in 0 .. Len(acc.kept) - 1
                       /\ acc.kept[acc.index[i] + 1] = given[i]
  /\ \A j \in 1 .. Len(acc.kept) : \E i \in 1 .. k : acc.kept[j] = given[i]
Merging == INSTANCE FoldTheorems WITH Op <- MergeOp, Keeps <- MergeKeeps

\* One more constant.
LEMMA MergeStep ==
  ASSUME NEW given, NEW k \in Nat \ {0}, NEW acc, MergeKeeps(given, k - 1, acc)
  PROVE  MergeKeeps(given, k, Merge(acc, given[k]))
<1> DEFINE d == given[k]
           kept == acc.kept
           index == acc.index
           equal == {i \in DOMAIN kept : ~IsFunction(d) /\ kept[i] = d}
<1>1. PICK T : kept \in Seq(T)
  BY DEF MergeKeeps
<1>2. /\ index \in Seq(Nat) /\ Len(index) = k - 1 /\ Len(kept) \in Nat
      /\ DOMAIN kept = 1 .. Len(kept)
      /\ \A i \in 1 .. k - 1 : index[i] \in 0 .. Len(kept) - 1 /\ kept[index[i] + 1] = given[i]
      /\ \A j \in 1 .. Len(kept) : \E i \in 1 .. k - 1 : kept[j] = given[i]
  BY <1>1 DEF MergeKeeps
<1>3. ASSUME NEW new \in Nat
      PROVE  /\ Append(index, new) \in Seq(Nat) /\ Len(Append(index, new)) = k
             /\ Append(index, new)[k] = new
             /\ \A i \in 1 .. k - 1 : Append(index, new)[i] = index[i]
  <2> HIDE DEF index
  <2> QED BY <1>2, AppendProperties
<1>4. CASE equal = {}
  <2> DEFINE more == Append(kept, d)
             numbers == Append(index, Len(kept))
  <2>1. Merge(acc, d) = [kept |-> more, index |-> numbers]
    BY <1>4 DEF Merge
  <2>2. /\ more \in Seq(T \cup {d}) /\ Len(more) = Len(kept) + 1
        /\ more[Len(kept) + 1] = d
        /\ \A j \in 1 .. Len(kept) : more[j] = kept[j]
    <3> DEFINE U == T \cup {d}
    <3>1. kept \in Seq(U) /\ d \in U
      BY <1>1, SeqMonotonic
    <3> HIDE DEF U, kept, d
    <3>2. /\ more \in Seq(U) /\ Len(more) = Len(kept) + 1
          /\ more[Len(kept) + 1] = d
          /\ \A j \in 1 .. Len(kept) : more[j] = kept[j]
      BY <3>1, AppendProperties
    <3> QED BY <3>2 DEF U
  <2>3. /\ numbers \in Seq(Nat) /\ Len(numbers) = k /\ numbers[k] = Len(kept)
        /\ \A i \in 1 .. k - 1 : numbers[i] = index[i]
    BY <1>2, <1>3
  <2> HIDE DEF more, numbers, d, kept, index, equal
  <2>4. \A i \in 1 .. k : numbers[i] \in 0 .. Len(more) - 1 /\ more[numbers[i] + 1] = given[i]
    <3> TAKE i \in 1 .. k
    <3>1. CASE i = k
      BY <1>2, <2>2, <2>3, <3>1 DEF d
    <3>2. CASE i # k
      <4>1. i \in 1 .. k - 1
        BY <3>2
      <4>2. index[i] \in 0 .. Len(kept) - 1 /\ kept[index[i] + 1] = given[i] /\ numbers[i] = index[i]
        BY <1>2, <2>3, <4>1
      <4>3. index[i] \in 0 .. Len(more) - 1 /\ index[i] + 1 \in 1 .. Len(kept)
        BY <1>2, <2>2, <4>2
      <4>4. more[index[i] + 1] = kept[index[i] + 1]
        BY <2>2, <4>3
      <4> QED BY <4>2, <4>3, <4>4
    <3> QED BY <3>1, <3>2
  <2>5. \A j \in 1 .. Len(more) : \E i \in 1 .. k : more[j] = given[i]
    <3> TAKE j \in 1 .. Len(more)
    <3>1. CASE j = Len(kept) + 1
      BY <2>2, <3>1 DEF d
    <3>2. CASE j # Len(kept) + 1
      <4>1. j \in 1 .. Len(kept)
        BY <1>2, <2>2, <3>2
      <4>2. PICK i \in 1 .. k - 1 : kept[j] = given[i]
        BY <1>2, <4>1
      <4>3. i \in 1 .. k
        OBVIOUS
      <4> QED BY <2>2, <4>1, <4>2, <4>3
    <3> QED BY <3>1, <3>2
  <2> DEFINE result == [kept |-> more, index |-> numbers]
  <2>6. result.kept = more /\ result.index = numbers
    OBVIOUS
  <2>7. result = [kept |-> result.kept, index |-> result.index]
    OBVIOUS
  <2> HIDE DEF result
  <2>8. MergeKeeps(given, k, result)
    <3>1. \E U : result.kept \in Seq(U)
      BY <2>2, <2>6, Zenon
    <3>2. \A i \in 1 .. k : result.index[i] \in 0 .. Len(result.kept) - 1
                           /\ result.kept[result.index[i] + 1] = given[i]
      BY <2>4, <2>6, Zenon
    <3>3. \A j \in 1 .. Len(result.kept) : \E i \in 1 .. k : result.kept[j] = given[i]
      BY <2>5, <2>6, Zenon
    <3> QED BY <2>3, <2>6, <2>7, <3>1, <3>2, <3>3, Zenon DEF MergeKeeps
  <2> QED BY <2>1, <2>8 DEF result, d
<1>5. CASE equal # {}
  <2> DEFINE least == Min(equal)
             numbers == Append(index, least - 1)
  <2>1. equal \in SUBSET Nat
    BY <1>2
  <2>2. \E i \in equal : \A j \in equal : i <= j
    <3> HIDE DEF equal
    <3> QED BY <1>5, <2>1, Merging!Least
  <2>3. least \in equal
    <3> HIDE DEF equal
    <3> QED BY <2>2, Zenon DEF Min
  <2>4. least \in 1 .. Len(kept) /\ kept[least] = d
    BY <1>2, <2>3
  <2>5. Merge(acc, d) = [acc EXCEPT !.index = numbers]
    BY <1>5 DEF Merge
  <2>6. least - 1 \in Nat /\ least - 1 \in 0 .. Len(kept) - 1 /\ (least - 1) + 1 = least
    <3> HIDE DEF least
    <3> QED BY <1>2, <2>4
  <2>7. /\ numbers \in Seq(Nat) /\ Len(numbers) = k /\ numbers[k] = least - 1
        /\ \A i \in 1 .. k - 1 : numbers[i] = index[i]
    BY <1>3, <2>6
  <2> DEFINE result == [acc EXCEPT !.index = numbers]
  <2>8. acc = [kept |-> kept, index |-> index]
    BY DEF MergeKeeps
  <2>9. result.kept = kept /\ result.index = numbers
        /\ result = [kept |-> result.kept, index |-> result.index]
    <3> HIDE DEF kept, index, numbers
    <3> QED BY <2>8
  <2> HIDE DEF result, numbers, least, d, kept, index, equal
  <2>10. \A i \in 1 .. k : numbers[i] \in 0 .. Len(kept) - 1 /\ kept[numbers[i] + 1] = given[i]
    <3> TAKE i \in 1 .. k
    <3>1. CASE i = k
      BY <2>4, <2>6, <2>7, <3>1 DEF d
    <3>2. CASE i # k
      <4>1. i \in 1 .. k - 1
        BY <3>2
      <4> QED BY <1>2, <2>7, <4>1
    <3> QED BY <3>1, <3>2
  <2>11. \A j \in 1 .. Len(kept) : \E i \in 1 .. k : kept[j] = given[i]
    <3> TAKE j \in 1 .. Len(kept)
    <3>1. PICK i \in 1 .. k - 1 : kept[j] = given[i]
      BY <1>2
    <3>2. i \in 1 .. k
      OBVIOUS
    <3> QED BY <3>1, <3>2
  <2>12. MergeKeeps(given, k, result)
    BY <1>1, <2>7, <2>9, <2>10, <2>11 DEF MergeKeeps
  <2> QED BY <2>5, <2>12 DEF result, d
<1> QED BY <1>4, <1>5

\* All of them.
LEMMA MergedConstants ==
  ASSUME NEW C, constants \in Seq(C)
  PROVE  MergeKeeps(constants, Len(constants), Deduplicated)
<1> DEFINE n == Len(constants)
           base == [kept |-> <<>>, index |-> <<>>]
<1>1. n \in Nat /\ DOMAIN constants = 1 .. n
  OBVIOUS
<1>2. Deduplicated = Merging!Folded(constants, base, constants)
  BY Zenon DEF Deduplicated, MergeOp, FoldLeft, Merging!Folded, Merging!FoldLeft,
               MapThenFoldSet, Merging!MapThenFoldSet, Max, Merging!Max
<1>3. MergeKeeps(constants, 0, base)
  <2>1. base.kept = <<>> /\ base.index = <<>> /\ base = [kept |-> base.kept, index |-> base.index]
    OBVIOUS
  <2>2. <<>> \in Seq(Nat) /\ Len(<<>>) = 0
    OBVIOUS
  <2> HIDE DEF base
  <2> QED BY <2>1, <2>2 DEF MergeKeeps
<1>4. \A k \in 1 .. n : \A acc :
        MergeKeeps(constants, k - 1, acc) => MergeKeeps(constants, k, MergeOp(constants, acc, constants[k]))
  <2> SUFFICES ASSUME NEW k \in 1 .. n, NEW acc, MergeKeeps(constants, k - 1, acc)
               PROVE  MergeKeeps(constants, k, Merge(acc, constants[k]))
    BY DEF MergeOp
  <2>1. k \in Nat \ {0}
    BY <1>1
  <2> QED BY <2>1, MergeStep
<1>5. MergeKeeps(constants, n, Merging!Folded(constants, base, constants))
  <2> HIDE DEF n, base
  <2> QED BY <1>1, <1>3, <1>4, Merging!FoldLeftKeeps, Zenon
<1> QED BY <1>2, <1>5

\* Instructions with the new numbers of their constants.
LEMMA RenumberedInstruction ==
  ASSUME NEW instr, Shaped(instr), NEW index
  PROVE  /\ Shaped(Renumbered(instr, index)) /\ Renumbered(instr, index).op = instr.op
         /\ \A code : Leads(instr, code) => Leads(Renumbered(instr, index), code)
         /\ instr.op \in Loads => Renumbered(instr, index).index = index[instr.index + 1]
         /\ instr.op = "CLOSURE" =>
              /\ Renumbered(instr, index).function = index[instr.function + 1]
              /\ Renumbered(instr, index).upvalues = instr.upvalues
         /\ instr.op \notin Loads \cup {"CLOSURE"} => Renumbered(instr, index) = instr
<1>1. CASE instr.op \in Loads
  <2>1. Renumbered(instr, index) = [instr EXCEPT !.index = index[instr.index + 1]]
    BY <1>1 DEF Renumbered, Loads
  <2> QED BY <1>1, <2>1 DEF Shaped, Loads, Jumps, Leads
<1>2. CASE instr.op = "CLOSURE"
  <2>1. Renumbered(instr, index) = [instr EXCEPT !.function = index[instr.function + 1]]
    BY <1>2 DEF Renumbered
  <2> QED BY <1>2, <2>1 DEF Shaped, Loads, Jumps, Leads
<1>3. CASE instr.op \notin Loads \cup {"CLOSURE"}
  BY <1>3 DEF Renumbered, Loads
<1> QED BY <1>1, <1>2, <1>3

\* They name the same constants as before, so they fit.
LEMMA RenumberedFits ==
  ASSUME NEW p, NEW q, NEW index, NEW signature, NEW cells, NEW instr, Shaped(instr),
         \A i \in DOMAIN p.constants :
           index[i + 1] \in DOMAIN q.constants /\ q.constants[index[i + 1]] = p.constants[i],
         OperandsFit(p, signature, cells, instr),
         instr.op = "CLOSURE" => instr.function \in Templates(p)
  PROVE  /\ OperandsFit(q, signature, cells, Renumbered(instr, index))
         /\ instr.op = "CLOSURE" => Renumbered(instr, index).function \in Templates(q)
         /\ \A c : Makes(p, c, instr) => Makes(q, c, Renumbered(instr, index))
<1> DEFINE new == Renumbered(instr, index)
<1>1. /\ new.op = instr.op
      /\ instr.op \in Loads => new.index = index[instr.index + 1]
      /\ instr.op = "CLOSURE" => new.function = index[instr.function + 1] /\ new.upvalues = instr.upvalues
      /\ instr.op \notin Loads \cup {"CLOSURE"} => new = instr
  BY RenumberedInstruction
<1> HIDE DEF new
<1>2. CASE instr.op = "CONSTANT"
  <2>1. instr.index \in Loadable(p, signature)
    BY <1>2 DEF OperandsFit
  <2>2. new.index \in Loadable(q, signature)
    BY <1>1, <1>2, <2>1 DEF Loadable, Templates, CellsOf, Loads
  <2>3. OperandsFit(q, signature, cells, new)
    BY <1>1, <1>2, <2>2 DEF OperandsFit, CompareOps
  <2> QED BY <1>2, <2>3 DEF new, Makes
<1>3. CASE instr.op \in {"GET_GLOBAL", "SET_GLOBAL"}
  <2>1. instr.index \in DOMAIN p.constants
    BY <1>3 DEF OperandsFit
  <2>2. new.index \in DOMAIN q.constants
    BY <1>1, <1>3, <2>1 DEF Loads
  <2>3. OperandsFit(q, signature, cells, new)
    BY <1>1, <1>3, <2>2 DEF OperandsFit, CompareOps
  <2> QED BY <1>3, <2>3 DEF new, Makes
<1>4. CASE instr.op = "CLOSURE"
  <2>1. /\ instr.function \in DOMAIN p.constants /\ instr.function \in Templates(p)
        /\ instr.upvalues \in Seq([local : BOOLEAN, index : Nat])
        /\ \A i \in DOMAIN instr.upvalues : instr.upvalues[i].local \/ instr.upvalues[i].index < cells
        /\ Len(instr.upvalues) = CellsOf(p, signature, instr.function)
    BY <1>4 DEF OperandsFit
  <2>2. /\ new.function \in DOMAIN q.constants
        /\ q.constants[new.function] = p.constants[instr.function]
    BY <1>1, <1>4, <2>1
  <2>3. new.function \in Templates(q) /\ CellsOf(q, signature, new.function) = CellsOf(p, signature, instr.function)
    BY <2>1, <2>2 DEF Templates, CellsOf
  <2>4. OperandsFit(q, signature, cells, new)
    BY <1>1, <1>4, <2>1, <2>2, <2>3 DEF OperandsFit, CompareOps
  <2>5. \A c : Makes(p, c, instr) => Makes(q, c, new)
    BY <1>1, <1>4, <2>2 DEF Makes
  <2> QED BY <2>3, <2>4, <2>5 DEF new
<1>5. CASE instr.op \notin Loads \cup {"CLOSURE"}
  <2>1. OperandsFit(q, signature, cells, instr)
    BY <1>5 DEF OperandsFit, Loads
  <2> QED BY <1>1, <1>5, <2>1 DEF new, Makes
<1> QED BY <1>2, <1>3, <1>4, <1>5 DEF Loads

\* Equal constants are merged between two passes, and execution stays inside the code.
LEMMA MergedCode ==
  ASSUME Inv, next = 0, fresh = <<>>, offsets = <<>>, chain = <<>>, Deduplicate
  PROVE  Inv'
<1>1. PICK S : chunks \in Seq(Seq(S)) /\ \A instr \in S : Shaped(instr)
  BY DEF Inv, Typed
<1> DEFINE index == Deduplicated.index
           New(c) == [i \in DOMAIN chunks[c] |-> Renumbered(chunks[c][i], index)]
           T == {Renumbered(instr, index) : instr \in S}
<1>2. /\ chunks' = [c \in DOMAIN chunks |-> New(c)]
      /\ UNCHANGED <<current, next, fresh, offsets, chain>>
  BY DEF Deduplicate
<1>3. \A instr \in T : Shaped(instr)
  BY <1>1, RenumberedInstruction
<1>4. ASSUME NEW c \in DOMAIN chunks
      PROVE  /\ New(c) \in Seq(T) /\ Contained(New(c)) /\ Len(New(c)) \in Nat \ {0}
             /\ DOMAIN New(c) = DOMAIN chunks[c]
  <2> DEFINE code == chunks[c]
  <2>1. code \in Seq(S) /\ Len(code) \in Nat /\ DOMAIN code = 1 .. Len(code)
    BY <1>1
  <2>2. Contained(code)
    BY DEF Inv, StaysInCode
  <2>3. New(c) \in [1 .. Len(code) -> T]
    BY <2>1
  <2>4. \A i \in 1 .. Len(code) : New(c)[i] = Renumbered(code[i], index) /\ code[i] \in S
    BY <2>1
  <2> DEFINE new == New(c)
  <2> HIDE DEF New, T, new, code
  <2>5. new \in Seq(T) /\ Len(new) = Len(code) /\ DOMAIN new = 1 .. Len(code)
    BY <2>1, <2>3 DEF new
  <2>6. Len(code) # 0
    BY <2>1, <2>2, EmptySeq DEF Contained
  <2>7. \A i \in 1 .. Len(code) : new[i].op = code[i].op /\ Leads(new[i], code)
    <3> TAKE i \in 1 .. Len(code)
    <3>1. Shaped(code[i]) /\ Leads(code[i], code)
      BY <1>1, <2>1, <2>2, <2>4 DEF Contained
    <3>2. Renumbered(code[i], index).op = code[i].op /\ Leads(Renumbered(code[i], index), code)
      BY <3>1, RenumberedInstruction, Zenon
    <3> QED BY <2>4, <3>2 DEF new
  <2>8. \A i \in 1 .. Len(code) : Leads(new[i], new)
    BY <2>5, <2>7 DEF Leads
  <2>9. Contained(new)
    BY <2>1, <2>2, <2>5, <2>6, <2>7, <2>8, EmptySeq DEF Contained
  <2> QED BY <2>1, <2>5, <2>6, <2>9 DEF new, code
<1> HIDE DEF New, T
<1>5. /\ chunks' \in Seq(Seq(T)) /\ Len(chunks') = Len(chunks) /\ DOMAIN chunks' = DOMAIN chunks
      /\ \A c \in DOMAIN chunks : chunks'[c] = New(c)
  <2>1. Len(chunks) \in Nat /\ DOMAIN chunks = 1 .. Len(chunks)
    BY <1>1
  <2>2. chunks' \in [1 .. Len(chunks) -> Seq(T)]
    BY <1>2, <1>4, <2>1
  <2>3. chunks' \in Seq(Seq(T)) /\ Len(chunks') = Len(chunks)
    BY <2>1, <2>2
  <2> QED BY <1>2, <2>1, <2>3
<1>6. Typed'
  BY <1>2, <1>3, <1>5, EmptySeq DEF Typed
<1>7. StaysInCode'
  BY <1>4, <1>5 DEF StaysInCode
<1>8. current \in DOMAIN chunks /\ current \in 1 .. Len(chunks)
  BY <1>1 DEF Inv, PassInv
<1>9. Len(Scanned') \in Nat \ {0}
  BY <1>2, <1>4, <1>5, <1>8 DEF Scanned
<1>10. PassInv' /\ ChainInv'
  BY <1>2, <1>5, <1>8, <1>9, EmptySeq DEF PassInv, ChainInv
<1> QED BY <1>6, <1>7, <1>10 DEF Inv

\* Instructions go on to name what they named.
LEMMA MergedFits ==
  ASSUME Inv, NEW signature, Fitting(signature), next = 0, fresh = <<>>, Deduplicate
  PROVE  Fitting(signature)'
<1>1. PICK S : chunks \in Seq(Seq(S)) /\ \A instr \in S : Shaped(instr)
  BY DEF Inv, Typed
<1>2. PICK C : constants \in Seq(C)
  BY DEF Fitting
<1> DEFINE index == Deduplicated.index
           kept == Deduplicated.kept
           p == Bytecode
           q == Bytecode'
<1>3. /\ chunks' = [c \in DOMAIN chunks |->
                      [i \in DOMAIN chunks[c] |-> Renumbered(chunks[c][i], index)]]
      /\ constants' = kept
      /\ UNCHANGED <<current, next, fresh>>
  BY DEF Deduplicate
<1>4. MergeKeeps(constants, Len(constants), Deduplicated)
  BY <1>2, MergedConstants
<1>5. PICK D : kept \in Seq(D)
  BY <1>4 DEF MergeKeeps
<1>6. /\ \A i \in 1 .. Len(constants) : index[i] \in 0 .. Len(kept) - 1
                                        /\ kept[index[i] + 1] = constants[i]
      /\ \A j \in 1 .. Len(kept) : \E i \in 1 .. Len(constants) : kept[j] = constants[i]
  BY <1>4 DEF MergeKeeps
<1> HIDE DEF index, kept
<1>7. /\ DOMAIN p.constants = 0 .. Len(constants) - 1
      /\ \A i \in DOMAIN p.constants : i + 1 \in 1 .. Len(constants) /\ p.constants[i] = constants[i + 1]
      /\ Len(constants) \in Nat /\ DOMAIN constants = 1 .. Len(constants)
  BY <1>2, Numbering
<1>8. q.constants = [i \in 0 .. Len(kept) - 1 |-> kept[i + 1]]
  BY <1>3 DEF Bytecode
<1>9. \A i \in DOMAIN p.constants :
        index[i + 1] \in DOMAIN q.constants /\ q.constants[index[i + 1]] = p.constants[i]
  <2> TAKE i \in DOMAIN p.constants
  <2>1. index[i + 1] \in 0 .. Len(kept) - 1 /\ kept[index[i + 1] + 1] = constants[i + 1]
    BY <1>6, <1>7
  <2> QED BY <1>7, <1>8, <2>1
<1>10. /\ DOMAIN chunks' = DOMAIN chunks
       /\ \A c \in DOMAIN chunks :
            /\ DOMAIN chunks'[c] = DOMAIN chunks[c]
            /\ \A i \in DOMAIN chunks[c] :
                 chunks'[c][i] = Renumbered(chunks[c][i], index) /\ Shaped(chunks[c][i])
  BY <1>1, <1>3
<1> HIDE DEF p, q
<1>11. ASSUME NEW c \in DOMAIN chunks, NEW i \in DOMAIN chunks[c]
       PROVE  /\ Operands(signature, c, chunks[c][i])'
              /\ \A d : Makes(p, d, chunks[c][i]) => Makes(q, d, chunks'[c][i])
  <2> DEFINE instr == chunks[c][i]
             new == Renumbered(instr, index)
  <2>1. Shaped(instr) /\ Operands(signature, c, instr) /\ chunks'[c][i] = new
    BY <1>10 DEF Fitting
  <2> HIDE DEF instr
  <2>2. OperandsFit(p, signature, signature[c].cells, instr)
        /\ (instr.op = "CLOSURE" => instr.function \in Templates(p))
    BY <2>1 DEF Operands, p
  <2>3. /\ OperandsFit(q, signature, signature[c].cells, new)
        /\ instr.op = "CLOSURE" => new.function \in Templates(q)
        /\ \A d : Makes(p, d, instr) => Makes(q, d, new)
    BY <1>9, <2>1, <2>2, RenumberedFits
  <2>4. new.op = instr.op
    BY <2>1, RenumberedInstruction
  <2> HIDE DEF new
  <2>5. /\ OperandsFit(q, signature, signature[c].cells, chunks'[c][i])
        /\ chunks'[c][i].op = "CLOSURE" => chunks'[c][i].function \in Templates(q)
    BY <2>1, <2>3, <2>4
  <2> QED BY <2>1, <2>3, <2>5 DEF Operands, q, instr
<1>12. \A i \in DOMAIN constants' : ConstantFits(signature, constants'[i])
  <2> SUFFICES ASSUME NEW j \in 1 .. Len(kept) PROVE ConstantFits(signature, kept[j])
    BY <1>3, <1>5
  <2> QED BY <1>6, <1>7 DEF Fitting
<1>13. \A c \in DOMAIN chunks' :
         \/ signature[c].cells = 0
         \/ \E b \in DOMAIN chunks' : \E i \in DOMAIN chunks'[b] : Makes(Bytecode, c, chunks[b][i])'
  <2> SUFFICES ASSUME NEW c \in DOMAIN chunks, signature[c].cells # 0
               PROVE  \E b \in DOMAIN chunks' : \E i \in DOMAIN chunks'[b] :
                        Makes(Bytecode, c, chunks[b][i])'
    BY <1>10
  <2>1. PICK b \in DOMAIN chunks : \E i \in DOMAIN chunks[b] : Makes(p, c, chunks[b][i])
    BY DEF Fitting, p
  <2>2. PICK i \in DOMAIN chunks[b] : Makes(p, c, chunks[b][i])
    BY <2>1
  <2>3. Makes(q, c, chunks'[b][i])
    BY <1>11, <2>2
  <2> QED BY <1>10, <2>3 DEF q
<1>14. DOMAIN fresh' = {} /\ Len(fresh') <= next' /\ 1 .. next' = {}
  BY <1>3
<1>15. \E E : constants' \in Seq(E)
  BY <1>3, <1>5
<1>16. \A c \in DOMAIN chunks' : \A i \in DOMAIN chunks'[c] : Operands(signature, c, chunks[c][i])'
  BY <1>10, <1>11
<1> QED BY <1>10, <1>12, <1>13, <1>14, <1>15, <1>16 DEF Fitting

----------------------------------------------------------------------------
(* Compilation *)

\* Code and constants whose instructions name only what there is, in a shape that says
\* how many parameters and cells the function of every chunk has.
Sound(code, pool, shape) ==
  LET p == [chunks |-> code, constants |-> [i \in 0 .. Len(pool) - 1 |-> pool[i + 1]]]
  IN  /\ code # <<>> /\ DOMAIN shape = DOMAIN code
      /\ \E S : code \in Seq(Seq(S)) /\ \A instr \in S : Shaped(instr)
      /\ \E C : pool \in Seq(C)
      /\ \A c \in DOMAIN shape : shape[c].arity \in Nat /\ shape[c].cells \in Nat
      /\ shape[1].arity = 0 /\ shape[1].cells = 0
      /\ \A i \in DOMAIN pool : ConstantFits(shape, pool[i])
      /\ \A c \in DOMAIN code :
           /\ Contained(code[c])
           /\ \A i \in DOMAIN code[c] :
                /\ OperandsFit(p, shape, shape[c].cells, code[c][i])
                /\ code[c][i].op = "CLOSURE" => code[c][i].function \in Templates(p)
           /\ \/ shape[c].cells = 0
              \/ \E b \in DOMAIN code : \E i \in DOMAIN code[b] : Makes(p, c, code[b][i])

\* The premise: the pass over the tree makes such code.
CompilerSound ==
  \A name \in DOMAIN Sources :
    LET made == CompileTree(Sources[name].tree)
    IN  ~made.error => \E shape : Sound(made.chunks, made.constants, shape)

\* Before Compile there is no code; afterwards there is, and what the optimizer keeps
\* holds of it.  Nothing is left of a pass when the optimizer is not at work.
CompilationInv ==
  /\ phase \in Phases /\ source \in DOMAIN Sources
  /\ phase \in {"parsed", "rejected"} => chunks = <<>> /\ OptimizerInit
  /\ phase \notin {"parsed", "rejected"} => Inv /\ \E shape : Fitting(shape)
  /\ phase \in {"optimized", "done"} => next = 0 /\ fresh = <<>> /\ offsets = <<>>
  /\ phase # "optimizing" => chain = <<>>

\* What Compile hands over is the start of a pass.
LEMMA CompiledStart ==
  ASSUME OptimizerInit', NEW shape, Sound(chunks', constants', shape)
  PROVE  Inv' /\ Fitting(shape)'
<1> DEFINE p == [chunks |-> chunks',
                 constants |-> [i \in 0 .. Len(constants') - 1 |-> constants'[i + 1]]]
<1>1. p = Bytecode'
  BY DEF Bytecode
<1>2. PICK S : chunks' \in Seq(Seq(S)) /\ \A instr \in S : Shaped(instr)
  BY DEF Sound
<1>3. chunks' # <<>> /\ Len(chunks') \in Nat \ {0} /\ DOMAIN chunks' = 1 .. Len(chunks')
  BY <1>2, EmptySeq DEF Sound
<1>4. current' = 1 /\ next' = 0 /\ fresh' = <<>> /\ offsets' = <<>> /\ chain' = <<>>
  BY DEF OptimizerInit
<1>5. StaysInCode'
  BY DEF Sound, StaysInCode
<1>6. Typed'
  BY <1>2, <1>4, EmptySeq DEF Typed
<1>7. Len(Scanned') \in Nat \ {0}
  <2>1. Scanned' = chunks'[1] /\ chunks'[1] \in Seq(S) /\ 1 \in DOMAIN chunks'
    BY <1>2, <1>3, <1>4 DEF Scanned
  <2>2. chunks'[1] # <<>>
    BY <1>5, <2>1 DEF StaysInCode, Contained
  <2> QED BY <2>1, <2>2, EmptySeq
<1>8. PassInv' /\ ChainInv'
  BY <1>3, <1>4, <1>7, EmptySeq DEF PassInv, ChainInv
<1>9. \A c \in DOMAIN chunks' : \A i \in DOMAIN chunks'[c] : Operands(shape, c, chunks[c][i])'
  <2> SUFFICES ASSUME NEW c \in DOMAIN chunks', NEW i \in DOMAIN chunks'[c]
               PROVE  Operands(shape, c, chunks[c][i])'
    OBVIOUS
  <2>1. /\ OperandsFit(p, shape, shape[c].cells, chunks'[c][i])
        /\ chunks'[c][i].op = "CLOSURE" => chunks'[c][i].function \in Templates(p)
    BY DEF Sound
  <2> QED BY <1>1, <2>1 DEF Operands
<1>10. \A c \in DOMAIN chunks' :
         \/ shape[c].cells = 0
         \/ \E b \in DOMAIN chunks' : \E i \in DOMAIN chunks'[b] : Makes(Bytecode, c, chunks[b][i])'
  <2> SUFFICES ASSUME NEW c \in DOMAIN chunks', shape[c].cells # 0
               PROVE  \E b \in DOMAIN chunks' : \E i \in DOMAIN chunks'[b] :
                        Makes(Bytecode, c, chunks[b][i])'
    OBVIOUS
  <2>1. PICK b \in DOMAIN chunks' : \E i \in DOMAIN chunks'[b] : Makes(p, c, chunks'[b][i])
    BY DEF Sound
  <2> QED BY <1>1, <2>1
<1>11. DOMAIN fresh' = {} /\ Len(fresh') <= next' /\ 1 .. next' = {}
  BY <1>4
<1>12. Fitting(shape)'
  BY <1>9, <1>10, <1>11 DEF Fitting, Sound
<1> QED BY <1>5, <1>6, <1>8, <1>12 DEF Inv

\* The invariant holds before Compile.
LEMMA CompilationStarts == Init => CompilationInv
BY DEF Init, CompilationInv, Phases, OptimizerInit

\* Every step keeps it.
LEMMA CompilationStep ==
  ASSUME CompilerSound, CompilationInv, [Next]_vars
  PROVE  CompilationInv'
<1>1. CASE Compile
  <2>1. phase = "parsed" /\ chunks = <<>> /\ OptimizerInit /\ OptimizerInit' /\ source' = source
    BY <1>1 DEF Compile, CompilationInv, OptimizerInit
  <2> DEFINE compiled == CompileTree(Sources[source].tree)
  <2>2. CASE compiled.error
    BY <1>1, <2>1, <2>2 DEF Compile, CompilationInv, Phases, OptimizerInit
  <2>3. CASE ~compiled.error
    <3>1. phase' = "optimizing" /\ chunks' = compiled.chunks /\ constants' = compiled.constants
      BY <1>1, <2>3 DEF Compile
    <3>2. PICK shape : Sound(chunks', constants', shape)
      BY <2>3, <3>1 DEF CompilerSound, CompilationInv
    <3>3. Inv' /\ Fitting(shape)'
      BY <2>1, <3>2, CompiledStart
    <3> QED BY <2>1, <3>1, <3>3 DEF CompilationInv, Phases
  <2> QED BY <2>2, <2>3
<1>2. CASE Optimization
  <2>1. Optimize /\ source' = source
    BY <1>2 DEF Optimization, Optimize
  <2>2. phase = "optimizing"
    BY <2>1 DEF CompilationInv, Optimize, Round, PopZero, ZeroJump, MergePops, UnaryFold,
                UnaryFoldThrows, ConstJumpIfTaken, ConstJumpIfNotTaken, BinaryFold, Copy,
                FollowChain, Hop, EndChain, ShorterPass, LastPass, PassEnds, Scanning
  <2>3. PICK shape : Inv /\ Fitting(shape)
    BY <2>2 DEF CompilationInv
  <2>4. Inv' /\ Fitting(shape)'
    BY <2>1, <2>3, OptimizerStep, FittingStep
  <2>5. CASE LastPass
    <3>1. chain = <<>>
      <4>1. next = Len(Scanned) /\ Len(Scanned) \in Nat
        BY <2>3, <2>5, ScannedCode DEF LastPass, PassEnds
      <4> QED BY <2>3, <4>1 DEF Inv, ChainInv
    <3>2. /\ phase' \in {"optimizing", "optimized"} /\ chain' = <<>>
          /\ next' = 0 /\ fresh' = <<>> /\ offsets' = <<>>
      BY <2>2, <2>5, <3>1 DEF LastPass, NextPass
    <3> QED BY <2>1, <2>4, <3>2 DEF CompilationInv, Phases
  <2>6. CASE UnaryFoldThrows
    <3>1. phase' = "thrown" /\ chain' = <<>>
      BY <2>6 DEF UnaryFoldThrows, Scanning
    <3> QED BY <2>1, <2>4, <3>1 DEF CompilationInv, Phases
  <2>7. CASE ~LastPass /\ ~UnaryFoldThrows
    <3>1. phase' = "optimizing"
      BY <2>1, <2>2, <2>7
         DEF Optimize, Round, PopZero, ZeroJump, MergePops, UnaryFold, Fold, Replace,
             ConstJumpIfTaken, ConstJumpIfNotTaken, BinaryFold, Copy, FollowChain, Hop,
             EndChain, ShorterPass
    <3> QED BY <2>1, <2>4, <3>1 DEF CompilationInv, Phases
  <2> QED BY <2>5, <2>6, <2>7
<1>3. CASE Deduplicate
  <2>1. /\ phase = "optimized" /\ phase' = "done"
        /\ UNCHANGED <<source, current, next, fresh, offsets, chain>>
    BY <1>3 DEF Deduplicate
  <2>2. /\ Inv /\ next = 0 /\ fresh = <<>> /\ offsets = <<>> /\ chain = <<>>
        /\ \E shape : Fitting(shape)
    BY <2>1 DEF CompilationInv
  <2>3. PICK shape : Fitting(shape)
    BY <2>2
  <2>4. Inv'
    BY <1>3, <2>2, MergedCode
  <2>5. Fitting(shape)'
    BY <1>3, <2>2, <2>3, MergedFits
  <2> QED BY <2>1, <2>2, <2>4, <2>5 DEF CompilationInv, Phases
<1>4. CASE UNCHANGED vars
  <2>1. UNCHANGED optimizerVars /\ source' = source
    BY <1>4 DEF vars
  <2>2. UNCHANGED <<chunks, constants, current, next, fresh, offsets, chain, phase>>
    BY <2>1 DEF optimizerVars
  <2>3. Inv => Inv'
    BY <2>1, OptimizerStep
  <2>4. ASSUME NEW shape, Fitting(shape) PROVE Fitting(shape)'
    BY <2>2, <2>4 DEF Fitting, Operands, Bytecode, Scanned
  <2>5. (\E shape : Fitting(shape)) => \E shape : Fitting(shape)'
    BY <2>4
  <2> QED BY <2>1, <2>2, <2>3, <2>5 DEF CompilationInv, OptimizerInit
<1> QED BY <1>1, <1>2, <1>3, <1>4 DEF Next

\* How many cells the closures of a chunk hold.
LEMMA CellsCaptured ==
  ASSUME Inv, NEW shape, Fitting(shape), NEW c \in DOMAIN chunks
  PROVE  CapturedCells(Bytecode, c) = shape[c].cells
<1> DEFINE p == Bytecode
<1>1. PICK S : chunks \in Seq(Seq(S))
  BY DEF Inv, Typed
<1>2. p.chunks = chunks /\ c \in Nat
  BY <1>1 DEF Bytecode
<1>3. ASSUME NEW at \in Makers(p, c)
      PROVE  Len(p.chunks[at[1]][at[2]].upvalues) = shape[c].cells
  <2> DEFINE instr == p.chunks[at[1]][at[2]]
  <2>1. at[1] \in DOMAIN chunks /\ at[2] \in DOMAIN chunks[at[1]] /\ Makes(p, c, instr)
    BY <1>2 DEF Makers
  <2>2. Operands(shape, at[1], instr) /\ instr.op = "CLOSURE" /\ p.constants[instr.function][2].chunk = c - 1
    BY <1>2, <2>1 DEF Fitting, Makes
  <2>3. instr.function \in Templates(p) /\ Len(instr.upvalues) = CellsOf(p, shape, instr.function)
    BY <2>2 DEF Operands, OperandsFit
  <2>4. CellsOf(p, shape, instr.function) = shape[(c - 1) + 1].cells
    BY <2>2 DEF CellsOf
  <2>5. (c - 1) + 1 = c
    BY <1>2
  <2> QED BY <2>3, <2>4, <2>5
<1>4. ASSUME Makers(p, c) = {}
      PROVE  shape[c].cells = 0
  <2> SUFFICES ASSUME NEW b \in DOMAIN chunks, NEW i \in DOMAIN chunks[b], Makes(p, c, chunks[b][i])
               PROVE  <<b, i>> \in Makers(p, c)
    BY <1>4 DEF Fitting
  <2>1. <<b, i>> \in UNION {{d} \X DOMAIN p.chunks[d] : d \in DOMAIN p.chunks}
    BY <1>2
  <2> QED BY <1>2, <2>1 DEF Makers
<1> HIDE DEF p
<1>5. CapturedCells(p, c) = shape[c].cells
  <2>1. CASE Makers(p, c) = {}
    BY <1>4, <2>1 DEF CapturedCells
  <2>2. CASE Makers(p, c) # {}
    <3> DEFINE m == CHOOSE m \in Makers(p, c) : TRUE
    <3>1. m \in Makers(p, c)
      BY <2>2, Zenon
    <3>2. CapturedCells(p, c) = Len(p.chunks[m[1]][m[2]].upvalues)
      BY <2>2, Zenon DEF CapturedCells
    <3> HIDE DEF m
    <3> QED BY <1>3, <3>1, <3>2
  <2> QED BY <2>1, <2>2
<1> QED BY <1>5 DEF p

\* The invariant implies the three properties.
LEMMA CompilationImplies == CompilationInv => TypeOK /\ StaysInCode /\ UpvaluesResolved
<1> SUFFICES ASSUME CompilationInv PROVE TypeOK /\ StaysInCode /\ UpvaluesResolved
  OBVIOUS
<1>1. CASE phase \in {"parsed", "rejected"}
  BY <1>1 DEF CompilationInv, OptimizerInit, TypeOK, StaysInCode, UpvaluesResolved, Compiled
<1>2. CASE phase \notin {"parsed", "rejected"}
  <2>1. PICK shape : Inv /\ Fitting(shape)
    BY <1>2 DEF CompilationInv
  <2>2. StaysInCode
    BY <2>1 DEF Inv
  <2>3. TypeOK
    <3>1. /\ phase \in Phases /\ current \in 1 .. Len(chunks)
          /\ next = Len(offsets) /\ next \in 0 .. Len(Scanned) /\ Len(fresh) <= next
      BY <2>1 DEF CompilationInv, Inv, PassInv, Fitting
    <3>2. ASSUME NEW c \in DOMAIN chunks, NEW i \in DOMAIN chunks[c], chunks[c][i].op \in Loads
          PROVE  chunks[c][i].index \in 0 .. Len(constants) - 1
      <4>1. Operands(shape, c, chunks[c][i])
        BY <2>1 DEF Fitting
      <4>2. chunks[c][i].index \in DOMAIN Bytecode.constants
        BY <3>2, <4>1 DEF Operands, OperandsFit, Loadable, Loads
      <4> QED BY <2>1, <4>2, Numbering DEF Fitting
    <3> QED BY <3>1, <3>2 DEF TypeOK, Loads
  <2>4. UpvaluesResolved
    <3> SUFFICES ASSUME NEW c \in DOMAIN chunks, NEW i \in DOMAIN chunks[c]
                 PROVE  /\ chunks[c][i].op \in {"GET_UPVALUE", "SET_UPVALUE"} =>
                             chunks[c][i].index < CapturedCells(Bytecode, c)
                        /\ chunks[c][i].op = "CLOSURE" =>
                             \A u \in ToSet(chunks[c][i].upvalues) :
                               ~u.local => u.index < CapturedCells(Bytecode, c)
      BY DEF UpvaluesResolved
    <3>1. CapturedCells(Bytecode, c) = shape[c].cells
      BY <2>1, CellsCaptured
    <3>2. OperandsFit(Bytecode, shape, shape[c].cells, chunks[c][i]) /\ shape[c].cells \in Nat
      BY <2>1 DEF Fitting, Operands
    <3> QED BY <3>1, <3>2 DEF OperandsFit, ToSet
  <2> QED BY <2>2, <2>3, <2>4
<1> QED BY <1>1, <1>2

\* In whatever order the optimizer's rounds and passes come, the offsets of a pass are
\* those of the chunk it goes over, and an instruction names a constant that exists:
\* when constants are added while windows are folded, and when equal ones are merged.
THEOREM TypeCorrect == ASSUME CompilerSound PROVE Spec => []TypeOK
<1>1. CompilationInv /\ [Next]_vars => CompilationInv'
  BY CompilationStep
<1> QED BY <1>1, CompilationStarts, CompilationImplies, PTL DEF Spec

\* Execution cannot run out of a chunk, from Compile to the end.
THEOREM CompiledStaysInCode == ASSUME CompilerSound PROVE Spec => []StaysInCode
<1>1. CompilationInv /\ [Next]_vars => CompilationInv'
  BY CompilationStep
<1> QED BY <1>1, CompilationStarts, CompilationImplies, PTL DEF Spec

\* Every upvalue that an instruction names is one of its closures': no pass drops the
\* instruction that makes them, and merging the constants does not change the template
\* it names.
THEOREM UpvaluesCorrect == ASSUME CompilerSound PROVE Spec => []UpvaluesResolved
<1>1. CompilationInv /\ [Next]_vars => CompilationInv'
  BY CompilationStep
<1> QED BY <1>1, CompilationStarts, CompilationImplies, PTL DEF Spec

----------------------------------------------------------------------------
(* Heights: what one instruction asks for *)

\* Enough values for it, and the slots it names.
Enough(instr, n) ==
  /\ n \in Nat /\ Takes(instr) <= n
  /\ \A slot \in SlotsOf(instr) : slot < n - Reserves(instr)

\* The heights with which execution goes on behind it, and where it is led.
Behind(instr, n) ==
  CASE instr.op \in {"RETURN", "JUMP"} -> {}
    [] instr.op = "JUMP_IF" -> {IF instr.keep_stay THEN n ELSE n - Takes(instr)}
    [] OTHER -> {n - Takes(instr) + Leaves(instr)}
Led(instr, n) ==
  CASE instr.op = "JUMP" -> {<<instr.offset, n>>}
    [] instr.op = "JUMP_IF" ->
         {<<instr.offset, IF instr.keep_jump THEN n ELSE n - Takes(instr)>>}
    [] instr.op = "FOR_LOOP" -> {<<instr.body, n>>}
    [] OTHER -> {}

\* These are its successors.
LEMMA SuccessorsSplit ==
  ASSUME NEW code, NEW ip, NEW n
  PROVE  Successors(code, <<ip, n>>) =
           {<<ip + 1, m>> : m \in Behind(code[ip + 1], n)} \cup Led(code[ip + 1], n)
<1> DEFINE instr == code[ip + 1]
<1>1. CASE instr.op = "RETURN"
  BY <1>1 DEF Successors, Behind, Led
<1>2. CASE instr.op = "JUMP"
  BY <1>2 DEF Successors, Behind, Led
<1>3. CASE instr.op = "JUMP_IF"
  BY <1>3 DEF Successors, Behind, Led
<1>4. CASE instr.op = "FOR_LOOP"
  BY <1>4 DEF Successors, Behind, Led
<1>5. CASE instr.op \notin {"RETURN", "JUMP", "JUMP_IF", "FOR_LOOP"}
  BY <1>5 DEF Successors, Behind, Led
<1> QED BY <1>1, <1>2, <1>3, <1>4, <1>5

\* So heights fit at an offset when these are right.
LEMMA FitsSplit ==
  ASSUME NEW code, NEW heights, NEW ip
  PROVE  FitsAt(code, heights, ip) <=>
           /\ Enough(code[ip + 1], heights[ip])
           /\ \A m \in Behind(code[ip + 1], heights[ip]) :
                ip + 1 \in DOMAIN heights /\ heights[ip + 1] = m
           /\ \A at \in Led(code[ip + 1], heights[ip]) :
                at[1] \in DOMAIN heights /\ heights[at[1]] = at[2]
<1> DEFINE behind == {<<ip + 1, m>> : m \in Behind(code[ip + 1], heights[ip])}
           led == Led(code[ip + 1], heights[ip])
<1>1. Successors(code, <<ip, heights[ip]>>) = behind \cup led
  BY SuccessorsSplit
<1>2. (\A at \in behind : at[1] \in DOMAIN heights /\ heights[at[1]] = at[2]) <=>
      \A m \in Behind(code[ip + 1], heights[ip]) : ip + 1 \in DOMAIN heights /\ heights[ip + 1] = m
  <2>1. \A m : <<ip + 1, m>>[1] = ip + 1 /\ <<ip + 1, m>>[2] = m
    OBVIOUS
  <2> QED BY <2>1
<1> HIDE DEF behind, led
<1>3. (\A at \in Successors(code, <<ip, heights[ip]>>) :
         at[1] \in DOMAIN heights /\ heights[at[1]] = at[2]) <=>
      /\ \A at \in behind : at[1] \in DOMAIN heights /\ heights[at[1]] = at[2]
      /\ \A at \in led : at[1] \in DOMAIN heights /\ heights[at[1]] = at[2]
  BY <1>1, Zenon
<1> QED BY <1>2, <1>3, Zenon DEF FitsAt, Enough, led

\* Instructions with a new target ask for what they asked for, and lead there.
LEMMA Retargeted ==
  ASSUME NEW instr, Shaped(instr), NEW to, NEW n
  PROVE  /\ instr.op \in Jumps =>
              LET new == [instr EXCEPT !.offset = to]
              IN  /\ Enough(new, n) <=> Enough(instr, n)
                  /\ Behind(new, n) = Behind(instr, n)
                  /\ Led(new, n) = {<<to, at[2]>> : at \in Led(instr, n)}
         /\ instr.op = "FOR_LOOP" =>
              LET new == [instr EXCEPT !.body = to]
              IN  /\ Enough(new, n) <=> Enough(instr, n)
                  /\ Behind(new, n) = Behind(instr, n)
                  /\ Led(new, n) = {<<to, at[2]>> : at \in Led(instr, n)}
<1>1. ASSUME instr.op = "JUMP"
      PROVE  LET new == [instr EXCEPT !.offset = to]
             IN  /\ Enough(new, n) <=> Enough(instr, n)
                 /\ Behind(new, n) = Behind(instr, n)
                 /\ Led(new, n) = {<<to, at[2]>> : at \in Led(instr, n)}
  <2> DEFINE new == [instr EXCEPT !.offset = to]
  <2>1. new.op = "JUMP" /\ new.offset = to
    BY <1>1 DEF Shaped, Jumps
  <2> HIDE DEF new
  <2>2. Takes(new) = Takes(instr) /\ SlotsOf(new) = SlotsOf(instr) /\ Reserves(new) = Reserves(instr)
    BY <1>1, <2>1 DEF Takes, SlotsOf, Reserves, ArithmeticOps, CompareOps
  <2>3. Led(new, n) = {<<to, n>>} /\ Led(instr, n) = {<<instr.offset, n>>}
    BY <1>1, <2>1 DEF Led
  <2>4. Behind(new, n) = {} /\ Behind(instr, n) = {}
    BY <1>1, <2>1 DEF Behind
  <2> QED BY <2>2, <2>3, <2>4 DEF Enough, new
<1>2. ASSUME instr.op = "JUMP_IF"
      PROVE  LET new == [instr EXCEPT !.offset = to]
             IN  /\ Enough(new, n) <=> Enough(instr, n)
                 /\ Behind(new, n) = Behind(instr, n)
                 /\ Led(new, n) = {<<to, at[2]>> : at \in Led(instr, n)}
  <2> DEFINE new == [instr EXCEPT !.offset = to]
             after == IF instr.keep_jump THEN n ELSE n - 1
  <2>1. new.op = "JUMP_IF" /\ new.offset = to /\ new.keep_jump = instr.keep_jump
        /\ new.keep_stay = instr.keep_stay
    BY <1>2 DEF Shaped, Jumps
  <2> HIDE DEF new
  <2>2. Takes(new) = 1 /\ Takes(instr) = 1 /\ SlotsOf(new) = SlotsOf(instr)
        /\ Reserves(new) = Reserves(instr)
    BY <1>2, <2>1 DEF Takes, SlotsOf, Reserves, ArithmeticOps, CompareOps
  <2>3. Led(new, n) = {<<to, after>>} /\ Led(instr, n) = {<<instr.offset, after>>}
    BY <1>2, <2>1, <2>2 DEF Led
  <2>4. Behind(new, n) = Behind(instr, n)
    BY <1>2, <2>1, <2>2 DEF Behind
  <2> HIDE DEF after
  <2> QED BY <2>2, <2>3, <2>4 DEF Enough, new
<1>3. ASSUME instr.op = "FOR_LOOP"
      PROVE  LET new == [instr EXCEPT !.body = to]
             IN  /\ Enough(new, n) <=> Enough(instr, n)
                 /\ Behind(new, n) = Behind(instr, n)
                 /\ Led(new, n) = {<<to, at[2]>> : at \in Led(instr, n)}
  <2> DEFINE new == [instr EXCEPT !.body = to]
  <2>1. new.op = "FOR_LOOP" /\ new.body = to /\ new.control = instr.control
        /\ new.limit = instr.limit /\ new.step = instr.step
    BY <1>3 DEF Shaped
  <2> HIDE DEF new
  <2>2. Takes(new) = Takes(instr) /\ Leaves(new) = Leaves(instr) /\ SlotsOf(new) = SlotsOf(instr)
        /\ Reserves(new) = Reserves(instr)
    BY <1>3, <2>1 DEF Takes, Leaves, SlotsOf, Reserves, ArithmeticOps, CompareOps
  <2>3. Led(new, n) = {<<to, n>>} /\ Led(instr, n) = {<<instr.body, n>>}
    BY <1>3, <2>1 DEF Led
  <2>4. Behind(new, n) = Behind(instr, n)
    BY <1>3, <2>1, <2>2 DEF Behind
  <2> QED BY <2>2, <2>3, <2>4 DEF Enough, new
<1> QED BY <1>1, <1>2, <1>3 DEF Jumps

----------------------------------------------------------------------------
(* Heights: a pass under way *)

\* An instruction of the new code, at an offset with a height: it is followed by the
\* next one of the new code, and leads to where it led in the old code.
FitsAnew(old, new, k) ==
  LET instr == fresh[k + 1]
  IN  /\ Enough(instr, new[k])
      /\ \A m \in Behind(instr, new[k]) : k + 1 \in DOMAIN new /\ new[k + 1] = m
      /\ \A at \in Led(instr, new[k]) :
           at[1] \in Targets(Scanned) /\ at[1] \in DOMAIN old /\ old[at[1]] = at[2]

\* "old" and "new" are heights of the old and of the new code, which has got as far as
\* the old one up to "next".  Only the offsets of places matter of old_to_new.
PassFits(arity, old, new) ==
  /\ DOMAIN new \subseteq 0 .. Len(fresh)
  /\ 0 \in DOMAIN new /\ new[0] = arity
  /\ next \in DOMAIN old <=> Len(fresh) \in DOMAIN new
  /\ next \in DOMAIN old => new[Len(fresh)] = old[next]
  /\ \A to \in Places :
       to < next /\ to \in DOMAIN old =>
         offsets[to + 1] \in DOMAIN new /\ new[offsets[to + 1]] = old[to]
  /\ \A k \in DOMAIN new : k < Len(fresh) => FitsAnew(old, new, k)

\* A chain of jumps is followed at the height of its start.
ChainFits(old) ==
  chain # <<>> =>
    /\ chain[1] \in Targets(Scanned)
    /\ next \in DOMAIN old =>
         \A at \in Led(At(1), old[next]) : chain[1] \in DOMAIN old /\ old[chain[1]] = at[2]

\* The replacement of n instructions does what they did: nothing, or one instruction.
StandsFor(n, r, old) ==
  next \in DOMAIN old =>
    /\ r = <<>> => next + n \in DOMAIN old /\ old[next + n] = old[next]
    /\ \A instr : r = <<instr>> =>
         /\ Enough(instr, old[next])
         /\ \A m \in Behind(instr, old[next]) : next + n \in DOMAIN old /\ old[next + n] = m
         /\ \A at \in Led(instr, old[next]) :
              at[1] \in Targets(Scanned) /\ at[1] \in DOMAIN old /\ old[at[1]] = at[2]

\* Targets are offsets of the code.
LEMMA TargetsInside ==
  ASSUME Inv
  PROVE  Targets(Scanned) \subseteq 0 .. Len(Scanned) - 1
<1>1. PICK S : /\ Scanned \in Seq(S) /\ Len(Scanned) \in Nat
               /\ \A i \in 1 .. Len(Scanned) : Leads(Scanned[i], Scanned)
  BY ScannedCode
<1>2. \A i \in DOMAIN Scanned : Leads(Scanned[i], Scanned)
  BY <1>1
<1> QED BY <1>2 DEF Targets, Leads

\* The new code grows by the replacement.
LEMMA FreshGrows ==
  ASSUME Inv, NEW n, NEW r, NEW added, Replace(n, r, added), r = <<>> \/ \E instr : r = <<instr>>
  PROVE  Grown(fresh, r, fresh')
<1>1. PICK S : fresh \in Seq(S)
  BY DEF Inv, Typed
<1>2. Grown(fresh, r, fresh \o r)
  BY <1>1, OneMore
<1> QED BY <1>2 DEF Replace

\* The window is now where its replacement is.
LEMMA OffsetsGrow ==
  ASSUME Inv, NEW n \in 1 .. 3, NEW r, NEW added, Replace(n, r, added)
  PROVE  /\ next \in Nat /\ Len(offsets) = next
         /\ \A to \in 0 .. next - 1 :
              offsets'[to + 1] = offsets[to + 1] /\ offsets[to + 1] \in 0 .. Len(fresh)
         /\ \A to \in next .. next + n - 1 : offsets'[to + 1] = Len(fresh)
<1> DEFINE last == Len(fresh)
           moved == [j \in 1 .. n |-> last]
           U == 0 .. last
<1>0. last \in Nat
  BY DEF Inv, Typed
<1>1. offsets \in Seq(U) /\ Len(offsets) = next /\ next \in Nat
  BY ScannedCode DEF Inv, PassInv
<1>2. moved \in Seq(U) /\ Len(moved) = n /\ \A j \in 1 .. n : moved[j] = last
  <2>1. last \in U
    BY <1>0
  <2>2. moved \in [1 .. n -> U]
    BY <2>1
  <2> HIDE DEF U, last
  <2> QED BY <2>2
<1>3. offsets' = offsets \o moved
  BY DEF Replace
<1> HIDE DEF moved, U
<1>4. \A j \in 1 .. next + n :
        offsets'[j] = IF j <= next THEN offsets[j] ELSE moved[j - next]
  BY <1>1, <1>2, <1>3, ConcatProperties
<1>5. \A to \in 0 .. next - 1 : offsets'[to + 1] = offsets[to + 1] /\ offsets[to + 1] \in U
  <2> TAKE to \in 0 .. next - 1
  <2>1. to + 1 \in 1 .. next + n /\ to + 1 <= next /\ to + 1 \in 1 .. Len(offsets)
    BY <1>1
  <2> QED BY <1>1, <1>4, <2>1
<1>6. \A to \in next .. next + n - 1 : offsets'[to + 1] = last
  <2> TAKE to \in next .. next + n - 1
  <2>1. to + 1 \in 1 .. next + n /\ ~(to + 1 <= next) /\ (to + 1) - next \in 1 .. n
    BY <1>1
  <2> HIDE DEF last
  <2> QED BY <1>2, <1>4, <2>1
<1> QED BY <1>1, <1>5, <1>6 DEF U

\* A replacement of one instruction that does what its window did.
LEMMA WrittenHeights ==
  ASSUME Inv, NEW arity, NEW old, NEW new, PassFits(arity, old, new),
         NEW n \in 1 .. 3, NEW instr, NEW added, Replace(n, <<instr>>, added),
         StandsFor(n, <<instr>>, old), Places \cap Inside(n) = {},
         DOMAIN old \subseteq Nat, UNCHANGED marks
  PROVE  \E newer : PassFits(arity, old, newer)'
<1> DEFINE last == Len(fresh)
           more == IF next + n \in DOMAIN old THEN {last + 1} ELSE {}
           newer == [k \in DOMAIN new \cup more |-> IF k = last + 1 THEN old[next + n] ELSE new[k]]
<1>1. /\ last \in Nat /\ Len(fresh') = last + 1 /\ fresh'[last + 1] = instr
      /\ \A i \in 1 .. last : fresh'[i] = fresh[i]
      /\ Scanned' = Scanned /\ next' = next + n
  BY FreshGrows DEF Grown, Replace, Scanned
<1>2. /\ next \in Nat /\ Len(offsets) = next
      /\ \A to \in 0 .. next - 1 : offsets'[to + 1] = offsets[to + 1] /\ offsets[to + 1] \in 0 .. last
      /\ \A to \in next .. next + n - 1 : offsets'[to + 1] = last
  BY OffsetsGrow
<1>3. /\ DOMAIN new \subseteq 0 .. last
      /\ 0 \in DOMAIN new /\ new[0] = arity
      /\ next \in DOMAIN old <=> last \in DOMAIN new
      /\ next \in DOMAIN old => new[last] = old[next]
  BY DEF PassFits
<1>4. /\ DOMAIN newer = DOMAIN new \cup more
      /\ \A k \in DOMAIN new : newer[k] = new[k] /\ k # last + 1
      /\ next + n \in DOMAIN old => newer[last + 1] = old[next + n]
      /\ last + 1 \in DOMAIN newer <=> next + n \in DOMAIN old
      /\ DOMAIN newer \subseteq 0 .. last + 1
  BY <1>1, <1>3
<1> HIDE DEF newer, more
<1>5. /\ DOMAIN newer \subseteq 0 .. Len(fresh')
      /\ 0 \in DOMAIN newer /\ newer[0] = arity
      /\ next' \in DOMAIN old <=> Len(fresh') \in DOMAIN newer
      /\ next' \in DOMAIN old => newer[Len(fresh')] = old[next']
  BY <1>1, <1>3, <1>4
<1>6. ASSUME NEW to \in Places, to < next + n, to \in DOMAIN old
      PROVE  offsets'[to + 1] \in DOMAIN newer /\ newer[offsets'[to + 1]] = old[to]
  <2>1. to \in Nat
    BY <1>6
  <2>2. CASE to < next
    <3>1. offsets'[to + 1] = offsets[to + 1]
      BY <1>2, <2>1, <2>2
    <3>2. offsets[to + 1] \in DOMAIN new /\ new[offsets[to + 1]] = old[to]
      BY <1>6, <2>2 DEF PassFits
    <3> QED BY <1>4, <3>1, <3>2
  <2>3. CASE ~(to < next)
    <3>1. to = next
      <4> SUFFICES ASSUME to # next PROVE to \in Inside(n)
        OBVIOUS
      <4> QED BY <1>2, <1>6, <2>1, <2>3 DEF Inside
    <3>2. offsets'[to + 1] = last
      BY <1>2, <3>1
    <3> QED BY <1>3, <1>4, <1>6, <3>1, <3>2
  <2> QED BY <2>2, <2>3
<1>7. ASSUME NEW k \in DOMAIN newer, k < last + 1
      PROVE  /\ Enough(fresh'[k + 1], newer[k])
             /\ \A m \in Behind(fresh'[k + 1], newer[k]) : k + 1 \in DOMAIN newer /\ newer[k + 1] = m
             /\ \A at \in Led(fresh'[k + 1], newer[k]) :
                  at[1] \in Targets(Scanned) /\ at[1] \in DOMAIN old /\ old[at[1]] = at[2]
  <2>1. k \in DOMAIN new /\ newer[k] = new[k] /\ k \in 0 .. last
    <3>1. k \in DOMAIN new
      BY <1>1, <1>4, <1>7 DEF more
    <3> QED BY <1>3, <1>4, <3>1
  <2>2. CASE k < last
    <3>1. k + 1 \in 1 .. last /\ fresh'[k + 1] = fresh[k + 1]
      BY <1>1, <2>1, <2>2
    <3>2. FitsAnew(old, new, k)
      BY <2>1, <2>2 DEF PassFits
    <3>3. /\ Enough(fresh'[k + 1], newer[k])
          /\ \A m \in Behind(fresh'[k + 1], newer[k]) : k + 1 \in DOMAIN new /\ new[k + 1] = m
          /\ \A at \in Led(fresh'[k + 1], newer[k]) :
               at[1] \in Targets(Scanned) /\ at[1] \in DOMAIN old /\ old[at[1]] = at[2]
      BY <2>1, <3>1, <3>2, Zenon DEF FitsAnew
    <3> QED BY <1>4, <3>3
  <2>3. CASE ~(k < last)
    <3>1. k = last
      BY <1>1, <2>1, <2>3
    <3>2. next \in DOMAIN old /\ newer[k] = old[next] /\ fresh'[k + 1] = instr
      BY <1>1, <1>3, <2>1, <3>1
    <3>3. /\ Enough(instr, old[next])
          /\ \A m \in Behind(instr, old[next]) : next + n \in DOMAIN old /\ old[next + n] = m
          /\ \A at \in Led(instr, old[next]) :
               at[1] \in Targets(Scanned) /\ at[1] \in DOMAIN old /\ old[at[1]] = at[2]
      BY <3>2 DEF StandsFor
    <3> QED BY <1>4, <3>1, <3>2, <3>3
  <2> QED BY <2>2, <2>3
<1>8. PICK result : result = newer
  OBVIOUS
<1>9. Targets(Scanned)' = Targets(Scanned) /\ Places' = Places
  BY <1>1 DEF Targets, Places, Replace
<1>10. \A to \in Places' :
         to < next' /\ to \in DOMAIN old =>
           offsets'[to + 1] \in DOMAIN result /\ result[offsets'[to + 1]] = old[to]
  BY <1>1, <1>6, <1>8, <1>9
<1>11. \A k \in DOMAIN result : k < Len(fresh') => FitsAnew(old, result, k)'
  BY <1>1, <1>7, <1>8, <1>9 DEF FitsAnew
<1>12. PassFits(arity, old, result)'
  BY <1>5, <1>8, <1>10, <1>11 DEF PassFits
<1> QED BY <1>12

\* A window that is dropped and did nothing.  Where it could not be reached, what
\* follows it may still be.
LEMMA DroppedHeights ==
  ASSUME Inv, NEW arity, NEW old, NEW new, PassFits(arity, old, new),
         NEW n \in 1 .. 3, NEW added, Replace(n, <<>>, added),
         StandsFor(n, <<>>, old), Places \cap Inside(n) = {},
         DOMAIN old \subseteq Nat, UNCHANGED marks
  PROVE  \E newer : PassFits(arity, old, newer)'
<1> DEFINE last == Len(fresh)
           more == IF next + n \in DOMAIN old THEN {last} ELSE {}
           newer == [k \in DOMAIN new \cup more |-> IF k \in DOMAIN new THEN new[k] ELSE old[next + n]]
<1>1. last \in Nat /\ fresh' = fresh /\ Scanned' = Scanned /\ next' = next + n
  BY FreshGrows DEF Grown, Replace, Scanned
<1>2. /\ next \in Nat /\ Len(offsets) = next
      /\ \A to \in 0 .. next - 1 : offsets'[to + 1] = offsets[to + 1] /\ offsets[to + 1] \in 0 .. last
      /\ \A to \in next .. next + n - 1 : offsets'[to + 1] = last
  BY OffsetsGrow
<1>3. /\ DOMAIN new \subseteq 0 .. last
      /\ 0 \in DOMAIN new /\ new[0] = arity
      /\ next \in DOMAIN old <=> last \in DOMAIN new
      /\ next \in DOMAIN old => new[last] = old[next]
  BY DEF PassFits
<1>4. next \in DOMAIN old => next + n \in DOMAIN old /\ old[next + n] = old[next]
  BY DEF StandsFor
<1>5. /\ DOMAIN newer = DOMAIN new \cup more
      /\ \A k \in DOMAIN new : newer[k] = new[k]
      /\ next + n \in DOMAIN old => newer[last] = old[next + n]
      /\ last \in DOMAIN newer <=> next + n \in DOMAIN old
      /\ DOMAIN newer \subseteq 0 .. last
  BY <1>1, <1>3, <1>4
<1>6. \A k \in DOMAIN newer : k < last => k \in DOMAIN new
  BY <1>1, <1>5
<1> HIDE DEF newer, more
<1>7. PICK result : result = newer
  OBVIOUS
<1>8. Targets(Scanned)' = Targets(Scanned) /\ Places' = Places
  BY <1>1 DEF Targets, Places, Replace
<1>9. \A to \in Places' :
        to < next' /\ to \in DOMAIN old =>
          offsets'[to + 1] \in DOMAIN result /\ result[offsets'[to + 1]] = old[to]
  <2> SUFFICES ASSUME NEW to \in Places, to < next + n, to \in DOMAIN old
               PROVE  offsets'[to + 1] \in DOMAIN newer /\ newer[offsets'[to + 1]] = old[to]
    BY <1>1, <1>7, <1>8
  <2>1. to \in Nat
    OBVIOUS
  <2>2. CASE to < next
    <3>1. offsets'[to + 1] = offsets[to + 1]
      BY <1>2, <2>1, <2>2
    <3>2. offsets[to + 1] \in DOMAIN new /\ new[offsets[to + 1]] = old[to]
      BY <2>2 DEF PassFits
    <3> QED BY <1>5, <3>1, <3>2
  <2>3. CASE ~(to < next)
    <3>1. to = next
      <4> SUFFICES ASSUME to # next PROVE to \in Inside(n)
        OBVIOUS
      <4> QED BY <1>2, <2>1, <2>3 DEF Inside
    <3>2. offsets'[to + 1] = last
      BY <1>2, <3>1
    <3> QED BY <1>3, <1>5, <3>1, <3>2
  <2> QED BY <2>2, <2>3
<1>10. \A k \in DOMAIN result : k < Len(fresh') => FitsAnew(old, result, k)'
  <2> SUFFICES ASSUME NEW k \in DOMAIN newer, k < last
               PROVE  FitsAnew(old, result, k)'
    BY <1>1, <1>7
  <2>1. k \in DOMAIN new /\ newer[k] = new[k] /\ FitsAnew(old, new, k)
    BY <1>5, <1>6 DEF PassFits
  <2> QED BY <1>1, <1>5, <1>7, <1>8, <2>1 DEF FitsAnew
<1>11. PassFits(arity, old, result)'
  BY <1>1, <1>3, <1>5, <1>7, <1>9, <1>10 DEF PassFits
<1> QED BY <1>11

\* Either way, the chain ends with the replacement.
LEMMA RewrittenHeights ==
  ASSUME Inv, NEW arity, NEW old, NEW new, PassFits(arity, old, new),
         NEW n \in 1 .. 3, NEW r, NEW added, Replace(n, r, added),
         r = <<>> \/ \E instr : r = <<instr>>,
         StandsFor(n, r, old), Places \cap Inside(n) = {},
         DOMAIN old \subseteq Nat, UNCHANGED marks
  PROVE  (\E newer : PassFits(arity, old, newer)') /\ ChainFits(old)'
<1>1. ASSUME r = <<>> PROVE \E newer : PassFits(arity, old, newer)'
  BY <1>1, DroppedHeights
<1>2. ASSUME NEW instr, r = <<instr>> PROVE \E newer : PassFits(arity, old, newer)'
  BY <1>2, WrittenHeights
<1>3. ChainFits(old)'
  BY DEF ChainFits, Replace
<1> QED BY <1>1, <1>2, <1>3

----------------------------------------------------------------------------
(* Heights: the rounds *)

\* What the instructions ask for that patterns look for or write.
LEMMA Demands ==
  ASSUME NEW instr, NEW n
  PROVE  /\ instr.op = "POP" =>
              /\ Takes(instr) = instr.count /\ SlotsOf(instr) = {}
              /\ Behind(instr, n) = {n - instr.count + 0} /\ Led(instr, n) = {}
         /\ instr.op = "CONSTANT" =>
              /\ Takes(instr) = 0 /\ SlotsOf(instr) = {}
              /\ Behind(instr, n) = {n - 0 + 1} /\ Led(instr, n) = {}
         /\ instr.op \in {"NEGATE", "NOT"} => Takes(instr) = 1 /\ Behind(instr, n) = {n - 1 + 1}
         /\ instr.op \in ArithmeticOps => Takes(instr) = 2 /\ Behind(instr, n) = {n - 2 + 1}
         /\ instr.op \in CompareOps /\ ~instr.keep_rhs =>
              Takes(instr) = 2 /\ Behind(instr, n) = {n - 2 + 1}
         /\ instr.op = "JUMP" =>
              /\ Takes(instr) = 0 /\ SlotsOf(instr) = {}
              /\ Behind(instr, n) = {} /\ Led(instr, n) = {<<instr.offset, n>>}
         /\ instr.op = "JUMP_IF" =>
              /\ ~instr.keep_stay => Behind(instr, n) = {n - 1}
              /\ ~instr.keep_jump => Led(instr, n) = {<<instr.offset, n - 1>>}
<1>1. instr.op = "POP" =>
        /\ Takes(instr) = instr.count /\ Leaves(instr) = 0 /\ SlotsOf(instr) = {}
        /\ Behind(instr, n) = {n - Takes(instr) + Leaves(instr)} /\ Led(instr, n) = {}
  BY DEF Takes, Leaves, SlotsOf, Behind, Led, ArithmeticOps, CompareOps
<1>2. instr.op = "CONSTANT" =>
        /\ Takes(instr) = 0 /\ Leaves(instr) = 1 /\ SlotsOf(instr) = {}
        /\ Behind(instr, n) = {n - Takes(instr) + Leaves(instr)} /\ Led(instr, n) = {}
  BY DEF Takes, Leaves, SlotsOf, Behind, Led, ArithmeticOps, CompareOps
<1>3. instr.op \in {"NEGATE", "NOT"} =>
        /\ Takes(instr) = 1 /\ Leaves(instr) = 1
        /\ Behind(instr, n) = {n - Takes(instr) + Leaves(instr)}
  BY DEF Takes, Leaves, Behind, ArithmeticOps, CompareOps
<1>4. instr.op \in ArithmeticOps =>
        /\ Takes(instr) = 2 /\ Leaves(instr) = 1
        /\ Behind(instr, n) = {n - Takes(instr) + Leaves(instr)}
  BY DEF Takes, Leaves, Behind, ArithmeticOps, CompareOps
<1>5. instr.op \in CompareOps /\ ~instr.keep_rhs =>
        /\ Takes(instr) = 2 /\ Leaves(instr) = 1
        /\ Behind(instr, n) = {n - Takes(instr) + Leaves(instr)}
  BY DEF Takes, Leaves, Behind, ArithmeticOps, CompareOps
<1>6. instr.op = "JUMP" =>
        /\ Takes(instr) = 0 /\ SlotsOf(instr) = {}
        /\ Behind(instr, n) = {} /\ Led(instr, n) = {<<instr.offset, n>>}
  BY DEF Takes, SlotsOf, Behind, Led, ArithmeticOps, CompareOps
<1>7. instr.op = "JUMP_IF" =>
        /\ Takes(instr) = 1
        /\ ~instr.keep_stay => Behind(instr, n) = {n - Takes(instr)}
        /\ ~instr.keep_jump => Led(instr, n) = {<<instr.offset, n - Takes(instr)>>}
  BY DEF Takes, Behind, Led, ArithmeticOps, CompareOps
<1> QED BY <1>1, <1>2, <1>3, <1>4, <1>5, <1>6, <1>7, Zenon

\* What holds at an instruction of a window that can be reached.
LEMMA HeightsAt ==
  ASSUME Inv, NEW arity, NEW old, HeightsFit(Scanned, arity, old),
         NEW j \in 1 .. 3, next + j <= Len(Scanned), NEW ip \in DOMAIN old, ip + 1 = next + j
  PROVE  /\ Enough(At(j), old[ip])
         /\ \A m \in Behind(At(j), old[ip]) : next + j \in DOMAIN old /\ old[next + j] = m
         /\ \A at \in Led(At(j), old[ip]) :
              at[1] \in Targets(Scanned) /\ at[1] \in DOMAIN old /\ old[at[1]] = at[2]
<1>1. FitsAt(Scanned, old, ip) /\ Scanned[ip + 1] = At(j)
  BY DEF HeightsFit, At
<1>2. /\ Enough(At(j), old[ip])
      /\ \A m \in Behind(At(j), old[ip]) : ip + 1 \in DOMAIN old /\ old[ip + 1] = m
      /\ \A at \in Led(At(j), old[ip]) : at[1] \in DOMAIN old /\ old[at[1]] = at[2]
  BY <1>1, FitsSplit
<1>3. next + j \in DOMAIN Scanned /\ Scanned[next + j] = At(j)
  BY ScannedCode DEF Inv, PassInv, At
<1>4. ASSUME NEW at \in Led(At(j), old[ip])
      PROVE  at[1] \in Targets(Scanned)
  <2>1. CASE At(j).op \in Jumps
    <3>1. at[1] = At(j).offset
      BY <1>4, <2>1 DEF Led, Jumps
    <3> QED BY <1>3, <2>1, <3>1 DEF Targets
  <2>2. CASE At(j).op = "FOR_LOOP"
    <3>1. at[1] = At(j).body
      BY <1>4, <2>2 DEF Led
    <3> QED BY <1>3, <2>2, <3>1 DEF Targets
  <2>3. CASE At(j).op \notin Jumps \cup {"FOR_LOOP"}
    BY <1>4, <2>3 DEF Led, Jumps
  <2> QED BY <2>1, <2>2, <2>3
<1> QED BY <1>2, <1>4

\* A dropped window, and a replacement.
LEMMA StandsIntro ==
  ASSUME NEW n, NEW old
  PROVE  /\ (next \in DOMAIN old => next + n \in DOMAIN old /\ old[next + n] = old[next]) =>
              StandsFor(n, <<>>, old)
         /\ \A instr :
              (next \in DOMAIN old =>
                 /\ Enough(instr, old[next])
                 /\ \A m \in Behind(instr, old[next]) : next + n \in DOMAIN old /\ old[next + n] = m
                 /\ \A at \in Led(instr, old[next]) :
                      at[1] \in Targets(Scanned) /\ at[1] \in DOMAIN old /\ old[at[1]] = at[2]) =>
              StandsFor(n, <<instr>>, old)
<1>1. \A instr : <<instr>> # <<>> /\ \A other : <<instr>> = <<other>> => instr = other
  OBVIOUS
<1> QED BY <1>1, Zenon DEF StandsFor

\* POP 0 and a jump to the next instruction do nothing.
LEMMA DroppedStands ==
  ASSUME Inv, NEW shape, Fitting(shape), NEW arity, NEW old, HeightsFit(Scanned, arity, old),
         WindowsSound, PopZero \/ ZeroJump
  PROVE  StandsFor(1, <<>>, old)
<1> SUFFICES ASSUME next \in DOMAIN old
             PROVE  next + 1 \in DOMAIN old /\ old[next + 1] = old[next]
  BY StandsIntro
<1>1. next + 1 <= Len(Scanned)
  BY WindowOfOne DEF PopZero, ZeroJump, IsPopZero, IsZeroJump
<1>2. /\ Enough(At(1), old[next])
      /\ \A m \in Behind(At(1), old[next]) : next + 1 \in DOMAIN old /\ old[next + 1] = m
      /\ \A at \in Led(At(1), old[next]) :
           at[1] \in Targets(Scanned) /\ at[1] \in DOMAIN old /\ old[at[1]] = at[2]
  BY <1>1, HeightsAt
<1>3. old[next] \in Nat
  BY <1>2 DEF Enough
<1>4. CASE PopZero
  <2>1. At(1).op = "POP" /\ At(1).count = 0
    BY <1>4, WindowOfOne DEF PopZero, IsPopZero
  <2>2. Behind(At(1), old[next]) = {old[next] - 0 + 0}
    BY <2>1, Demands
  <2> QED BY <1>2, <1>3, <2>2
<1>5. CASE ZeroJump
  <2>1. At(1).op = "JUMP" /\ At(1).offset = next + 1
    BY <1>5 DEF ZeroJump, WindowsSound, SoundWindow, IsZeroJump
  <2>2. Led(At(1), old[next]) = {<<next + 1, old[next]>>}
    BY <2>1, Demands
  <2>3. <<next + 1, old[next]>> \in Led(At(1), old[next])
    BY <2>2
  <2> QED BY <1>2, <2>3
<1> QED BY <1>4, <1>5

\* Two POPs do what one does that pops as much.
LEMMA MergedStands ==
  ASSUME Inv, NEW shape, Fitting(shape), NEW arity, NEW old, HeightsFit(Scanned, arity, old),
         MergePops
  PROVE  StandsFor(2, <<Pop(At(1).count + At(2).count)>>, old)
<1> DEFINE instr == Pop(At(1).count + At(2).count)
<1> SUFFICES ASSUME next \in DOMAIN old
             PROVE  /\ Enough(instr, old[next])
                    /\ \A m \in Behind(instr, old[next]) : next + 2 \in DOMAIN old /\ old[next + 2] = m
                    /\ \A at \in Led(instr, old[next]) :
                         at[1] \in Targets(Scanned) /\ at[1] \in DOMAIN old /\ old[at[1]] = at[2]
  BY StandsIntro
<1>1. next + 2 <= Len(Scanned) /\ At(1).op = "POP" /\ At(2).op = "POP"
  BY WindowOfTwo DEF MergePops, IsMergePops
<1>2. next \in Nat /\ next + 1 <= Len(Scanned)
  BY <1>1, ScannedCode DEF Inv, PassInv
<1>3. At(1).count \in Nat /\ At(2).count \in Nat
  <2>1. Operands(shape, current, At(1)) /\ Operands(shape, current, At(2))
    BY <1>1, <1>2, WindowFits
  <2> QED BY <1>1, <2>1 DEF Operands, OperandsFit
<1>4. /\ Enough(At(1), old[next])
      /\ \A m \in Behind(At(1), old[next]) : next + 1 \in DOMAIN old /\ old[next + 1] = m
  BY <1>2, HeightsAt
<1>5. next + 1 \in DOMAIN old /\ old[next + 1] = old[next] - At(1).count + 0
  <2>1. Behind(At(1), old[next]) = {old[next] - At(1).count + 0}
    BY <1>1, Demands
  <2> QED BY <1>4, <2>1
<1>6. /\ Enough(At(2), old[next + 1])
      /\ \A m \in Behind(At(2), old[next + 1]) : next + 2 \in DOMAIN old /\ old[next + 2] = m
  BY <1>1, <1>5, (next + 1) + 1 = next + 2, <1>2, HeightsAt
<1>7. next + 2 \in DOMAIN old /\ old[next + 2] = old[next + 1] - At(2).count + 0
  <2>1. Behind(At(2), old[next + 1]) = {old[next + 1] - At(2).count + 0}
    BY <1>1, Demands
  <2> QED BY <1>6, <2>1
<1>8. old[next] \in Nat /\ At(2).count <= old[next + 1]
  <2>1. Takes(At(2)) = At(2).count
    BY <1>1, Demands
  <2> QED BY <1>4, <1>6, <2>1 DEF Enough
<1>9. instr.op = "POP" /\ instr.count = At(1).count + At(2).count
  BY DEF Pop
<1> HIDE DEF instr
<1>10. /\ Takes(instr) = instr.count /\ SlotsOf(instr) = {}
       /\ Behind(instr, old[next]) = {old[next] - instr.count + 0} /\ Led(instr, old[next]) = {}
  BY <1>9, Demands
<1>11. Takes(instr) <= old[next] /\ old[next + 2] = old[next] - instr.count + 0
  BY <1>3, <1>5, <1>7, <1>8, <1>9, <1>10
<1> QED BY <1>7, <1>8, <1>10, <1>11 DEF Enough

\* A constant that is loaded is one value more.
LEMMA LoadedStands ==
  ASSUME NEW old, NEW n, NEW i, next \in DOMAIN old, old[next] \in Nat,
         next + n \in DOMAIN old, old[next + n] = old[next] + 1
  PROVE  StandsFor(n, <<Constant(i)>>, old)
<1> DEFINE instr == Constant(i)
<1>1. instr.op = "CONSTANT"
  BY DEF Constant
<1> HIDE DEF instr
<1>2. /\ Takes(instr) = 0 /\ SlotsOf(instr) = {}
      /\ Behind(instr, old[next]) = {old[next] - 0 + 1} /\ Led(instr, old[next]) = {}
  BY <1>1, Demands
<1>3. Enough(instr, old[next])
  BY <1>2 DEF Enough
<1>4. StandsFor(n, <<instr>>, old)
  BY <1>2, <1>3, StandsIntro
<1> QED BY <1>4 DEF instr

\* So is one that an operator is applied to.
LEMMA UnaryStands ==
  ASSUME Inv, NEW arity, NEW old, HeightsFit(Scanned, arity, old), UnaryFold, NEW i
  PROVE  StandsFor(2, <<Constant(i)>>, old)
<1>1. CASE next \notin DOMAIN old
  BY <1>1 DEF StandsFor
<1>2. CASE next \in DOMAIN old
  <2>1. next + 2 <= Len(Scanned) /\ At(1).op = "CONSTANT" /\ At(2).op \in {"NEGATE", "NOT"}
    BY WindowOfTwo DEF UnaryFold, IsUnaryFold
  <2>2. next \in Nat /\ next + 1 <= Len(Scanned) /\ (next + 1) + 1 = next + 2
    BY <2>1, ScannedCode DEF Inv, PassInv
  <2>3. /\ Enough(At(1), old[next])
        /\ \A m \in Behind(At(1), old[next]) : next + 1 \in DOMAIN old /\ old[next + 1] = m
    BY <1>2, <2>2, HeightsAt
  <2>4. next + 1 \in DOMAIN old /\ old[next + 1] = old[next] - 0 + 1 /\ old[next] \in Nat
    <3>1. Behind(At(1), old[next]) = {old[next] - 0 + 1}
      BY <2>1, Demands
    <3> QED BY <2>3, <3>1 DEF Enough
  <2>5. \A m \in Behind(At(2), old[next + 1]) : next + 2 \in DOMAIN old /\ old[next + 2] = m
    BY <2>1, <2>2, <2>4, HeightsAt
  <2>6. next + 2 \in DOMAIN old /\ old[next + 2] = old[next + 1] - 1 + 1
    <3>1. Behind(At(2), old[next + 1]) = {old[next + 1] - 1 + 1}
      BY <2>1, Demands
    <3> QED BY <2>5, <3>1
  <2>7. old[next + 2] = old[next] + 1
    BY <2>4, <2>6
  <2> QED BY <1>2, <2>4, <2>6, <2>7, LoadedStands
<1> QED BY <1>1, <1>2

\* And two that an operator is applied to, if it does not keep one of them.
LEMMA BinaryStands ==
  ASSUME Inv, NEW arity, NEW old, HeightsFit(Scanned, arity, old), WindowsSound, BinaryFold, NEW i
  PROVE  StandsFor(3, <<Constant(i)>>, old)
<1>1. CASE next \notin DOMAIN old
  BY <1>1 DEF StandsFor
<1>2. CASE next \in DOMAIN old
  <2>1. /\ next + 3 <= Len(Scanned) /\ At(1).op = "CONSTANT" /\ At(2).op = "CONSTANT"
        /\ At(3).op \in ArithmeticOps \cup CompareOps
    BY WindowOfThree DEF BinaryFold, IsBinaryFold
  <2>2. At(3).op \in CompareOps => ~At(3).keep_rhs
    BY DEF BinaryFold, WindowsSound, SoundWindow
  <2>3. /\ next \in Nat /\ next + 1 <= Len(Scanned) /\ next + 2 <= Len(Scanned)
        /\ (next + 1) + 1 = next + 2 /\ (next + 2) + 1 = next + 3
    BY <2>1, ScannedCode DEF Inv, PassInv
  <2>4. /\ Enough(At(1), old[next])
        /\ \A m \in Behind(At(1), old[next]) : next + 1 \in DOMAIN old /\ old[next + 1] = m
    BY <1>2, <2>3, HeightsAt
  <2>5. next + 1 \in DOMAIN old /\ old[next + 1] = old[next] - 0 + 1 /\ old[next] \in Nat
    <3>1. Behind(At(1), old[next]) = {old[next] - 0 + 1}
      BY <2>1, Demands
    <3> QED BY <2>4, <3>1 DEF Enough
  <2>6. \A m \in Behind(At(2), old[next + 1]) : next + 2 \in DOMAIN old /\ old[next + 2] = m
    BY <2>3, <2>5, HeightsAt
  <2>7. next + 2 \in DOMAIN old /\ old[next + 2] = old[next + 1] - 0 + 1
    <3>1. Behind(At(2), old[next + 1]) = {old[next + 1] - 0 + 1}
      BY <2>1, Demands
    <3> QED BY <2>6, <3>1
  <2>8. \A m \in Behind(At(3), old[next + 2]) : next + 3 \in DOMAIN old /\ old[next + 3] = m
    BY <2>1, <2>3, <2>7, HeightsAt
  <2>9. Behind(At(3), old[next + 2]) = {old[next + 2] - 2 + 1}
    BY <2>1, <2>2, Demands
  <2>10. next + 3 \in DOMAIN old /\ old[next + 3] = old[next + 2] - 2 + 1
    BY <2>8, <2>9
  <2>11. old[next + 3] = old[next] + 1
    BY <2>5, <2>7, <2>10
  <2> QED BY <1>2, <2>5, <2>10, <2>11, LoadedStands
<1> QED BY <1>1, <1>2

\* A constant condition is a jump to where the conditional jump leads, or nothing.
LEMMA ConditionStands ==
  ASSUME Inv, NEW arity, NEW old, HeightsFit(Scanned, arity, old), IsConstJumpIf
  PROVE  StandsFor(2, <<Jump(At(2).offset)>>, old) /\ StandsFor(2, <<>>, old)
<1>1. CASE next \notin DOMAIN old
  BY <1>1 DEF StandsFor
<1>2. CASE next \in DOMAIN old
  <2>1. /\ next + 2 <= Len(Scanned) /\ At(1).op = "CONSTANT" /\ At(2).op = "JUMP_IF"
        /\ ~At(2).keep_jump /\ ~At(2).keep_stay
    BY WindowOfTwo DEF IsConstJumpIf
  <2>2. next \in Nat /\ next + 1 <= Len(Scanned) /\ (next + 1) + 1 = next + 2
    BY <2>1, ScannedCode DEF Inv, PassInv
  <2>3. /\ Enough(At(1), old[next])
        /\ \A m \in Behind(At(1), old[next]) : next + 1 \in DOMAIN old /\ old[next + 1] = m
    BY <1>2, <2>2, HeightsAt
  <2>4. next + 1 \in DOMAIN old /\ old[next + 1] = old[next] - 0 + 1 /\ old[next] \in Nat
    <3>1. Behind(At(1), old[next]) = {old[next] - 0 + 1}
      BY <2>1, Demands
    <3> QED BY <2>3, <3>1 DEF Enough
  <2>5. /\ \A m \in Behind(At(2), old[next + 1]) : next + 2 \in DOMAIN old /\ old[next + 2] = m
        /\ \A at \in Led(At(2), old[next + 1]) :
             at[1] \in Targets(Scanned) /\ at[1] \in DOMAIN old /\ old[at[1]] = at[2]
    BY <2>1, <2>2, <2>4, HeightsAt
  <2>6. /\ Behind(At(2), old[next + 1]) = {old[next + 1] - 1}
        /\ Led(At(2), old[next + 1]) = {<<At(2).offset, old[next + 1] - 1>>}
    BY <2>1, Demands
  <2>7. old[next + 1] - 1 = old[next]
    BY <2>4
  <2>8. StandsFor(2, <<>>, old)
    BY <2>5, <2>6, <2>7, StandsIntro
  <2> DEFINE instr == Jump(At(2).offset)
  <2>9. instr.op = "JUMP" /\ instr.offset = At(2).offset
    BY DEF Jump
  <2> HIDE DEF instr
  <2>10. /\ Takes(instr) = 0 /\ SlotsOf(instr) = {}
         /\ Behind(instr, old[next]) = {} /\ Led(instr, old[next]) = {<<At(2).offset, old[next]>>}
    BY <2>9, Demands
  <2>11. Enough(instr, old[next])
    BY <2>4, <2>10 DEF Enough
  <2>12. \A at \in Led(instr, old[next]) :
           at[1] \in Targets(Scanned) /\ at[1] \in DOMAIN old /\ old[at[1]] = at[2]
    BY <2>5, <2>6, <2>7, <2>10
  <2>13. StandsFor(2, <<instr>>, old)
    BY <2>10, <2>11, <2>12, StandsIntro
  <2> QED BY <2>8, <2>13 DEF instr
<1> QED BY <1>1, <1>2

\* A copied instruction does what it did, and so does a jump to the end of its chain.
LEMMA CopiedStands ==
  ASSUME Inv, NEW arity, NEW old, HeightsFit(Scanned, arity, old), next + 1 <= Len(Scanned)
  PROVE  StandsFor(1, <<At(1)>>, old)
<1> SUFFICES ASSUME next \in DOMAIN old
             PROVE  /\ Enough(At(1), old[next])
                    /\ \A m \in Behind(At(1), old[next]) : next + 1 \in DOMAIN old /\ old[next + 1] = m
                    /\ \A at \in Led(At(1), old[next]) :
                         at[1] \in Targets(Scanned) /\ at[1] \in DOMAIN old /\ old[at[1]] = at[2]
  BY StandsIntro
<1> QED BY HeightsAt

LEMMA ChainedStands ==
  ASSUME Inv, NEW arity, NEW old, HeightsFit(Scanned, arity, old), ChainFits(old), chain # <<>>
  PROVE  StandsFor(1, <<[At(1) EXCEPT !.offset = chain[1]]>>, old)
<1> DEFINE instr == [At(1) EXCEPT !.offset = chain[1]]
<1>1. next \in Nat /\ next + 1 <= Len(Scanned) /\ At(1).op \in Jumps
  BY ScannedCode DEF Inv, PassInv, ChainInv
<1>2. Shaped(At(1))
  <2>1. PICK S : /\ Scanned \in Seq(S) /\ Len(Scanned) \in Nat /\ \A i \in S : Shaped(i)
    BY ScannedCode
  <2>2. Scanned[next + 1] \in S
    BY <1>1, <2>1
  <2> QED BY <2>1, <2>2 DEF At
<1> SUFFICES ASSUME next \in DOMAIN old
             PROVE  /\ Enough(instr, old[next])
                    /\ \A m \in Behind(instr, old[next]) : next + 1 \in DOMAIN old /\ old[next + 1] = m
                    /\ \A at \in Led(instr, old[next]) :
                         at[1] \in Targets(Scanned) /\ at[1] \in DOMAIN old /\ old[at[1]] = at[2]
  BY StandsIntro
<1>3. /\ Enough(At(1), old[next])
      /\ \A m \in Behind(At(1), old[next]) : next + 1 \in DOMAIN old /\ old[next + 1] = m
  BY <1>1, HeightsAt
<1>4. /\ Enough(instr, old[next]) <=> Enough(At(1), old[next])
      /\ Behind(instr, old[next]) = Behind(At(1), old[next])
      /\ Led(instr, old[next]) = {<<chain[1], at[2]>> : at \in Led(At(1), old[next])}
  BY <1>1, <1>2, Retargeted
<1> HIDE DEF instr
<1>5. ASSUME NEW at \in Led(instr, old[next])
      PROVE  at[1] \in Targets(Scanned) /\ at[1] \in DOMAIN old /\ old[at[1]] = at[2]
  <2>1. PICK before \in Led(At(1), old[next]) : at = <<chain[1], before[2]>>
    BY <1>4
  <2>2. at[1] = chain[1] /\ at[2] = before[2]
    BY <2>1
  <2> QED BY <2>2 DEF ChainFits
<1> QED BY <1>3, <1>4, <1>5

\* A chain starts with the target of a jump, and goes on at the height of its start.
LEMMA StartedChain ==
  ASSUME Inv, NEW arity, NEW old, HeightsFit(Scanned, arity, old), FollowChain
  PROVE  ChainFits(old)'
<1>1. next + 1 <= Len(Scanned) /\ At(1).op \in Jumps
  BY WindowOfOne DEF FollowChain, IsJumpChain
<1>2. next \in Nat /\ next + 1 \in DOMAIN Scanned /\ Scanned[next + 1] = At(1)
  BY <1>1, ScannedCode DEF Inv, PassInv, At
<1>3. At(1).offset \in Targets(Scanned)
  BY <1>1, <1>2 DEF Targets
<1>4. ASSUME next \in DOMAIN old, NEW at \in Led(At(1), old[next])
      PROVE  At(1).offset \in DOMAIN old /\ old[At(1).offset] = at[2]
  <2>1. at[1] \in DOMAIN old /\ old[at[1]] = at[2]
    BY <1>1, <1>4, HeightsAt
  <2>2. at[1] = At(1).offset
    BY <1>1, <1>4 DEF Led, Jumps
  <2> QED BY <2>1, <2>2
<1>5. /\ chain' = <<At(1).offset>> /\ next' = next /\ Targets(Scanned)' = Targets(Scanned)
      /\ At(1)' = At(1)
  BY DEF FollowChain, Targets, Scanned, At
<1> QED BY <1>3, <1>4, <1>5 DEF ChainFits

LEMMA LongerChain ==
  ASSUME Inv, NEW arity, NEW old, HeightsFit(Scanned, arity, old), ChainFits(old), Hop
  PROVE  ChainFits(old)'
<1> DEFINE hop == Scanned[chain[1] + 1]
<1>1. chain[1] \in 0 .. Len(Scanned) - 1
  BY DEF Inv, ChainInv, Hop
<1>2. chain[1] + 1 \in DOMAIN Scanned
  BY <1>1, ScannedCode
<1>3. hop.op = "JUMP" /\ chain # <<>>
  BY DEF Hop, Hops
<1>4. hop.offset \in Targets(Scanned)
  BY <1>2, <1>3 DEF Targets, Jumps
<1>5. ASSUME next \in DOMAIN old, NEW at \in Led(At(1), old[next])
      PROVE  hop.offset \in DOMAIN old /\ old[hop.offset] = at[2]
  <2>1. chain[1] \in DOMAIN old /\ old[chain[1]] = at[2]
    BY <1>3, <1>5 DEF ChainFits
  <2>2. FitsAt(Scanned, old, chain[1])
    BY <2>1 DEF HeightsFit
  <2>3. \A to \in Led(hop, old[chain[1]]) : to[1] \in DOMAIN old /\ old[to[1]] = to[2]
    BY <2>2, FitsSplit
  <2>4. Led(hop, old[chain[1]]) = {<<hop.offset, old[chain[1]]>>}
    BY <1>3, Demands
  <2>5. <<hop.offset, old[chain[1]]>> \in Led(hop, old[chain[1]])
    BY <2>4
  <2> QED BY <2>1, <2>3, <2>5
<1>6. /\ chain' = <<hop.offset>> /\ next' = next /\ Targets(Scanned)' = Targets(Scanned)
      /\ At(1)' = At(1)
  BY DEF Hop, Targets, Scanned, At
<1> QED BY <1>4, <1>5, <1>6 DEF ChainFits

\* Where no code is written, the heights of a pass stay.
LEMMA PassStays ==
  ASSUME NEW arity, NEW old, NEW new, PassFits(arity, old, new),
         UNCHANGED <<chunks, current, next, fresh, offsets, marks>>
  PROVE  \E newer : PassFits(arity, old, newer)'
<1>1. /\ Targets(Scanned)' = Targets(Scanned) /\ fresh' = fresh /\ next' = next
      /\ offsets' = offsets /\ Places' = Places
  BY DEF Targets, Scanned, Places
<1>2. PICK same : same = new
  OBVIOUS
<1>3. \A k : FitsAnew(old, new, k) => FitsAnew(old, same, k)'
  BY <1>1, <1>2 DEF FitsAnew
<1>4. PassFits(arity, old, same)'
  BY <1>1, <1>2, <1>3 DEF PassFits
<1> QED BY <1>4

\* Every round keeps the heights of a pass, where the windows are sound.
LEMMA RoundHeights ==
  ASSUME Inv, NEW shape, Fitting(shape), NEW arity, NEW old, NEW new,
         HeightsFit(Scanned, arity, old), PassFits(arity, old, new), ChainFits(old),
         WindowsSound, Round, UNCHANGED marks
  PROVE  (\E newer : PassFits(arity, old, newer)') /\ ChainFits(old)'
<1> DOMAIN old \subseteq Nat
  BY DEF HeightsFit
<1>0. Inside(1) = {}
  <2>1. next \in Int
    BY ScannedCode DEF Inv, PassInv
  <2>2. \A i \in Int : ~(next + 1 <= i /\ i <= next + 1 - 1)
    BY <2>1
  <2> QED BY <2>1, <2>2 DEF Inside
<1>1. ASSUME UNCHANGED <<chunks, current, next, fresh, offsets>>
      PROVE  \E newer : PassFits(arity, old, newer)'
  BY <1>1, PassStays
<1>2. CASE PopZero \/ ZeroJump
  <2>1. StandsFor(1, <<>>, old) /\ Replace(1, <<>>, <<>>)
    BY <1>2, DroppedStands DEF PopZero, ZeroJump
  <2> QED BY <1>0, <2>1, RewrittenHeights
<1>3. CASE MergePops
  <2> DEFINE instr == Pop(At(1).count + At(2).count)
  <2>1. StandsFor(2, <<instr>>, old) /\ Replace(2, <<instr>>, <<>>)
    BY <1>3, MergedStands DEF MergePops
  <2>2. Places \cap Inside(2) = {}
    BY <1>3 DEF MergePops, WindowsSound, SoundWindow
  <2> HIDE DEF instr
  <2> QED BY <2>1, <2>2, RewrittenHeights
<1>4. CASE UnaryFold
  <2> DEFINE instr == Constant(Len(constants))
  <2>1. StandsFor(2, <<instr>>, old) /\ Replace(2, <<instr>>, <<UnaryValue>>)
    BY <1>4, UnaryStands DEF UnaryFold, Fold
  <2>2. Places \cap Inside(2) = {}
    BY <1>4 DEF UnaryFold, WindowsSound, SoundWindow
  <2> HIDE DEF instr
  <2> QED BY <2>1, <2>2, RewrittenHeights
<1>5. CASE UnaryFoldThrows
  <2>1. chain' = <<>>
    BY <1>5 DEF UnaryFoldThrows, Scanning
  <2>2. ChainFits(old)'
    BY <2>1 DEF ChainFits
  <2>3. UNCHANGED <<chunks, current, next, fresh, offsets>>
    BY <1>5 DEF UnaryFoldThrows
  <2> QED BY <1>1, <2>2, <2>3
<1>6. CASE ConstJumpIfTaken \/ ConstJumpIfNotTaken
  <2> DEFINE instr == Jump(At(2).offset)
  <2>1. Scanning /\ IsConstJumpIf
    BY <1>6 DEF ConstJumpIfTaken, ConstJumpIfNotTaken
  <2>2. Places \cap Inside(2) = {}
    BY <2>1 DEF WindowsSound, SoundWindow
  <2>3. StandsFor(2, <<instr>>, old) /\ StandsFor(2, <<>>, old)
    BY <2>1, ConditionStands
  <2>4. Replace(2, <<instr>>, <<>>) \/ Replace(2, <<>>, <<>>)
    BY <1>6 DEF ConstJumpIfTaken, ConstJumpIfNotTaken
  <2> HIDE DEF instr
  <2>5. CASE Replace(2, <<instr>>, <<>>)
    BY <2>2, <2>3, <2>5, RewrittenHeights
  <2>6. CASE Replace(2, <<>>, <<>>)
    BY <2>2, <2>3, <2>6, RewrittenHeights
  <2> QED BY <2>4, <2>5, <2>6
<1>7. CASE BinaryFold
  <2> DEFINE instr == Constant(Len(constants))
  <2>1. StandsFor(3, <<instr>>, old) /\ Replace(3, <<instr>>, <<BinaryValue>>)
    BY <1>7, BinaryStands DEF BinaryFold, Fold
  <2>2. Places \cap Inside(3) = {}
    BY <1>7 DEF BinaryFold, WindowsSound, SoundWindow
  <2> HIDE DEF instr
  <2> QED BY <2>1, <2>2, RewrittenHeights
<1>8. CASE Copy
  <2>1. next + 1 <= Len(Scanned)
    BY <1>8, ScannedCode DEF Copy, Scanning, Inv, PassInv
  <2>2. StandsFor(1, <<At(1)>>, old) /\ Replace(1, <<At(1)>>, <<>>)
    BY <1>8, <2>1, CopiedStands DEF Copy
  <2> QED BY <1>0, <2>2, RewrittenHeights
<1>9. CASE FollowChain \/ Hop
  <2>1. UNCHANGED <<chunks, current, next, fresh, offsets>>
    BY <1>9 DEF FollowChain, Hop
  <2> QED BY <1>1, <1>9, <2>1, StartedChain, LongerChain
<1>10. CASE EndChain
  <2> DEFINE instr == [At(1) EXCEPT !.offset = chain[1]]
  <2>1. StandsFor(1, <<instr>>, old) /\ Replace(1, <<instr>>, <<>>)
    BY <1>10, ChainedStands DEF EndChain
  <2> HIDE DEF instr
  <2> QED BY <1>0, <2>1, RewrittenHeights
<1> QED BY <1>2, <1>3, <1>4, <1>5, <1>6, <1>7, <1>8, <1>9, <1>10 DEF Round

----------------------------------------------------------------------------
(* Heights: the end of a pass *)

\* Where heights are right: the form in which they are taken apart and put together.
LEMMA HeightsSplit ==
  ASSUME NEW code, NEW arity, NEW heights
  PROVE  HeightsFit(code, arity, heights) <=>
           /\ DOMAIN heights \subseteq 0 .. Len(code) - 1
           /\ 0 \in DOMAIN heights /\ heights[0] = arity
           /\ \A ip \in DOMAIN heights :
                /\ Enough(code[ip + 1], heights[ip])
                /\ \A m \in Behind(code[ip + 1], heights[ip]) :
                     ip + 1 \in DOMAIN heights /\ heights[ip + 1] = m
                /\ \A at \in Led(code[ip + 1], heights[ip]) :
                     at[1] \in DOMAIN heights /\ heights[at[1]] = at[2]
BY FitsSplit DEF HeightsFit

\* A moved target changes only where an instruction leads.
LEMMA AdjustedDemands ==
  ASSUME NEW instr, Shaped(instr), NEW n
  PROVE  /\ Enough(Adjusted(instr), n) <=> Enough(instr, n)
         /\ Behind(Adjusted(instr), n) = Behind(instr, n)
         /\ \A at \in Led(Adjusted(instr), n) :
              \E before \in Led(instr, n) : at = <<offsets[before[1] + 1], before[2]>>
<1>1. CASE instr.op \in Jumps
  <2>0. PICK to : to = offsets[instr.offset + 1]
    OBVIOUS
  <2>1. Adjusted(instr) = [instr EXCEPT !.offset = to]
    BY <1>1, <2>0 DEF Adjusted, Jumps
  <2>2. \A before \in Led(instr, n) : before[1] = instr.offset
    BY <1>1 DEF Led, Jumps
  <2> DEFINE moved == [instr EXCEPT !.offset = to]
  <2>3. /\ Enough(moved, n) <=> Enough(instr, n)
        /\ Behind(moved, n) = Behind(instr, n)
        /\ Led(moved, n) = {<<to, at[2]>> : at \in Led(instr, n)}
    BY <1>1, Retargeted
  <2>4. Adjusted(instr) = moved
    BY <2>1
  <2> HIDE DEF moved
  <2> QED BY <2>0, <2>2, <2>3, <2>4
<1>2. CASE instr.op = "FOR_LOOP"
  <2>0. PICK to : to = offsets[instr.body + 1]
    OBVIOUS
  <2>1. Adjusted(instr) = [instr EXCEPT !.body = to]
    BY <1>2, <2>0 DEF Adjusted, Jumps
  <2>2. \A before \in Led(instr, n) : before[1] = instr.body
    BY <1>2 DEF Led
  <2> DEFINE moved == [instr EXCEPT !.body = to]
  <2>3. /\ Enough(moved, n) <=> Enough(instr, n)
        /\ Behind(moved, n) = Behind(instr, n)
        /\ Led(moved, n) = {<<to, at[2]>> : at \in Led(instr, n)}
    BY <1>2, Retargeted
  <2>4. Adjusted(instr) = moved
    BY <2>1
  <2> HIDE DEF moved
  <2> QED BY <2>0, <2>2, <2>3, <2>4
<1>3. CASE instr.op \notin Jumps \cup {"FOR_LOOP"}
  <2>1. Adjusted(instr) = instr
    BY <1>3 DEF Adjusted
  <2>2. Led(instr, n) = {}
    BY <1>3 DEF Led, Jumps
  <2> QED BY <2>1, <2>2
<1> QED BY <1>1, <1>2, <1>3

\* The heights of the new code are right when its targets are moved along.
LEMMA ShorterHeights ==
  ASSUME Inv, NEW arity, NEW old, NEW new,
         HeightsFit(Scanned, arity, old), PassFits(arity, old, new), ShorterPass
  PROVE  HeightsFit(Scanned', arity, new)
<1> DEFINE code == [i \in DOMAIN fresh |-> Adjusted(fresh[i])]
           last == Len(fresh)
<1>1. PICK S : /\ chunks \in Seq(Seq(S)) /\ fresh \in Seq(S)
               /\ \A instr \in S : Shaped(instr)
               /\ Scanned \in Seq(S) /\ Len(Scanned) \in Nat
  BY ScannedCode
<1>2. /\ next = Len(Scanned) /\ chunks' = [chunks EXCEPT ![current] = code] /\ current' = current
  BY DEF ShorterPass, PassEnds
<1>3. Scanned' = code
  BY <1>1, <1>2 DEF Inv, PassInv, Scanned
<1>4. last \in Nat /\ DOMAIN fresh = 1 .. last
  BY <1>1
<1>5. \A i \in 1 .. last : code[i] = Adjusted(fresh[i]) /\ Shaped(fresh[i])
  BY <1>1, <1>4
<1>6. Len(code) = last
  <2>1. code \in [1 .. last -> {Adjusted(fresh[i]) : i \in 1 .. last}]
    BY <1>4
  <2> HIDE DEF code
  <2> QED BY <1>4, <2>1
<1> HIDE DEF code
<1>7. next \notin DOMAIN old /\ last \notin DOMAIN new
  <2>1. next \notin DOMAIN old
    BY <1>1, <1>2 DEF HeightsFit
  <2> QED BY <2>1 DEF PassFits
<1>8. DOMAIN new \subseteq 0 .. last - 1 /\ 0 \in DOMAIN new /\ new[0] = arity
  BY <1>4, <1>7 DEF PassFits
<1>9. ASSUME NEW k \in DOMAIN new
      PROVE  /\ Enough(code[k + 1], new[k])
             /\ \A m \in Behind(code[k + 1], new[k]) : k + 1 \in DOMAIN new /\ new[k + 1] = m
             /\ \A at \in Led(code[k + 1], new[k]) :
                  at[1] \in DOMAIN new /\ new[at[1]] = at[2]
  <2> DEFINE instr == fresh[k + 1]
  <2>1. k + 1 \in 1 .. last /\ k < Len(fresh)
    BY <1>4, <1>8
  <2>2. FitsAnew(old, new, k)
    BY <2>1 DEF PassFits
  <2>3. code[k + 1] = Adjusted(instr) /\ Shaped(instr)
    BY <1>5, <2>1
  <2>4. /\ Enough(instr, new[k])
        /\ \A m \in Behind(instr, new[k]) : k + 1 \in DOMAIN new /\ new[k + 1] = m
        /\ \A at \in Led(instr, new[k]) :
             at[1] \in Targets(Scanned) /\ at[1] \in DOMAIN old /\ old[at[1]] = at[2]
    BY <2>2 DEF FitsAnew
  <2> HIDE DEF instr
  <2>5. /\ Enough(Adjusted(instr), new[k]) <=> Enough(instr, new[k])
        /\ Behind(Adjusted(instr), new[k]) = Behind(instr, new[k])
        /\ \A at \in Led(Adjusted(instr), new[k]) :
             \E before \in Led(instr, new[k]) : at = <<offsets[before[1] + 1], before[2]>>
    BY <2>3, AdjustedDemands
  <2>6. ASSUME NEW at \in Led(Adjusted(instr), new[k])
        PROVE  at[1] \in DOMAIN new /\ new[at[1]] = at[2]
    <3>1. PICK before \in Led(instr, new[k]) : at = <<offsets[before[1] + 1], before[2]>>
      BY <2>5
    <3>2. before[1] \in Targets(Scanned) /\ before[1] \in DOMAIN old /\ old[before[1]] = before[2]
      BY <2>4
    <3>3. before[1] < next
      BY <1>1, <1>2, <3>2, TargetsInside
    <3>4. offsets[before[1] + 1] \in DOMAIN new /\ new[offsets[before[1] + 1]] = before[2]
      BY <3>2, <3>3 DEF PassFits, Places
    <3>5. at[1] = offsets[before[1] + 1] /\ at[2] = before[2]
      BY <3>1
    <3> QED BY <3>4, <3>5
  <2> QED BY <2>3, <2>4, <2>5, <2>6
<1> QED BY <1>3, <1>6, <1>8, <1>9, HeightsSplit

\* When a pass begins, there is no new code.
LEMMA PassStarts ==
  ASSUME NEW arity, NEW old, HeightsFit(Scanned', arity, old), next' = 0, fresh' = <<>>
  PROVE  \E new : PassFits(arity, old, new)'
<1>1. PICK new : new = [k \in {0} |-> arity]
  OBVIOUS
<1>2. DOMAIN new = {0} /\ new[0] = arity /\ Len(fresh') = 0
  BY <1>1
<1>3. /\ 0 \in DOMAIN old /\ old[0] = arity
      /\ \A to \in DOMAIN old : ~(to < 0)
  BY DEF HeightsFit
<1>4. PassFits(arity, old, new)'
  BY <1>2, <1>3 DEF PassFits
<1> QED BY <1>4

----------------------------------------------------------------------------
(* Heights: compilation *)

\* Statements begin at the heights that the locals in their scope make.
StatementsFit(c, heights) ==
  \A mark \in marks :
    mark[1] = c - 1 => mark[2] \in DOMAIN heights /\ heights[mark[2]] = mark[3]

\* Heights of every chunk, and those of the pass that is under way.
Reaching(shape, heights) ==
  /\ DOMAIN heights = DOMAIN chunks
  /\ \A c \in DOMAIN chunks :
       HeightsFit(chunks[c], shape[c].arity, heights[c]) /\ StatementsFit(c, heights[c])
  /\ \A c \in DOMAIN chunks :
       c = current => /\ \E new : PassFits(shape[c].arity, heights[c], new)
                      /\ ChainFits(heights[c])

\* The heights of all chunks when a pass begins.
LEMMA ReachingAnew ==
  ASSUME NEW shape, NEW heights, next' = 0, fresh' = <<>>, chain' = <<>>,
         DOMAIN heights = DOMAIN chunks',
         \A c \in DOMAIN chunks' :
           HeightsFit(chunks'[c], shape[c].arity, heights[c]) /\ StatementsFit(c, heights[c])'
  PROVE  Reaching(shape, heights)'
<1>1. ASSUME NEW c \in DOMAIN chunks', c = current'
      PROVE  (\E new : PassFits(shape[c].arity, heights[c], new)') /\ ChainFits(heights[c])'
  <2>1. HeightsFit(Scanned', shape[c].arity, heights[c])
    BY <1>1 DEF Scanned
  <2>2. ChainFits(heights[c])'
    BY DEF ChainFits
  <2> QED BY <2>1, <2>2, PassStarts
<1> QED BY <1>1 DEF Reaching

\* The statements of a chunk are where the end of a pass has moved them.
LEMMA MovedStatements ==
  ASSUME Inv, NEW arity, NEW old, NEW new, NEW c, c = current,
         HeightsFit(Scanned, arity, old), PassFits(arity, old, new), StatementsFit(c, old),
         ShorterPass, MoveMarks
  PROVE  /\ StatementsFit(c, new)'
         /\ \A b \in DOMAIN chunks : \A heights :
              b # c /\ StatementsFit(b, heights) => StatementsFit(b, heights)'
<1>1. PICK S : chunks \in Seq(Seq(S)) /\ Len(Scanned) \in Nat
  BY ScannedCode
<1>2. next = Len(Scanned) /\ c \in Int /\ \A b \in DOMAIN chunks : b \in Int
  BY <1>1 DEF ShorterPass, PassEnds, Inv, PassInv
<1>3. marks' = {IF mark[1] = c - 1 THEN <<mark[1], offsets[mark[2] + 1], mark[3]>>
                ELSE mark : mark \in marks}
  BY DEF MoveMarks
<1>4. ASSUME NEW mark \in marks', mark[1] = c - 1
      PROVE  mark[2] \in DOMAIN new /\ new[mark[2]] = mark[3]
  <2>1. PICK before \in marks :
          mark = IF before[1] = c - 1 THEN <<before[1], offsets[before[2] + 1], before[3]>>
                 ELSE before
    BY <1>3
  <2>2. /\ before[1] = c - 1
        /\ mark[2] = offsets[before[2] + 1] /\ mark[3] = before[3]
    BY <1>4, <2>1
  <2>3. before[2] \in DOMAIN old /\ old[before[2]] = before[3]
    BY <2>2 DEF StatementsFit
  <2>4. before[2] \in Places
    BY <2>2 DEF Places
  <2>5. before[2] < next
    BY <1>1, <1>2, <2>3 DEF HeightsFit
  <2>6. offsets[before[2] + 1] \in DOMAIN new /\ new[offsets[before[2] + 1]] = old[before[2]]
    BY <2>3, <2>4, <2>5 DEF PassFits
  <2> QED BY <2>2, <2>3, <2>6
<1>5. ASSUME NEW b \in DOMAIN chunks, b # c, NEW mark \in marks', mark[1] = b - 1
      PROVE  mark \in marks
  <2>1. PICK before \in marks :
          mark = IF before[1] = c - 1 THEN <<before[1], offsets[before[2] + 1], before[3]>>
                 ELSE before
    BY <1>3
  <2>2. b - 1 # c - 1
    BY <1>2, <1>5
  <2> QED BY <1>5, <2>1, <2>2
<1> QED BY <1>4, <1>5 DEF StatementsFit

\* The optimizer keeps the heights, where the windows are sound: they may become other
\* ones with every pass.
LEMMA ReachingStep ==
  ASSUME Inv, NEW shape, Fitting(shape), NEW heights, Reaching(shape, heights),
         WindowsSound, Optimization
  PROVE  \E later : Reaching(shape, later)'
<1>1. PICK S : chunks \in Seq(Seq(S))
  BY DEF Inv, Typed
<1>2. current \in DOMAIN chunks /\ Scanned = chunks[current]
  BY <1>1 DEF Inv, PassInv, Scanned
<1>3. PICK c : c = current
  OBVIOUS
<1>4. /\ c \in DOMAIN chunks /\ HeightsFit(Scanned, shape[c].arity, heights[c])
      /\ ChainFits(heights[c]) /\ StatementsFit(c, heights[c])
  BY <1>2, <1>3 DEF Reaching
<1>5. PICK new : PassFits(shape[c].arity, heights[c], new)
  BY <1>3, <1>4 DEF Reaching
<1>6. CASE Round /\ UNCHANGED marks
  <2>1. (\E newer : PassFits(shape[c].arity, heights[c], newer)') /\ ChainFits(heights[c])'
    BY <1>4, <1>5, <1>6, RoundHeights
  <2>2. chunks' = chunks /\ current' = current
    BY <1>6 DEF Round, PopZero, ZeroJump, MergePops, UnaryFold, UnaryFoldThrows, Fold, Replace,
                ConstJumpIfTaken, ConstJumpIfNotTaken, BinaryFold, Copy, FollowChain, Hop, EndChain
  <2>3. Reaching(shape, heights)'
    BY <1>3, <1>6, <2>1, <2>2 DEF Reaching, StatementsFit
  <2> QED BY <2>3
<1>7. CASE ShorterPass /\ MoveMarks
  <2>1. HeightsFit(Scanned', shape[c].arity, new)
    BY <1>4, <1>5, <1>7, ShorterHeights
  <2>2. /\ next' = 0 /\ fresh' = <<>> /\ chain' = chain /\ next = Len(Scanned) /\ current' = c
        /\ chunks' = [chunks EXCEPT ![c] = [i \in DOMAIN fresh |-> Adjusted(fresh[i])]]
    BY <1>3, <1>7 DEF ShorterPass, PassEnds, NextPass
  <2>3. chain' = <<>>
    BY <2>2, ScannedCode DEF Inv, ChainInv
  <2>4. DOMAIN chunks' = DOMAIN chunks /\ \A b \in DOMAIN chunks : b # c => chunks'[b] = chunks[b]
    BY <2>2
  <2>5. PICK later : later = [heights EXCEPT ![c] = new]
    OBVIOUS
  <2>6. /\ DOMAIN later = DOMAIN chunks' /\ later[c] = new
        /\ \A b \in DOMAIN chunks : b # c => later[b] = heights[b]
    BY <1>4, <2>4, <2>5 DEF Reaching
  <2>7. ASSUME NEW b \in DOMAIN chunks'
        PROVE  HeightsFit(chunks'[b], shape[b].arity, later[b]) /\ StatementsFit(b, later[b])'
    <3>0. /\ StatementsFit(c, new)'
          /\ \A d \in DOMAIN chunks : \A at :
               d # c /\ StatementsFit(d, at) => StatementsFit(d, at)'
      BY <1>3, <1>4, <1>5, <1>7, MovedStatements
    <3>1. CASE b = c
      BY <2>1, <2>2, <2>6, <3>0, <3>1 DEF Scanned, StatementsFit
    <3>2. CASE b # c
      <4>1. PICK at : at = heights[b]
        OBVIOUS
      <4>2. b \in DOMAIN chunks /\ later[b] = at /\ StatementsFit(b, at)'
        BY <2>4, <2>6, <3>0, <3>2, <4>1 DEF Reaching
      <4>3. HeightsFit(chunks'[b], shape[b].arity, later[b])
        BY <2>4, <2>6, <3>2, <4>2 DEF Reaching
      <4> QED BY <4>2, <4>3 DEF StatementsFit
    <3> QED BY <3>1, <3>2
  <2>8. Reaching(shape, later)'
    BY <2>2, <2>3, <2>6, <2>7, ReachingAnew
  <2> QED BY <2>8
<1>8. CASE LastPass /\ UNCHANGED marks
  <2>1. next' = 0 /\ fresh' = <<>> /\ chain' = chain /\ next = Len(Scanned) /\ chunks' = chunks
    BY <1>8 DEF LastPass, PassEnds, NextPass
  <2>2. chain' = <<>>
    BY <2>1, ScannedCode DEF Inv, ChainInv
  <2>3. \A b \in DOMAIN chunks : StatementsFit(b, heights[b])'
    BY <1>8 DEF Reaching, StatementsFit
  <2>4. Reaching(shape, heights)'
    BY <2>1, <2>2, <2>3, ReachingAnew DEF Reaching
  <2> QED BY <2>4
<1> QED BY <1>6, <1>7, <1>8 DEF Optimization

\* The numbers of constants have nothing to do with heights.
LEMMA RenumberedDemands ==
  ASSUME NEW instr, Shaped(instr), NEW index, NEW n
  PROVE  /\ Enough(Renumbered(instr, index), n) <=> Enough(instr, n)
         /\ Behind(Renumbered(instr, index), n) = Behind(instr, n)
         /\ Led(Renumbered(instr, index), n) = Led(instr, n)
<1> DEFINE new == Renumbered(instr, index)
<1>1. /\ new.op = instr.op
      /\ instr.op = "CLOSURE" => new.upvalues = instr.upvalues
      /\ instr.op \notin Loads \cup {"CLOSURE"} => new = instr
  BY RenumberedInstruction
<1> HIDE DEF new
<1>2. ASSUME instr.op \in Loads \cup {"CLOSURE"}
      PROVE  /\ Takes(new) = Takes(instr) /\ Leaves(new) = Leaves(instr)
             /\ Reserves(new) = Reserves(instr) /\ SlotsOf(new) = SlotsOf(instr)
  <2>1. Takes(new) = Takes(instr) /\ Leaves(new) = Leaves(instr) /\ Reserves(new) = Reserves(instr)
    BY <1>1, <1>2 DEF Takes, Leaves, Reserves, Loads, ArithmeticOps, CompareOps
  <2>2. ASSUME instr.op = "CLOSURE" PROVE SlotsOf(new) = SlotsOf(instr)
    BY <1>1, <2>2 DEF SlotsOf
  <2>3. ASSUME instr.op \in Loads PROVE SlotsOf(new) = SlotsOf(instr)
    BY <1>1, <2>3 DEF SlotsOf, Loads
  <2> QED BY <1>2, <2>1, <2>2, <2>3
<1>3. ASSUME instr.op \in Loads \cup {"CLOSURE"}
      PROVE  /\ Behind(new, n) = Behind(instr, n)
             /\ Led(new, n) = Led(instr, n)
  BY <1>1, <1>2, <1>3 DEF Behind, Led, Loads
<1>4. CASE instr.op \in Loads \cup {"CLOSURE"}
  BY <1>2, <1>3, <1>4 DEF Enough, new
<1>5. CASE instr.op \notin Loads \cup {"CLOSURE"}
  BY <1>1, <1>5 DEF new
<1> QED BY <1>4, <1>5

\* So the heights are right after the merging, too.
LEMMA MergedHeights ==
  ASSUME Inv, NEW shape, NEW heights, Reaching(shape, heights),
         next = 0, fresh = <<>>, chain = <<>>, Deduplicate
  PROVE  Reaching(shape, heights)'
<1>1. PICK S : chunks \in Seq(Seq(S)) /\ \A instr \in S : Shaped(instr)
  BY DEF Inv, Typed
<1>2. PICK index : index = Deduplicated.index
  OBVIOUS
<1>3. /\ chunks' = [c \in DOMAIN chunks |->
                      [i \in DOMAIN chunks[c] |-> Renumbered(chunks[c][i], index)]]
      /\ UNCHANGED <<current, next, fresh, offsets, chain, marks>>
  BY <1>2 DEF Deduplicate
<1>4. DOMAIN chunks' = DOMAIN chunks
  BY <1>3
<1>5. ASSUME NEW c \in DOMAIN chunks
      PROVE  HeightsFit(chunks'[c], shape[c].arity, heights[c])
  <2> DEFINE code == chunks[c]
             new == [i \in DOMAIN code |-> Renumbered(code[i], index)]
             R == {Renumbered(instr, index) : instr \in S}
             at == heights[c]
  <2>1. chunks'[c] = new
    BY <1>3
  <2>2. code \in Seq(S) /\ DOMAIN code = 1 .. Len(code) /\ Len(code) \in Nat
    BY <1>1
  <2>3. \A i \in DOMAIN code : new[i] = Renumbered(code[i], index) /\ Shaped(code[i])
    BY <1>1, <2>2
  <2>4. HeightsFit(code, shape[c].arity, at)
    BY DEF Reaching
  <2> HIDE DEF code, at
  <2>5. Len(new) = Len(code)
    <3>1. new \in [1 .. Len(code) -> R]
      BY <2>2
    <3> HIDE DEF new, R
    <3> QED BY <2>2, <3>1
  <2> HIDE DEF new
  <2>6. /\ DOMAIN at \subseteq 0 .. Len(code) - 1
        /\ 0 \in DOMAIN at /\ at[0] = shape[c].arity
        /\ \A ip \in DOMAIN at :
             /\ Enough(code[ip + 1], at[ip])
             /\ \A m \in Behind(code[ip + 1], at[ip]) : ip + 1 \in DOMAIN at /\ at[ip + 1] = m
             /\ \A to \in Led(code[ip + 1], at[ip]) : to[1] \in DOMAIN at /\ at[to[1]] = to[2]
    BY <2>4, HeightsSplit
  <2>7. ASSUME NEW ip \in DOMAIN at
        PROVE  /\ Enough(new[ip + 1], at[ip]) <=> Enough(code[ip + 1], at[ip])
               /\ Behind(new[ip + 1], at[ip]) = Behind(code[ip + 1], at[ip])
               /\ Led(new[ip + 1], at[ip]) = Led(code[ip + 1], at[ip])
    <3>1. ip + 1 \in DOMAIN code
      BY <2>2, <2>6
    <3>2. new[ip + 1] = Renumbered(code[ip + 1], index) /\ Shaped(code[ip + 1])
      BY <2>3, <3>1
    <3> QED BY <3>2, RenumberedDemands
  <2>8. HeightsFit(new, shape[c].arity, at)
    BY <2>5, <2>6, <2>7, HeightsSplit
  <2> QED BY <2>1, <2>8 DEF at
<1>6. DOMAIN heights = DOMAIN chunks'
  BY <1>4 DEF Reaching
<1>7. \A c \in DOMAIN chunks : StatementsFit(c, heights[c])'
  BY <1>3 DEF Reaching, StatementsFit
<1> QED BY <1>3, <1>4, <1>5, <1>6, <1>7, ReachingAnew

\* A shape that agrees with another one on the cells of the functions.
LEMMA SameCells ==
  ASSUME NEW p, NEW s, NEW t, \A i \in Templates(p) : CellsOf(p, s, i) = CellsOf(p, t, i),
         NEW cells, NEW instr, OperandsFit(p, s, cells, instr)
  PROVE  OperandsFit(p, t, cells, instr)
<1>1. Loadable(p, s) \subseteq Loadable(p, t)
  BY DEF Loadable
<1> QED BY <1>1 DEF OperandsFit

\* With its heights, the program is well formed.
LEMMA HeightsSuffice ==
  ASSUME Inv, NEW shape, Fitting(shape), NEW heights,
         \A c \in DOMAIN chunks : HeightsFit(chunks[c], shape[c].arity, heights[c]),
         NEW whole, whole = [c \in DOMAIN chunks |-> [arity |-> shape[c].arity,
                                                    cells |-> shape[c].cells,
                                                    heights |-> heights[c]]]
  PROVE  /\ WellFormed(Bytecode, whole)
         /\ \A c \in DOMAIN chunks : \A i \in DOMAIN chunks[c] :
              OperandsFit(Bytecode, whole, whole[c].cells, chunks[c][i])
<1>1. PICK S : chunks \in Seq(Seq(S))
  BY DEF Inv, Typed
<1>2. PICK C : constants \in Seq(C)
  BY DEF Fitting
<1> DEFINE p == Bytecode
<1>4. /\ DOMAIN whole = DOMAIN chunks /\ DOMAIN shape = DOMAIN chunks /\ p.chunks = chunks
      /\ \A c \in DOMAIN chunks : /\ whole[c].arity = shape[c].arity
                                  /\ whole[c].cells = shape[c].cells
                                  /\ whole[c].heights = heights[c]
  BY DEF Fitting, Bytecode
<1>5. /\ DOMAIN p.constants = 0 .. Len(constants) - 1 /\ Len(constants) \in Nat
      /\ \A i \in DOMAIN p.constants : ConstantFits(shape, p.constants[i])
  BY <1>2, Numbering DEF Fitting
<1>6. IsFiniteSet(DOMAIN p.constants)
  BY <1>5, FS_Interval
<1> HIDE DEF p
<1>7. \A i \in DOMAIN p.constants : ConstantFits(whole, p.constants[i])
  BY <1>4, <1>5 DEF ConstantFits
<1>8. ASSUME NEW i \in Templates(p)
      PROVE  CellsOf(p, shape, i) = CellsOf(p, whole, i)
  <2>1. i \in DOMAIN p.constants /\ IsA("fun", p.constants[i])
    BY DEF Templates
  <2>2. p.constants[i][2].chunk + 1 \in DOMAIN shape
    <3>1. p.constants[i] \notin {Nil} \cup ({"bool"} \X BOOLEAN) \cup ({"int"} \X Int)
                                  \cup ({"str"} \X Seq(STRING))
      BY <2>1 DEF IsA, Nil
    <3> QED BY <1>5, <2>1, <3>1 DEF ConstantFits
  <2> QED BY <1>4, <2>2 DEF CellsOf
<1>13. ASSUME NEW c \in DOMAIN chunks, NEW i \in DOMAIN chunks[c]
       PROVE  OperandsFit(p, whole, whole[c].cells, chunks[c][i])
  <2>1. OperandsFit(p, shape, shape[c].cells, chunks[c][i])
    BY DEF Fitting, Operands, p
  <2> QED BY <1>4, <1>8, <2>1, SameCells
<1>9. ASSUME NEW c \in DOMAIN chunks
      PROVE  /\ whole[c].arity \in Nat /\ whole[c].cells \in Nat
             /\ HeightsFit(p.chunks[c], whole[c].arity, whole[c].heights)
             /\ \A ip \in DOMAIN whole[c].heights :
                  OperandsFit(p, whole, whole[c].cells, p.chunks[c][ip + 1])
  <2>1. HeightsFit(chunks[c], shape[c].arity, heights[c])
    OBVIOUS
  <2>2. ASSUME NEW ip \in DOMAIN heights[c]
        PROVE  OperandsFit(p, whole, shape[c].cells, chunks[c][ip + 1])
    <3>1. ip + 1 \in DOMAIN chunks[c]
      BY <1>1, <2>1 DEF HeightsFit
    <3> QED BY <1>4, <1>13, <3>1
  <2>3. shape[c].arity \in Nat /\ shape[c].cells \in Nat
    BY <1>4 DEF Fitting
  <2> QED BY <1>4, <2>1, <2>2, <2>3
<1>10. 1 \in DOMAIN chunks
  BY <1>1 DEF Inv, PassInv
<1>11. whole[1].arity = 0 /\ whole[1].cells = 0
  BY <1>4, <1>10 DEF Fitting
<1>12. WellFormed(p, whole)
  BY <1>4, <1>6, <1>7, <1>9, <1>10, <1>11 DEF WellFormed
<1> QED BY <1>12, <1>13 DEF p

----------------------------------------------------------------------------
(* Heights: as they are computed *)

\* Heights as the pairs that are computed.
Graph(heights) == {<<ip, heights[ip]>> : ip \in DOMAIN heights}

LEMMA GraphFinite ==
  ASSUME NEW heights, NEW n \in Nat, DOMAIN heights \subseteq 0 .. n - 1
  PROVE  IsFiniteSet(Graph(heights)) /\ Cardinality(Graph(heights)) <= n
<1> DEFINE D == DOMAIN heights
           f == [ip \in D |-> <<ip, heights[ip]>>]
<1>1. IsFiniteSet(0 .. n - 1) /\ Cardinality(0 .. n - 1) = n
  BY FS_Interval
<1>2. IsFiniteSet(D) /\ Cardinality(D) <= n
  BY <1>1, FS_Subset
<1>3. f \in Surjection(D, Graph(heights))
  BY DEF Surjection, Graph
<1>4. IsFiniteSet(Graph(heights)) /\ Cardinality(Graph(heights)) <= Cardinality(D)
  <2> HIDE DEF D, f
  <2> QED BY <1>2, <1>3, FS_Surjection
<1> QED BY <1>2, <1>4, FS_CardinalityType

\* A successor is a pair of an offset and a height, and heights that fit have it.
LEMMA SuccessorsFit ==
  ASSUME NEW code, NEW arity, NEW heights, HeightsFit(code, arity, heights),
         NEW at \in Graph(heights)
  PROVE  Successors(code, at) \subseteq Graph(heights)
<1>1. PICK ip \in DOMAIN heights : at = <<ip, heights[ip]>>
  BY DEF Graph
<1>2. ASSUME NEW to \in Successors(code, <<ip, heights[ip]>>)
      PROVE  to \in Graph(heights)
  <2>1. to[1] \in DOMAIN heights /\ heights[to[1]] = to[2]
    BY <1>2 DEF HeightsFit, FitsAt
  <2>2. to = <<to[1], to[2]>>
    <3>1. to \in {<<ip + 1, m>> : m \in Behind(code[ip + 1], heights[ip])}
                   \cup Led(code[ip + 1], heights[ip])
      BY <1>2, SuccessorsSplit
    <3>2. ASSUME to \in Led(code[ip + 1], heights[ip])
          PROVE  to = <<to[1], to[2]>>
      BY <3>2 DEF Led
    <3> QED BY <3>1, <3>2
  <2> QED BY <2>1, <2>2 DEF Graph
<1> QED BY <1>1, <1>2

\* What every step of Heights keeps.  After k steps, there is nothing more to reach, or
\* more than k offsets have been.
FurtherOp(env, ways, instr) == Further(env.code, ways)
FurtherKeeps(env, k, ways) ==
  /\ env.starts \subseteq ways.reached
  /\ ways.last \subseteq ways.reached
  /\ ways.reached \subseteq Graph(env.heights)
  /\ \A at \in ways.reached \ ways.last : Successors(env.code, at) \subseteq ways.reached
  /\ ways.last = {} \/ Cardinality(ways.reached) > k
Exploring == INSTANCE FoldTheorems WITH Op <- FurtherOp, Keeps <- FurtherKeeps

LEMMA FurtherStep ==
  ASSUME NEW env, NEW arity, HeightsFit(env.code, arity, env.heights), Len(env.code) \in Nat,
         NEW k \in Nat, NEW ways, FurtherKeeps(env, k, ways)
  PROVE  FurtherKeeps(env, k + 1, Further(env.code, ways))
<1> DEFINE code == env.code
           graph == Graph(env.heights)
           led == UNION {Successors(code, at) : at \in ways.last}
           found == led \ ways.reached
           after == [reached |-> ways.reached \cup found, last |-> found]
<1>1. /\ env.starts \subseteq ways.reached /\ ways.last \subseteq ways.reached
      /\ ways.reached \subseteq graph
      /\ \A at \in ways.reached \ ways.last : Successors(code, at) \subseteq ways.reached
      /\ ways.last = {} \/ Cardinality(ways.reached) > k
  BY DEF FurtherKeeps
<1>2. ~ \E at \in ways.last : at[1] >= Len(code)
  <2> SUFFICES ASSUME NEW at \in graph PROVE ~(at[1] >= Len(code))
    BY <1>1
  <2>1. at[1] \in DOMAIN env.heights
    BY DEF Graph
  <2>2. at[1] \in 0 .. Len(code) - 1
    BY <2>1 DEF HeightsFit
  <2> HIDE DEF code
  <2> QED BY <2>2
<1>3. Further(code, ways) = after
  BY <1>2, Zenon DEF Further
<1>4. led \subseteq graph
  BY <1>1, SuccessorsFit
<1>5. IsFiniteSet(graph)
  BY GraphFinite DEF HeightsFit
<1>6. \A at \in (ways.reached \cup found) \ found :
        Successors(code, at) \subseteq ways.reached \cup found
  <2> TAKE at \in (ways.reached \cup found) \ found
  <2>1. CASE at \in ways.last
    BY <2>1
  <2>2. CASE at \notin ways.last
    BY <1>1, <2>2
  <2> QED BY <2>1, <2>2
<1>7. found = {} \/ Cardinality(ways.reached \cup found) > k + 1
  <2> SUFFICES ASSUME found # {} PROVE Cardinality(ways.reached \cup found) > k + 1
    OBVIOUS
  <2>1. PICK at \in found : at \notin ways.reached
    OBVIOUS
  <2>2. ways.last # {}
    OBVIOUS
  <2>3. Cardinality(ways.reached) > k
    BY <1>1, <2>2
  <2>4. IsFiniteSet(ways.reached) /\ IsFiniteSet(ways.reached \cup found)
    <3>1. ways.reached \in SUBSET graph /\ ways.reached \cup found \in SUBSET graph
      BY <1>1, <1>4
    <3> HIDE DEF graph, found
    <3> QED BY <1>5, <3>1, FS_Subset
  <2>5. Cardinality(ways.reached \cup {at}) = Cardinality(ways.reached) + 1
    BY <2>1, <2>4, FS_AddElement
  <2>6. Cardinality(ways.reached \cup {at}) <= Cardinality(ways.reached \cup found)
    <3>1. ways.reached \cup {at} \in SUBSET (ways.reached \cup found)
      BY <2>1
    <3> HIDE DEF found
    <3> QED BY <2>4, <3>1, FS_Subset
  <2>7. Cardinality(ways.reached) \in Nat /\ Cardinality(ways.reached \cup found) \in Nat
    <3> HIDE DEF found
    <3> QED BY <2>4, FS_CardinalityType
  <2> HIDE DEF found
  <2> QED BY <2>3, <2>5, <2>6, <2>7
<1>8. env.starts \subseteq ways.reached \cup found /\ ways.reached \cup found \subseteq graph
  BY <1>1, <1>4
<1> HIDE DEF found, led
<1>9. after.reached = ways.reached \cup found /\ after.last = found
  OBVIOUS
<1> HIDE DEF after
<1> QED BY <1>3, <1>6, <1>7, <1>8, <1>9 DEF FurtherKeeps

\* The computation follows every way to its end, and finds nothing but the heights of
\* whatever function there is that fits.
LEMMA HeightsExplored ==
  ASSUME NEW S, NEW code \in Seq(S), NEW arity, NEW heights, HeightsFit(code, arity, heights),
         NEW starts, starts \subseteq Graph(heights), starts # {}
  PROVE  /\ starts \subseteq Heights(code, starts)
         /\ Heights(code, starts) \subseteq Graph(heights)
         /\ \A at \in Heights(code, starts) : Successors(code, at) \subseteq Heights(code, starts)
<1> DEFINE n == Len(code)
           base == [reached |-> starts, last |-> starts]
           env == [code |-> code, heights |-> heights, starts |-> starts]
           ways == Exploring!Folded(env, base, code)
<1>0. env.code = code /\ env.heights = heights /\ env.starts = starts
      /\ base.reached = starts /\ base.last = starts
  OBVIOUS
<1>1. n \in Nat /\ DOMAIN code = 1 .. n
  OBVIOUS
<1>2. Heights(code, starts) = ways.reached
  BY <1>0, Zenon DEF Heights, FurtherOp, FoldLeft, Exploring!Folded, Exploring!FoldLeft,
                     MapThenFoldSet, Exploring!MapThenFoldSet, Max, Exploring!Max
<1>3. IsFiniteSet(Graph(heights)) /\ Cardinality(Graph(heights)) <= n
  <2>1. DOMAIN heights \subseteq 0 .. n - 1
    BY DEF HeightsFit
  <2> HIDE DEF n
  <2> QED BY <1>1, <2>1, GraphFinite
<1> HIDE DEF env, base
<1>4. FurtherKeeps(env, 0, base)
  <2>1. IsFiniteSet(starts)
    BY <1>3, FS_Subset
  <2>2. Cardinality(starts) \in Nat /\ Cardinality(starts) # 0
    BY <2>1, FS_CardinalityType, FS_EmptySet
  <2>3. Cardinality(starts) > 0
    BY <2>2
  <2> QED BY <1>0, <2>3 DEF FurtherKeeps
<1>5. \A k \in 1 .. n : \A acc :
        FurtherKeeps(env, k - 1, acc) => FurtherKeeps(env, k, FurtherOp(env, acc, code[k]))
  <2> SUFFICES ASSUME NEW k \in 1 .. n, NEW acc, FurtherKeeps(env, k - 1, acc)
               PROVE  FurtherKeeps(env, k, Further(env.code, acc))
    BY DEF FurtherOp
  <2>1. k - 1 \in Nat /\ (k - 1) + 1 = k
    BY <1>1
  <2>2. FurtherKeeps(env, (k - 1) + 1, Further(env.code, acc))
    BY <1>0, <1>1, <2>1, FurtherStep
  <2> QED BY <2>1, <2>2
<1>6. FurtherKeeps(env, n, ways)
  <2> HIDE DEF n
  <2> QED BY <1>1, <1>4, <1>5, Exploring!FoldLeftKeeps, Zenon
<1> HIDE DEF ways, n
<1>7. /\ starts \subseteq ways.reached /\ ways.reached \subseteq Graph(heights)
      /\ \A at \in ways.reached \ ways.last : Successors(code, at) \subseteq ways.reached
      /\ ways.last = {} \/ Cardinality(ways.reached) > n
  BY <1>0, <1>6 DEF FurtherKeeps
<1>8. ways.last = {}
  <2>1. Cardinality(ways.reached) <= Cardinality(Graph(heights)) /\ IsFiniteSet(ways.reached)
    BY <1>3, <1>7, FS_Subset
  <2>2. Cardinality(ways.reached) \in Nat /\ Cardinality(Graph(heights)) \in Nat
    BY <1>3, <2>1, FS_CardinalityType
  <2> QED BY <1>1, <1>3, <1>7, <2>1, <2>2
<1> QED BY <1>2, <1>7, <1>8

\* So code for which there are heights is disciplined: what is computed has one height for
\* every offset, and fits.
LEMMA HeightsComputed ==
  ASSUME NEW S, NEW code \in Seq(S), NEW arity, NEW heights, HeightsFit(code, arity, heights),
         NEW starts, starts \subseteq Graph(heights)
  PROVE  Disciplined(code, arity, starts)
<1> DEFINE from == Entry(arity) \cup starts
           seen == Heights(code, from)
           map == HeightMap(code, from)
           ips == {at[1] : at \in seen}
<1>1. from \subseteq Graph(heights) /\ from # {} /\ <<0, arity>> \in from
  BY DEF Entry, Graph, HeightsFit
<1>2. /\ <<0, arity>> \in seen /\ seen \subseteq Graph(heights)
      /\ \A at \in seen : Successors(code, at) \subseteq seen
  <2> HIDE DEF from
  <2> QED BY <1>1, HeightsExplored
<1>3. map = [ip \in ips |-> (CHOOSE at \in seen : at[1] = ip)[2]]
  BY Zenon DEF HeightMap
<1> HIDE DEF from, seen
<1>4. \A at \in seen : at[1] \in DOMAIN heights /\ at = <<at[1], heights[at[1]]>>
  BY <1>2 DEF Graph
<1>5. ASSUME NEW ip \in ips
      PROVE  map[ip] = heights[ip] /\ <<ip, heights[ip]>> \in seen /\ ip \in DOMAIN heights
  <2> DEFINE found == CHOOSE at \in seen : at[1] = ip
  <2>1. \E at \in seen : at[1] = ip
    OBVIOUS
  <2>2. found \in seen /\ found[1] = ip
    BY <2>1, Zenon
  <2>3. map[ip] = found[2]
    BY <1>3, Zenon
  <2> HIDE DEF found, map
  <2> QED BY <1>4, <2>2, <2>3
<1>6. DOMAIN map = ips
  BY <1>3
<1>7. OneHeight(seen)
  <2> DEFINE f == [at \in seen |-> at[1]]
  <2>1. IsFiniteSet(seen)
    <3>1. Len(code) \in Nat /\ DOMAIN heights \subseteq 0 .. Len(code) - 1
      BY DEF HeightsFit
    <3> QED BY <1>2, <3>1, GraphFinite, FS_Subset
  <2>2. f \in Surjection(seen, ips) /\ f \in Injection(seen, ips)
    <3>1. f \in [seen -> ips] /\ \A at \in seen : f[at] = at[1]
      OBVIOUS
    <3>2. \A a, b \in seen : a[1] = b[1] => a = b
      BY <1>4
    <3> HIDE DEF f
    <3>3. f \in Injection(seen, ips)
      BY <3>1, <3>2 DEF Injection, IsInjective
    <3>4. f \in Surjection(seen, ips)
      BY <3>1 DEF Surjection
    <3> QED BY <3>3, <3>4
  <2>3. Cardinality(ips) = Cardinality(seen)
    <3> HIDE DEF f, ips
    <3> QED BY <2>1, <2>2, FS_Surjection
  <2> QED BY <2>3 DEF OneHeight
<1>8. HeightsFit(code, arity, map)
  <2>1. 0 \in ips
    <3>1. <<0, arity>>[1] = 0
      OBVIOUS
    <3> QED BY <1>2, <3>1
  <2>2. heights[0] = arity /\ DOMAIN heights \subseteq 0 .. Len(code) - 1
    BY DEF HeightsFit
  <2>3. ASSUME NEW ip \in ips
        PROVE  FitsAt(code, map, ip)
    <3>1. map[ip] = heights[ip] /\ <<ip, heights[ip]>> \in seen /\ ip \in DOMAIN heights
      BY <1>5
    <3>2. FitsAt(code, heights, ip)
      BY <3>1 DEF HeightsFit
    <3>3. ASSUME NEW at \in Successors(code, <<ip, heights[ip]>>)
          PROVE  at[1] \in ips /\ map[at[1]] = at[2]
      <4>1. at \in seen
        BY <1>2, <3>1
      <4>2. at[1] \in ips /\ heights[at[1]] = at[2]
        BY <3>2, <4>1 DEF FitsAt
      <4> HIDE DEF map, ips
      <4> QED BY <1>5, <4>2
    <3> HIDE DEF map, ips
    <3> QED BY <1>6, <3>1, <3>2, <3>3 DEF FitsAt
  <2>4. ips \subseteq 0 .. Len(code) - 1
    BY <1>5, <2>2
  <2> HIDE DEF map, ips
  <2> QED BY <1>5, <1>6, <2>1, <2>2, <2>3, <2>4 DEF HeightsFit
<1> QED BY <1>7, <1>8 DEF Disciplined, seen, from

----------------------------------------------------------------------------
(* Heights: the number of parameters *)

\* A chunk without a template is entered without arguments.
Called(code, pool, shape) ==
  \A c \in DOMAIN code :
    \/ shape[c].arity = 0
    \/ \E i \in DOMAIN pool : IsA("fun", pool[i]) /\ pool[i][2].chunk = c - 1

\* The templates say how many parameters there are.
LEMMA ArityKnown ==
  ASSUME Inv, NEW shape, Fitting(shape), Called(chunks, constants, shape), NEW c \in DOMAIN chunks
  PROVE  Arity(Bytecode, c) = shape[c].arity
<1> DEFINE p == Bytecode
           templates == {i \in Templates(p) : p.constants[i][2].chunk = c - 1}
<1>1. c \in Int
  <2>1. PICK S : chunks \in Seq(Seq(S))
    BY DEF Inv, Typed
  <2> QED BY <2>1
<1>2. PICK C : constants \in Seq(C)
  BY DEF Fitting
<1>3. /\ \A i \in DOMAIN p.constants : i + 1 \in DOMAIN constants /\ p.constants[i] = constants[i + 1]
      /\ \A i \in DOMAIN constants : i - 1 \in DOMAIN p.constants /\ p.constants[i - 1] = constants[i]
  BY <1>2, Numbering
<1> HIDE DEF p
<1>4. ASSUME NEW i \in templates
      PROVE  p.constants[i][2].arity = shape[c].arity
  <2>1. i \in DOMAIN p.constants /\ IsA("fun", p.constants[i]) /\ p.constants[i][2].chunk = c - 1
    BY DEF Templates
  <2>2. ConstantFits(shape, p.constants[i])
    BY <1>3, <2>1 DEF Fitting
  <2>3. p.constants[i] \notin {Nil} \cup ({"bool"} \X BOOLEAN) \cup ({"int"} \X Int)
                                \cup ({"str"} \X Seq(STRING))
    BY <2>1 DEF IsA, Nil
  <2>4. p.constants[i][2].arity = shape[p.constants[i][2].chunk + 1].arity
    BY <2>2, <2>3 DEF ConstantFits
  <2>5. (c - 1) + 1 = c
    BY <1>1
  <2> QED BY <2>1, <2>4, <2>5
<1>5. ASSUME templates = {}
      PROVE  shape[c].arity = 0
  <2> SUFFICES ASSUME NEW i \in DOMAIN constants, IsA("fun", constants[i]), constants[i][2].chunk = c - 1
               PROVE  FALSE
    BY DEF Called
  <2>1. i - 1 \in DOMAIN p.constants /\ p.constants[i - 1] = constants[i]
    BY <1>3
  <2>2. i - 1 \in templates
    BY <2>1 DEF Templates
  <2> QED BY <1>5, <2>2
<1>6. Arity(p, c) = shape[c].arity
  <2>1. CASE templates = {}
    BY <1>5, <2>1, Zenon DEF Arity
  <2>2. CASE templates # {}
    <3> DEFINE i == CHOOSE i \in templates : TRUE
    <3>1. i \in templates
      BY <2>2, Zenon
    <3>2. Arity(p, c) = p.constants[i][2].arity
      BY <2>2, Zenon DEF Arity
    <3> HIDE DEF i
    <3> QED BY <1>4, <3>1, <3>2
  <2> QED BY <2>1, <2>2
<1> QED BY <1>6 DEF p

\* No template is lost: by the optimizer, which only adds constants, ...
LEMMA CalledStep ==
  ASSUME Inv, NEW shape, Fitting(shape), Called(chunks, constants, shape), Optimize
  PROVE  Called(chunks, constants, shape)'
<1>1. DOMAIN chunks' = DOMAIN chunks
  BY DEF Optimize, Round, PopZero, ZeroJump, MergePops, UnaryFold, UnaryFoldThrows, Fold, Replace,
         ConstJumpIfTaken, ConstJumpIfNotTaken, BinaryFold, Copy, FollowChain, Hop, EndChain,
         ShorterPass, LastPass
<1>2. \A i \in DOMAIN constants : i \in DOMAIN constants' /\ constants'[i] = constants[i]
  <2>1. CASE Round
    <3>1. CASE constants' = constants
      BY <3>1
    <3>2. ASSUME NEW n \in 1 .. 3, NEW r, NEW added, Replace(n, r, added), Rewrites(n, r, added)
          PROVE  \A i \in DOMAIN constants : i \in DOMAIN constants' /\ constants'[i] = constants[i]
      <4>1. Grown(constants, added, constants')
        BY <3>2, RewriteGrows
      <4>2. added = <<>> \/ \E d : added = <<d>>
        BY <3>2 DEF Rewrites
      <4> QED BY <4>1, <4>2 DEF Grown
    <3> QED BY <2>1, <3>1, <3>2, RoundRewrites
  <2>2. CASE ShorterPass \/ LastPass
    BY <2>2 DEF ShorterPass, LastPass
  <2> QED BY <2>1, <2>2 DEF Optimize
<1> QED BY <1>1, <1>2 DEF Called

\* ... and by the merging, which keeps one of equal ones.
LEMMA CalledMerged ==
  ASSUME NEW shape, Fitting(shape), Called(chunks, constants, shape), Deduplicate
  PROVE  Called(chunks, constants, shape)'
<1>1. PICK C : constants \in Seq(C)
  BY DEF Fitting
<1>2. DOMAIN chunks' = DOMAIN chunks /\ constants' = Deduplicated.kept
  BY DEF Deduplicate
<1>3. MergeKeeps(constants, Len(constants), Deduplicated)
  BY <1>1, MergedConstants
<1>4. \A i \in DOMAIN constants : \E j \in DOMAIN constants' : constants'[j] = constants[i]
  <2> TAKE i \in DOMAIN constants
  <2>1. i \in 1 .. Len(constants)
    BY <1>1
  <2>2. PICK k : k = Deduplicated.index[i]
    OBVIOUS
  <2>3. k \in 0 .. Len(constants') - 1 /\ constants'[k + 1] = constants[i]
    BY <1>2, <1>3, <2>1, <2>2 DEF MergeKeeps
  <2>4. PICK D : constants' \in Seq(D)
    BY <1>2, <1>3 DEF MergeKeeps
  <2>5. k + 1 \in DOMAIN constants'
    BY <2>3, <2>4
  <2> QED BY <2>3, <2>5
<1> QED BY <1>2, <1>4 DEF Called

----------------------------------------------------------------------------
(* Heights: the theorems *)

\* Code and the beginnings of its statements, at the heights of every chunk.
Settled(code, pool, statements, shape, heights) ==
  /\ Called(code, pool, shape)
  /\ DOMAIN heights = DOMAIN code
  /\ \A c \in DOMAIN code :
       /\ HeightsFit(code[c], shape[c].arity, heights[c])
       /\ \A mark \in statements :
            mark[1] = c - 1 => mark[2] \in DOMAIN heights[c] /\ heights[c][mark[2]] = mark[3]

\* The premise: what the pass over the tree makes is sound, and has heights.
CompilerDisciplined ==
  \A name \in DOMAIN Sources :
    LET made == CompileTree(Sources[name].tree)
    IN  ~made.error =>
          \E shape, heights : /\ Sound(made.chunks, made.constants, shape)
                             /\ Settled(made.chunks, made.constants, made.marks, shape, heights)

\* What is kept as long as the windows are sound.
DisciplineInv ==
  /\ CompilationInv
  /\ phase \notin {"parsed", "rejected"} =>
       \E shape, heights : Fitting(shape) /\ Called(chunks, constants, shape) /\ Reaching(shape, heights)

LEMMA DisciplineStep ==
  ASSUME CompilerDisciplined, DisciplineInv, WindowsSound, [Next]_vars
  PROVE  DisciplineInv'
<1>0. CompilationInv'
  <2>1. CompilerSound
    BY DEF CompilerDisciplined, CompilerSound
  <2> QED BY <2>1, CompilationStep DEF DisciplineInv
<1> SUFFICES ASSUME phase' \notin {"parsed", "rejected"}
             PROVE  \E shape, heights :
                      (Fitting(shape) /\ Called(chunks, constants, shape) /\ Reaching(shape, heights))'
  BY <1>0 DEF DisciplineInv
<1>1. CASE Compile
  <2> DEFINE compiled == CompileTree(Sources[source].tree)
  <2>1. /\ phase = "parsed" /\ OptimizerInit /\ OptimizerInit' /\ source \in DOMAIN Sources
    BY <1>1 DEF Compile, DisciplineInv, CompilationInv, OptimizerInit
  <2>2. ~compiled.error /\ chunks' = compiled.chunks /\ constants' = compiled.constants
        /\ marks' = compiled.marks
    BY <1>1 DEF Compile
  <2>3. PICK shape, heights :
          Sound(chunks', constants', shape) /\ Settled(chunks', constants', marks', shape, heights)
    BY <2>1, <2>2 DEF CompilerDisciplined
  <2>6. /\ DOMAIN heights = DOMAIN chunks'
        /\ \A c \in DOMAIN chunks' :
             HeightsFit(chunks'[c], shape[c].arity, heights[c]) /\ StatementsFit(c, heights[c])'
    BY <2>3 DEF Settled, StatementsFit
  <2>4. Fitting(shape)'
    BY <2>1, <2>3, CompiledStart
  <2>5. Reaching(shape, heights)'
    BY <2>1, <2>3, <2>6, ReachingAnew DEF OptimizerInit
  <2>7. Called(chunks, constants, shape)'
    BY <2>3 DEF Settled, Called
  <2> QED BY <2>4, <2>5, <2>7
<1>2. CASE Optimization
  <2>1. Optimize
    BY <1>2 DEF Optimization, Optimize
  <2>2. phase = "optimizing"
    BY <2>1 DEF DisciplineInv, CompilationInv, Optimize, Round, PopZero, ZeroJump, MergePops,
                UnaryFold, UnaryFoldThrows, ConstJumpIfTaken, ConstJumpIfNotTaken, BinaryFold,
                Copy, FollowChain, Hop, EndChain, ShorterPass, LastPass, PassEnds, Scanning
  <2>3. Inv
    BY <2>2 DEF DisciplineInv, CompilationInv
  <2>4. PICK shape, heights :
          Fitting(shape) /\ Called(chunks, constants, shape) /\ Reaching(shape, heights)
    BY <2>2 DEF DisciplineInv
  <2>5. PICK later : Reaching(shape, later)'
    BY <1>2, <2>3, <2>4, ReachingStep
  <2>6. Fitting(shape)'
    BY <2>1, <2>3, <2>4, FittingStep
  <2>7. Called(chunks, constants, shape)'
    BY <2>1, <2>3, <2>4, CalledStep
  <2> QED BY <2>5, <2>6, <2>7
<1>3. CASE Deduplicate
  <2>1. phase = "optimized"
    BY <1>3 DEF Deduplicate
  <2>2. Inv /\ next = 0 /\ fresh = <<>> /\ offsets = <<>> /\ chain = <<>>
    BY <2>1 DEF DisciplineInv, CompilationInv
  <2>3. PICK shape, heights :
          Fitting(shape) /\ Called(chunks, constants, shape) /\ Reaching(shape, heights)
    BY <2>1 DEF DisciplineInv
  <2>4. Fitting(shape)' /\ Called(chunks, constants, shape)' /\ Reaching(shape, heights)'
    BY <1>3, <2>2, <2>3, MergedFits, MergedHeights, CalledMerged
  <2> QED BY <2>4
<1>4. CASE UNCHANGED vars
  <2>1. UNCHANGED <<phase, chunks, constants, current, next, fresh, offsets, chain, marks>>
    BY <1>4 DEF vars, optimizerVars
  <2>2. PICK shape, heights :
          Fitting(shape) /\ Called(chunks, constants, shape) /\ Reaching(shape, heights)
    BY <2>1 DEF DisciplineInv
  <2>3. Fitting(shape)'
    BY <2>1, <2>2 DEF Fitting, Operands, Bytecode, Scanned
  <2>4. ASSUME NEW c \in DOMAIN chunks, c = current
        PROVE  (\E new : PassFits(shape[c].arity, heights[c], new)') /\ ChainFits(heights[c])'
    <3>1. PICK new : PassFits(shape[c].arity, heights[c], new)
      BY <2>2, <2>4 DEF Reaching
    <3>2. ChainFits(heights[c])'
      BY <2>1, <2>2, <2>4 DEF Reaching, ChainFits, Targets, Scanned, At
    <3> QED BY <2>1, <3>1, <3>2, PassStays
  <2>5. Reaching(shape, heights)'
    BY <2>1, <2>2, <2>4 DEF Reaching, StatementsFit
  <2> QED BY <2>1, <2>2, <2>3, <2>5
<1> QED BY <1>1, <1>2, <1>3, <1>4 DEF Next

\* The invariant implies what is computed.
LEMMA DisciplineImplies ==
  ASSUME DisciplineInv, Compiled
  PROVE  ProgramWellFormed /\ StackDiscipline /\ LocalsInPlace
<1>1. Inv
  BY DEF Compiled, DisciplineInv, CompilationInv
<1>2. PICK shape, heights :
        Fitting(shape) /\ Called(chunks, constants, shape) /\ Reaching(shape, heights)
  BY DEF Compiled, DisciplineInv
<1>3. PICK S : chunks \in Seq(Seq(S))
  BY <1>1 DEF Inv, Typed
<1>4. \A c \in DOMAIN chunks :
        /\ Arity(Bytecode, c) = shape[c].arity /\ CapturedCells(Bytecode, c) = shape[c].cells
        /\ chunks[c] \in Seq(S)
  BY <1>1, <1>2, <1>3, ArityKnown, CellsCaptured
<1>5. \A c \in DOMAIN chunks :
        HeightsFit(chunks[c], shape[c].arity, heights[c]) /\ StatementsFit(c, heights[c])
  BY <1>2 DEF Reaching
<1>6. ASSUME NEW c \in DOMAIN chunks
      PROVE  /\ Disciplined(chunks[c], Arity(Bytecode, c), {})
             /\ LET statements == {mark \in marks : mark[1] = c - 1}
                IN  Disciplined(chunks[c], Arity(Bytecode, c),
                                {<<mark[2], mark[3]>> : mark \in statements})
  <2> DEFINE statements == {mark \in marks : mark[1] = c - 1}
             starts == {<<mark[2], mark[3]>> : mark \in statements}
  <2>1. starts \subseteq Graph(heights[c])
    BY <1>5 DEF StatementsFit, Graph
  <2>2. {} \subseteq Graph(heights[c])
    OBVIOUS
  <2>3. Disciplined(chunks[c], shape[c].arity, starts)
    <3> HIDE DEF starts
    <3> QED BY <1>4, <1>5, <2>1, HeightsComputed
  <2>4. Disciplined(chunks[c], shape[c].arity, {})
    BY <1>4, <1>5, <2>2, HeightsComputed
  <2> QED BY <1>4, <2>3, <2>4
<1>7. PICK computed : computed = [c \in DOMAIN chunks |-> HeightMap(chunks[c], Entry(shape[c].arity))]
  OBVIOUS
<1>8. \A c \in DOMAIN chunks : HeightsFit(chunks[c], shape[c].arity, computed[c])
  <2> TAKE c \in DOMAIN chunks
  <2>1. Disciplined(chunks[c], shape[c].arity, {})
    BY <1>4, <1>6
  <2>2. Entry(shape[c].arity) \cup {} = Entry(shape[c].arity)
    OBVIOUS
  <2> QED BY <1>7, <2>1, <2>2 DEF Disciplined
<1>9. Shape(Bytecode) = [c \in DOMAIN chunks |-> [arity |-> shape[c].arity,
                                                  cells |-> shape[c].cells,
                                                  heights |-> computed[c]]]
  <2>1. Bytecode.chunks = chunks
    BY DEF Bytecode
  <2> QED BY <1>4, <1>7, <2>1, Zenon DEF Shape
<1>10. ProgramWellFormed
  <2>1. PICK whole : whole = Shape(Bytecode)
    OBVIOUS
  <2>2. /\ WellFormed(Bytecode, whole)
        /\ \A c \in DOMAIN chunks : \A i \in DOMAIN chunks[c] :
             OperandsFit(Bytecode, whole, whole[c].cells, chunks[c][i])
    BY <1>1, <1>2, <1>8, <1>9, <2>1, HeightsSuffice
  <2> QED BY <2>1, <2>2 DEF ProgramWellFormed
<1>11. StackDiscipline
  BY <1>6, Zenon DEF StackDiscipline
<1>12. LocalsInPlace
  BY <1>6, Zenon DEF LocalsInPlace
<1> QED BY <1>10, <1>11, <1>12

LEMMA DisciplineAlways ==
  ASSUME CompilerDisciplined
  PROVE  Spec /\ []WindowsSound => [](ProgramWellFormed /\ StackDiscipline /\ LocalsInPlace)
<1>1. Init => DisciplineInv
  BY CompilationStarts DEF Init, DisciplineInv
<1>2. DisciplineInv /\ WindowsSound /\ [Next]_vars => DisciplineInv'
  BY DisciplineStep
<1>3. DisciplineInv => ProgramWellFormed /\ StackDiscipline /\ LocalsInPlace
  BY DisciplineImplies DEF ProgramWellFormed, StackDiscipline, LocalsInPlace
<1> QED BY <1>1, <1>2, <1>3, PTL DEF Spec

\* Whatever patterns match, and however often: the optimizer and the merging of equal
\* constants keep to all that the interpreter relies on without a check (heights, slots,
\* upvalues, constants), as long as the windows that are replaced are sound.  What the
\* patterns forget to ask for (WindowsSound) is all that can go wrong.
THEOREM WellFormedIsKept ==
  ASSUME CompilerDisciplined
  PROVE  Spec /\ []WindowsSound => []ProgramWellFormed
BY DisciplineAlways, PTL

\* On every way to an instruction the frame is equally high, enough for its operands and
\* above the slots it names, before and after every pass with sound windows.
THEOREM StackStaysDisciplined ==
  ASSUME CompilerDisciplined
  PROVE  Spec /\ []WindowsSound => []StackDiscipline
BY DisciplineAlways, PTL

\* At every statement the frame holds the locals in scope and nothing else, wherever the
\* passes have moved the statement to.
THEOREM LocalsStayInPlace ==
  ASSUME CompilerDisciplined
  PROVE  Spec /\ []WindowsSound => []LocalsInPlace
BY DisciplineAlways, PTL

=============================================================================
