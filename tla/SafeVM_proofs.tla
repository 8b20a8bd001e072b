---------------------------- MODULE SafeVM_proofs -----------------------------
(***************************************************************************)
(* The steps that begin or end an activation keep SafeVM's invariant:      *)
(* calls and returns, builtins that call back, exceptions.  With           *)
(* SafeVM_steps this proves that the interpreter is safe on every well-    *)
(* formed program.                                                         *)
(***************************************************************************)
EXTENDS SafeVM_steps

----------------------------------------------------------------------------
(* Activations *)

\* The frame of a function that is called.
LEMMA NewFrameOK ==
  ASSUME NEW f, IsClosure(f), NEW self \in StackValues, NEW fp \in Nat, NEW site
  PROVE  LET new == NewFrame(f, self, fp, site)
         IN  FrameOK(new) /\ new.ip = 0 /\ new.fp = fp /\ new.chunk = f.chunk
<1> DEFINE new == NewFrame(f, self, fp, site)
<1>1. /\ DOMAIN new = {"chunk", "ip", "fp", "site", "self", "closure", "upvals", "captured"}
      /\ new.ip = 0 /\ new.fp = fp /\ new.chunk = f.chunk /\ new.self = self
      /\ new.closure = f /\ new.upvals = f.upvals /\ new.captured = <<>>
  BY DEF NewFrame
<1>2. DOMAIN <<>> = {}
  OBVIOUS
<1> HIDE DEF new
<1>3. \A s \in DOMAIN new.captured : new.captured[s] \in UpvalueCells
  BY <1>1, <1>2
<1> QED BY <1>1, <1>3 DEF FrameOK, new

\* A function starts with as many values as it has parameters.
LEMMA StartHeight ==
  ASSUME Typed, NEW f, FrameOK(f)
  PROVE  /\ 0 \in DOMAIN HeightsOf(f)
         /\ HeightsOf(f)[0] = f.closure.arity /\ f.closure.arity \in Nat
<1>1. ProgramOK /\ f.chunk + 1 \in DOMAIN Shape /\ f.closure.arity = Shape[f.chunk + 1].arity
  BY TypedMeans DEF FrameOK, IsClosure
<1> QED BY <1>1 DEF ProgramOK, WellFormed, HeightsFit, HeightsOf

\* Outer activations have lower targets.
LEMMA TargetsGrow ==
  ASSUME Typed, CallStackMatches, mode \in {"run", "native"},
         NEW i \in DOMAIN calls, NEW j \in DOMAIN calls, i <= j
  PROVE  calls[i].target <= calls[j].target
<1> DEFINE n == Len(calls)
           Wrong == {k \in 1 .. n : i <= k /\ ~(calls[i].target <= calls[k].target)}
<1>1. n \in Nat /\ DOMAIN calls = 1 .. n
  BY TypedMeans
<1>2. \A k \in 1 .. n : calls[k].target \in Nat /\ calls[k].target = TargetOf(k)
  BY <1>1, MatchParts, Zenon DEF Typed, CallOK
<1> SUFFICES ASSUME Wrong # {} PROVE FALSE
  BY <1>1
<1>3. PICK k \in Wrong : \A l \in Wrong : k <= l
  <2>1. Wrong \in SUBSET Nat
    OBVIOUS
  <2> HIDE DEF Wrong
  <2> QED BY <2>1, Summing!Least
<1>4. k # i /\ k > 1 /\ k - 1 \in 1 .. n /\ i <= k - 1
  BY <1>1, <1>2, <1>3
<1>5. calls[k - 1].target <= calls[k].target
  <2>1. k \in 1 .. n /\ k # 1 /\ k - 1 \in 1 .. n
    BY <1>3, <1>4
  <2>2. calls[k].target = TargetOf(k) /\ calls[k - 1].target \in Nat
    BY <1>2, <2>1
  <2>3. TargetOf(k) = IF calls[k - 1].kind = "native" THEN calls[k - 1].target
                      ELSE calls[k - 1].target + 1
    BY <2>1, Zenon DEF TargetOf
  <2> QED BY <2>2, <2>3
<1>6. calls[i].target <= calls[k - 1].target
  <2>1. k - 1 \notin Wrong
    BY <1>3
  <2> QED BY <1>4, <2>1
<1> QED BY <1>1, <1>2, <1>3, <1>4, <1>5, <1>6

\* The innermost activation, and those around it.
LEMMA Innermost ==
  ASSUME Safe, mode \in {"run", "native"}, calls # <<>>
  PROVE  LET n == Len(calls)
         IN  /\ n \in Nat /\ n \in DOMAIN calls /\ n >= 1 /\ DOMAIN calls = 1 .. n
             /\ Last(calls) = calls[n] /\ Target = calls[n].target
             /\ CallOK(calls[n])
             /\ Front(calls) \in Seq(ToSet(calls)) /\ Len(Front(calls)) = n - 1
             /\ \A i \in 1 .. n - 1 : Front(calls)[i] = calls[i]
             /\ \A i \in 1 .. n - 1 : Relied(calls[i]) <= Len(calls[n].below)
             /\ calls[n].kind = "callback" =>
                  /\ n - 1 \in 1 .. n - 1 /\ calls[n - 1].kind = "native"
                  /\ calls[n - 1].target = Target
             /\ calls[n].kind # "callback" =>
                  /\ \A i \in 1 .. n - 1 : calls[i].target < Target
                  /\ n = 1 => Target = 1
                  /\ n > 1 => calls[n - 1].kind # "native" /\ Target = calls[n - 1].target + 1
<1> DEFINE n == Len(calls)
<1>1. Typed /\ Isolated /\ CallStackMatches
  BY DEF Safe, Nested
<1>2. n \in Nat /\ DOMAIN calls = 1 .. n /\ calls \in Seq(ToSet(calls))
  BY <1>1, TypedMeans DEF Typed
<1>3. n # 0
  BY <1>2, EmptySeq
<1>4. n \in DOMAIN calls /\ n >= 1 /\ Last(calls) = calls[n] /\ Target = calls[n].target
  BY <1>2, <1>3 DEF Last, Target
<1>5. \A i \in DOMAIN calls : CallOK(calls[i]) /\ calls[i].target \in Nat
  BY <1>1, Zenon DEF Typed, CallOK
<1>6. /\ Front(calls) \in Seq(ToSet(calls)) /\ Len(Front(calls)) = n - 1
      /\ \A i \in 1 .. n - 1 : Front(calls)[i] = calls[i]
  BY <1>2, <1>4 DEF Front
<1>7. \A i \in 1 .. n - 1 : Relied(calls[i]) <= Len(calls[n].below)
  <2>1. \A i \in 1 .. n - 1 : i \in DOMAIN calls /\ i < n
    BY <1>2
  <2> QED BY <1>1, <1>4, <2>1 DEF Isolated
<1>8. /\ calls[n].target = TargetOf(n)
      /\ calls[n].kind = "callback" <=> n > 1 /\ calls[n - 1].kind = "native"
  BY <1>1, <1>4, MatchParts
<1>9. calls[n].kind = "callback" =>
        /\ n - 1 \in 1 .. n - 1 /\ calls[n - 1].kind = "native"
        /\ calls[n - 1].target = Target
  <2> SUFFICES ASSUME calls[n].kind = "callback"
               PROVE  /\ n - 1 \in 1 .. n - 1 /\ calls[n - 1].kind = "native"
                      /\ calls[n - 1].target = Target
    OBVIOUS
  <2>1. n > 1 /\ calls[n - 1].kind = "native"
    BY <1>8
  <2>2. calls[n].target = calls[n - 1].target
    BY <1>2, <1>8, <2>1 DEF TargetOf
  <2> QED BY <1>2, <1>4, <2>1, <2>2
<1>10. ASSUME calls[n].kind # "callback"
       PROVE  /\ \A i \in 1 .. n - 1 : calls[i].target < Target
              /\ n = 1 => Target = 1
              /\ n > 1 => calls[n - 1].kind # "native" /\ Target = calls[n - 1].target + 1
  <2>1. n = 1 => Target = 1
    BY <1>4, <1>8 DEF TargetOf
  <2>2. n > 1 => calls[n - 1].kind # "native" /\ Target = calls[n - 1].target + 1
    BY <1>2, <1>4, <1>8, <1>10 DEF TargetOf
  <2>3. ASSUME NEW i \in 1 .. n - 1
        PROVE  calls[i].target < Target
    <3>1. i \in DOMAIN calls /\ n - 1 \in DOMAIN calls /\ i <= n - 1 /\ n > 1
      BY <1>2
    <3>2. calls[i].target <= calls[n - 1].target
      BY <1>1, <3>1, TargetsGrow
    <3>3. calls[i].target \in Nat /\ calls[n - 1].target \in Nat
      BY <1>5, <3>1
    <3> QED BY <2>2, <3>1, <3>2, <3>3
  <2> QED BY <2>1, <2>2, <2>3
<1> HIDE DEF n
<1>11. CallOK(calls[n])
  BY <1>4, <1>5
<1> QED BY <1>2, <1>4, <1>6, <1>7, <1>9, <1>10, <1>11 DEF n

\* A step that only the cells of the heap and of the upvalues notice.
LEMMA HeapStep ==
  ASSUME Safe, UNCHANGED <<program, constants, stack, buffer, frames, calls, mode>>,
         MemoryOK(heap'), mode \in {"run", "native"} => HeldKept(heap'),
         upvalues' \in [UpvalueCells -> {Free} \cup StackValues],
         collected' \in 0 .. program.collections
  PROVE  Safe'
<1>1. Typed /\ Isolated
  BY DEF Safe
<1>2. Typed'
  <2>1. ConstantsOK'
    BY <1>1, SameConstants
  <2>2. /\ stack' \in Seq(StackValues)
        /\ buffer'.cap \in Nat /\ buffer'.cap >= Len(stack') /\ DOMAIN buffer' = {"cap", "moves"}
        /\ frames' \in Seq(ToSet(frames)) /\ \A i \in DOMAIN frames' : FrameOK(frames'[i])
        /\ calls' \in Seq(ToSet(calls)) /\ \A i \in DOMAIN calls' : CallOK(calls'[i])
        /\ mode' \in Modes \ {"waiting"}
    BY <1>1 DEF Typed
  <2> QED BY <1>1, <2>1, <2>2, TypedStep
<1>3. Isolated'
  BY <1>1, Zenon DEF Isolated, Relied
<1>4. ASSUME mode \in {"run", "native"}
      PROVE  Nested'
  <2>1. Nested /\ HeldKept(heap')
    BY <1>4 DEF Safe
  <2>2. CallStackMatches'
    <3>1. CallStackMatches
      BY <2>1 DEF Nested
    <3>2. /\ frames' = frames /\ calls' = calls /\ mode' = mode /\ Target' = Target
          /\ \A i : TargetOf(i)' = TargetOf(i)
      BY DEF Target, TargetOf
    <3> QED BY <3>1, <3>2, Zenon DEF CallStackMatches
  <2>3. CallersResume'
    <3>1. CallersResume
      BY <2>1 DEF Nested
    <3>2. /\ frames' = frames /\ calls' = calls
          /\ \A f : HeightsOf(f)' = HeightsOf(f)
      BY SameProgram
    <3> QED BY <3>1, <3>2, Zenon DEF CallersResume, Left
  <2>4. ArraysHeld'
    <3> SUFFICES ASSUME NEW i \in DOMAIN calls, calls[i].kind = "native"
                 PROVE  LET m == calls[i]
                            array == m.args[2]
                        IN  /\ Len(m.below) + 3 <= Len(stack)
                            /\ stack[Len(m.below) + 3] = array
                            /\ IsA("cell", array) /\ IsA("vec", heap'[array[2]])
                            /\ i < Len(calls) => m.next <= Len(heap'[array[2]][2])
      BY DEF ArraysHeld, IsA
    <3>1. LET array == calls[i].args[2]
          IN  IsA("vec", heap'[array[2]]) /\ Len(heap'[array[2]][2]) = Len(heap[array[2]][2])
      BY <2>1, Zenon DEF HeldKept
    <3>2. /\ Len(calls[i].below) + 3 <= Len(stack)
          /\ stack[Len(calls[i].below) + 3] = calls[i].args[2]
          /\ IsA("cell", calls[i].args[2])
          /\ i < Len(calls) => calls[i].next <= Len(heap[calls[i].args[2][2]][2])
      BY <2>1, Zenon DEF Nested, ArraysHeld
    <3> QED BY <3>1, <3>2
  <2>5. ResultLeft'
    BY <2>1 DEF Nested, ResultLeft, Target
  <2>6. HeightsMatch'
    <3>1. InLoop' <=> InLoop
      BY DEF InLoop, Target
    <3>2. Frame' = Frame /\ stack' = stack /\ HeightsOf(Frame)' = HeightsOf(Frame)
      <4>1. Frame' = Frame
        BY DEF Frame
      <4>2. HeightsOf(Frame)' = HeightsOf(Frame)
        BY <4>1 DEF HeightsOf, Shape
      <4> QED BY <4>1, <4>2
    <3> QED BY <2>1, <3>1, <3>2 DEF Nested, HeightsMatch
  <2> QED BY <2>2, <2>3, <2>4, <2>5, <2>6 DEF Nested
<1> QED BY <1>2, <1>3, <1>4 DEF Safe

\* The end of a program, or the way of an exception out of the activations.
LEMMA StopStep ==
  ASSUME Safe, UNCHANGED <<program, constants, buffer, frames, heap, upvalues, collected>>,
         mode' \in {"throw", "undefined", "failed", "aborted", "done"},
         stack' \in Seq(StackValues), Len(stack') <= Len(stack),
         calls' \in Seq(ToSet(calls)),
         Isolated'
  PROVE  Safe'
<1>1. Typed
  BY DEF Safe
<1>2. mode' \in Modes \ {"waiting"} /\ mode' \notin {"run", "native"}
  BY DEF Modes
<1>3. ConstantsOK' /\ MemoryOK(heap')
  BY <1>1, SameConstants, TypedMeans
<1>4. buffer'.cap \in Nat /\ buffer'.cap >= Len(stack') /\ DOMAIN buffer' = {"cap", "moves"}
  <2>1. Len(stack') \in Nat /\ Len(stack) \in Nat
    BY <1>1, TypedMeans
  <2>2. buffer.cap \in Nat /\ buffer.cap >= Len(stack) /\ DOMAIN buffer = {"cap", "moves"}
    BY <1>1 DEF Typed
  <2> QED BY <2>1, <2>2
<1>5. \A i \in DOMAIN calls' : CallOK(calls'[i])
  <2>1. \A c \in ToSet(calls) : CallOK(c)
    BY <1>1 DEF Typed, ToSet
  <2> QED BY <2>1
<1>6. /\ frames' \in Seq(ToSet(frames)) /\ \A i \in DOMAIN frames' : FrameOK(frames'[i])
      /\ upvalues' \in [UpvalueCells -> {Free} \cup StackValues]
      /\ collected' \in 0 .. program.collections
  BY <1>1 DEF Typed
<1>7. Typed'
  BY <1>1, <1>2, <1>3, <1>4, <1>5, <1>6, TypedStep
<1> QED BY <1>2, <1>7 DEF Safe

\* The collector runs between two instructions.
THEOREM MaybeGcSafe ==
  ASSUME Safe, MaybeGc
  PROVE  Safe'
<1>1. /\ InLoop /\ collected < program.collections /\ collected' = collected + 1
      /\ heap' = SweptHeap(Marked) /\ upvalues' = SweptUpvalues(Marked)
      /\ UNCHANGED <<program, constants, stack, buffer, frames, calls, out, mode, error>>
  BY Zenon DEF MaybeGc
<1>2. mode \in {"run", "native"} /\ collected' \in 0 .. program.collections
  <2>1. Typed /\ program.collections \in Nat
    BY ProgramsAssumption DEF Safe, Typed
  <2>2. collected \in 0 .. program.collections
    BY <2>1 DEF Typed
  <2> QED BY <1>1, <2>1, <2>2 DEF InLoop
<1> QED BY <1>1, <1>2, SweepKeeps, HeapStep

\* The machine standing still.
THEOREM StutterSafe ==
  ASSUME Safe, UNCHANGED vars
  PROVE  Safe'
<1>1. UNCHANGED <<program, constants, stack, buffer, frames, calls, heap, upvalues, mode, collected>>
  BY DEF vars
<1>2. /\ MemoryOK(heap') /\ upvalues' \in [UpvalueCells -> {Free} \cup StackValues]
      /\ collected' \in 0 .. program.collections
  BY <1>1, TypedMeans DEF Safe, Typed
<1>3. mode \in {"run", "native"} => HeldKept(heap')
  BY <1>1, SameMemory
<1> QED BY <1>1, <1>2, <1>3, HeapStep

\* Where it stops, what lies below the calls is still there.
LEMMA StopHere ==
  ASSUME Safe, UNCHANGED <<program, constants, stack, buffer, frames, calls, heap, upvalues, collected>>,
         mode' \in {"throw", "undefined", "failed", "aborted", "done"}
  PROVE  Safe'
<1>1. Typed /\ Isolated
  BY DEF Safe
<1>2. Isolated'
  BY <1>1, Zenon DEF Isolated, Relied
<1>3. stack' \in Seq(StackValues) /\ Len(stack') <= Len(stack) /\ calls' \in Seq(ToSet(calls))
  BY <1>1, TypedMeans DEF Typed
<1> QED BY <1>2, <1>3, StopStep

\* A builtin that finds its array gone or its callback impossible to call stops,
\* as does an error that nothing catches.
THEOREM NativeStopSafe ==
  ASSUME Safe, NativeReadsStale \/ NativeCallFails \/ Fail
  PROVE  Safe'
BY StopHere DEF NativeReadsStale, NativeCallFails, Fail

\* The top-level function returns.
THEOREM FinishProgramSafe ==
  ASSUME Safe, FinishProgram
  PROVE  Safe'
<1>1. /\ calls = <<>> /\ stack' = <<>> /\ mode' = "done" /\ calls' = calls
      /\ UNCHANGED <<program, constants, buffer, frames, heap, upvalues, collected>>
  BY DEF FinishProgram
<1>2. stack' \in Seq(StackValues) /\ Len(stack') = 0 /\ calls' \in Seq(ToSet(calls)) /\ DOMAIN calls' = {}
  BY <1>1
<1>3. Len(stack') <= Len(stack)
  BY <1>2, TypedMeans DEF Safe
<1>4. Isolated'
  BY <1>2 DEF Isolated
<1> QED BY <1>1, <1>2, <1>3, <1>4, StopStep

\* The catch clause of a call leaves what lies below it.
THEOREM UnwindSafe ==
  ASSUME Safe, Unwind
  PROVE  Safe'
<1> DEFINE n == Len(calls)
           b == Len(Last(calls).below)
<1>1. /\ mode = "throw" /\ calls # <<>> /\ mode' = "throw" /\ calls' = Front(calls)
      /\ \/ Last(calls).kind = "callback" /\ stack' = stack
         \/ stack' = SubSeq(stack, 1, b)
      /\ UNCHANGED <<program, constants, buffer, frames, heap, upvalues, collected>>
  BY DEF Unwind
<1>2. Typed /\ Isolated
  BY DEF Safe
<1>3. n \in Nat /\ DOMAIN calls = 1 .. n /\ calls \in Seq(ToSet(calls)) /\ stack \in Seq(StackValues)
      /\ Len(stack) \in Nat
  BY <1>2, TypedMeans DEF Typed
<1>4. n # 0
  BY <1>1, <1>3, EmptySeq
<1>5. /\ n \in 1 .. n /\ Last(calls) = calls[n]
      /\ Front(calls) \in Seq(ToSet(calls)) /\ DOMAIN Front(calls) = 1 .. n - 1
      /\ \A i \in 1 .. n - 1 : Front(calls)[i] = calls[i]
  BY <1>3, <1>4 DEF Last, Front
<1>6. ASSUME NEW i \in 1 .. n
      PROVE  /\ calls[i].below \in Seq(StackValues) /\ Len(calls[i].below) \in Nat
             /\ Relied(calls[i]) \in Nat /\ Len(calls[i].below) <= Relied(calls[i])
             /\ Len(calls[i].below) <= Len(stack)
             /\ i < n => Relied(calls[i]) <= b
             /\ \A k \in DOMAIN calls[i].below : stack[k] = calls[i].below[k]
  <2>1. CallOK(calls[i])
    BY <1>2, <1>3, Zenon DEF Typed
  <2>2. i < n => Relied(calls[i]) <= Len(calls[n].below)
    BY <1>2, <1>3, <1>5 DEF Isolated
  <2>3. /\ Len(calls[i].below) <= Len(stack)
        /\ \A k \in DOMAIN calls[i].below : stack[k] = calls[i].below[k]
    BY <1>2, <1>3 DEF Isolated
  <2>4. /\ calls[i].below \in Seq(StackValues) /\ Len(calls[i].below) \in Nat
        /\ Relied(calls[i]) \in Nat /\ Len(calls[i].below) <= Relied(calls[i])
    BY <2>1, CallMeans
  <2> QED BY <1>5, <2>2, <2>3, <2>4
<1>7. b \in 0 .. Len(stack)
  BY <1>3, <1>5, <1>6
<1>8. /\ stack' \in Seq(StackValues) /\ Len(stack') <= Len(stack) /\ Len(stack') >= b
      /\ \A k \in 1 .. b : stack'[k] = stack[k]
  <2> HIDE DEF b
  <2> QED BY <1>1, <1>3, <1>7
<1>9. Isolated'
  <2>1. ASSUME NEW i \in 1 .. n - 1
        PROVE  /\ Len(calls[i].below) <= Len(stack')
               /\ \A k \in DOMAIN calls[i].below : stack'[k] = calls[i].below[k]
    <3>1. i \in 1 .. n /\ i < n
      BY <1>3
    <3>2. Len(calls[i].below) <= b /\ calls[i].below \in Seq(StackValues)
      <4> HIDE DEF n, b
      <4> QED BY <1>6, <1>7, <3>1
    <3>3. \A k \in DOMAIN calls[i].below : k \in 1 .. b
      <4> HIDE DEF b
      <4> QED BY <1>7, <3>2
    <3>4. Len(stack') \in Nat /\ Len(calls[i].below) \in Nat
      BY <1>8, <3>2
    <3> HIDE DEF n, b
    <3> QED BY <1>6, <1>7, <1>8, <3>1, <3>2, <3>3, <3>4
  <2>2. \A i, j \in 1 .. n - 1 : i < j => Relied(calls[i]) <= Len(calls[j].below)
    <3>1. \A i \in 1 .. n - 1 : i \in DOMAIN calls
      BY <1>3
    <3>2. \A i, j \in DOMAIN calls : i < j => Relied(calls[i]) <= Len(calls[j].below)
      BY <1>2 DEF Isolated
    <3> QED BY <3>1, <3>2
  <2>3. DOMAIN calls' = 1 .. n - 1 /\ \A i \in 1 .. n - 1 : calls'[i] = calls[i]
    BY <1>1, <1>5
  <2> HIDE DEF n
  <2> QED BY <2>1, <2>2, <2>3, Zenon DEF Isolated, Relied
<1> QED BY <1>1, <1>5, <1>8, <1>9, StopStep

\* OpReturn only drops the frame.
THEOREM OpReturnSafe ==
  ASSUME Safe, OpReturn
  PROVE  Safe'
<1> DEFINE n == Len(calls)
           m == Len(frames)
<1>1. /\ InLoop /\ Instr.op = "RETURN" /\ frames' = Front(frames)
      /\ UNCHANGED <<program, constants, stack, buffer, calls, heap, upvalues, mode, collected>>
  BY DEF OpReturn, At
<1>2. /\ Typed /\ Isolated /\ Nested
      /\ mode = "run" /\ m = Target + 1 /\ Target \in Nat /\ m \in Nat
      /\ n \in Nat /\ DOMAIN calls = 1 .. n
      /\ calls # <<>> => Last(calls).kind # "native"
      /\ \A i \in DOMAIN calls : calls[i].target \in 1 .. Target /\ Relied(calls[i]) <= Frame.fp
  BY <1>1, Running, TypedMeans DEF Safe, InLoop
<1>3. /\ frames' \in Seq(ToSet(frames)) /\ Len(frames') = Target /\ DOMAIN frames' = 1 .. Target
      /\ \A i \in 1 .. Target : frames'[i] = frames[i] /\ i \in DOMAIN frames
  <2>1. frames \in Seq(ToSet(frames))
    BY <1>2 DEF Typed
  <2> QED BY <1>1, <1>2, <2>1 DEF Front
<1>4. Typed'
  <2>1. ConstantsOK' /\ MemoryOK(heap')
    BY <1>1, <1>2, SameConstants, TypedMeans
  <2>2. /\ stack' \in Seq(StackValues)
        /\ buffer'.cap \in Nat /\ buffer'.cap >= Len(stack') /\ DOMAIN buffer' = {"cap", "moves"}
        /\ calls' \in Seq(ToSet(calls)) /\ \A i \in DOMAIN calls' : CallOK(calls'[i])
        /\ mode' \in Modes \ {"waiting"} /\ collected' \in 0 .. program.collections
        /\ upvalues' \in [UpvalueCells -> {Free} \cup StackValues]
    BY <1>1, <1>2 DEF Typed
  <2>3. \A i \in DOMAIN frames' : FrameOK(frames'[i])
    BY <1>2, <1>3 DEF Typed
  <2> QED BY <1>1, <1>2, <1>3, <2>1, <2>2, <2>3, TypedStep
<1>5. Isolated'
  BY <1>1, <1>2, Zenon DEF Isolated, Relied
<1>6. Target' = Target /\ (\A i : TargetOf(i)' = TargetOf(i))
  BY <1>1 DEF Target, TargetOf
<1>7. CallStackMatches'
  <2>1. CallStackMatches
    BY <1>2 DEF Nested
  <2>2. ASSUME NEW i \in DOMAIN calls
        PROVE  /\ calls[i].target = TargetOf(i)
               /\ calls[i].kind = "callback" <=> i > 1 /\ calls[i - 1].kind = "native"
               /\ calls[i].kind # "native" /\ calls[i].target < Len(frames') =>
                    frames'[calls[i].target + 1].fp =
                      Len(calls[i].below) + (IF calls[i].kind = "call" THEN 1 ELSE 0)
    <3>1. /\ calls[i].target = TargetOf(i)
          /\ calls[i].kind = "callback" <=> i > 1 /\ calls[i - 1].kind = "native"
          /\ calls[i].kind # "native" /\ calls[i].target < Len(frames) =>
               frames[calls[i].target + 1].fp =
                 Len(calls[i].below) + (IF calls[i].kind = "call" THEN 1 ELSE 0)
      BY <1>2, <2>1, Zenon DEF CallStackMatches
    <3>2. calls[i].target < Len(frames') =>
            /\ calls[i].target < Len(frames)
            /\ frames'[calls[i].target + 1] = frames[calls[i].target + 1]
      BY <1>2, <1>3
    <3> QED BY <3>1, <3>2, Zenon
  <2>3. /\ mode' = "run"
        /\ Len(frames') \in {Target', Target' + 1}
        /\ calls' # <<>> => Last(calls').kind # "native"
    BY <1>1, <1>2, <1>3, <1>6
  <2>4. \A i \in DOMAIN calls' :
          /\ calls'[i].target = TargetOf(i)'
          /\ calls'[i].kind = "callback" <=> i > 1 /\ calls'[i - 1].kind = "native"
          /\ calls'[i].kind # "native" /\ calls'[i].target < Len(frames') =>
               frames'[calls'[i].target + 1].fp =
                 Len(calls'[i].below) + (IF calls'[i].kind = "call" THEN 1 ELSE 0)
    BY <1>1, <1>6, <2>2, Zenon
  <2> QED BY <2>3, <2>4, Zenon DEF CallStackMatches
<1>8. CallersResume'
  <2>1. CallersResume
    BY <1>2 DEF Nested
  <2>2. \A i \in DOMAIN calls : frames'[calls[i].target] = frames[calls[i].target]
    BY <1>2, <1>3
  <2> QED BY <1>1, <2>1, <2>2, SameProgram, Zenon DEF CallersResume, Left
<1>9. ArraysHeld'
  <2>1. ArraysHeld
    BY <1>2 DEF Nested
  <2> QED BY <1>1, <2>1 DEF ArraysHeld, IsA
<1>10. ResultLeft'
  <2> SUFFICES ASSUME calls # <<>> PROVE Len(Last(calls).below) < Len(stack)
    BY <1>1 DEF ResultLeft
  <2>1. n \in DOMAIN calls /\ Last(calls) = calls[n]
    <3>1. n # 0
      BY <1>2, EmptySeq DEF Typed
    <3> QED BY <1>2, <3>1 DEF Last
  <2>2. CallOK(calls[n]) /\ Relied(calls[n]) <= Frame.fp
    BY <1>2, <2>1 DEF Typed
  <2>3. Len(calls[n].below) \in Nat /\ Relied(calls[n]) \in Nat /\ Len(calls[n].below) <= Relied(calls[n])
    BY <2>2, CallMeans
  <2>4. Takes(Instr) = 1
    BY <1>1 DEF Takes, ArithmeticOps, CompareOps
  <2>5. Height \in Nat /\ Frame.fp \in Nat /\ Len(stack) = Frame.fp + Height /\ 1 <= Height
    BY <1>1, <2>4, Fits
  <2>6. Frame.fp < Len(stack)
    BY <2>5
  <2> HIDE DEF n
  <2>7. Len(calls[n].below) < Len(stack)
    BY <2>2, <2>3, <2>5, <2>6
  <2> QED BY <2>1, <2>7
<1>11. HeightsMatch'
  <2>1. ~InLoop'
    BY <1>3, <1>6, <1>2 DEF InLoop
  <2> QED BY <2>1 DEF HeightsMatch
<1> QED BY <1>4, <1>5, <1>7, <1>8, <1>9, <1>10, <1>11 DEF Safe, Nested

\* A call of an instruction is over: its caller's frame goes on.
LEMMA ResumeStep ==
  ASSUME Safe, mode \in {"run", "native"}, calls # <<>>,
         Last(calls).kind \in {"call", "native"}, Len(frames) = Target,
         NEW b \in Seq(StackValues), Len(b) = Len(Last(calls).below),
         \A k \in 1 .. Len(b) : b[k] = stack[k],
         NEW v \in StackValues,
         SetStack(Complete(b, Last(calls).keep, v)),
         calls' = Front(calls), mode' = "run",
         MemoryOK(heap'), Extends(heap, heap'),
         UNCHANGED <<program, constants, frames, upvalues, collected>>
  PROVE  Safe'
<1> DEFINE n == Len(calls)
           m == Len(frames)
           c == Last(calls)
           s == Complete(b, c.keep, v)
<1>1. /\ Typed /\ Isolated /\ Nested /\ HeldKept(heap')
      /\ stack' = s /\ buffer' = Grown(buffer, Len(s))
  BY ExtendedHolds DEF Safe, SetStack
<1>2. /\ n \in Nat /\ n \in DOMAIN calls /\ n >= 1 /\ DOMAIN calls = 1 .. n
      /\ c = calls[n] /\ Target = c.target /\ CallOK(c) /\ c.kind # "callback"
      /\ calls' \in Seq(ToSet(calls)) /\ Len(calls') = n - 1 /\ DOMAIN calls' = 1 .. n - 1
      /\ \A i \in 1 .. n - 1 : calls'[i] = calls[i]
      /\ \A i \in 1 .. n - 1 : Relied(calls[i]) <= Len(b)
      /\ \A i \in 1 .. n - 1 : calls[i].target < Target
      /\ n = 1 => Target = 1
      /\ n > 1 => calls[n - 1].kind # "native" /\ Target = calls[n - 1].target + 1
  BY Innermost
<1>3. Target \in Nat /\ m \in Nat /\ (\A i \in DOMAIN calls : calls[i].target \in 1 .. Target)
  BY <1>1, Targets, TypedMeans DEF Nested
<1>4. c.keep \in BOOLEAN /\ Len(c.below) = Len(b) /\ Len(b) \in Nat /\ Len(stack) \in Nat
  BY <1>1, <1>2, TypedMeans DEF CallOK
<1>5. /\ s \in Seq(StackValues) /\ Len(s) = Len(b) + Left(c) /\ Len(s) \in Nat /\ Len(s) >= Len(b)
      /\ \A k \in 1 .. Len(b) : s[k] = stack[k]
  <2>1. CASE c.keep
    <3>1. s = Append(b, v) /\ Left(c) = 1
      BY <2>1 DEF Complete, Left
    <3> HIDE DEF s, c
    <3> QED BY <3>1
  <2>2. CASE ~c.keep
    <3>1. s = b /\ Left(c) = 0
      BY <2>2 DEF Complete, Left
    <3> HIDE DEF s, c
    <3> QED BY <3>1
  <2> QED BY <1>4, <2>1, <2>2
<1> HIDE DEF s, c
<1>6. \A i \in 1 .. n - 1 :
        /\ i \in DOMAIN calls /\ i < n /\ CallOK(calls[i])
        /\ calls[i].below \in Seq(StackValues) /\ Len(calls[i].below) \in Nat
        /\ Len(calls[i].below) <= Relied(calls[i]) /\ Relied(calls[i]) \in Nat
        /\ calls[i].kind = "native" => Relied(calls[i]) = Len(calls[i].below) + 3
  <2> TAKE i \in 1 .. n - 1
  <2>1. i \in DOMAIN calls /\ i < n
    BY <1>2
  <2>2. CallOK(calls[i])
    BY <1>1, <2>1 DEF Typed
  <2> QED BY <2>1, <2>2, CallMeans
<1>7. Typed'
  <2>1. ConstantsOK' /\ Len(s) \in Nat
    BY <1>1, <1>5, SameConstants
  <2>2. buffer'.cap \in Nat /\ buffer'.cap >= Len(stack') /\ DOMAIN buffer' = {"cap", "moves"}
    BY <1>1, <2>1, BufferGrows
  <2>3. \A i \in DOMAIN calls' : CallOK(calls'[i])
    BY <1>2, <1>6, Zenon
  <2>4. /\ frames' \in Seq(ToSet(frames)) /\ \A i \in DOMAIN frames' : FrameOK(frames'[i])
        /\ mode' \in Modes \ {"waiting"} /\ collected' \in 0 .. program.collections
        /\ upvalues' \in [UpvalueCells -> {Free} \cup StackValues]
    BY <1>1 DEF Typed, Modes
  <2>5. stack' \in Seq(StackValues)
    BY <1>1, <1>5
  <2> QED BY <1>1, <1>2, <2>1, <2>2, <2>3, <2>4, <2>5, TypedStep
<1>8. Isolated'
  <2>1. ASSUME NEW i \in 1 .. n - 1
        PROVE  /\ Len(calls[i].below) <= Len(s)
               /\ \A k \in DOMAIN calls[i].below : s[k] = calls[i].below[k]
    <3>1. Len(calls[i].below) <= Len(b) /\ calls[i].below \in Seq(StackValues)
          /\ Len(calls[i].below) \in Nat /\ i \in DOMAIN calls
      <4>1. Relied(calls[i]) <= Len(b)
        BY <1>2
      <4>2. Len(calls[i].below) <= Relied(calls[i]) /\ Relied(calls[i]) \in Nat
            /\ calls[i].below \in Seq(StackValues) /\ Len(calls[i].below) \in Nat
            /\ i \in DOMAIN calls
        BY <1>6
      <4> QED BY <1>4, <4>1, <4>2
    <3>2. \A k \in DOMAIN calls[i].below : k \in 1 .. Len(b)
      BY <1>4, <3>1
    <3>3. \A k \in DOMAIN calls[i].below : stack[k] = calls[i].below[k]
      BY <1>1, <3>1 DEF Isolated
    <3>4. Len(calls[i].below) <= Len(s)
      BY <1>4, <1>5, <3>1
    <3> QED BY <1>5, <3>2, <3>3, <3>4
  <2>2. \A i, j \in 1 .. n - 1 : i < j => Relied(calls[i]) <= Len(calls[j].below)
    <3>1. \A i \in 1 .. n - 1 : i \in DOMAIN calls
      BY <1>6
    <3>2. \A i, j \in DOMAIN calls : i < j => Relied(calls[i]) <= Len(calls[j].below)
      BY <1>1 DEF Isolated
    <3> QED BY <3>1, <3>2
  <2>3. /\ DOMAIN calls' = 1 .. n - 1 /\ stack' = s
        /\ \A i \in 1 .. n - 1 : calls'[i] = calls[i]
    BY <1>1, <1>2
  <2> HIDE DEF n
  <2>4. ASSUME NEW i \in DOMAIN calls'
        PROVE  /\ Len(calls'[i].below) <= Len(stack')
               /\ \A k \in DOMAIN calls'[i].below : stack'[k] = calls'[i].below[k]
    BY <2>1, <2>3
  <2>5. ASSUME NEW i \in DOMAIN calls', NEW j \in DOMAIN calls', i < j
        PROVE  Len(calls'[i].below) + (IF calls'[i].kind = "native" THEN 3 ELSE 0)
                 <= Len(calls'[j].below)
    <3>1. i \in 1 .. n - 1 /\ j \in 1 .. n - 1 /\ calls'[i] = calls[i] /\ calls'[j] = calls[j]
      BY <2>3
    <3>2. Relied(calls[i]) <= Len(calls[j].below)
      BY <2>2, <2>5, <3>1
    <3> QED BY <3>1, <3>2, Zenon DEF Relied
  <2> QED BY <2>4, <2>5, Zenon DEF Isolated, Relied
<1>9. Len(frames) = Target' + 1 /\ Frame' = frames[Target] /\ InLoop'
  <2>1. calls' = <<>> <=> n = 1
    <3> HIDE DEF n
    <3> QED BY <1>2, EmptySeq
  <2>2. n > 1 => Last(calls') = calls[n - 1]
    <3>1. n > 1 => n - 1 \in 1 .. n - 1
      BY <1>2
    <3> HIDE DEF n
    <3> QED BY <1>2, <3>1 DEF Last
  <2>3. Target = Target' + 1
    <3>1. CASE n = 1
      BY <1>2, <2>1, <3>1 DEF Target
    <3>2. CASE n # 1
      <4>1. n > 1
        BY <1>2, <3>2
      <4>2. Target' = calls[n - 1].target
        BY <2>1, <2>2, <3>2, <4>1 DEF Target
      <4> QED BY <1>2, <4>1, <4>2
    <3> QED BY <3>1, <3>2
  <2>4. Target' \in Int
    <3>1. CASE n = 1
      BY <2>1, <3>1 DEF Target
    <3>2. CASE n # 1
      <4>1. n - 1 \in DOMAIN calls /\ n > 1
        BY <1>2, <3>2
      <4>2. Target' = calls[n - 1].target
        BY <2>1, <2>2, <3>2, <4>1 DEF Target
      <4> QED BY <1>3, <4>1, <4>2
    <3> QED BY <3>1, <3>2
  <2>5. Frame' = frames[Target]
    BY DEF Frame, Last
  <2>6. Len(frames) = Target' + 1
    BY <2>3
  <2>7. InLoop'
    <3>1. mode' = "run" /\ Len(frames') = Target' + 1
      BY <2>6
    <3> QED BY <2>4, <3>1 DEF InLoop
  <2> QED BY <2>5, <2>6, <2>7
<1>10. CallStackMatches'
  <2>1. CallStackMatches
    BY <1>1 DEF Nested
  <2>2. ASSUME NEW i \in 1 .. n - 1
        PROVE  /\ calls'[i].target = TargetOf(i)'
               /\ calls'[i].kind = "callback" <=> i > 1 /\ calls'[i - 1].kind = "native"
               /\ calls'[i].kind # "native" /\ calls'[i].target < Len(frames') =>
                    frames'[calls'[i].target + 1].fp =
                      Len(calls'[i].below) + (IF calls'[i].kind = "call" THEN 1 ELSE 0)
    <3>1. /\ calls[i].target = TargetOf(i)
          /\ calls[i].kind = "callback" <=> i > 1 /\ calls[i - 1].kind = "native"
          /\ calls[i].kind # "native" /\ calls[i].target < Len(frames) =>
               frames[calls[i].target + 1].fp =
                 Len(calls[i].below) + (IF calls[i].kind = "call" THEN 1 ELSE 0)
      BY <1>6, <2>1, Zenon DEF CallStackMatches
    <3>2. i > 1 => i - 1 \in 1 .. n - 1
      BY <1>2
    <3>3. i > 1 => calls'[i - 1] = calls[i - 1]
      BY <1>2, <3>2
    <3>4. i # 1 => i > 1
      BY <1>2
    <3>5. TargetOf(i)' = TargetOf(i)
      BY <3>3, <3>4 DEF TargetOf
    <3>6. calls'[i] = calls[i] /\ frames' = frames
      BY <1>2
    <3> QED BY <3>1, <3>3, <3>5, <3>6, Zenon
  <2>3. calls' # <<>> => Last(calls').kind # "native"
    <3>1. calls' # <<>> => n > 1
      <4>1. n = 1 => Len(calls') = 0
        BY <1>2
      <4> HIDE DEF n
      <4> QED BY <1>2, <4>1, EmptySeq
    <3>2. n > 1 => Last(calls') = calls[n - 1]
      <4>1. n > 1 => n - 1 \in 1 .. n - 1
        BY <1>2
      <4> HIDE DEF n
      <4> QED BY <1>2, <4>1 DEF Last
    <3> QED BY <1>2, <3>1, <3>2
  <2>4. mode' = "run" /\ Len(frames') \in {Target', Target' + 1} /\ DOMAIN calls' = 1 .. n - 1
    BY <1>2, <1>9
  <2> HIDE DEF n
  <2> QED BY <2>2, <2>3, <2>4, Zenon DEF CallStackMatches
<1>11. CallersResume'
  <2>1. CallersResume /\ (\A i \in 1 .. n - 1 : i \in DOMAIN calls)
    BY <1>1, <1>6 DEF Nested
  <2>2. \A f : HeightsOf(f)' = HeightsOf(f)
    BY SameProgram
  <2>3. /\ DOMAIN calls' = 1 .. n - 1 /\ frames' = frames
        /\ \A i \in 1 .. n - 1 : calls'[i] = calls[i]
    BY <1>2
  <2> HIDE DEF n
  <2> QED BY <2>1, <2>2, <2>3, Zenon DEF CallersResume, Left
<1>12. ArraysHeld'
  <2> SUFFICES ASSUME NEW i \in 1 .. n - 1, calls[i].kind = "native"
               PROVE  LET o == calls[i]
                          array == o.args[2]
                      IN  /\ Len(o.below) + 3 <= Len(s)
                          /\ s[Len(o.below) + 3] = array
                          /\ IsA("cell", array) /\ IsA("vec", heap'[array[2]])
                          /\ o.next <= Len(heap'[array[2]][2])
    <3>1. /\ DOMAIN calls' = 1 .. n - 1 /\ stack' = s
          /\ \A i \in 1 .. n - 1 : calls'[i] = calls[i]
      BY <1>1, <1>2
    <3>2. ASSUME NEW i \in DOMAIN calls', calls'[i].kind = "native"
          PROVE  LET o == calls'[i]
                     array == o.args[2]
                 IN  /\ Len(o.below) + 3 <= Len(stack')
                     /\ stack'[Len(o.below) + 3] = array
                     /\ array[1] = "cell" /\ heap'[array[2]][1] = "vec"
                     /\ i < Len(calls') => o.next <= Len(heap'[array[2]][2])
      <4>1. i \in 1 .. n - 1 /\ calls'[i] = calls[i]
        BY <3>1
      <4> HIDE DEF n
      <4> QED BY <3>1, <3>2, <4>1, Zenon DEF IsA
    <3> QED BY <3>2, Zenon DEF ArraysHeld, IsA
  <2>1. /\ i \in DOMAIN calls /\ i < n /\ Relied(calls[i]) = Len(calls[i].below) + 3
        /\ Len(calls[i].below) \in Nat /\ Relied(calls[i]) <= Len(b)
    BY <1>2, <1>6, Zenon
  <2>2. LET array == calls[i].args[2]
        IN  IsA("vec", heap'[array[2]]) /\ Len(heap'[array[2]][2]) = Len(heap[array[2]][2])
    BY <1>1, <2>1 DEF HeldKept
  <2>3. /\ stack[Len(calls[i].below) + 3] = calls[i].args[2]
        /\ IsA("cell", calls[i].args[2])
        /\ calls[i].next <= Len(heap[calls[i].args[2][2]][2])
    BY <1>1, <2>1, Zenon DEF Nested, ArraysHeld
  <2>4. Len(calls[i].below) + 3 \in 1 .. Len(b) /\ Len(calls[i].below) + 3 <= Len(s)
    BY <1>4, <1>5, <2>1
  <2>5. s[Len(calls[i].below) + 3] = stack[Len(calls[i].below) + 3]
    BY <1>5, <2>4, Zenon
  <2> QED BY <2>2, <2>3, <2>4, <2>5
<1>13. ResultLeft'
  <2>1. Target' \in Nat \/ ~(Len(frames') = Target')
    BY <1>3, <1>9
  <2>2. ~(Len(frames') = Target')
    BY <1>9, <2>1
  <2> QED BY <2>2 DEF ResultLeft
<1>14. HeightsMatch'
  <2>1. /\ frames[Target].ip \in DOMAIN HeightsOf(frames[Target])
        /\ Len(c.below) + Left(c) = frames[Target].fp + HeightsOf(frames[Target])[frames[Target].ip]
    BY <1>1, <1>2, Zenon DEF Nested, CallersResume
  <2>2. HeightsOf(Frame)' = HeightsOf(frames[Target])
    BY <1>9, SameProgram, Zenon DEF HeightsOf
  <2>3. Len(stack') = Len(c.below) + Left(c)
    BY <1>1, <1>4, <1>5
  <2> QED BY <1>9, <2>1, <2>2, <2>3, Zenon DEF HeightsMatch
<1> QED BY <1>7, <1>8, <1>10, <1>11, <1>12, <1>13, <1>14 DEF Safe, Nested

\* FinishCall: call_function takes the result from where OpReturn left it, and the
\* caller goes on with the height that the instruction behind the call expects.
THEOREM FinishCallSafe ==
  ASSUME Safe, FinishCall
  PROVE  Safe'
<1> DEFINE c == Last(calls)
           b == SubSeq(stack, 1, Len(c.below))
<1>1. /\ mode = "run" /\ calls # <<>> /\ Len(frames) = Target /\ c.kind = "call"
      /\ SetStack(Complete(b, c.keep, Last(stack))) /\ calls' = Front(calls)
      /\ UNCHANGED <<program, constants, frames, heap, upvalues, mode, collected>>
  BY DEF FinishCall, LoopEnds
<1>2. /\ Typed /\ Isolated /\ ResultLeft /\ MemoryOK(heap)
      /\ stack \in Seq(StackValues) /\ Len(stack) \in Nat
  BY <1>1, TypedMeans DEF Safe, Nested, Typed
<1>3. CallOK(c) /\ Len(c.below) \in Nat /\ Len(c.below) <= Len(stack)
  <2>1. Last(calls) = calls[Len(calls)] /\ Len(calls) \in DOMAIN calls /\ CallOK(calls[Len(calls)])
    BY <1>1, Innermost
  <2>2. Len(calls[Len(calls)].below) <= Len(stack)
    BY <1>2, <2>1 DEF Isolated
  <2> QED BY <2>1, <2>2, CallMeans
<1>4. Len(c.below) < Len(stack)
  BY <1>1, <1>2 DEF ResultLeft
<1>5. Last(stack) \in StackValues
  <2>1. Len(stack) \in DOMAIN stack
    <3> HIDE DEF c
    <3> QED BY <1>2, <1>3, <1>4
  <2> QED BY <1>2, <2>1 DEF Last
<1>6. /\ b \in Seq(StackValues) /\ Len(b) = Len(c.below)
      /\ \A k \in 1 .. Len(b) : b[k] = stack[k]
  <2> HIDE DEF c
  <2> QED BY <1>2, <1>3
<1>7. MemoryOK(heap') /\ Extends(heap, heap')
  BY <1>1, <1>2 DEF Extends
<1> HIDE DEF b
<1> QED BY <1>1, <1>5, <1>6, <1>7, ResumeStep

\* FinishNative: the same for a builtin that has called back for every element.
THEOREM FinishNativeSafe ==
  ASSUME Safe, FinishNative
  PROVE  Safe'
<1> DEFINE c == Last(calls)
           d == IF c.name = "count" THEN Num(Len(c.results)) ELSE Vec(c.results)
           stored == HeapStore(heap, d)
<1>1. /\ mode = "native" /\ HasRoom /\ heap' = stored.heap
      /\ SetStack(Complete(c.below, c.keep, stored.value)) /\ calls' = Front(calls)
      /\ mode' = "run" /\ UNCHANGED <<program, constants, frames, upvalues, collected>>
  BY Zenon DEF FinishNative, Native
<1>2. Typed /\ Isolated /\ MemoryOK(heap) /\ CallStackMatches
  BY <1>1, TypedMeans DEF Safe, Nested
<1>3. calls # <<>> /\ c.kind = "native" /\ Len(frames) = Target
  BY <1>1, <1>2, MatchParts
<1>4. c = calls[Len(calls)] /\ Len(calls) \in DOMAIN calls /\ CallOK(c)
  BY <1>1, <1>3, Innermost
<1>5. IsData(d)
  <2>1. c.results \in Seq(StackValues)
    BY <1>3, <1>4 DEF CallOK
  <2> HIDE DEF c
  <2> QED BY <2>1, StackValueMade, HeapDataMade DEF IsData
<1> HIDE DEF d
<1>6. stored.value \in StackValues /\ MemoryOK(stored.heap) /\ Extends(heap, stored.heap)
  <2>1. Cardinality(FreeOf(heap)) >= 1
    BY <1>1, RoomForOne, FreeIsFinite
  <2> QED BY <1>2, <1>5, <2>1, HeapStoreKeeps
<1> HIDE DEF stored
<1>7. c.below \in Seq(StackValues) /\ \A k \in 1 .. Len(c.below) : c.below[k] = stack[k]
  <2>1. c.below \in Seq(StackValues)
    BY <1>4 DEF CallOK
  <2>2. \A k \in DOMAIN c.below : stack[k] = c.below[k]
    BY <1>2, <1>4 DEF Isolated
  <2> QED BY <2>1, <2>2
<1> QED BY <1>1, <1>3, <1>6, <1>7, ResumeStep

----------------------------------------------------------------------------
(* Results of callbacks *)

\* A builtin has taken a callback's result, or its test of the result failed.
Taken(cs, m, d) ==
  \/ Failed(d)
  \/ \E c : /\ CallOK(c) /\ c.kind = "native"
            /\ c.target = calls[m].target /\ c.below = calls[m].below
            /\ c.keep = calls[m].keep /\ c.args = calls[m].args
            /\ ~Failed(d) /\ d[2] = [cs EXCEPT ![m] = c]

\* What a builtin does with a callback's result.
LEMMA DeliveredMeans ==
  ASSUME Typed, NEW m \in DOMAIN calls, calls[m].kind = "native",
         NEW cs, cs \in Seq(ToSet(calls)), Len(cs) = m, cs[m] = calls[m],
         NEW h, MemoryOK(h), NEW array \in Cells, calls[m].args[2] = Cell(array),
         IsA("vec", h[array]), calls[m].next <= Len(h[array][2]),
         NEW v \in StackValues
  PROVE  Taken(cs, m, Delivered(cs, [heap |-> h, constants |-> constants], v))
<1> DEFINE mem == [heap |-> h, constants |-> constants]
           old == calls[m]
           item == Deref(mem, old.args[2])[2][old.next]
           truth == Truthy(Deref(mem, v))
           added == IF old.name = "map" THEN <<v>> ELSE IF truth[2] THEN <<item>> ELSE <<>>
           c == [old EXCEPT !.results = old.results \o added, !.next = old.next + 1]
           d == Delivered(cs, mem, v)
<1>1. CallOK(old) /\ Last(cs) = old /\ m \in Nat /\ m \in DOMAIN cs
  <2>1. m \in Nat /\ DOMAIN calls = 1 .. Len(calls) /\ Len(calls) \in Nat /\ m # 0
    BY TypedMeans
  <2>2. m \in DOMAIN cs
    BY <2>1
  <2> QED BY <2>1, <2>2 DEF Typed, Last
<1>2. d = IF old.name # "map" /\ Failed(truth) THEN truth
          ELSE <<"calls", [cs EXCEPT ![Len(cs)].results = cs[Len(cs)].results \o added,
                                     ![Len(cs)].next = cs[Len(cs)].next + 1]>>
  <2>1. d = LET n == Last(cs)
                it == Deref(mem, n.args[2])[2][n.next]
                t == Truthy(Deref(mem, v))
                a == IF n.name = "map" THEN <<v>> ELSE IF t[2] THEN <<it>> ELSE <<>>
            IN  IF n.name # "map" /\ Failed(t) THEN t
                ELSE <<"calls", [cs EXCEPT ![Len(cs)].results = @ \o a, ![Len(cs)].next = @ + 1]>>
    BY Zenon DEF Delivered
  <2> QED BY <1>1, <2>1, Zenon
<1>3. item \in StackValues
  <2>1. Deref(mem, old.args[2]) = h[array]
    BY DEF Deref, Cell, IsA
  <2>2. h[array][2] \in Seq(StackValues)
    BY HeapDataKinds DEF MemoryOK
  <2>3. old.next \in 1 .. Len(h[array][2])
    BY <1>1, <2>2 DEF CallOK
  <2> QED BY <2>1, <2>2, <2>3
<1>4. Failed(truth) \/ truth[2] \in BOOLEAN
  <2>1. IsContent(Deref(mem, v))
    BY TypedMeans, DerefIsContent DEF DerefOK
  <2> DEFINE content == Deref(mem, v)
  <2> HIDE DEF content
  <2>2. Failed(Truthy(content)) \/ \E b \in BOOLEAN : Truthy(content) = Bool(b)
    BY <2>1, TruthOutcome DEF content
  <2>3. \A b \in BOOLEAN : Bool(b)[2] \in BOOLEAN
    BY DEF Bool
  <2>4. truth = Truthy(content)
    BY DEF content
  <2> QED BY <2>2, <2>3, <2>4, Zenon
<1> HIDE DEF item, truth
<1>5. CASE old.name # "map" /\ Failed(truth)
  BY <1>2, <1>5 DEF Taken
<1>6. CASE ~(old.name # "map" /\ Failed(truth))
  <2>1. added \in Seq(StackValues)
    BY <1>3, <1>4, <1>6
  <2> HIDE DEF added
  <2>2. /\ old.results \o added \in Seq(StackValues) /\ old.next + 1 \in Nat \ {0}
        /\ DOMAIN old = {"kind", "target", "below", "keep", "args"}
                          \cup {"name", "next", "results", "moves"}
    BY <1>1, <2>1 DEF CallOK
  <2>3. d = <<"calls", [cs EXCEPT ![m] = c]>>
    <3>1. [cs EXCEPT ![m].results = cs[m].results \o added, ![m].next = cs[m].next + 1]
            = [cs EXCEPT ![m] = c]
      <4> DEFINE r == old.results \o added
                 x == old.next + 1
      <4> HIDE DEF r, x
      <4>1. m \in DOMAIN cs /\ cs[m] = old
        BY <1>1
      <4>2. [cs EXCEPT ![m].results = r, ![m].next = x] = [cs EXCEPT ![m] = [old EXCEPT !.results = r, !.next = x]]
        <5> HIDE DEF old
        <5> QED BY <4>1, Zenon
      <4> QED BY <4>1, <4>2, Zenon DEF r, x
    <3> QED BY <1>2, <1>6, <3>1, Zenon
  <2>4. /\ DOMAIN c = DOMAIN old /\ c.results = old.results \o added /\ c.next = old.next + 1
        /\ \A field \in DOMAIN old : field \notin {"results", "next"} => c[field] = old[field]
    BY <2>2
  <2>5. /\ c.kind = old.kind /\ c.target = old.target /\ c.below = old.below
        /\ c.keep = old.keep /\ c.args = old.args /\ c.name = old.name
    <3> HIDE DEF c
    <3> QED BY <2>2, <2>4
  <2> HIDE DEF c
  <2>6. CallOK(c) /\ c.kind = "native"
    <3>1. DOMAIN c = DOMAIN old /\ c.results \in Seq(StackValues) /\ c.next \in Nat \ {0}
      BY <2>2, <2>4
    <3> HIDE DEF old
    <3> QED BY <1>1, <2>5, <3>1, Zenon DEF CallOK, old
  <2>7. ~Failed(d) /\ d[2] = [cs EXCEPT ![m] = c]
    <3> HIDE DEF d
    <3> QED BY <2>3 DEF Failed, IsA
  <2> QED BY <2>5, <2>6, <2>7, Zenon DEF Taken
<1> QED BY <1>5, <1>6

\* The outer calls of m, when only results are added to the builtin's.
LEMMA DeliverStep ==
  ASSUME Safe, mode \in {"run", "native"},
         NEW m \in DOMAIN calls, calls[m].kind = "native",
         NEW cs, cs \in Seq(ToSet(calls)), Len(cs) = m, \A i \in 1 .. m : cs[i] = calls[i],
         Len(frames) = calls[m].target,
         calls[m].next <= Len(heap[calls[m].args[2][2]][2]),
         MemoryOK(heap'), Extends(heap, heap'),
         NEW v \in StackValues, Deliver(cs, [heap |-> heap', constants |-> constants], v),
         stack' \in Seq(StackValues), Len(stack') <= Len(stack),
         Relied(calls[m]) <= Len(stack'), \A k \in 1 .. Len(stack') : stack'[k] = stack[k],
         UNCHANGED <<program, constants, buffer, frames, upvalues, collected>>
  PROVE  Safe'
<1> DEFINE d == Delivered(cs, [heap |-> heap', constants |-> constants], v)
           array == calls[m].args[2]
<1>1. /\ Typed /\ Isolated /\ Nested /\ HeldKept(heap') /\ CallStackMatches
      /\ m \in Nat /\ m >= 1 /\ DOMAIN calls = 1 .. Len(calls) /\ Len(calls) \in Nat /\ m <= Len(calls)
      /\ Len(stack) \in Nat /\ Len(stack') \in Nat
  <2>1. Typed /\ Isolated /\ Nested /\ HeldKept(heap')
    BY ExtendedHolds DEF Safe
  <2> QED BY <2>1, TypedMeans DEF Nested
<1>2. \A i \in 1 .. m : i \in DOMAIN calls /\ CallOK(calls[i])
  <2>1. \A i \in DOMAIN calls : CallOK(calls[i])
    BY <1>1 DEF Typed
  <2>2. \A i \in 1 .. m : i \in DOMAIN calls
    BY <1>1
  <2> QED BY <2>1, <2>2, Zenon
<1>3. \/ Failed(d) /\ calls' = cs /\ mode' \in {"throw", "undefined"}
      \/ ~Failed(d) /\ calls' = d[2] /\ mode' = "native"
  BY DEF Deliver, ModeAfter
<1>4. /\ array[2] \in Cells /\ array = Cell(array[2])
      /\ IsA("vec", heap'[array[2]]) /\ calls[m].next <= Len(heap'[array[2]][2])
  <2>1. IsA("cell", array)
    BY <1>1, Zenon DEF Nested, ArraysHeld
  <2>2. array \in StackValues
    <3>1. m \in 1 .. m
      BY <1>1
    <3> QED BY <1>2, <3>1, CallMeans
  <2>3. array[2] \in Cells /\ array = Cell(array[2])
    <3> HIDE DEF array
    <3> QED BY <2>1, <2>2, StackValueKinds
  <2>4. IsA("vec", heap'[array[2]]) /\ Len(heap'[array[2]][2]) = Len(heap[array[2]][2])
    BY <1>1 DEF HeldKept
  <2> HIDE DEF array
  <2> QED BY <2>3, <2>4 DEF array
<1>5. cs[m] = calls[m] /\ Taken(cs, m, d)
  <2>1. cs[m] = calls[m]
    BY <1>1
  <2> DEFINE cell == array[2]
  <2>2. /\ cell \in Cells /\ calls[m].args[2] = Cell(cell)
        /\ IsA("vec", heap'[cell]) /\ calls[m].next <= Len(heap'[cell][2])
    BY <1>4
  <2> DEFINE h == heap'
  <2>3. MemoryOK(h) /\ IsA("vec", h[cell]) /\ calls[m].next <= Len(h[cell][2])
    BY <2>2
  <2> HIDE DEF cell, h
  <2>4. Taken(cs, m, Delivered(cs, [heap |-> h, constants |-> constants], v))
    <3>1. Typed
      BY <1>1
    <3> QED BY <3>1, <2>1, <2>2, <2>3, DeliveredMeans, Zenon
  <2> QED BY <2>1, <2>4 DEF h
<1> HIDE DEF d
\* The calls are the same but for what the builtin has collected.
<1>6. /\ Len(calls') = m /\ DOMAIN calls' = 1 .. m
      /\ \A i \in 1 .. m : /\ calls'[i].kind = calls[i].kind /\ calls'[i].target = calls[i].target
                           /\ calls'[i].below = calls[i].below /\ calls'[i].keep = calls[i].keep
                           /\ calls'[i].args = calls[i].args
                           /\ i < m => calls'[i] = calls[i]
                           /\ CallOK(calls'[i])
  <2>1. CASE calls' = cs
    BY <1>1, <1>2, <2>1
  <2>2. CASE calls' = d[2] /\ ~Failed(d)
    <3>1. PICK c : /\ CallOK(c) /\ c.kind = "native"
                   /\ c.target = calls[m].target /\ c.below = calls[m].below
                   /\ c.keep = calls[m].keep /\ c.args = calls[m].args
                   /\ d[2] = [cs EXCEPT ![m] = c]
      BY <1>5, <2>2, Zenon DEF Taken
    <3>2. calls' = [cs EXCEPT ![m] = c] /\ DOMAIN cs = 1 .. m /\ m \in 1 .. m
      BY <1>1, <2>2, <3>1
    <3>3. Len(calls') = m /\ DOMAIN calls' = 1 .. m /\ calls'[m] = c
          /\ \A i \in 1 .. m : i # m => calls'[i] = calls[i]
      BY <1>1, <3>2
    <3>4. \A i \in 1 .. m : i < m => i # m
      BY <1>1
    <3> QED BY <1>2, <3>1, <3>3, <3>4, Zenon
  <2> QED BY <1>3, <2>1, <2>2, Zenon
<1>7. \A i \in 1 .. m :
        /\ calls[i].below \in Seq(StackValues) /\ Len(calls[i].below) \in Nat
        /\ Len(calls[i].below) <= Len(stack') /\ Relied(calls[i]) <= Len(stack')
        /\ calls[i].kind = "native" => Relied(calls[i]) = Len(calls[i].below) + 3
  <2> TAKE i \in 1 .. m
  <2>1. /\ calls[i].below \in Seq(StackValues) /\ Len(calls[i].below) \in Nat
        /\ Relied(calls[i]) \in Nat /\ Relied(calls[i]) >= Len(calls[i].below)
        /\ calls[i].kind = "native" => Relied(calls[i]) = Len(calls[i].below) + 3
    BY <1>2, CallMeans
  <2>2. Relied(calls[m]) \in Nat /\ Relied(calls[m]) >= Len(calls[m].below) /\ Len(calls[m].below) \in Nat
    BY <1>1, <1>2, CallMeans
  <2>3. i # m => Relied(calls[i]) <= Len(calls[m].below)
    <3>1. i # m => i < m /\ i \in DOMAIN calls
      BY <1>1, <1>2
    <3> QED BY <1>1, <3>1 DEF Isolated
  <2>4. CASE i = m
    BY <1>1, <2>1, <2>4
  <2>5. CASE i # m
    <3>1. Relied(calls[i]) <= Len(calls[m].below)
      BY <2>3, <2>5
    <3>2. Relied(calls[i]) <= Len(stack')
      BY <1>1, <2>1, <2>2, <3>1
    <3> QED BY <1>1, <2>1, <3>2
  <2> QED BY <2>4, <2>5
<1>8. Isolated'
  <2>1. ASSUME NEW i \in 1 .. m
        PROVE  /\ Len(calls'[i].below) <= Len(stack')
               /\ \A k \in DOMAIN calls'[i].below : stack'[k] = calls'[i].below[k]
    <3>1. \A k \in DOMAIN calls[i].below : k \in 1 .. Len(stack')
      BY <1>1, <1>7
    <3>2. \A k \in DOMAIN calls[i].below : stack[k] = calls[i].below[k]
      BY <1>1, <1>2, Zenon DEF Isolated
    <3>3. Len(calls[i].below) <= Len(stack') /\ calls'[i].below = calls[i].below
      BY <1>6, <1>7
    <3> QED BY <3>1, <3>2, <3>3, Zenon
  <2>2. ASSUME NEW i \in 1 .. m, NEW j \in 1 .. m, i < j
        PROVE  Len(calls'[i].below) + (IF calls'[i].kind = "native" THEN 3 ELSE 0)
                 <= Len(calls'[j].below)
    <3>1. Relied(calls[i]) <= Len(calls[j].below)
      BY <1>1, <1>2, <2>2 DEF Isolated
    <3> QED BY <1>6, <3>1, Zenon DEF Relied
  <2>3. DOMAIN calls' = 1 .. m
    BY <1>6
  <2> QED BY <2>1, <2>2, <2>3, Zenon DEF Isolated, Relied
<1>9. Typed'
  <2>1. ConstantsOK'
    BY <1>1, SameConstants
  <2>2. buffer'.cap \in Nat /\ buffer'.cap >= Len(stack') /\ DOMAIN buffer' = {"cap", "moves"}
    <3>1. buffer.cap \in Nat /\ buffer.cap >= Len(stack) /\ DOMAIN buffer = {"cap", "moves"}
      BY <1>1 DEF Typed
    <3> QED BY <1>1, <3>1
  <2>3. calls' \in Seq(ToSet(calls'))
    <3>1. CASE calls' = cs
      <4>1. cs \in Seq(ToSet(cs))
        BY <1>1 DEF ToSet
      <4> QED BY <3>1, <4>1
    <3>2. CASE calls' = d[2] /\ ~Failed(d)
      <4>1. PICK c : calls' = [cs EXCEPT ![m] = c]
        BY <1>5, <3>2, Zenon DEF Taken
      <4>2. cs \in Seq(ToSet(calls) \cup {c}) /\ m \in 1 .. Len(cs)
        BY <1>1
      <4>3. calls' \in Seq(ToSet(calls) \cup {c})
        BY <4>1, <4>2
      <4> HIDE DEF d
      <4> QED BY <4>3 DEF ToSet
    <3> QED BY <1>3, <3>1, <3>2
  <2>4. \A i \in DOMAIN calls' : CallOK(calls'[i])
    BY <1>6
  <2>5. /\ frames' \in Seq(ToSet(frames)) /\ \A i \in DOMAIN frames' : FrameOK(frames'[i])
        /\ collected' \in 0 .. program.collections
        /\ upvalues' \in [UpvalueCells -> {Free} \cup StackValues]
    BY <1>1 DEF Typed
  <2>6. mode' \in Modes \ {"waiting"}
    BY <1>3 DEF Modes
  <2> QED BY <1>1, <2>1, <2>2, <2>3, <2>4, <2>5, <2>6, TypedStep
<1>10. CASE mode' # "native"
  BY <1>3, <1>8, <1>9, <1>10 DEF Safe
<1>11. CASE mode' = "native"
  <2>1. CallStackMatches'
    <3>1. ASSUME NEW i \in 1 .. m
          PROVE  /\ calls'[i].target = TargetOf(i)'
                 /\ calls'[i].kind = "callback" <=> i > 1 /\ calls'[i - 1].kind = "native"
                 /\ calls'[i].kind # "native" /\ calls'[i].target < Len(frames') =>
                      frames'[calls'[i].target + 1].fp =
                        Len(calls'[i].below) + (IF calls'[i].kind = "call" THEN 1 ELSE 0)
      <4>1. /\ calls[i].target = TargetOf(i)
            /\ calls[i].kind = "callback" <=> i > 1 /\ calls[i - 1].kind = "native"
            /\ calls[i].kind # "native" /\ calls[i].target < Len(frames) =>
                 frames[calls[i].target + 1].fp =
                   Len(calls[i].below) + (IF calls[i].kind = "call" THEN 1 ELSE 0)
        BY <1>1, <1>2, Zenon DEF CallStackMatches
      <4>2. i > 1 => i - 1 \in 1 .. m
        BY <1>1
      <4>3. i > 1 => calls'[i - 1].kind = calls[i - 1].kind /\ calls'[i - 1].target = calls[i - 1].target
        BY <1>6, <4>2
      <4>4. i # 1 => i > 1
        BY <1>1
      <4>5. TargetOf(i)' = TargetOf(i)
        BY <4>3, <4>4 DEF TargetOf
      <4>6. calls'[i].kind = calls[i].kind /\ calls'[i].target = calls[i].target
            /\ calls'[i].below = calls[i].below /\ frames' = frames
        BY <1>6
      <4> QED BY <4>1, <4>3, <4>5, <4>6, Zenon
    <3>2. calls' # <<>> /\ Last(calls').kind = "native" /\ Len(frames') = Target'
      <4>1. m \in 1 .. m /\ Len(calls') # 0
        BY <1>1, <1>6
      <4>2. calls' # <<>>
        BY <4>1, EmptySeq, <1>9 DEF Typed
      <4>3. Last(calls') = calls'[m]
        BY <1>6 DEF Last
      <4>4. Target' = calls'[m].target
        BY <4>2, <4>3 DEF Target
      <4> QED BY <1>6, <4>1, <4>2, <4>3, <4>4
    <3>3. DOMAIN calls' = 1 .. m
      BY <1>6
    <3> QED BY <1>11, <3>1, <3>2, <3>3, Zenon DEF CallStackMatches
  <2>2. CallersResume'
    <3> SUFFICES ASSUME NEW i \in 1 .. m, calls'[i].kind # "callback"
                 PROVE  LET caller == frames[calls'[i].target]
                        IN  /\ caller.ip \in DOMAIN HeightsOf(caller)
                            /\ Len(calls'[i].below) + Left(calls'[i])
                                 = caller.fp + HeightsOf(caller)[caller.ip]
      <4>1. DOMAIN calls' = 1 .. m /\ frames' = frames /\ \A f : HeightsOf(f)' = HeightsOf(f)
        BY <1>6, SameProgram
      <4> QED BY <4>1, Zenon DEF CallersResume, Left
    <3>1. calls[i].kind # "callback" /\ calls'[i].target = calls[i].target
          /\ calls'[i].below = calls[i].below /\ Left(calls'[i]) = Left(calls[i])
          /\ i \in DOMAIN calls
      BY <1>2, <1>6 DEF Left
    <3>2. LET caller == frames[calls[i].target]
          IN  /\ caller.ip \in DOMAIN HeightsOf(caller)
              /\ Len(calls[i].below) + Left(calls[i])
                   = caller.fp + HeightsOf(caller)[caller.ip]
      BY <1>1, <3>1, Zenon DEF Nested, CallersResume
    <3> QED BY <3>1, <3>2, Zenon
  <2>3. ArraysHeld'
    <3>1. ASSUME NEW i \in 1 .. m, calls'[i].kind = "native"
          PROVE  LET o == calls'[i]
                     held == o.args[2]
                 IN  /\ Len(o.below) + 3 <= Len(stack')
                     /\ stack'[Len(o.below) + 3] = held
                     /\ held[1] = "cell" /\ heap'[held[2]][1] = "vec"
                     /\ i < Len(calls') => o.next <= Len(heap'[held[2]][2])
      <4>1. calls[i].kind = "native" /\ i \in DOMAIN calls /\ calls'[i].args = calls[i].args
            /\ calls'[i].below = calls[i].below /\ (i < m => calls'[i].next = calls[i].next)
            /\ Len(calls') = m
        BY <1>2, <1>6, <3>1
      <4>2. LET held == calls[i].args[2]
            IN  IsA("vec", heap'[held[2]]) /\ Len(heap'[held[2]][2]) = Len(heap[held[2]][2])
        BY <1>1, <4>1 DEF HeldKept
      <4>3. /\ stack[Len(calls[i].below) + 3] = calls[i].args[2]
            /\ IsA("cell", calls[i].args[2])
            /\ i < Len(calls) => calls[i].next <= Len(heap[calls[i].args[2][2]][2])
        BY <1>1, <4>1, Zenon DEF Nested, ArraysHeld
      <4>4. Len(calls[i].below) + 3 <= Len(stack') /\ Len(calls[i].below) + 3 \in 1 .. Len(stack')
        BY <1>1, <1>7, <4>1
      <4>5. stack'[Len(calls[i].below) + 3] = stack[Len(calls[i].below) + 3]
        BY <4>4
      <4>6. i < m => i < Len(calls)
        BY <1>1
      <4>7. i < m => calls'[i].next <= Len(heap'[calls[i].args[2][2]][2])
        BY <4>1, <4>2, <4>3, <4>6
      <4> QED BY <4>1, <4>2, <4>3, <4>4, <4>5, <4>7, Zenon DEF IsA
    <3>2. DOMAIN calls' = 1 .. m
      BY <1>6
    <3> QED BY <3>1, <3>2, Zenon DEF ArraysHeld, IsA
  <2>4. ResultLeft' /\ HeightsMatch'
    BY <1>11 DEF ResultLeft, HeightsMatch, InLoop
  <2> QED BY <1>8, <1>9, <2>1, <2>2, <2>3, <2>4 DEF Safe, Nested
<1> QED BY <1>10, <1>11

\* What a builtin that calls back holds.
LEMMA NativeMeans ==
  ASSUME Safe, mode = "native"
  PROVE  LET n == Len(calls)
         IN  /\ calls # <<>> /\ Native = calls[n] /\ n \in DOMAIN calls /\ n \in Nat /\ n >= 1
             /\ calls[n].kind = "native" /\ CallOK(calls[n])
             /\ Len(frames) = calls[n].target /\ Target = calls[n].target
             /\ Callback(Native) \in StackValues
             /\ Elements(Native) = heap[calls[n].args[2][2]][2]
             /\ Elements(Native) \in Seq(StackValues) /\ calls[n].next \in Nat \ {0}
             /\ Relied(calls[n]) <= Len(stack)
<1> DEFINE n == Len(calls)
<1>1. Typed /\ ArraysHeld /\ CallStackMatches
  BY DEF Safe, Nested
<1>2. calls # <<>> /\ Last(calls).kind = "native" /\ Len(frames) = Target
  BY <1>1, MatchParts
<1>3. /\ n \in Nat /\ n \in DOMAIN calls /\ n >= 1 /\ Native = calls[n] /\ CallOK(calls[n])
      /\ Target = calls[n].target
  BY <1>2, Innermost DEF Native
<1>4. calls[n].kind = "native"
  BY <1>2, <1>3 DEF Native
<1>5. /\ calls[n].args[1] \in StackValues /\ calls[n].args[2] \in StackValues
      /\ calls[n].next \in Nat \ {0} /\ Relied(calls[n]) = Len(calls[n].below) + 3
  BY <1>3, <1>4, CallMeans, Zenon
<1>6. /\ Len(calls[n].below) + 3 <= Len(stack)
      /\ IsA("cell", calls[n].args[2]) /\ IsA("vec", heap[calls[n].args[2][2]])
  BY <1>1, <1>3, <1>4, Zenon DEF ArraysHeld
<1>7. calls[n].args[2][2] \in Cells
  BY <1>5, <1>6, StackValueKinds
<1>8. heap[calls[n].args[2][2]][2] \in Seq(StackValues)
  <2>1. IsHeapData(heap[calls[n].args[2][2]])
    BY <1>1, <1>7, TypedMeans DEF MemoryOK
  <2> QED BY <1>6, <2>1, HeapDataKinds
<1>9. Elements(Native) = heap[calls[n].args[2][2]][2]
  BY <1>3, <1>6 DEF Elements, Deref, Memory, IsA
<1> QED BY <1>2, <1>3, <1>4, <1>5, <1>6, <1>8, <1>9 DEF Callback

\* The same for the innermost builtin, when its callback returned at once.
LEMMA DeliverHere ==
  ASSUME Safe, mode = "native", Native.next <= Len(Elements(Native)),
         MemoryOK(heap'), Extends(heap, heap'),
         NEW v \in StackValues, Deliver(calls, [heap |-> heap', constants |-> constants], v),
         UNCHANGED <<program, constants, stack, buffer, frames, upvalues, collected>>
  PROVE  Safe'
<1> DEFINE m == Len(calls)
<1>1. Typed /\ stack \in Seq(StackValues) /\ Len(stack) \in Nat /\ calls \in Seq(ToSet(calls))
  BY TypedMeans DEF Safe, Typed
<1>2. /\ m \in DOMAIN calls /\ calls[m].kind = "native" /\ Len(frames) = calls[m].target
      /\ calls[m].next <= Len(heap[calls[m].args[2][2]][2]) /\ Relied(calls[m]) <= Len(stack)
  BY NativeMeans
<1>3. /\ Len(calls) = m /\ \A i \in 1 .. m : calls[i] = calls[i]
  OBVIOUS
<1>4. stack' \in Seq(StackValues) /\ Len(stack') <= Len(stack) /\ Relied(calls[m]) <= Len(stack')
      /\ \A k \in 1 .. Len(stack') : stack'[k] = stack[k]
  BY <1>1, <1>2
<1> HIDE DEF m
<1> QED BY <1>1, <1>2, <1>3, <1>4, DeliverStep, Zenon

\* A callback that takes more arguments gives the builtin a function.
THEOREM NativeCallPartialSafe ==
  ASSUME Safe, NativeCallPartial
  PROVE  Safe'
<1> DEFINE args == <<Elements(Native)[Native.next]>>
           d == Curry(Deref(Memory, Callback(Native))[2], args)
           stored == HeapStore(heap, d)
<1>1. /\ mode = "native" /\ Native.next <= Len(Elements(Native)) /\ HasRoom
      /\ CallKind(Callback(Native), 1) = "partial"
      /\ heap' = stored.heap /\ Deliver(calls, [Memory EXCEPT !.heap = stored.heap], stored.value)
      /\ UNCHANGED <<program, constants, stack, buffer, frames, upvalues, collected>>
  BY DEF NativeCallPartial, NativeCalling
<1>2. Typed /\ MemoryOK(heap)
  BY TypedMeans DEF Safe
<1>3. IsData(d)
  <2>1. Callback(Native) \in StackValues /\ args \in Seq(StackValues)
    BY <1>1, NativeMeans
  <2>2. IsClosure(Deref(Memory, Callback(Native))[2])
    BY <1>1, <1>2, <2>1, CallKindMeans
  <2> HIDE DEF args
  <2> QED BY <2>1, <2>2, CurryIsData
<1> HIDE DEF d
<1>4. /\ stored.value \in StackValues /\ MemoryOK(stored.heap) /\ Extends(heap, stored.heap)
  <2>1. Cardinality(FreeOf(heap)) >= 1
    BY <1>1, RoomForOne, FreeIsFinite
  <2> QED BY <1>2, <1>3, <2>1, HeapStoreKeeps
<1> HIDE DEF stored
<1>5. [Memory EXCEPT !.heap = stored.heap] = [heap |-> heap', constants |-> constants]
  BY <1>1 DEF Memory
<1>6. Deliver(calls, [heap |-> heap', constants |-> constants], stored.value)
  BY <1>1, <1>5, Zenon
<1>7. MemoryOK(heap') /\ Extends(heap, heap')
  BY <1>1, <1>4
<1> QED BY <1>1, <1>4, <1>6, <1>7, DeliverHere

\* A callback that is itself a builtin gives its result at once.
THEOREM NativeCallBuiltinSafe ==
  ASSUME TextTyped, Safe, NativeCallBuiltin
  PROVE  Safe'
<1> DEFINE name == Deref(Memory, Callback(Native))[2]
           args == <<Elements(Native)[Native.next]>>
           results == IF name \in CallingBack THEN {Error("TypeError")}
                      ELSE BuiltinResults(Memory, name, args)
<1>1. /\ mode = "native" /\ Native.next <= Len(Elements(Native))
      /\ CallKind(Callback(Native), 1) = "builtin"
      /\ UNCHANGED <<program, constants, stack, buffer, frames, upvalues, collected>>
  BY DEF NativeCallBuiltin, NativeCalling
<1>2. PICK result \in results :
        LET stored == Stored(result)
        IN  IF Failed(result)
            THEN mode' = ModeAfter(result[2]) /\ error' = result[2] /\ UNCHANGED <<calls, heap, out>>
            ELSE /\ HasRoom
                 /\ heap' = stored.heap
                 /\ Deliver(calls, [Memory EXCEPT !.heap = stored.heap], stored.value)
  BY Zenon DEF NativeCallBuiltin
<1>3. Typed /\ MemoryOK(heap) /\ DerefOK(Memory)
  BY TypedMeans DEF Safe
<1>4. Callback(Native) \in StackValues /\ args \in Seq(StackValues)
  BY <1>1, NativeMeans
<1>5. name \in KnownBuiltins
  BY <1>1, <1>3, <1>4, CallKindMeans
<1> HIDE DEF name, args
<1>6. Returned(result)
  <2>1. CASE name \in CallingBack
    <3>1. result = Error("TypeError")
      BY <2>1
    <3> QED BY <3>1, SimpleOutcomes DEF Returned, Outcome
  <2>2. CASE name \notin CallingBack
    <3>1. result \in BuiltinResults(Memory, name, args)
      BY <2>2
    <3> QED BY <1>3, <1>4, <1>5, <2>2, <3>1, BuiltinReturns DEF Known
  <2> QED BY <2>1, <2>2
<1>7. CASE Failed(result)
  <2>1. mode' = ModeAfter(result[2]) /\ UNCHANGED <<calls, heap>>
    BY <1>2, <1>7, Zenon
  <2>2. mode' \in {"throw", "undefined"}
    BY <2>1 DEF ModeAfter
  <2> QED BY <1>1, <2>1, <2>2, StopHere
<1>8. CASE ~Failed(result)
  <2> DEFINE stored == Stored(result)
  <2>1. /\ HasRoom /\ heap' = stored.heap
        /\ Deliver(calls, [Memory EXCEPT !.heap = stored.heap], stored.value)
    BY <1>2, <1>8, Zenon
  <2>2. stored.value \in StackValues /\ MemoryOK(stored.heap) /\ Extends(heap, stored.heap)
    BY <1>3, <1>6, <1>8, <2>1, StoredKeeps
  <2> HIDE DEF stored
  <2>3. [Memory EXCEPT !.heap = stored.heap] = [heap |-> heap', constants |-> constants]
    BY <2>1 DEF Memory
  <2>4. Deliver(calls, [heap |-> heap', constants |-> constants], stored.value)
    BY <2>1, <2>3, Zenon
  <2>5. MemoryOK(heap') /\ Extends(heap, heap')
    BY <2>1, <2>2
  <2> QED BY <1>1, <2>2, <2>4, <2>5, DeliverHere
<1> QED BY <1>7, <1>8

\* FinishCallback: the result of a function that a builtin called goes to the
\* builtin, through all builtins that end with it.
THEOREM FinishCallbackSafe ==
  ASSUME Safe, FinishCallback
  PROVE  Safe'
<1> DEFINE n == Len(calls)
           m == n - 1
           c == calls[n]
           cs == Front(calls)
           v == Last(stack)
<1>1. /\ mode = "run" /\ calls # <<>> /\ Len(frames) = Target /\ Last(calls).kind = "callback"
      /\ stack' = Front(stack) /\ Deliver(cs, Memory, v)
      /\ UNCHANGED <<program, constants, buffer, frames, heap, upvalues, collected>>
  BY DEF FinishCallback, LoopEnds
<1>2. /\ Typed /\ Isolated /\ ResultLeft /\ ArraysHeld /\ MemoryOK(heap)
      /\ stack \in Seq(StackValues) /\ Len(stack) \in Nat
  BY <1>1, TypedMeans DEF Safe, Nested, Typed
<1>3. /\ n \in Nat /\ n \in DOMAIN calls /\ n >= 1 /\ DOMAIN calls = 1 .. n
      /\ Last(calls) = c /\ Target = c.target /\ CallOK(c)
      /\ cs \in Seq(ToSet(calls)) /\ Len(cs) = m
      /\ \A i \in 1 .. m : cs[i] = calls[i]
      /\ \A i \in 1 .. m : Relied(calls[i]) <= Len(c.below)
      /\ m \in 1 .. m /\ calls[m].kind = "native" /\ calls[m].target = Target
  BY <1>1, Innermost, Zenon
<1>4. m \in DOMAIN calls /\ m < n
  BY <1>3
<1>5. Len(c.below) < Len(stack) /\ Len(c.below) \in Nat
  BY <1>1, <1>2, <1>3, CallMeans DEF ResultLeft
<1>6. Relied(calls[m]) <= Len(c.below) /\ Relied(calls[m]) \in Nat
  <2>1. CallOK(calls[m])
    BY <1>2, <1>4 DEF Typed
  <2> QED BY <1>3, <2>1, CallMeans, Zenon
<1>7. calls[m].next <= Len(heap[calls[m].args[2][2]][2])
  BY <1>2, <1>3, <1>4, Zenon DEF ArraysHeld
<1> HIDE DEF c
<1>8. /\ stack' \in Seq(StackValues) /\ Len(stack') = Len(stack) - 1 /\ Len(stack') <= Len(stack)
      /\ \A k \in 1 .. Len(stack') : stack'[k] = stack[k]
      /\ v \in StackValues
  <2>1. Len(stack) \in Nat /\ Len(stack) > 0 /\ stack \in Seq(StackValues)
    BY <1>2, <1>5
  <2>2. stack' = SubSeq(stack, 1, Len(stack) - 1)
    BY <1>1 DEF Front
  <2>3. v \in StackValues
    BY <2>1 DEF Last
  <2> HIDE DEF v
  <2>4. stack' \in Seq(StackValues)
    BY <2>1, <2>2
  <2>5. Len(stack') = Len(stack) - 1
    <3> DEFINE k == Len(stack) - 1
    <3>1. k \in 0 .. Len(stack)
      BY <2>1
    <3> HIDE DEF k
    <3>2. Len(SubSeq(stack, 1, k)) = k
      BY <2>1, <3>1
    <3> QED BY <2>2, <3>2 DEF k
  <2>6. \A k \in 1 .. Len(stack') : stack'[k] = stack[k]
    BY <2>1, <2>2, <2>5
  <2>7. Len(stack') <= Len(stack)
    BY <2>1, <2>5
  <2> QED BY <2>3, <2>4, <2>5, <2>6, <2>7
<1>9. Relied(calls[m]) <= Len(stack')
  BY <1>2, <1>5, <1>6, <1>8
<1>10. MemoryOK(heap') /\ Extends(heap, heap')
       /\ Deliver(cs, [heap |-> heap', constants |-> constants], v)
  BY <1>1, <1>2 DEF Extends, Memory
<1>11. Len(frames) = calls[m].target /\ mode \in {"run", "native"}
  BY <1>1, <1>3
<1>12. UNCHANGED <<program, constants, buffer, frames, upvalues, collected>>
  BY <1>1
<1> HIDE DEF n, m, cs, v
<1> QED BY <1>3, <1>4, <1>7, <1>8, <1>9, <1>10, <1>11, <1>12, DeliverStep, Zenon

----------------------------------------------------------------------------
(* Calls that begin *)

\* A new activation begins above what the others rely on, in a frame f of its
\* own unless it is a builtin; g are the frames it found.
LEMMA BeginStep ==
  ASSUME Safe, InLoop \/ mode = "native",
         NEW c, CallOK(c), calls' = Append(calls, c), c.target = Len(frames),
         c.kind = "callback" <=> mode = "native",
         mode = "native" => Native.next <= Len(Elements(Native)),
         NEW T, NEW g \in Seq(T), Len(g) = Len(frames),
         \A i \in 1 .. Len(frames) :
           FrameOK(g[i]) /\ g[i].fp = frames[i].fp /\ (i <= Target => g[i] = frames[i]),
         c.kind # "callback" =>
           /\ g[Len(frames)].ip \in DOMAIN HeightsOf(g[Len(frames)])
           /\ Len(c.below) + Left(c) =
                g[Len(frames)].fp + HeightsOf(g[Len(frames)])[g[Len(frames)].ip],
         NEW f, FrameOK(f),
         \/ c.kind = "native" /\ frames' = g /\ mode' = "native"
         \/ /\ c.kind # "native" /\ frames' = Append(g, f) /\ mode' = "run"
            /\ f.fp = Len(c.below) + (IF c.kind = "call" THEN 1 ELSE 0)
            /\ f.ip \in DOMAIN HeightsOf(f) /\ Len(stack') = f.fp + HeightsOf(f)[f.ip],
         stack' \in Seq(StackValues),
         buffer'.cap \in Nat, buffer'.cap >= Len(stack'), DOMAIN buffer' = {"cap", "moves"},
         Len(c.below) <= Len(stack), Relied(c) <= Len(stack'),
         \A k \in 1 .. Len(c.below) : stack'[k] = stack[k] /\ c.below[k] = stack[k],
         \A i \in DOMAIN calls : Relied(calls[i]) <= Len(c.below),
         c.kind = "native" =>
           /\ stack'[Len(c.below) + 3] = c.args[2]
           /\ IsA("cell", c.args[2]) /\ IsA("vec", heap[c.args[2][2]]),
         UNCHANGED <<program, constants, heap, upvalues, collected>>
  PROVE  Safe'
<1> DEFINE n == Len(calls)
           m == Len(frames)
<1>1. /\ Typed /\ Isolated /\ Nested /\ mode \in {"run", "native"}
      /\ CallStackMatches /\ CallersResume /\ ArraysHeld
  BY DEF Safe, Nested, InLoop
<1>2. /\ n \in Nat /\ m \in Nat /\ Len(stack) \in Nat /\ DOMAIN calls = 1 .. n
      /\ Target \in Nat /\ Target <= m
      /\ \A i \in 1 .. n : calls[i].target \in 1 .. Target /\ CallOK(calls[i])
  <2>1. \A i \in DOMAIN calls : CallOK(calls[i])
    BY <1>1 DEF Typed
  <2> QED BY <1>1, <2>1, TypedMeans, Targets, Zenon
<1>3. /\ calls' \in Seq(ToSet(calls) \cup {c}) /\ Len(calls') = n + 1 /\ DOMAIN calls' = 1 .. n + 1
      /\ calls'[n + 1] = c /\ \A i \in 1 .. n : calls'[i] = calls[i]
  <2>1. calls \in Seq(ToSet(calls) \cup {c})
    BY <1>1 DEF Typed
  <2> QED BY <1>2, <2>1
<1>4. n + 1 \in 1 .. n + 1 /\ (\A i \in 1 .. n + 1 : i \in 1 .. n \/ i = n + 1)
      /\ (\A i \in 1 .. n : i < n + 1 /\ i \in 1 .. n + 1)
  BY <1>2
<1>5. /\ Len(c.below) \in Nat /\ c.below \in Seq(StackValues) /\ Relied(c) \in Nat
      /\ Len(c.below) <= Relied(c)
      /\ c.kind = "native" => Relied(c) = Len(c.below) + 3
  BY CallMeans
<1>6. calls' # <<>> /\ Last(calls') = c /\ Target' = m
  <2>1. calls' # <<>>
    <3>1. n + 1 # 0
      BY <1>2
    <3> QED BY <1>3, <3>1, EmptySeq, Zenon
  <2>2. Last(calls') = c
    BY <1>3 DEF Last
  <2> QED BY <2>1, <2>2 DEF Target
<1>7. /\ c.kind = "native" => mode' = "native" /\ Len(frames') = m /\ DOMAIN frames' = 1 .. m
      /\ c.kind # "native" => /\ mode' = "run" /\ Len(frames') = m + 1 /\ DOMAIN frames' = 1 .. m + 1
                              /\ frames'[m + 1] = f
      /\ \A i \in 1 .. m : frames'[i] = g[i]
      /\ frames' \in Seq(T \cup {f})
  <2>1. CASE c.kind = "native"
    BY <2>1
  <2>2. CASE c.kind # "native"
    <3>1. frames' = Append(g, f) /\ mode' = "run"
      BY <2>2, Zenon
    <3>2. g \in Seq(T \cup {f})
      OBVIOUS
    <3> QED BY <1>2, <2>2, <3>1, <3>2
  <2> QED BY <2>1, <2>2
<1> HIDE DEF n, m
<1>8. Typed'
  <2>1. ConstantsOK' /\ MemoryOK(heap') /\ upvalues' \in [UpvalueCells -> {Free} \cup StackValues]
    BY <1>1, SameConstants, TypedMeans DEF Typed
  <2>2. mode' \in Modes \ {"waiting"} /\ collected' \in 0 .. program.collections
    BY <1>1, <1>7 DEF Modes, Typed
  <2>3. \A i \in DOMAIN calls' : CallOK(calls'[i])
    BY <1>2, <1>3, <1>4
  <2>4. \A i \in DOMAIN frames' : FrameOK(frames'[i])
    <3>1. \A i \in 1 .. m : FrameOK(frames'[i])
      BY <1>7 DEF m
    <3>2. \A i \in 1 .. m + 1 : i \in 1 .. m \/ i = m + 1
      BY <1>2
    <3> QED BY <1>7, <3>1, <3>2, Zenon
  <2> QED BY <1>1, <1>3, <1>7, <2>1, <2>2, <2>3, <2>4, TypedStep, Zenon
<1>9. \A i \in 1 .. n :
        /\ calls[i].below \in Seq(StackValues) /\ Len(calls[i].below) \in Nat
        /\ Len(calls[i].below) <= Len(c.below) /\ Relied(calls[i]) <= Len(c.below)
        /\ calls[i].kind = "native" => Relied(calls[i]) = Len(calls[i].below) + 3
  <2> TAKE i \in 1 .. n
  <2>1. /\ calls[i].below \in Seq(StackValues) /\ Len(calls[i].below) \in Nat
        /\ Relied(calls[i]) \in Nat /\ Relied(calls[i]) >= Len(calls[i].below)
        /\ calls[i].kind = "native" => Relied(calls[i]) = Len(calls[i].below) + 3
    BY <1>2, CallMeans, Zenon
  <2>2. Relied(calls[i]) <= Len(c.below)
    BY <1>2, Zenon
  <2> QED BY <1>5, <2>1, <2>2
<1>10. Len(stack') \in Nat /\ Len(c.below) <= Len(stack')
  <2>1. Len(stack') \in Nat
    OBVIOUS
  <2> QED BY <1>5, <2>1
<1>11. Isolated'
  <2>1. ASSUME NEW i \in 1 .. n + 1
        PROVE  /\ Len(calls'[i].below) <= Len(stack')
               /\ \A k \in DOMAIN calls'[i].below : stack'[k] = calls'[i].below[k]
    <3>1. CASE i = n + 1
      <4>1. DOMAIN c.below = 1 .. Len(c.below)
        BY <1>5
      <4> QED BY <1>3, <1>10, <3>1, <4>1, Zenon
    <3>2. CASE i \in 1 .. n
      <4>1. calls'[i] = calls[i] /\ i \in DOMAIN calls
        BY <1>2, <1>3, <3>2
      <4>2. \A k \in DOMAIN calls[i].below : k \in 1 .. Len(c.below)
        BY <1>5, <1>9, <3>2
      <4>3. \A k \in DOMAIN calls[i].below : stack[k] = calls[i].below[k]
        BY <1>1, <4>1 DEF Isolated
      <4>4. Len(calls[i].below) <= Len(stack')
        BY <1>5, <1>9, <1>10, <3>2
      <4> QED BY <4>1, <4>2, <4>3, <4>4, Zenon
    <3> QED BY <1>4, <3>1, <3>2, Zenon
  <2>2. ASSUME NEW i \in 1 .. n + 1, NEW j \in 1 .. n + 1, i < j
        PROVE  Len(calls'[i].below) + (IF calls'[i].kind = "native" THEN 3 ELSE 0)
                 <= Len(calls'[j].below)
    <3>1. i \in 1 .. n
      BY <1>2, <2>2
    <3>2. CASE j = n + 1
      <4>1. Relied(calls[i]) <= Len(c.below)
        BY <1>9, <3>1
      <4> QED BY <1>3, <3>1, <3>2, <4>1, Zenon DEF Relied
    <3>3. CASE j \in 1 .. n
      <4>1. Relied(calls[i]) <= Len(calls[j].below)
        BY <1>1, <1>2, <2>2, <3>1, <3>3, Zenon DEF Isolated
      <4> QED BY <1>3, <3>1, <3>3, <4>1, Zenon DEF Relied
    <3> QED BY <1>4, <3>2, <3>3, Zenon
  <2> QED BY <1>3, <2>1, <2>2, Zenon DEF Isolated, Relied
\* In a builtin, only the builtin has the number of frames that there are.
<1>12. mode = "native" => /\ n >= 1 /\ calls[n].kind = "native" /\ m = Target /\ calls # <<>>
                          /\ n \in 1 .. n /\ calls[n].target = Target /\ n # 0
                          /\ \A i \in 1 .. n : calls[i].kind # "native" => calls[i].target < Target
  <2> SUFFICES ASSUME mode = "native"
               PROVE  /\ n >= 1 /\ calls[n].kind = "native" /\ m = Target /\ calls # <<>>
                      /\ n \in 1 .. n /\ calls[n].target = Target /\ n # 0
                      /\ \A i \in 1 .. n : calls[i].kind # "native" => calls[i].target < Target
    OBVIOUS
  <2>1. n >= 1 /\ calls[n].kind = "native" /\ m = Target /\ calls # <<>> /\ calls[n].target = Target
    BY NativeMeans DEF n, m
  <2>2. \A i \in 1 .. n - 1 : calls[i].target < Target
    BY <2>1, Innermost DEF n
  <2>3. \A i \in 1 .. n : i = n \/ i \in 1 .. n - 1
    BY <1>2
  <2> QED BY <1>2, <2>1, <2>2, <2>3
<1>13. mode # "native" => /\ m = Target + 1 /\ (calls # <<>> => calls[n].kind # "native")
                          /\ mode = "run"
  <2> SUFFICES ASSUME mode # "native"
               PROVE  m = Target + 1 /\ (calls # <<>> => calls[n].kind # "native") /\ mode = "run"
    OBVIOUS
  <2>1. InLoop
    OBVIOUS
  <2> QED BY <2>1, Running DEF m, n, Last
<1>14. ASSUME NEW i \in 1 .. n + 1, i = n + 1
       PROVE  c.target = TargetOf(i)' /\ (c.kind = "callback" <=> i > 1 /\ calls'[i - 1].kind = "native")
  <2>1. i - 1 = n /\ (n # 0 => n \in 1 .. n /\ i > 1 /\ i # 1)
    BY <1>2, <1>14
  <2>2. n # 0 <=> calls # <<>>
    BY <1>1, EmptySeq DEF n, Typed
  <2>3. n # 0 => calls'[n] = calls[n] /\ Target = calls[n].target
    <3>1. n # 0 => Target = calls[n].target
      BY <2>2 DEF Target, Last, n
    <3> QED BY <1>3, <2>1, <3>1
  <2>4. TargetOf(i)' = IF i = 1 THEN 1
                       ELSE IF calls'[n].kind = "native" THEN calls'[n].target
                            ELSE calls'[n].target + 1
    BY <2>1, Zenon DEF TargetOf
  <2>5. n = 0 => Target = 0 /\ i = 1 /\ ~(i > 1) /\ mode # "native"
    BY <1>2, <1>12, <1>14, <2>2 DEF Target
  <2>6. CASE n = 0
    BY <1>13, <2>4, <2>5, <2>6 DEF m
  <2>7. CASE n # 0 /\ mode = "native"
    <3>1. calls'[n] = calls[n] /\ calls[n].kind = "native" /\ i > 1 /\ i # 1 /\ i - 1 = n
      BY <1>12, <2>1, <2>3, <2>7, Zenon
    <3>2. TargetOf(i)' = Target /\ Len(frames) = Target
      BY <1>12, <2>3, <2>4, <2>7, <3>1, Zenon DEF m
    <3>3. c.target = TargetOf(i)' /\ calls'[i - 1].kind = "native"
      BY <3>1, <3>2, Zenon
    <3> QED BY <2>7, <3>1, <3>3
  <2>8. CASE n # 0 /\ mode # "native"
    <3>1. calls[n].kind # "native"
      BY <1>13, <2>2, <2>8
    <3>2. TargetOf(i)' = Target + 1 /\ Len(frames) = Target + 1
      BY <1>13, <2>1, <2>3, <2>4, <2>8, <3>1, Zenon DEF m
    <3> QED BY <2>1, <2>3, <2>8, <3>1, <3>2, Zenon
  <2> QED BY <2>6, <2>7, <2>8, Zenon
<1>15. CallStackMatches'
  <2>1. ASSUME NEW i \in 1 .. n + 1
        PROVE  /\ calls'[i].target = TargetOf(i)'
               /\ calls'[i].kind = "callback" <=> i > 1 /\ calls'[i - 1].kind = "native"
               /\ calls'[i].kind # "native" /\ calls'[i].target < Len(frames') =>
                    frames'[calls'[i].target + 1].fp =
                      Len(calls'[i].below) + (IF calls'[i].kind = "call" THEN 1 ELSE 0)
    <3>1. CASE i = n + 1
      <4>2. c.kind # "native" =>
              frames'[c.target + 1].fp = Len(c.below) + (IF c.kind = "call" THEN 1 ELSE 0)
        BY <1>7, Zenon DEF m
      <4>3. calls'[i] = c
        BY <1>3, <3>1
      <4> QED BY <1>14, <3>1, <4>2, <4>3, Zenon
    <3>2. CASE i \in 1 .. n
      <4>1. /\ calls[i].target = TargetOf(i)
            /\ calls[i].kind = "callback" <=> i > 1 /\ calls[i - 1].kind = "native"
            /\ calls[i].kind # "native" /\ calls[i].target < Len(frames) =>
                 frames[calls[i].target + 1].fp =
                   Len(calls[i].below) + (IF calls[i].kind = "call" THEN 1 ELSE 0)
        <5>1. i \in DOMAIN calls
          BY <1>2, <3>2
        <5> QED BY <1>1, <5>1, Zenon DEF CallStackMatches
      <4>2. i > 1 => i - 1 \in 1 .. n
        BY <1>2, <3>2
      <4>3. i > 1 => calls'[i - 1] = calls[i - 1]
        BY <1>3, <4>2
      <4>4. i # 1 => i > 1
        BY <1>2, <3>2
      <4>5. TargetOf(i)' = TargetOf(i)
        BY <4>3, <4>4, Zenon DEF TargetOf
      <4>6. calls'[i] = calls[i]
        BY <1>3, <3>2
      <4>7. calls[i].kind # "native" =>
              /\ calls[i].target < Len(frames)
              /\ frames'[calls[i].target + 1].fp = frames[calls[i].target + 1].fp
        <5> SUFFICES ASSUME calls[i].kind # "native"
                     PROVE  /\ calls[i].target < Len(frames)
                            /\ frames'[calls[i].target + 1].fp = frames[calls[i].target + 1].fp
          OBVIOUS
        <5>1. calls[i].target \in 1 .. Target
          BY <1>2, <3>2
        <5>2. calls[i].target < m
          <6>1. CASE mode = "native"
            BY <1>12, <3>2, <6>1
          <6>2. CASE mode # "native"
            BY <1>2, <1>13, <5>1, <6>2
          <6> QED BY <6>1, <6>2
        <5>3. calls[i].target + 1 \in 1 .. m
          <6>1. m \in Nat /\ Target \in Nat
            BY <1>2
          <6> DEFINE t == calls[i].target
          <6>2. t \in 1 .. Target /\ t < m
            BY <5>1, <5>2
          <6> HIDE DEF t
          <6>3. t + 1 \in 1 .. m
            BY <6>1, <6>2
          <6> QED BY <6>3 DEF t
        <5> QED BY <1>7, <5>2, <5>3, Zenon DEF m
      <4> QED BY <4>1, <4>3, <4>5, <4>6, <4>7, Zenon
    <3> QED BY <1>4, <3>1, <3>2, Zenon
  <2>2. mode' = "run" => Len(frames') \in {Target', Target' + 1}
                         /\ (calls' # <<>> => Last(calls').kind # "native")
    BY <1>6, <1>7
  <2>3. mode' = "native" => calls' # <<>> /\ Last(calls').kind = "native" /\ Len(frames') = Target'
    BY <1>6, <1>7
  <2> QED BY <1>3, <2>1, <2>2, <2>3, Zenon DEF CallStackMatches
<1>16. CallersResume'
  <2>1. ASSUME NEW i \in 1 .. n + 1, calls'[i].kind # "callback"
        PROVE  LET caller == frames'[calls'[i].target]
               IN  /\ caller.ip \in DOMAIN HeightsOf(caller)
                   /\ Len(calls'[i].below) + Left(calls'[i])
                        = caller.fp + HeightsOf(caller)[caller.ip]
    <3>1. CASE i = n + 1
      <4>1. m \in 1 .. m
        <5>1. c.kind # "callback"
          BY <1>3, <2>1, <3>1
        <5>2. m = Target + 1
          BY <1>13, <5>1
        <5> QED BY <1>2, <5>2
      <4>2. calls'[i] = c /\ frames'[c.target] = g[m] /\ c.kind # "callback"
        BY <1>3, <1>7, <2>1, <3>1, <4>1 DEF m
      <4> QED BY <4>2 DEF m
    <3>2. CASE i \in 1 .. n
      <4>1. calls'[i] = calls[i] /\ i \in DOMAIN calls /\ calls[i].kind # "callback"
        BY <1>2, <1>3, <2>1, <3>2
      <4>2. calls[i].target \in 1 .. m /\ calls[i].target <= Target
        BY <1>2, <3>2
      <4>3. frames'[calls[i].target] = frames[calls[i].target]
        BY <1>7, <4>2 DEF m
      <4>4. LET caller == frames[calls[i].target]
            IN  /\ caller.ip \in DOMAIN HeightsOf(caller)
                /\ Len(calls[i].below) + Left(calls[i])
                     = caller.fp + HeightsOf(caller)[caller.ip]
        BY <1>1, <4>1, Zenon DEF CallersResume
      <4> QED BY <4>1, <4>3, <4>4, Zenon
    <3> QED BY <1>4, <3>1, <3>2, Zenon
  <2>2. \A h : HeightsOf(h)' = HeightsOf(h)
    BY SameProgram
  <2> QED BY <1>3, <2>1, <2>2, Zenon DEF CallersResume, Left
<1>17. ArraysHeld'
  <2>1. ASSUME NEW i \in 1 .. n + 1, calls'[i].kind = "native"
        PROVE  LET o == calls'[i]
                   held == o.args[2]
               IN  /\ Len(o.below) + 3 <= Len(stack')
                   /\ stack'[Len(o.below) + 3] = held
                   /\ held[1] = "cell" /\ heap'[held[2]][1] = "vec"
                   /\ i < Len(calls') => o.next <= Len(heap'[held[2]][2])
    <3>1. CASE i = n + 1
      <4>1. calls'[i] = c /\ c.kind = "native" /\ ~(i < Len(calls')) /\ heap' = heap
        BY <1>2, <1>3, <2>1, <3>1
      <4> QED BY <1>5, <4>1 DEF IsA
    <3>2. CASE i \in 1 .. n
      <4>1. calls'[i] = calls[i] /\ i \in DOMAIN calls /\ calls[i].kind = "native" /\ heap' = heap
        BY <1>2, <1>3, <2>1, <3>2
      <4>2. /\ stack[Len(calls[i].below) + 3] = calls[i].args[2]
            /\ IsA("cell", calls[i].args[2]) /\ IsA("vec", heap[calls[i].args[2][2]])
            /\ i < Len(calls) => calls[i].next <= Len(heap[calls[i].args[2][2]][2])
        BY <1>1, <4>1, Zenon DEF ArraysHeld
      <4>3. /\ Len(calls[i].below) + 3 <= Len(stack')
            /\ stack'[Len(calls[i].below) + 3] = stack[Len(calls[i].below) + 3]
        <5>1. Len(calls[i].below) + 3 <= Len(c.below) /\ Len(calls[i].below) \in Nat
          BY <1>9, <3>2, <4>1, Zenon
        <5>2. Len(calls[i].below) + 3 \in 1 .. Len(c.below)
          BY <1>5, <5>1
        <5>3. Len(calls[i].below) + 3 <= Len(stack')
          BY <1>5, <1>10, <5>1
        <5> QED BY <5>2, <5>3, Zenon
      <4>4. calls[i].next <= Len(heap[calls[i].args[2][2]][2])
        <5>1. CASE i < n
          BY <4>2, <5>1 DEF n
        <5>2. CASE i = n
          <6>1. mode = "native"
            <7>1. calls # <<>>
              BY <1>2, <3>2, EmptySeq, <1>1 DEF n, Typed
            <7> QED BY <1>13, <4>1, <5>2, <7>1
          <6>2. Native = calls[n] /\ Elements(Native) = heap[calls[n].args[2][2]][2]
            BY <6>1, NativeMeans DEF n
          <6>3. Native.next <= Len(Elements(Native))
            BY <6>1
          <6> QED BY <5>2, <6>2, <6>3
        <5> QED BY <1>2, <3>2, <5>1, <5>2
      <4> QED BY <4>1, <4>2, <4>3, <4>4, Zenon DEF IsA
    <3> QED BY <1>4, <3>1, <3>2, Zenon
  <2> QED BY <1>3, <2>1, Zenon DEF ArraysHeld, IsA
<1>18. ResultLeft' /\ HeightsMatch'
  <2>1. CASE c.kind = "native"
    BY <1>7, <2>1 DEF ResultLeft, HeightsMatch, InLoop
  <2>2. CASE c.kind # "native"
    <3>1. Len(frames') # Target'
      BY <1>2, <1>6, <1>7, <2>2
    <3>2. Frame' = f
      BY <1>7, <2>2 DEF Frame, Last
    <3>3. HeightsOf(Frame)' = HeightsOf(f)
      BY <3>2, SameProgram DEF HeightsOf
    <3>4. f.ip \in DOMAIN HeightsOf(f) /\ Len(stack') = f.fp + HeightsOf(f)[f.ip]
      BY <2>2, Zenon
    <3> QED BY <3>1, <3>2, <3>3, <3>4 DEF ResultLeft, HeightsMatch
  <2> QED BY <2>1, <2>2
<1> QED BY <1>8, <1>11, <1>15, <1>16, <1>17, <1>18 DEF Safe, Nested

\* The caller's frame goes on behind the call, where the result will lie.
LEMMA CallerWaits ==
  ASSUME Safe, InLoop, Instr.op = "CALL"
  PROVE  LET m == Len(frames)
             caller == Advanced[m]
         IN  /\ \E T : Advanced \in Seq(T)
             /\ Len(Advanced) = m /\ m = Target + 1 /\ m \in Nat /\ Target \in Nat
             /\ \A i \in 1 .. m : /\ FrameOK(Advanced[i]) /\ Advanced[i].fp = frames[i].fp
                                  /\ i <= Target => Advanced[i] = frames[i]
             /\ caller.ip \in DOMAIN HeightsOf(caller)
             /\ Len(Below) + (IF Instr.keep THEN 1 ELSE 0) =
                  caller.fp + HeightsOf(caller)[caller.ip]
             /\ \A i \in DOMAIN calls : Relied(calls[i]) <= Len(Below)
<1> DEFINE m == Len(frames)
           new == [Frame EXCEPT !.ip = Frame.ip + 1]
<1>1. /\ m = Target + 1 /\ Target \in Nat /\ Frame = frames[m] /\ FrameOK(Frame)
      /\ \A i \in DOMAIN calls : Relied(calls[i]) <= Frame.fp
  BY Running
<1>2. /\ Typed /\ m \in Nat /\ DOMAIN frames = 1 .. m /\ frames \in Seq(ToSet(frames))
      /\ \A i \in 1 .. m : FrameOK(frames[i])
  BY TypedMeans DEF Safe, Typed
<1>3. /\ Frame.ip \in Nat
      /\ Height \in Nat /\ Frame.fp \in Nat /\ Len(stack) = Frame.fp + Height
      /\ \A at \in Successors(CodeOf(Frame), <<Frame.ip, Height>>) :
           at[1] \in DOMAIN HeightsOf(Frame) /\ HeightsOf(Frame)[at[1]] = at[2]
  BY Fits
<1>4. FrameOK(new) /\ new.ip = Frame.ip + 1 /\ new.chunk = Frame.chunk /\ new.fp = Frame.fp
      /\ Advanced = [frames EXCEPT ![m] = new]
  <2> DEFINE ip == Frame.ip + 1
  <2>1. ip \in Nat
    BY <1>3
  <2>2. Advanced = GoTo(ip)
    BY DEF Advanced
  <2> HIDE DEF ip
  <2>3. LET f == [Frame EXCEPT !.ip = ip]
        IN  /\ FrameOK(f) /\ f.ip = ip /\ f.chunk = Frame.chunk /\ f.fp = Frame.fp
            /\ GoTo(ip) = [frames EXCEPT ![Len(frames)] = f]
    BY <2>1, FrameAt, Zenon
  <2> QED BY <2>2, <2>3 DEF ip
<1>5. /\ Instr.argc \in Nat /\ Instr.keep \in BOOLEAN
      /\ Takes(Instr) = Instr.argc + 1 /\ Leaves(Instr) = IF Instr.keep THEN 1 ELSE 0
      /\ Base = Len(stack) - Instr.argc /\ Len(Below) = Base - 1 /\ Len(stack) \in Nat
      /\ Frame.fp <= Len(Below) /\ Base \in Nat
  BY CallOperands
<1>6. <<Frame.ip + 1, Height - Takes(Instr) + Leaves(Instr)>>
        \in Successors(CodeOf(Frame), <<Frame.ip, Height>>)
  BY Behind
<1> HIDE DEF new, m
<1>7. HeightsOf(new) = HeightsOf(Frame)
  BY <1>4 DEF HeightsOf
<1>8. /\ new.ip \in DOMAIN HeightsOf(new)
      /\ HeightsOf(new)[new.ip] = Height - Takes(Instr) + Leaves(Instr)
  BY <1>3, <1>4, <1>6, <1>7
<1>9. Len(Below) + (IF Instr.keep THEN 1 ELSE 0) = new.fp + HeightsOf(new)[new.ip]
  <2>1. Leaves(Instr) \in Nat
    BY <1>5
  <2>2. HeightsOf(new)[new.ip] = Height - (Instr.argc + 1) + Leaves(Instr)
    BY <1>5, <1>8
  <2>3. Len(Below) + Leaves(Instr) = Frame.fp + (Height - (Instr.argc + 1) + Leaves(Instr))
    <3> DEFINE b == Len(Below)
               l == Len(stack)
               argc == Instr.argc
               fp == Frame.fp
               h == Height
               left == Leaves(Instr)
    <3>1. fp \in Nat /\ h \in Nat /\ argc \in Nat /\ left \in Nat
      BY <1>3, <1>5, <2>1
    <3>2. b = Base - 1 /\ Base = l - argc /\ l = fp + h
      BY <1>3, <1>5
    <3> HIDE DEF b, l, argc, fp, h, left
    <3>3. b + left = fp + (h - (argc + 1) + left)
      BY <3>1, <3>2
    <3> QED BY <3>3 DEF b, argc, fp, h, left
  <2> QED BY <1>4, <1>5, <2>2, <2>3
<1>10. /\ Advanced \in Seq(ToSet(frames) \cup {new}) /\ Len(Advanced) = m /\ m \in 1 .. m
       /\ Advanced[m] = new /\ \A i \in 1 .. m : i # m => Advanced[i] = frames[i]
  <2>1. m \in 1 .. m /\ frames \in Seq(ToSet(frames) \cup {new}) /\ Len(frames) = m
    BY <1>1, <1>2 DEF m
  <2> QED BY <1>4, <2>1
<1>11. \A i \in 1 .. m : /\ FrameOK(Advanced[i]) /\ Advanced[i].fp = frames[i].fp
                         /\ i <= Target => Advanced[i] = frames[i]
  <2> TAKE i \in 1 .. m
  <2>1. i <= Target => i # m
    BY <1>1
  <2> QED BY <1>1, <1>2, <1>4, <1>10, <2>1
<1>12. \A i \in DOMAIN calls : Relied(calls[i]) <= Len(Below)
  <2> TAKE i \in DOMAIN calls
  <2>1. CallOK(calls[i])
    BY <1>2 DEF Typed
  <2>2. Relied(calls[i]) \in Nat
    BY <2>1, CallMeans
  <2>3. Len(Below) \in Int
    BY <1>5
  <2> QED BY <1>1, <1>3, <1>5, <2>2, <2>3
<1> QED BY <1>1, <1>2, <1>8, <1>9, <1>10, <1>11, <1>12 DEF m

\* What the operands of a call are, as far as a call that begins needs them.
LEMMA BelowCall ==
  ASSUME Safe, InLoop, Instr.op = "CALL"
  PROVE  /\ Len(Below) \in Nat /\ Len(Below) <= Len(stack)
         /\ Len(Below) = Len(stack) - Instr.argc - 1
         /\ \A k \in 1 .. Len(Below) : Below[k] = stack[k] /\ k \in 1 .. Base
<1>1. /\ Len(Below) = Base - 1 /\ Base \in Nat /\ Base <= Len(stack) /\ Len(stack) \in Nat
      /\ Base = Len(stack) - Instr.argc /\ Instr.argc \in Nat
      /\ Below \in Seq(StackValues) /\ \A k \in 1 .. Base - 1 : Below[k] = stack[k]
  BY CallOperands
<1>2. Len(Below) \in Nat
  BY <1>1
<1>3. Len(Below) <= Len(stack) /\ Len(Below) = Len(stack) - Instr.argc - 1
  BY <1>1
<1>4. \A k \in 1 .. Len(Below) : k \in 1 .. Base
  BY <1>1
<1> QED BY <1>1, <1>2, <1>3, <1>4

\* OpCallEnter: the call of a function lays out its frame above the caller's, with
\* its curried arguments below the others.
THEOREM OpCallEnterSafe ==
  ASSUME Safe, OpCallEnter
  PROVE  Safe'
<1> DEFINE fun == Deref(Memory, Callee)[2]
           f == NewFrame(fun, Callee, Base, Location(Last(Advanced)))
           s == InsertCurried(stack, Base, fun.curried)
           c == [kind |-> "call", target |-> Len(frames), below |-> Below,
                 keep |-> Instr.keep, args |-> Args]
<1>1. /\ InLoop /\ Instr.op = "CALL" /\ CallKind(Callee, Instr.argc) = "enter"
      /\ frames' = Append(Advanced, f) /\ SetStack(s) /\ calls' = Append(calls, c)
      /\ UNCHANGED <<program, constants, heap, upvalues, mode, collected>>
  BY DEF OpCallEnter, Calling, At
<1>2. Typed /\ stack \in Seq(StackValues) /\ Len(frames) \in Nat
  BY TypedMeans DEF Safe, Typed
<1>3. /\ Instr.argc \in Nat /\ Instr.keep \in BOOLEAN
      /\ Base \in Nat /\ Base = Len(stack) - Instr.argc /\ Base <= Len(stack) /\ Len(stack) \in Nat
      /\ Below \in Seq(StackValues) /\ Len(Below) = Base - 1
      /\ Callee \in StackValues /\ Args \in Seq(StackValues)
  BY <1>1, CallOperands
<1>4. IsClosure(fun) /\ Len(fun.curried) + Instr.argc = fun.arity
  BY <1>1, <1>2, <1>3, CallKindMeans, Zenon
<1>5. fun.curried \in Seq(StackValues) /\ Len(fun.curried) \in Nat
  BY <1>4 DEF IsClosure
<1>6. FrameOK(f) /\ f.ip = 0 /\ f.fp = Base /\ f.closure = fun
  <2>1. f.closure = fun
    BY DEF NewFrame
  <2> HIDE DEF fun
  <2> QED BY <1>3, <1>4, <2>1, NewFrameOK
<1> HIDE DEF f, fun
<1>7. 0 \in DOMAIN HeightsOf(f) /\ HeightsOf(f)[0] = fun.arity
  BY <1>2, <1>6, StartHeight
<1>8. /\ s \in Seq(StackValues) /\ Len(s) = Len(stack) + Len(fun.curried)
      /\ \A i \in 1 .. Base : s[i] = stack[i]
  <2>1. /\ s \in Seq(StackValues) /\ Len(s) = Len(stack) + Len(fun.curried)
        /\ \A i \in 1 .. Base : s[i] = stack[i]
        /\ \A i \in 1 .. Len(fun.curried) : s[Base + i] = fun.curried[i]
        /\ \A i \in 1 .. Len(stack) - Base : s[Base + i + Len(fun.curried)] = stack[Base + i]
    <3>1. stack \in Seq(StackValues) /\ Base \in Nat /\ Base <= Len(stack)
      BY <1>2, <1>3
    <3> HIDE DEF fun
    <3>2. fun.curried \in Seq(StackValues)
      BY <1>5
    <3> QED BY ONLY <3>1, <3>2, InsertCurriedKeeps, Zenon
  <2> QED BY <2>1, Zenon
<1> HIDE DEF s
<1>9. /\ stack' = s /\ buffer' = Grown(buffer, Len(s)) /\ Len(s) \in Nat
      /\ buffer'.cap \in Nat /\ buffer'.cap >= Len(stack') /\ DOMAIN buffer' = {"cap", "moves"}
  <2>1. stack' = s /\ buffer' = Grown(buffer, Len(s)) /\ Len(s) \in Nat
    BY <1>1, <1>8 DEF SetStack
  <2> QED BY <1>2, <2>1, BufferGrows
<1>10. /\ Len(Below) \in Nat /\ Len(Below) <= Len(stack)
       /\ \A k \in 1 .. Len(Below) : Below[k] = stack[k] /\ k \in 1 .. Base
  BY <1>1, BelowCall
<1>11. /\ c.kind = "call" /\ c.target = Len(frames) /\ c.below = Below /\ c.keep = Instr.keep
       /\ c.args = Args /\ CallOK(c)
       /\ Left(c) = (IF Instr.keep THEN 1 ELSE 0) /\ Relied(c) = Len(Below)
  <2>1. DOMAIN c = {"kind", "target", "below", "keep", "args"}
    OBVIOUS
  <2>2. /\ c.kind = "call" /\ c.target = Len(frames) /\ c.below = Below /\ c.keep = Instr.keep
        /\ c.args = Args
    OBVIOUS
  <2> HIDE DEF c
  <2>3. CallOK(c)
    BY <1>2, <1>3, <2>1, <2>2 DEF CallOK
  <2>4. Relied(c) = Len(Below)
    BY <2>2, <2>3, CallMeans
  <2> QED BY <2>2, <2>3, <2>4 DEF Left
<1> HIDE DEF c
<1>12. /\ Len(stack') = f.fp + HeightsOf(f)[f.ip]
       /\ f.fp = Len(c.below) + 1
  <2>1. Len(s) = Base + fun.arity
    BY <1>3, <1>4, <1>5, <1>8
  <2>2. Base = Len(Below) + 1
    BY <1>3
  <2> QED BY <1>6, <1>7, <1>9, <1>11, <2>1, <2>2
<1>13. Relied(c) <= Len(stack')
  BY <1>3, <1>5, <1>8, <1>9, <1>10, <1>11
<1>14. \A k \in 1 .. Len(c.below) : stack'[k] = stack[k] /\ c.below[k] = stack[k]
  BY <1>8, <1>9, <1>10, <1>11
<1>15. PICK T : Advanced \in Seq(T)
  BY <1>1, CallerWaits
<1> DEFINE g == Advanced
<1>16. /\ Len(g) = Len(frames)
       /\ \A i \in 1 .. Len(frames) :
            FrameOK(g[i]) /\ g[i].fp = frames[i].fp /\ (i <= Target => g[i] = frames[i])
       /\ g[Len(frames)].ip \in DOMAIN HeightsOf(g[Len(frames)])
       /\ Len(c.below) + Left(c) =
            g[Len(frames)].fp + HeightsOf(g[Len(frames)])[g[Len(frames)].ip]
       /\ \A i \in DOMAIN calls : Relied(calls[i]) <= Len(c.below)
  BY <1>1, <1>11, CallerWaits
<1>17. g \in Seq(T) /\ mode = "run" /\ frames' = Append(g, f) /\ mode' = "run"
  BY <1>1, <1>15 DEF InLoop
<1> HIDE DEF g
<1>18. stack' \in Seq(StackValues) /\ Len(c.below) <= Len(stack)
  BY <1>8, <1>9, <1>10, <1>11
<1> QED BY <1>1, <1>6, <1>7, <1>9, <1>11, <1>12, <1>13, <1>14, <1>16, <1>17, <1>18, BeginStep, Zenon

\* OpCallNative: map, filter and count keep the callee and both arguments on the
\* stack while they call back.
THEOREM OpCallNativeSafe ==
  ASSUME Safe, OpCallNative
  PROVE  Safe'
<1> DEFINE ds == [i \in DOMAIN Args |-> Deref(Memory, Args[i])]
           e == CallBackError(ds)
           name == BuiltinCalled
           c == [kind |-> "native", target |-> Len(frames), below |-> Below,
                 keep |-> Instr.keep, args |-> Args, name |-> name, next |-> 1,
                 results |-> <<>>, moves |-> buffer.moves]
<1>1. /\ InLoop /\ Instr.op = "CALL" /\ CallKind(Callee, Instr.argc) = "builtin"
      /\ name \in CallingBack
  BY DEF OpCallNative, Calling, At
<1>2. IF Failed(e) THEN Throw(e[2], Below)
      ELSE /\ calls' = Append(calls, c) /\ mode' = "native" /\ frames' = Advanced
           /\ UNCHANGED <<program, constants, stack, buffer, heap, upvalues, out, error, collected>>
  BY Zenon DEF OpCallNative
<1>3. /\ Instr.argc \in Nat /\ Instr.keep \in BOOLEAN
      /\ Base \in Nat /\ Base = Len(stack) - Instr.argc /\ Base <= Len(stack) /\ Len(stack) \in Nat
      /\ Below \in Seq(StackValues) /\ Len(Below) = Base - 1 /\ SameBelow(Below)
      /\ Frame.fp <= Len(Below)
      /\ Args \in Seq(StackValues) /\ Len(Args) = Instr.argc
      /\ \A k \in 1 .. Instr.argc : Args[k] = stack[Base + k]
  BY <1>1, CallOperands, Zenon
<1>4. /\ Len(Below) \in Nat /\ Len(Below) <= Len(stack)
      /\ Len(Below) = Len(stack) - Instr.argc - 1
      /\ \A k \in 1 .. Len(Below) : Below[k] = stack[k]
  BY <1>1, BelowCall
<1>5. CASE Failed(e)
  <2>1. Throw(e[2], Below)
    BY <1>2, <1>5, Zenon
  <2> HIDE DEF e
  <2> QED BY <1>1, <1>3, <1>4, <2>1, ThrowStep, Zenon
<1>6. CASE ~Failed(e)
  <2>1. /\ calls' = Append(calls, c) /\ mode' = "native" /\ frames' = Advanced
        /\ UNCHANGED <<program, constants, stack, buffer, heap, upvalues, collected>>
    BY <1>2, <1>6, Zenon
  <2>2. Typed /\ stack \in Seq(StackValues) /\ Len(frames) \in Nat /\ mode = "run"
    BY <1>1, TypedMeans DEF Safe, Typed, InLoop
  \* The operands are a function and an array.
  <2>3. Len(ds) = 2 /\ IsA("vec", ds[2])
    <3>1. e = IF Len(ds) = 2 /\ IsFunction(ds[1]) /\ IsA("vec", ds[2]) THEN Nil
              ELSE Error("TypeError")
      BY Zenon DEF CallBackError, Expect
    <3>2. Failed(Error("TypeError"))
      BY SimpleOutcomes
    <3> HIDE DEF ds
    <3> QED BY <1>6, <3>1, <3>2
  <2>4. Len(Args) = 2 /\ Instr.argc = 2 /\ ds[2] = Deref(Memory, Args[2]) /\ Args[2] \in StackValues
    <3>1. DOMAIN Args = 1 .. Instr.argc
      BY <1>3
    <3>2. Len(ds) = Instr.argc
      BY <1>3, <3>1
    <3>3. Instr.argc = 2 /\ Len(Args) = 2
      <4> HIDE DEF ds
      <4> QED BY <1>3, <2>3, <3>2, Zenon
    <3>4. 2 \in DOMAIN Args
      BY <3>1, <3>3
    <3>5. ds[2] = Deref(Memory, Args[2])
      BY <3>4
    <3>6. Args[2] \in StackValues
      BY <1>3, <3>4
    <3> HIDE DEF ds
    <3> QED BY <3>3, <3>5, <3>6
  <2>5. IsA("cell", Args[2]) /\ IsA("vec", heap[Args[2][2]])
    <3>1. IsA("vec", Deref(Memory, Args[2]))
      BY <2>3, <2>4, Zenon
    <3> QED BY <2>2, <2>4, <3>1, ArrayInHeap
  <2>6. stack[Len(Below) + 3] = Args[2] /\ Len(Below) + 3 <= Len(stack)
    <3>1. Len(Below) + 3 = Base + 2 /\ Len(Below) + 3 <= Len(stack) /\ 2 \in 1 .. Instr.argc
      BY <1>3, <1>4, <2>4
    <3> QED BY <1>3, <3>1, Zenon
  <2>7. /\ DOMAIN c = {"kind", "target", "below", "keep", "args"}
                        \cup {"name", "next", "results", "moves"}
        /\ c.kind = "native" /\ c.target = Len(frames) /\ c.below = Below /\ c.keep = Instr.keep
        /\ c.args = Args /\ c.name = name /\ c.next = 1 /\ c.results = <<>>
    BY Zenon
  <2> HIDE DEF c, ds, name
  <2>8. CallOK(c)
    <3>1. <<>> \in Seq(StackValues) /\ 1 \in Nat \ {0}
      OBVIOUS
    <3>2. c.kind \in {"call", "native", "callback"}
      BY <2>7
    <3> QED BY <1>1, <1>3, <2>2, <2>4, <2>7, <3>1, <3>2, Zenon DEF CallOK
  <2>9. Left(c) = (IF Instr.keep THEN 1 ELSE 0) /\ Relied(c) = Len(Below) + 3
    <3>1. Relied(c) = Len(Below) + 3
      BY <2>7, <2>8, CallMeans
    <3> QED BY <2>7, <3>1 DEF Left
  <2>10. PICK T : Advanced \in Seq(T)
    BY <1>1, CallerWaits
  <2> DEFINE g == Advanced
  <2>11. /\ Len(g) = Len(frames)
         /\ \A i \in 1 .. Len(frames) :
              FrameOK(g[i]) /\ g[i].fp = frames[i].fp /\ (i <= Target => g[i] = frames[i])
         /\ g[Len(frames)].ip \in DOMAIN HeightsOf(g[Len(frames)])
         /\ Len(c.below) + Left(c) =
              g[Len(frames)].fp + HeightsOf(g[Len(frames)])[g[Len(frames)].ip]
         /\ \A i \in DOMAIN calls : Relied(calls[i]) <= Len(c.below)
    BY <1>1, <2>7, <2>9, CallerWaits
  <2>12. g \in Seq(T) /\ frames' = g /\ c.kind = "native" /\ mode' = "native"
    BY <2>1, <2>7, <2>10
  <2> HIDE DEF g
  <2>13. /\ stack' \in Seq(StackValues) /\ Len(c.below) <= Len(stack) /\ Relied(c) <= Len(stack')
         /\ \A k \in 1 .. Len(c.below) : stack'[k] = stack[k] /\ c.below[k] = stack[k]
         /\ stack'[Len(c.below) + 3] = c.args[2]
         /\ IsA("cell", c.args[2]) /\ IsA("vec", heap[c.args[2][2]])
    BY <1>4, <2>1, <2>2, <2>5, <2>6, <2>7, <2>9
  <2>14. buffer'.cap \in Nat /\ buffer'.cap >= Len(stack') /\ DOMAIN buffer' = {"cap", "moves"}
    BY <2>1, <2>2 DEF Typed
  <2>15. FrameOK(Frame)
    BY <1>1, Running
  <2>16. mode # "native" /\ c.kind # "callback"
    BY <2>2, <2>7
  <2> QED BY <1>1, <2>1, <2>7, <2>8, <2>11, <2>12, <2>13, <2>14, <2>15, <2>16, BeginStep, Zenon
<1> QED BY <1>5, <1>6

\* NativeCallEnter: the frame of a callback lies above the builtin's arguments.
THEOREM NativeCallEnterSafe ==
  ASSUME Safe, NativeCallEnter
  PROVE  Safe'
<1> DEFINE n == Len(calls)
           fun == Deref(Memory, Callback(Native))[2]
           item == Elements(Native)[Native.next]
           args == Append(fun.curried, item)
           f == NewFrame(fun, Callback(Native), Len(stack), <<-1, -1>>)
           c == [kind |-> "callback", target |-> Len(frames), below |-> stack,
                 keep |-> TRUE, args |-> args]
<1>1. /\ mode = "native" /\ Native.next <= Len(Elements(Native))
      /\ CallKind(Callback(Native), 1) = "enter"
      /\ frames' = Append(frames, f) /\ stack' = stack \o args
      /\ buffer' = Reserved(buffer, Len(stack) + Len(args))
      /\ calls' = Append(calls, c) /\ mode' = "run"
      /\ UNCHANGED <<program, constants, heap, upvalues, collected>>
  BY DEF NativeCallEnter, NativeCalling
<1>2. /\ Typed /\ Isolated /\ stack \in Seq(StackValues) /\ Len(stack) \in Nat /\ Len(frames) \in Nat
      /\ frames \in Seq(ToSet(frames)) /\ \A i \in DOMAIN frames : FrameOK(frames[i])
      /\ DOMAIN frames = 1 .. Len(frames) /\ DOMAIN calls = 1 .. n
  BY TypedMeans DEF Safe, Typed
<1>3. /\ Native = calls[n] /\ n \in DOMAIN calls /\ n \in Nat /\ calls # <<>>
      /\ Callback(Native) \in StackValues /\ Relied(calls[n]) <= Len(stack)
      /\ Elements(Native) \in Seq(StackValues) /\ calls[n].next \in Nat \ {0}
  BY <1>1, NativeMeans
<1>4. item \in StackValues
  BY <1>1, <1>3
<1>5. IsClosure(fun) /\ Len(fun.curried) + 1 = fun.arity
  BY <1>1, <1>2, <1>3, CallKindMeans
<1>6. fun.curried \in Seq(StackValues) /\ Len(fun.curried) \in Nat
  BY <1>5 DEF IsClosure
<1>7. FrameOK(f) /\ f.ip = 0 /\ f.fp = Len(stack) /\ f.closure = fun
  <2>1. f.closure = fun
    BY DEF NewFrame
  <2> HIDE DEF fun
  <2> QED BY <1>2, <1>3, <1>5, <2>1, NewFrameOK
<1> HIDE DEF f, fun, item
<1>8. 0 \in DOMAIN HeightsOf(f) /\ HeightsOf(f)[0] = fun.arity
  BY <1>2, <1>7, StartHeight
<1>9. args \in Seq(StackValues) /\ Len(args) = fun.arity /\ Len(args) \in Nat
  BY <1>4, <1>5, <1>6
<1> HIDE DEF args
<1>10. /\ stack' \in Seq(StackValues) /\ Len(stack') = Len(stack) + Len(args)
       /\ \A k \in 1 .. Len(stack) : stack'[k] = stack[k]
  <2>1. stack \in Seq(StackValues) /\ args \in Seq(StackValues) /\ stack' = stack \o args
    BY <1>1, <1>2, <1>9
  <2>2. stack' \in Seq(StackValues)
    BY <2>1
  <2>3. Len(stack') = Len(stack) + Len(args)
    BY <2>1
  <2>4. \A k \in 1 .. Len(stack) : stack'[k] = stack[k]
    BY <2>1
  <2> QED BY <2>2, <2>3, <2>4
<1>11. Len(stack) <= Len(stack') /\ Len(stack') \in Nat
  BY <1>2, <1>9, <1>10
<1>12. buffer'.cap \in Nat /\ buffer'.cap >= Len(stack') /\ DOMAIN buffer' = {"cap", "moves"}
  <2> DEFINE size == Len(stack) + Len(args)
  <2>1. size \in Nat /\ size = Len(stack')
    BY <1>10, <1>11
  <2> HIDE DEF size
  <2>2. buffer' = Reserved(buffer, size)
    BY <1>1 DEF size
  <2> QED BY <1>2, <2>1, <2>2, BufferGrows
<1>13. /\ c.kind = "callback" /\ c.target = Len(frames) /\ c.below = stack /\ c.keep = TRUE
       /\ c.args = args /\ DOMAIN c = {"kind", "target", "below", "keep", "args"}
  BY Zenon
<1> HIDE DEF c
<1>14. CallOK(c) /\ Relied(c) = Len(stack)
  <2>1. CallOK(c)
    BY <1>2, <1>9, <1>13, Zenon DEF CallOK
  <2> QED BY <1>13, <2>1, CallMeans
<1>15. /\ f.fp = Len(c.below) + 0 /\ f.ip \in DOMAIN HeightsOf(f)
       /\ Len(stack') = f.fp + HeightsOf(f)[f.ip]
  BY <1>2, <1>7, <1>8, <1>9, <1>10, <1>13
<1>16. \A i \in DOMAIN calls : Relied(calls[i]) <= Len(c.below)
  <2> TAKE i \in DOMAIN calls
  <2>1. CASE i = n
    BY <1>3, <1>13, <2>1
  <2>2. CASE i # n
    <3>1. i \in 1 .. n - 1
      BY <1>2, <1>3, <2>2
    <3>2. Relied(calls[i]) <= Len(calls[n].below)
      BY <1>1, <1>3, <3>1, Innermost, Zenon
    <3>3. Relied(calls[i]) \in Nat /\ Len(calls[n].below) \in Nat
      <4>1. CallOK(calls[i]) /\ CallOK(calls[n])
        BY <1>2, <1>3, Zenon DEF Typed
      <4> QED BY <4>1, CallMeans
    <3>4. Len(calls[n].below) <= Len(stack)
      BY <1>2, <1>3, Zenon DEF Isolated
    <3> HIDE DEF n
    <3> QED BY <1>2, <1>13, <3>2, <3>3, <3>4
  <2> QED BY <2>1, <2>2
<1> DEFINE g == frames
<1>17. /\ g \in Seq(ToSet(frames)) /\ Len(g) = Len(frames) /\ frames' = Append(g, f)
       /\ \A i \in 1 .. Len(frames) :
            FrameOK(g[i]) /\ g[i].fp = frames[i].fp /\ (i <= Target => g[i] = frames[i])
  BY <1>1, <1>2, Zenon
<1> HIDE DEF g
<1>18. /\ Len(c.below) <= Len(stack) /\ Relied(c) <= Len(stack')
       /\ \A k \in 1 .. Len(c.below) : stack'[k] = stack[k] /\ c.below[k] = stack[k]
  BY <1>2, <1>10, <1>11, <1>13, <1>14
<1>19. c.kind # "native" /\ c.kind # "call" /\ c.kind = "callback" /\ c.target = Len(frames)
  BY <1>13
<1> HIDE DEF n
<1> QED BY <1>1, <1>7, <1>10, <1>12, <1>14, <1>15, <1>16, <1>17, <1>18, <1>19, BeginStep, Zenon

----------------------------------------------------------------------------
(* The inductive invariant *)

\* What the constructor leaves is safe.
THEOREM InitSafe ==
  ASSUME Init
  PROVE  Safe
<1>1. /\ constants = program.constants /\ stack = <<>> /\ buffer = [cap |-> 0, moves |-> 0]
      /\ frames = <<TopLevel>> /\ calls = <<>> /\ heap = HeapAtStart
      /\ upvalues = [u \in UpvalueCells |-> Free] /\ mode = "run" /\ collected = 0
      /\ \E name \in DOMAIN Programs : program = Programs[name]
  BY Zenon DEF Init
<1>2. WellFormed(program, Shape) /\ program.collections \in Nat
  BY <1>1, ProgramsAssumption DEF Shape
<1>3. FrameOK(TopLevel) /\ TopLevel.ip = 0 /\ TopLevel.fp = 0 /\ TopLevel.closure.arity = 0
  <2> DEFINE f == TopLevel.closure
  <2>1. /\ DOMAIN f = {"chunk", "arity", "name", "curried", "upvals"}
        /\ f.chunk = 0 /\ f.arity = 0 /\ f.curried = <<>> /\ f.upvals = <<>>
    BY DEF TopLevel
  <2>2. 1 \in DOMAIN Shape /\ Shape[1].arity = 0 /\ Shape[1].cells = 0
    BY <1>2 DEF WellFormed
  <2>3. /\ DOMAIN TopLevel = {"chunk", "ip", "fp", "site", "self", "closure", "upvals", "captured"}
        /\ TopLevel.chunk = 0 /\ TopLevel.ip = 0 /\ TopLevel.fp = 0 /\ TopLevel.self = Nil
        /\ TopLevel.upvals = <<>> /\ TopLevel.captured = <<>>
    BY DEF TopLevel
  <2> HIDE DEF f
  <2>4. IsClosure(f)
    <3>1. f.chunk + 1 = 1 /\ f.chunk \in Nat /\ Len(f.upvals) = 0
      BY <2>1
    <3>2. f.curried \in Seq(StackValues) /\ f.upvals \in Seq(UpvalueCells)
      BY <2>1
    <3> QED BY <2>1, <2>2, <3>1, <3>2, Zenon DEF IsClosure
  <2>5. FrameOK(TopLevel)
    BY <2>1, <2>3, <2>4, StackValueMade DEF FrameOK, f
  <2> QED BY <2>1, <2>3, <2>5 DEF f
<1>4. DOMAIN heap = Cells /\ \A c \in Cells : IsHeapData(heap[c])
  <2>1. \A c \in Cells : c <= Len(BuiltinNames) => BuiltinNames[c] \in KnownBuiltins
    BY BuiltinsAssumption, BoundsAssumption DEF Cells
  <2> QED BY <1>1, <2>1, HeapDataMade DEF HeapAtStart
<1>5. \A i \in DOMAIN constants : ConstantKept(i)
  <2> SUFFICES ASSUME NEW i \in DOMAIN program.constants, i \in Templates(program)
               PROVE  constants[i] = Fun([program.constants[i][2] EXCEPT !.name = constants[i][2].name])
    BY <1>1 DEF ConstantKept
  <2> DEFINE f == program.constants[i][2]
  <2>1. program.constants[i] = Fun(f) /\ DOMAIN f = {"chunk", "arity", "name", "curried", "upvals"}
    BY <1>2 DEF WellFormed, ConstantFits, Templates, IsA, Nil, Fun
  <2>2. f = [chunk |-> f.chunk, arity |-> f.arity, name |-> f.name, curried |-> f.curried,
             upvals |-> f.upvals]
    BY <1>2 DEF WellFormed, ConstantFits, Templates, IsA, Nil
  <2> HIDE DEF f
  <2>3. [f EXCEPT !.name = f.name] = f
    BY <2>2
  <2>4. constants[i] = Fun([f EXCEPT !.name = f.name])
    BY <1>1, <2>1, <2>3, Zenon
  <2> QED BY <1>1, <2>4, Zenon DEF f
<1>6. Typed
  <2>1. frames \in Seq(ToSet(frames)) /\ \A i \in DOMAIN frames : FrameOK(frames[i])
    BY <1>1, <1>3 DEF ToSet
  <2>2. calls \in Seq(ToSet(calls)) /\ \A i \in DOMAIN calls : CallOK(calls[i])
    BY <1>1
  <2>3. buffer.cap \in Nat /\ buffer.cap >= Len(stack) /\ DOMAIN buffer = {"cap", "moves"}
    BY <1>1
  <2>4. stack \in Seq(StackValues) /\ mode \in Modes \ {"waiting"}
    BY <1>1 DEF Modes
  <2>5. upvalues \in [UpvalueCells -> {Free} \cup StackValues] /\ collected \in 0 .. program.collections
    BY <1>1, <1>2
  <2> QED BY <1>1, <1>4, <1>5, <2>1, <2>2, <2>3, <2>4, <2>5 DEF Typed
<1>7. DOMAIN calls = {}
  BY <1>1
<1>8. Target = 0 /\ Len(frames) = 1 /\ Frame = TopLevel
  BY <1>1 DEF Target, Frame, Last
<1>9. CallStackMatches
  BY <1>1, <1>7, <1>8 DEF CallStackMatches
<1>10. HeightsMatch
  <2>1. 0 \in DOMAIN HeightsOf(TopLevel) /\ HeightsOf(TopLevel)[0] = 0
    BY <1>3, <1>6, StartHeight
  <2>2. Len(stack) = 0
    BY <1>1
  <2> QED BY <1>3, <1>8, <2>1, <2>2 DEF HeightsMatch
<1>11. Isolated /\ CallersResume /\ ArraysHeld /\ ResultLeft
  BY <1>1, <1>7 DEF Isolated, CallersResume, ArraysHeld, ResultLeft
<1> QED BY <1>6, <1>9, <1>10, <1>11 DEF Safe, Nested

\* Every instruction keeps the invariant.
THEOREM InstructionSafe ==
  ASSUME TextTyped, Safe, Instruction
  PROVE  Safe'
BY OpReturnSafe, OpConstantSafe, OpPopSafe, OpDuplicateSafe, BinaryOpSafe, OpNegateSafe, OpNotSafe,
   CompareOpSafe, OpJumpSafe, OpJumpIfSafe, OpGetGlobalSafe, OpSetGlobalSafe, OpGetLocalSafe,
   OpSetLocalSafe, OpForLoopSafe, OpMakeArraySafe, OpGetIndexSafe, OpSetIndexSafe,
   OpGetUpvalueSafe, OpSetUpvalueSafe, OpClosureSafe, OpCallFailsSafe, OpCallEnterSafe,
   OpCallPartialSafe, OpCallBuiltinSafe, OpCallNativeSafe DEF Instruction

\* So does every step of a call, of a builtin that calls back and of an exception.
THEOREM ActivationSafe ==
  ASSUME TextTyped, Safe, Activation
  PROVE  Safe'
BY NativeStopSafe, NativeCallEnterSafe, NativeCallBuiltinSafe, NativeCallPartialSafe,
   FinishNativeSafe, FinishCallSafe, FinishCallbackSafe, FinishProgramSafe, UnwindSafe DEF Activation

\* Every step of the virtual machine keeps the invariant.
THEOREM StepSafe ==
  ASSUME TextTyped, Safe, [Next]_vars
  PROVE  Safe'
<1>1. CASE MaybeGc
  BY <1>1, MaybeGcSafe
<1>2. CASE Instruction
  BY <1>2, InstructionSafe
<1>3. CASE Activation
  BY <1>3, ActivationSafe
<1>4. CASE UNCHANGED vars
  BY <1>4, StutterSafe
<1> QED BY <1>1, <1>2, <1>3, <1>4 DEF Next, Halted

\* The virtual machine is safe on every well-formed program: whatever it calls and
\* whatever throws, the stack, the frames and the calls fit together.
THEOREM AlwaysSafe ==
  ASSUME TextTyped
  PROVE  Spec => []Safe
<1>1. Init => Safe
  BY InitSafe
<1>2. Safe /\ [Next]_vars => Safe'
  BY StepSafe
<1> QED BY <1>1, <1>2, PTL DEF Spec

----------------------------------------------------------------------------
(* What it says *)

\* The invariant gives the types of the run's invariant.
LEMMA SafeTypes ==
  ASSUME Safe
  PROVE  TypeOK
<1>1. Typed
  BY DEF Safe
<1>2. \A i \in DOMAIN stack : IsStackValue(stack[i])
  BY <1>1, StackValueKinds DEF Typed
<1>3. \A i \in DOMAIN frames : FrameType(frames[i])
  <2> TAKE i \in DOMAIN frames
  <2> DEFINE f == frames[i]
  <2>1. FrameOK(f)
    BY <1>1 DEF Typed
  <2> HIDE DEF f
  <2>2. IsClosure(f.closure) /\ f.chunk = f.closure.chunk /\ f.upvals = f.closure.upvals
    BY <2>1 DEF FrameOK
  <2>3. {f.chunk, f.ip, f.fp} \subseteq Nat /\ IsStackValue(f.self)
    BY <2>1, <2>2, StackValueKinds DEF FrameOK, IsClosure
  <2>4. f.upvals \in Seq(UpvalueCells)
    BY <2>2 DEF IsClosure
  <2>5. ToSet(f.upvals) \subseteq UpvalueCells
    BY <2>4 DEF ToSet
  <2>6. {f.captured[s] : s \in DOMAIN f.captured} \subseteq UpvalueCells
    BY <2>1 DEF FrameOK
  <2> QED BY <2>3, <2>5, <2>6 DEF FrameType, f
<1>4. \A i \in DOMAIN calls : calls[i].kind \in {"call", "native", "callback"}
  BY <1>1, Zenon DEF Typed, CallOK
<1>5. \A c \in Cells : heap[c] = Free \/ IsContainer(heap[c]) \/ IsFunction(heap[c])
  <2> TAKE c \in Cells
  <2>1. IsHeapData(heap[c])
    BY <1>1 DEF Typed
  <2> QED BY <2>1, HeapDataKinds DEF HeapTags, IsContainer, IsFunction, IsA
<1>6. \A u \in UpvalueCells : upvalues[u] = Free \/ IsStackValue(upvalues[u])
  BY <1>1, StackValueKinds DEF Typed
<1> QED BY <1>1, <1>2, <1>3, <1>4, <1>5, <1>6 DEF TypeOK, Typed

\* The invariant gives the run's FramesIsolated.
LEMMA SafeIsolates ==
  ASSUME Safe
  PROVE  FramesIsolated
<1> SUFFICES ASSUME NEW i \in DOMAIN calls
             PROVE  /\ Len(stack) >= Len(calls[i].below)
                    /\ SubSeq(stack, 1, Len(calls[i].below)) = calls[i].below
  BY DEF FramesIsolated
<1> DEFINE b == calls[i].below
<1>1. stack \in Seq(StackValues) /\ b \in Seq(StackValues) /\ Len(stack) \in Nat /\ Len(b) \in Nat
  <2>1. CallOK(calls[i]) /\ stack \in Seq(StackValues) /\ Len(stack) \in Nat
    BY TypedMeans DEF Safe, Typed
  <2> QED BY <2>1, CallMeans
<1>2. Len(b) <= Len(stack) /\ \A k \in DOMAIN b : stack[k] = b[k]
  BY DEF Safe, Isolated
<1> HIDE DEF b
<1>3. SubSeq(stack, 1, Len(b)) \in Seq(StackValues) /\ Len(SubSeq(stack, 1, Len(b))) = Len(b)
  BY <1>1, <1>2
<1>4. \A k \in 1 .. Len(b) : SubSeq(stack, 1, Len(b))[k] = b[k]
  BY <1>1, <1>2
<1>5. SubSeq(stack, 1, Len(b)) = b
  BY <1>1, <1>3, <1>4, SeqEqual
<1> QED BY <1>1, <1>2, <1>5 DEF b

\* All members of the virtual machine always have their types, for every well-formed
\* program and every size of the heap.
THEOREM TypeCorrect ==
  ASSUME TextTyped
  PROVE  Spec => []TypeOK
BY AlwaysSafe, SafeTypes, PTL

\* While a call is in progress, what lay on the stack below it stays as it was: an
\* instruction of the callee, a callback or an unwound exception never changes it.
THEOREM FramesStayIsolated ==
  ASSUME TextTyped
  PROVE  Spec => []FramesIsolated
BY AlwaysSafe, SafeIsolates, PTL

\* The VM's frames are those of the calls in progress, one above the other, whenever
\* code or a builtin runs.
THEOREM CallStackAlwaysMatches ==
  ASSUME TextTyped
  PROVE  Spec => []CallStackMatches
<1>1. Safe => CallStackMatches
  BY Zenon DEF Safe, Nested, CallStackMatches
<1> QED BY <1>1, AlwaysSafe, PTL

\* In front of every instruction the frame is as high as the code's analysis says:
\* no pop reaches below the frame's start and no slot lies above the stack.
THEOREM HeightsAlwaysMatch ==
  ASSUME TextTyped
  PROVE  Spec => []HeightsMatch
<1>1. Safe => HeightsMatch
  BY DEF Safe, Nested, HeightsMatch, InLoop
<1> QED BY <1>1, AlwaysSafe, PTL

----------------------------------------------------------------------------
(* Parameters *)

\* A step that goes on in the frames there are, or drops the last one.
Stays ==
  \/ frames' = frames
  \/ frames' = Front(frames)
  \/ \E ip : frames' = GoTo(ip)
  \/ \E captured : frames' = [Advanced EXCEPT ![Len(frames)].captured = captured]

\* Such a step makes no frame.
LEMMA StaysShort ==
  ASSUME Safe, Stays
  PROVE  Len(frames') <= Len(frames)
<1>1. frames \in Seq(ToSet(frames)) /\ Len(frames) \in Nat /\ DOMAIN frames = 1 .. Len(frames)
  BY TypedMeans DEF Safe, Typed
<1>2. ASSUME \/ \E ip : frames' = GoTo(ip)
             \/ \E captured : frames' = [Advanced EXCEPT ![Len(frames)].captured = captured]
      PROVE  Len(frames') = Len(frames)
  <2> DEFINE n == Len(frames)
             f == frames'
  <2>1. f = [i \in 1 .. n |-> f[i]]
    BY <1>1, <1>2, Zenon DEF GoTo, Advanced
  <2>2. \A i \in 1 .. n : f[i] \in {f[j] : j \in 1 .. n}
    OBVIOUS
  <2> HIDE DEF f, n
  <2>3. Len(f) = n
    BY <1>1, <2>1, <2>2, ListOf DEF n
  <2> QED BY <2>3 DEF f, n
<1>3. ASSUME frames' = Front(frames)
      PROVE  Len(frames') <= Len(frames)
  <2>1. CASE frames = <<>>
    BY <1>3, <2>1 DEF Front
  <2>2. CASE frames # <<>>
    BY <1>1, <1>3, <2>2 DEF Front
  <2> QED BY <2>1, <2>2
<1> QED BY <1>1, <1>2, <1>3 DEF Stays

\* Only the call of a function makes a frame.
LEMMA OnlyCallsEnter ==
  ASSUME Safe, [Next]_vars, Len(frames') > Len(frames)
  PROVE  OpCallEnter \/ NativeCallEnter
<1> DEFINE here == \E ip : frames' = GoTo(ip)
<1>1. frames' = Advanced => here
  BY Zenon DEF Advanced
<1>2. ASSUME NEW kind, NEW s, Throw(kind, s)
      PROVE  here
  BY <1>1, <1>2, Zenon DEF Throw
<1>3. ASSUME NEW s, Continue(s)
      PROVE  here
  BY <1>1, <1>3, Zenon DEF Continue
<1>4. ASSUME NEW rest, NEW d, Produce(rest, d)
      PROVE  here
  BY <1>1, <1>2, <1>4, Zenon DEF Produce
<1> HIDE DEF here
<1>5. OpConstant => here
  BY <1>1, <1>2, <1>3, <1>4, Zenon DEF OpConstant
<1>6. OpPop => here
  BY <1>1, <1>2, <1>3, <1>4, Zenon DEF OpPop
<1>7. OpDuplicate => here
  BY <1>1, <1>2, <1>3, <1>4, Zenon DEF OpDuplicate
<1>8. BinaryOp => here
  BY <1>1, <1>2, <1>3, <1>4, Zenon DEF BinaryOp
<1>9. OpNegate => here
  BY <1>1, <1>2, <1>3, <1>4, Zenon DEF OpNegate
<1>10. OpNot => here
  BY <1>1, <1>2, <1>3, <1>4, Zenon DEF OpNot
<1>11. CompareOp => here
  BY <1>1, <1>2, <1>3, <1>4, Zenon DEF CompareOp
<1>12. OpJump => here
  BY <1>1, <1>2, Zenon DEF OpJump, here
<1>13. OpJumpIf => here
  BY <1>1, <1>2, Zenon DEF OpJumpIf, here
<1>14. OpGetGlobal => here
  BY <1>1, <1>2, <1>3, <1>4, Zenon DEF OpGetGlobal
<1>15. OpSetGlobal => here
  BY <1>1, <1>2, <1>3, <1>4, Zenon DEF OpSetGlobal
<1>16. OpGetLocal => here
  BY <1>1, <1>2, <1>3, <1>4, Zenon DEF OpGetLocal
<1>17. OpSetLocal => here
  BY <1>1, <1>2, <1>3, <1>4, Zenon DEF OpSetLocal
<1>18. OpForLoop => here
  BY <1>1, <1>2, Zenon DEF OpForLoop, here
<1>19. OpMakeArray => here
  BY <1>1, <1>2, <1>3, <1>4, Zenon DEF OpMakeArray
<1>20. OpGetIndex => here
  BY <1>1, <1>2, <1>3, <1>4, Zenon DEF OpGetIndex
<1>21. OpSetIndex => here
  BY <1>1, <1>2, <1>3, <1>4, Zenon DEF OpSetIndex
<1>22. OpGetUpvalue => here
  BY <1>1, <1>2, <1>3, <1>4, Zenon DEF OpGetUpvalue
<1>23. OpSetUpvalue => here
  BY <1>1, <1>2, <1>3, <1>4, Zenon DEF OpSetUpvalue
<1>24. OpCallFails => here
  BY <1>1, <1>2, <1>3, <1>4, Zenon DEF OpCallFails
<1>25. OpCallPartial => here
  BY <1>1, <1>2, <1>3, <1>4, Zenon DEF OpCallPartial
<1>26. OpCallBuiltin => here
  BY <1>1, <1>2, <1>3, <1>4, Zenon DEF OpCallBuiltin
<1>27. OpCallNative => here
  BY <1>1, <1>2, <1>3, <1>4, Zenon DEF OpCallNative
<1>28. OpReturn \/ OpClosure => Stays
  <2>1. OpReturn => Stays
    BY Zenon DEF OpReturn, Stays
  <2>2. OpClosure => Stays
    BY <1>2, Zenon DEF OpClosure, Stays, here
  <2> QED BY <2>1, <2>2
<1>29. MaybeGc \/ Halted \/ UNCHANGED vars => Stays
  BY Zenon DEF MaybeGc, Halted, vars, Stays
<1>30. ~NativeCallEnter /\ Activation => Stays
  BY Zenon DEF Activation, NativeReadsStale, NativeCallFails, NativeCallBuiltin, NativeCallPartial, FinishNative, FinishCall, FinishCallback, FinishProgram, Unwind, Fail, Stays
<1>31. here => Stays
  BY Zenon DEF Stays, here
<1>32. ~OpCallEnter /\ Instruction => Stays
  BY <1>5, <1>6, <1>7, <1>8, <1>9, <1>10, <1>11, <1>12, <1>13, <1>14, <1>15, <1>16, <1>17, <1>18, <1>19, <1>20, <1>21, <1>22, <1>23, <1>24, <1>25, <1>26, <1>27, <1>28, <1>31, Zenon DEF Instruction
<1>33. ~Stays
  BY StaysShort, TypedMeans DEF Safe
<1> QED BY <1>29, <1>30, <1>32, <1>33, Zenon DEF Next

\* Two lists, one behind the other.
LEMMA Joined ==
  ASSUME NEW S, NEW s \in Seq(S), NEW t \in Seq(S)
  PROVE  /\ s \o t \in Seq(S) /\ Len(s \o t) = Len(s) + Len(t)
         /\ \A i \in 1 .. Len(s) + Len(t) :
              (s \o t)[i] = IF i <= Len(s) THEN s[i] ELSE t[i - Len(s)]
<1>1. s \o t \in Seq(S) /\ Len(s \o t) = Len(s) + Len(t)
  OBVIOUS
<1>2. \A i \in 1 .. Len(s) + Len(t) : (s \o t)[i] = IF i <= Len(s) THEN s[i] ELSE t[i - Len(s)]
  OBVIOUS
<1> QED BY <1>1, <1>2

\* What lies behind the first of them is the second.
LEMMA Rest ==
  ASSUME NEW S, NEW s \in Seq(S), NEW t \in Seq(S)
  PROVE  SubSeq(s \o t, Len(s) + 1, Len(s \o t)) = t
<1> DEFINE j == s \o t
           n == Len(s)
           m == Len(t)
           r == SubSeq(j, n + 1, Len(j))
<1>1. /\ j \in Seq(S) /\ Len(j) = n + m /\ n \in Nat /\ m \in Nat
      /\ \A i \in 1 .. n + m : j[i] = IF i <= n THEN s[i] ELSE t[i - n]
  <2>1. n \in Nat /\ m \in Nat
    OBVIOUS
  <2> QED BY <2>1, Joined, Zenon
<1>2. m = Len(t)
  OBVIOUS
<1> HIDE DEF j, n, m
<1>3. r \in Seq(S) /\ Len(r) = m /\ \A i \in 1 .. m : r[i] = j[n + i]
  BY <1>1
<1>4. \A i \in 1 .. m : j[n + i] = t[i]
  <2> TAKE i \in 1 .. m
  <2>1. n + i \in 1 .. n + m /\ ~(n + i <= n) /\ (n + i) - n = i
    BY <1>1
  <2> QED BY <1>1, <2>1
<1> HIDE DEF r
<1>5. r = t
  BY <1>2, <1>3, <1>4, SeqEqual
<1> QED BY <1>5 DEF r, j, n

\* The slots of a function that an instruction calls.
LEMMA EnteredParameters ==
  ASSUME Safe, OpCallEnter
  PROVE  LET called == Last(frames')
         IN  SubSeq(stack', called.fp + 1, Len(stack')) = called.closure.curried \o Args
<1> DEFINE fun == Deref(Memory, Callee)[2]
           f == NewFrame(fun, Callee, Base, Location(Last(Advanced)))
           c == fun.curried
           s == InsertCurried(stack, Base, c)
           tail == SubSeq(s, Base + 1, Len(s))
<1>1. /\ InLoop /\ Instr.op = "CALL" /\ CallKind(Callee, Instr.argc) = "enter"
      /\ frames' = Append(Advanced, f) /\ SetStack(s)
  BY DEF OpCallEnter, Calling, At
<1>2. Typed /\ stack \in Seq(StackValues)
  BY DEF Safe, Typed
<1>3. /\ Instr.argc \in Nat /\ Base \in Nat /\ Base = Len(stack) - Instr.argc
      /\ Base <= Len(stack) /\ Len(stack) \in Nat
      /\ Callee \in StackValues /\ Args \in Seq(StackValues) /\ Len(Args) = Instr.argc
      /\ \A k \in 1 .. Instr.argc : Args[k] = stack[Base + k]
  BY <1>1, CallOperands
<1>4. IsClosure(fun)
  BY <1>1, <1>2, <1>3, CallKindMeans, Zenon
<1>5. c \in Seq(StackValues) /\ Len(c) \in Nat
  BY <1>4 DEF IsClosure
<1>6. Last(frames').fp = Base /\ Last(frames').closure.curried = c
  <2>1. f.fp = Base /\ f.closure = fun
    BY DEF NewFrame
  <2>2. \E T : Advanced \in Seq(T)
    BY <1>1, CallerWaits
  <2> HIDE DEF f, fun
  <2>3. Last(frames') = f
    BY <1>1, <2>2 DEF Last
  <2> QED BY <2>1, <2>3 DEF c
<1>7. stack' = s
  BY <1>1 DEF SetStack
<1> HIDE DEF f, fun, c
<1>8. /\ s \in Seq(StackValues) /\ Len(s) = Len(stack) + Len(c)
      /\ \A i \in 1 .. Len(c) : s[Base + i] = c[i]
      /\ \A i \in 1 .. Len(stack) - Base : s[Base + i + Len(c)] = stack[Base + i]
  <2>1. /\ s \in Seq(StackValues) /\ Len(s) = Len(stack) + Len(c)
        /\ \A i \in 1 .. Base : s[i] = stack[i]
        /\ \A i \in 1 .. Len(c) : s[Base + i] = c[i]
        /\ \A i \in 1 .. Len(stack) - Base : s[Base + i + Len(c)] = stack[Base + i]
    <3>1. stack \in Seq(StackValues) /\ Base \in Nat /\ Base <= Len(stack) /\ c \in Seq(StackValues)
      BY <1>2, <1>3, <1>5
    <3> QED BY ONLY <3>1, InsertCurriedKeeps, Zenon
  <2> QED BY <2>1, Zenon
<1> HIDE DEF s
<1> DEFINE n == Len(c)
           m == Len(Args)
           b == Base
<1>9. n \in Nat /\ m \in Nat /\ b \in Nat /\ Len(s) = b + n + m /\ Len(stack) - b = m
  BY <1>3, <1>5, <1>8
<1>10. /\ tail \in Seq(StackValues) /\ Len(tail) = n + m
       /\ \A i \in 1 .. n + m : tail[i] = s[b + i]
  <2> HIDE DEF n, m, b
  <2> USE DEF b
  <2> QED BY <1>8, <1>9
<1>11. /\ c \o Args \in Seq(StackValues) /\ Len(c \o Args) = n + m
       /\ \A i \in 1 .. n + m : (c \o Args)[i] = IF i <= n THEN c[i] ELSE Args[i - n]
  BY <1>3, <1>5, Joined, Zenon
<1> HIDE DEF tail
<1>12. ASSUME NEW i \in 1 .. n + m
       PROVE  tail[i] = (c \o Args)[i]
  <2>1. CASE i <= n
    <3>1. i \in 1 .. n
      BY <1>9, <2>1
    <3> QED BY <1>8, <1>10, <1>11, <2>1, <3>1
  <2>2. CASE ~(i <= n)
    <3> DEFINE j == i - n
    <3>1. j \in 1 .. m /\ b + j + n = b + i
      BY <1>9, <2>2
    <3> HIDE DEF j
    <3>2. s[b + j + n] = stack[b + j] /\ Args[j] = stack[b + j]
      BY <1>3, <1>8, <1>9, <3>1
    <3> QED BY <1>10, <1>11, <2>2, <3>1, <3>2 DEF j
  <2> QED BY <2>1, <2>2
<1>13. tail = c \o Args
  <2> HIDE DEF n, m
  <2> QED BY <1>10, <1>11, <1>12, SeqEqual
<1> QED BY <1>6, <1>7, <1>13 DEF tail

\* The slots of a function that a builtin calls.
LEMMA CalledBackParameters ==
  ASSUME Safe, NativeCallEnter
  PROVE  LET called == Last(frames')
         IN  SubSeq(stack', called.fp + 1, Len(stack'))
               = called.closure.curried \o <<Elements(Native)[Native.next]>>
<1> DEFINE fun == Deref(Memory, Callback(Native))[2]
           item == Elements(Native)[Native.next]
           args == Append(fun.curried, item)
           f == NewFrame(fun, Callback(Native), Len(stack), <<-1, -1>>)
<1>1. /\ mode = "native" /\ Native.next <= Len(Elements(Native))
      /\ CallKind(Callback(Native), 1) = "enter"
      /\ frames' = Append(frames, f) /\ stack' = stack \o args
  BY DEF NativeCallEnter, NativeCalling
<1>2. /\ Typed /\ stack \in Seq(StackValues) /\ Len(stack) \in Nat
      /\ frames \in Seq(ToSet(frames))
  BY TypedMeans DEF Safe, Typed
<1>3. /\ Native = calls[Len(calls)] /\ Callback(Native) \in StackValues
      /\ Elements(Native) \in Seq(StackValues) /\ calls[Len(calls)].next \in Nat \ {0}
  BY <1>1, NativeMeans
<1>4. item \in StackValues
  BY <1>1, <1>3
<1>5. fun.curried \in Seq(StackValues)
  <2>1. IsClosure(fun)
    BY <1>1, <1>2, <1>3, CallKindMeans
  <2> QED BY <2>1 DEF IsClosure
<1>6. f.fp = Len(stack) /\ f.closure = fun
  BY DEF NewFrame
<1> HIDE DEF f, fun, item
<1>7. Last(frames') = f
  BY <1>1, <1>2 DEF Last
<1>8. args \in Seq(StackValues) /\ args = fun.curried \o <<item>>
  BY <1>4, <1>5
<1> HIDE DEF args
<1>9. SubSeq(stack \o args, Len(stack) + 1, Len(stack \o args)) = args
  BY <1>2, <1>8, Rest
<1>10. SubSeq(stack', Last(frames').fp + 1, Len(stack')) = Last(frames').closure.curried \o <<item>>
  BY <1>1, <1>6, <1>7, <1>8, <1>9, Zenon
<1> QED BY <1>10 DEF item

\* When a function starts, its parameters have the values that the call gives them,
\* the curried ones first, however many were moved to make room for them.
THEOREM ParametersAlwaysInPlace ==
  ASSUME TextTyped
  PROVE  Spec => ParametersInPlace
<1>1. ASSUME Safe, [Next]_vars, Len(frames') > Len(frames)
      PROVE  LET called == Last(frames')
                 args == IF mode = "native" THEN <<Elements(Native)[Native.next]>> ELSE Args
             IN  SubSeq(stack', called.fp + 1, Len(stack')) = called.closure.curried \o args
  <2>1. CASE OpCallEnter
    <3>1. mode = "run"
      BY <2>1 DEF OpCallEnter, Calling, At, InLoop
    <3> QED BY <1>1, <2>1, <3>1, EnteredParameters
  <2>2. CASE NativeCallEnter
    <3>1. mode = "native"
      BY <2>2 DEF NativeCallEnter, NativeCalling
    <3> QED BY <1>1, <2>2, <3>1, CalledBackParameters
  <2> QED BY <1>1, <2>1, <2>2, OnlyCallsEnter
<1> QED BY <1>1, AlwaysSafe, PTL DEF Spec, ParametersInPlace
===============================================================================
