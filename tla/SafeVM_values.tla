---------------------------- MODULE SafeVM_values -----------------------------
(***************************************************************************)
(* What the operations on values give, for the theorems of SafeVM_proofs:  *)
(* every operator, index, slice and builtin throws, or gives a value that  *)
(* the stack or the heap may hold.                                         *)
(***************************************************************************)
EXTENDS SafeVM, SequenceTheorems, FiniteSetTheorems, TLAPS

----------------------------------------------------------------------------
(* The kinds of values *)

StackTags == {"nil", "bool", "int", "cell", "const"}
HeapTags == {"free", "str", "vec", "fun", "builtin"}

\* The first element of a value tells what the rest is.
LEMMA StackValueKinds ==
  ASSUME NEW v \in StackValues
  PROVE  /\ v[1] \in StackTags
         /\ IsA("nil", v) => v = Nil
         /\ IsA("bool", v) => v[2] \in BOOLEAN /\ v = Bool(v[2])
         /\ IsA("int", v) => v[2] \in Int /\ v = Num(v[2])
         /\ IsA("cell", v) => v[2] \in Cells /\ v = Cell(v[2])
         /\ IsA("const", v) => v[2] \in Loadable(program, Shape) /\ v = Const(v[2])
         /\ IsStackValue(v)
BY DEF StackValues, StackTags, IsA, Nil, Bool, Num, Cell, Const, IsStackValue, IsPrimitive, IsPointer

\* What a cell of the heap holds is told by its first element, too, and is
\* neither a value of the stack nor an exception.
LEMMA HeapDataKinds ==
  ASSUME NEW d, IsHeapData(d)
  PROVE  /\ d[1] \in HeapTags
         /\ IsA("free", d) => d = Free
         /\ IsA("str", d) => d[2] \in Seq(STRING) /\ d = Str(d[2])
         /\ IsA("vec", d) => d[2] \in Seq(StackValues) /\ d = Vec(d[2])
         /\ IsA("builtin", d) => d[2] \in KnownBuiltins /\ d = Builtin(d[2])
         /\ IsA("fun", d) => IsClosure(d[2]) /\ d = Fun(d[2])
         /\ ~IsStackValue(d)
         /\ ~Failed(d)
BY DEF IsHeapData, HeapTags, IsA, Free, Str, Vec, Builtin, Fun, Failed, IsStackValue, Nil,
       IsPrimitive, IsPointer

\* The constructors of StackValue make values that the stack may hold.
LEMMA StackValueMade ==
  /\ Nil \in StackValues
  /\ \A b \in BOOLEAN : Bool(b) \in StackValues
  /\ \A n \in Int : Num(n) \in StackValues
  /\ \A c \in Cells : Cell(c) \in StackValues
  /\ \A i \in Loadable(program, Shape) : Const(i) \in StackValues
BY DEF StackValues, Nil, Bool, Num, Cell, Const

\* The constructors of HeapData make data that a cell may hold.
LEMMA HeapDataMade ==
  /\ IsHeapData(Free)
  /\ \A s \in Seq(STRING) : IsHeapData(Str(s))
  /\ \A s \in Seq(StackValues) : IsHeapData(Vec(s))
  /\ \A name \in KnownBuiltins : IsHeapData(Builtin(name))
  /\ \A f : IsClosure(f) => IsHeapData(Fun(f))
BY DEF IsHeapData, Free, Str, Vec, Builtin, Fun, IsA

----------------------------------------------------------------------------
(* What operations give *)

\* What is behind a pointer, or a value that is none.
IsContent(d) == IsHeapData(d) \/ (d \in StackValues /\ ~IsPointer(d))

DerefOK(mem) == \A v \in StackValues : IsContent(Deref(mem, v))

\* An exception, or a value.
Outcome(d) == Failed(d) \/ IsData(d)

\* The same for what a pointer leads to.
LEMMA ContentKinds ==
  ASSUME NEW d, IsContent(d)
  PROVE  /\ d[1] \in {"nil", "bool", "int"} \cup HeapTags
         /\ IsA("free", d) => d = Free
         /\ IsA("bool", d) => d[2] \in BOOLEAN /\ d = Bool(d[2])
         /\ IsA("int", d) => d[2] \in Int /\ d = Num(d[2])
         /\ IsA("str", d) => d[2] \in Seq(STRING) /\ d = Str(d[2])
         /\ IsA("vec", d) => d[2] \in Seq(StackValues) /\ d = Vec(d[2])
         /\ IsA("builtin", d) => d[2] \in KnownBuiltins
         /\ IsA("fun", d) => IsClosure(d[2]) /\ d = Fun(d[2])
         /\ IsData(d) /\ ~Failed(d)
<1>1. CASE IsHeapData(d)
  BY <1>1, HeapDataKinds DEF HeapTags, IsA, IsData
<1>2. CASE d \in StackValues /\ ~IsPointer(d)
  BY <1>2, StackValueKinds DEF StackTags, IsA, IsData, IsPointer, Failed
<1> QED BY <1>1, <1>2 DEF IsContent

\* An operation of the code throws or gives a value that can be stored.
LEMMA SimpleOutcomes ==
  /\ \A kind : Failed(Error(kind))
  /\ Failed(Undefined)
  /\ \A b \in BOOLEAN : ~Failed(Bool(b))
  /\ \A v \in StackValues : Outcome(v)
  /\ \A d : IsHeapData(d) => Outcome(d)
  /\ \A d : IsContent(d) => Outcome(d)
<1>1. /\ \A kind : Failed(Error(kind))
      /\ Failed(Undefined)
      /\ \A b \in BOOLEAN : ~Failed(Bool(b))
  BY DEF Failed, IsA, Error, Undefined, Bool
<1>2. /\ \A v \in StackValues : Outcome(v)
      /\ \A d : IsHeapData(d) => Outcome(d)
  BY DEF Outcome, IsData
<1>3. \A d : IsContent(d) => Outcome(d)
  BY ContentKinds DEF Outcome
<1> QED BY <1>1, <1>2, <1>3

\* to_bool gives a boolean, or reads a cell that has been erased.
LEMMA TruthOutcome ==
  ASSUME NEW d, IsContent(d)
  PROVE  Failed(Truthy(d)) \/ \E b \in BOOLEAN : Truthy(d) = Bool(b)
<1>0. /\ d[1] \in {"nil", "bool", "int"} \cup HeapTags
      /\ IsA("free", d) => d = Free
      /\ IsA("bool", d) => d = Bool(d[2]) /\ d[2] \in BOOLEAN
  BY ContentKinds
<1>1. CASE IsA("bool", d)
  <2>1. /\ ~IsA("int", d) /\ ~IsA("nil", d) /\ ~IsContainer(d)
        /\ ~IsFunction(d) /\ d # Free
    BY <1>1 DEF IsA, IsContainer, IsFunction, Free
  <2>2. Truthy(d) = d
    BY <1>1, <2>1, Zenon DEF Truthy
  <2> QED BY <1>0, <1>1, <2>2
<1>2. CASE IsA("int", d)
  <2>1. /\ ~IsA("bool", d) /\ ~IsA("nil", d) /\ ~IsContainer(d)
        /\ ~IsFunction(d) /\ d # Free
    BY <1>2 DEF IsA, IsContainer, IsFunction, Free
  <2>2. Truthy(d) = Bool(d[2] # 0)
    BY <1>2, <2>1, Zenon DEF Truthy
  <2> QED BY <2>2, Zenon
<1>3. CASE IsA("nil", d)
  <2>1. /\ ~IsA("bool", d) /\ ~IsA("int", d) /\ ~IsContainer(d)
        /\ ~IsFunction(d) /\ d # Free
    BY <1>3 DEF IsA, IsContainer, IsFunction, Free
  <2>2. Truthy(d) = Bool(FALSE)
    BY <1>3, <2>1, Zenon DEF Truthy
  <2> QED BY <2>2, Zenon
<1>4. CASE IsContainer(d)
  <2>1. /\ ~IsA("bool", d) /\ ~IsA("int", d) /\ ~IsA("nil", d)
        /\ ~IsFunction(d) /\ d # Free
    BY <1>4 DEF IsA, IsContainer, IsFunction, Free
  <2>2. Truthy(d) = Bool(d[2] # <<>>)
    BY <1>4, <2>1, Zenon DEF Truthy
  <2> QED BY <2>2, Zenon
<1>5. CASE IsFunction(d)
  <2>1. /\ ~IsA("bool", d) /\ ~IsA("int", d) /\ ~IsA("nil", d)
        /\ ~IsContainer(d) /\ d # Free
    BY <1>5 DEF IsA, IsContainer, IsFunction, Free
  <2>2. Truthy(d) = Error("TypeError")
    BY <1>5, <2>1, Zenon DEF Truthy
  <2> QED BY <2>2, SimpleOutcomes
<1>6. CASE d = Free
  <2>1. /\ ~IsA("bool", d) /\ ~IsA("int", d) /\ ~IsA("nil", d)
        /\ ~IsContainer(d) /\ ~IsFunction(d)
    BY <1>6 DEF IsA, IsContainer, IsFunction, Free
  <2>2. Truthy(d) = Undefined
    BY <1>6, <2>1, Zenon DEF Truthy
  <2> QED BY <2>2, SimpleOutcomes
<1> QED BY <1>0, <1>1, <1>2, <1>3, <1>4, <1>5, <1>6 DEF HeapTags, IsA, IsContainer, IsFunction

\* not_op gives a boolean or throws.
LEMMA NotOutcome ==
  ASSUME NEW d, IsContent(d)
  PROVE  Outcome(NotOp(d))
<1>1. CASE Failed(Truthy(d))
  BY <1>1 DEF NotOp, Outcome
<1>2. CASE ~Failed(Truthy(d))
  <2>1. (~Truthy(d)[2]) \in BOOLEAN /\ NotOp(d) = Bool(~Truthy(d)[2])
    BY <1>2, Zenon DEF NotOp
  <2> QED BY <2>1, StackValueMade, SimpleOutcomes, Zenon
<1> QED BY <1>1, <1>2

\* neg_op gives an integer or throws.
LEMMA NegativeOutcome ==
  ASSUME NEW d, IsContent(d)
  PROVE  Outcome(Negative(d))
<1>1. CASE IsA("int", d)
  BY <1>1, ContentKinds, StackValueMade, SimpleOutcomes DEF Negative
<1>2. CASE ~IsA("int", d)
  BY <1>2, SimpleOutcomes DEF Negative, Outcome
<1> QED BY <1>1, <1>2

----------------------------------------------------------------------------
(* Arithmetic *)

\* Division that rounds towards zero gives an integer where it is defined.
LEMMA QuotientInteger ==
  ASSUME NEW m \in Int, NEW n \in Int, n # 0
  PROVE  Quotient(m, n) \in Int
<1> DEFINE a == IF m < 0 THEN -m ELSE m
           b == IF n < 0 THEN -n ELSE n
<1>1. a \in Nat /\ b \in Nat /\ b > 0
  OBVIOUS
<1>2. a \div b \in Int
  <2> HIDE DEF a, b
  <2> QED BY <1>1
<1>3. Quotient(m, n) = IF (m < 0) = (n < 0) THEN a \div b ELSE -(a \div b)
  BY Zenon DEF Quotient
<1> HIDE DEF a, b
<1> QED BY <1>2, <1>3

TimesOp(m, result, i) == result * m
TimesKeeps(m, k, result) == result \in Int
Times == INSTANCE FoldTheorems WITH Op <- TimesOp, Keeps <- TimesKeeps

\* The loop of pow_op gives an integer for every exponent.
LEMMA PowerInteger ==
  ASSUME NEW m \in Int, NEW n \in Int
  PROVE  Power(m, n) \in Int
<1> DEFINE s == [i \in 1 .. n |-> i]
           last == IF n < 0 THEN 0 ELSE n
<1>1. last \in Nat /\ DOMAIN s = 1 .. last
  OBVIOUS
<1>2. Power(m, n) = Times!Folded(m, 1, s)
  BY Zenon DEF Power, TimesOp, FoldLeft, Times!Folded, Times!FoldLeft, MapThenFoldSet,
               Times!MapThenFoldSet, Max, Times!Max
<1>3. TimesKeeps(m, 0, 1)
  BY DEF TimesKeeps
<1>4. \A k \in 1 .. last : \A r : TimesKeeps(m, k - 1, r) => TimesKeeps(m, k, TimesOp(m, r, s[k]))
  BY DEF TimesKeeps, TimesOp
<1>5. TimesKeeps(m, last, Times!Folded(m, 1, s))
  <2> HIDE DEF s, last
  <2> QED BY <1>1, <1>3, <1>4, Times!FoldLeftKeeps, Zenon
<1> QED BY <1>2, <1>5, Zenon DEF TimesKeeps

\* The operators on two integers throw or give an integer.
LEMMA IntegerOutcome ==
  ASSUME NEW op \in ArithmeticOps, NEW m \in Int, NEW n \in Int
  PROVE  Outcome(IntegerOp(op, m, n))
<1>1. m + n \in Int /\ m - n \in Int /\ m * n \in Int
  OBVIOUS
<1>2. CASE op = "ADD"
  BY <1>1, <1>2, StackValueMade, SimpleOutcomes DEF IntegerOp
<1>3. CASE op = "SUBTRACT"
  BY <1>1, <1>3, StackValueMade, SimpleOutcomes DEF IntegerOp
<1>4. CASE op = "MULTIPLY"
  BY <1>1, <1>4, StackValueMade, SimpleOutcomes DEF IntegerOp
<1>5. CASE op = "DIVIDE"
  <2>1. IntegerOp(op, m, n) =
          IF n = 0 THEN Error("UnsupportedOperation") ELSE Num(Quotient(m, n))
    BY <1>5 DEF IntegerOp
  <2> QED BY <2>1, QuotientInteger, StackValueMade, SimpleOutcomes DEF Outcome
<1>6. CASE op = "MODULO"
  <2>1. IntegerOp(op, m, n) = IF n = 0 THEN Undefined ELSE Num(m - n * Quotient(m, n))
    BY <1>6 DEF IntegerOp
  <2>2. n # 0 => m - n * Quotient(m, n) \in Int
    BY QuotientInteger
  <2> QED BY <2>1, <2>2, StackValueMade, SimpleOutcomes DEF Outcome
<1>7. CASE op = "POWER"
  <2>1. IntegerOp(op, m, n) = Num(Power(m, n))
    BY <1>7 DEF IntegerOp
  <2> QED BY <2>1, PowerInteger, StackValueMade, SimpleOutcomes
<1> QED BY <1>2, <1>3, <1>4, <1>5, <1>6, <1>7 DEF ArithmeticOps

\* The elements of a container.
Items(d) == IF IsA("str", d) THEN STRING ELSE StackValues

\* A container's items make a container of the same kind.
LEMMA ContainerParts ==
  ASSUME NEW d, IsContent(d), IsContainer(d)
  PROVE  /\ d[2] \in Seq(Items(d))
         /\ \A s \in Seq(Items(d)) : IsHeapData(<<d[1], s>>) /\ Outcome(<<d[1], s>>)
<1>1. CASE IsA("str", d)
  <2>1. Items(d) = STRING /\ \A s : <<d[1], s>> = Str(s)
    BY <1>1 DEF Items, Str, IsA
  <2> QED BY <1>1, <2>1, ContentKinds, HeapDataMade, SimpleOutcomes
<1>2. CASE IsA("vec", d)
  <2>1. Items(d) = StackValues /\ \A s : <<d[1], s>> = Vec(s)
    BY <1>2 DEF Items, Vec, IsA
  <2> QED BY <1>2, <2>1, ContentKinds, HeapDataMade, SimpleOutcomes
<1> QED BY <1>1, <1>2 DEF IsContainer, IsA

\* Repeating a container gives items of the same kind, however often.
LEMMA RepeatedIsSequence ==
  ASSUME NEW S, NEW s \in Seq(S), NEW count \in Nat
  PROVE  Repeated(s, count) \in Seq(S)
<1> DEFINE n == Len(s)
<1>0. n \in Nat
  OBVIOUS
<1>1. count * n \in Nat
  BY <1>0
<1>2. ASSUME NEW i \in 1 .. count * n
      PROVE  s[((i - 1) % n) + 1] \in S
  <2>1. n # 0
    <3> SUFFICES ASSUME n = 0 PROVE FALSE
      OBVIOUS
    <3> HIDE DEF n
    <3>1. count * n = 0
      BY <1>0
    <3> QED BY <1>2, <3>1
  <2>2. i - 1 \in Nat
    BY <1>1, <1>2
  <2>3. (i - 1) % n \in 0 .. n - 1
    <3> HIDE DEF n
    <3> QED BY <1>0, <2>1, <2>2
  <2>4. ((i - 1) % n) + 1 \in 1 .. n
    <3> HIDE DEF n
    <3> QED BY <1>0, <2>3
  <2> QED BY <2>4
<1>3. Repeated(s, count) = [i \in 1 .. count * n |-> s[((i - 1) % n) + 1]]
  BY Zenon DEF Repeated
<1> HIDE DEF n
<1> QED BY <1>1, <1>2, <1>3

\* Multiplying a container by a number throws or gives a container.
LEMMA MultipliedOutcome ==
  ASSUME NEW d, NEW count, IsContent(d), IsContainer(d), IsContent(count)
  PROVE  Outcome(MultiplyContainer(d, count))
<1>1. CASE IsA("int", count) /\ count[2] > 0
  <2>1. count[2] \in Nat
    BY <1>1, ContentKinds
  <2>2. Repeated(d[2], count[2]) \in Seq(Items(d))
    BY <2>1, ContainerParts, RepeatedIsSequence
  <2>3. MultiplyContainer(d, count) = <<d[1], Repeated(d[2], count[2])>>
    BY <1>1 DEF MultiplyContainer
  <2> QED BY <2>2, <2>3, ContainerParts
<1>2. CASE ~(IsA("int", count) /\ count[2] > 0)
  <2>1. MultiplyContainer(d, count) = Error("UnsupportedOperation")
    BY <1>2 DEF MultiplyContainer
  <2> QED BY <2>1, SimpleOutcomes DEF Outcome
<1> QED BY <1>1, <1>2

\* add, sub, mul, div, mod and pow throw or give a value.
LEMMA ArithmeticOutcome ==
  ASSUME NEW op \in ArithmeticOps, NEW a, NEW b, IsContent(a), IsContent(b)
  PROVE  Outcome(Arithmetic(op, a, b))
<1>1. CASE IsA("int", a) /\ IsA("int", b)
  <2>1. ~IsContainer(a) /\ ~IsContainer(b)
    BY <1>1 DEF IsA, IsContainer
  <2>2. Arithmetic(op, a, b) = IntegerOp(op, a[2], b[2])
    BY <1>1, <2>1, Zenon DEF Arithmetic
  <2> QED BY <1>1, <2>2, ContentKinds, IntegerOutcome
<1>2. CASE op = "ADD" /\ IsContainer(a) /\ a[1] = b[1]
  <2>1. ~IsA("int", a) /\ IsContainer(b) /\ op # "MULTIPLY"
    BY <1>2 DEF IsA, IsContainer
  <2>2. Arithmetic(op, a, b) = <<a[1], a[2] \o b[2]>>
    BY <1>2, <2>1, Zenon DEF Arithmetic
  <2>3. Items(a) = Items(b)
    BY <1>2 DEF Items, IsA
  <2>4. a[2] \in Seq(Items(a)) /\ b[2] \in Seq(Items(a))
    BY <1>2, <2>1, <2>3, ContainerParts
  <2>5. a[2] \o b[2] \in Seq(Items(a))
    BY <2>4
  <2> QED BY <1>2, <2>2, <2>5, ContainerParts
<1>3. CASE op = "MULTIPLY" /\ IsContainer(a) /\ IsPrimitive(b)
  <2>1. ~IsA("int", a) /\ ~IsContainer(b) /\ ~IsPrimitive(a) /\ op # "ADD"
    BY <1>3 DEF IsA, IsContainer, IsPrimitive
  <2>2. Arithmetic(op, a, b) = MultiplyContainer(a, b)
    BY <1>3, <2>1, Zenon DEF Arithmetic
  <2> QED BY <1>3, <2>2, MultipliedOutcome
<1>4. CASE op = "MULTIPLY" /\ IsPrimitive(a) /\ IsContainer(b)
  <2>1. ~IsA("int", b) /\ ~IsContainer(a) /\ op # "ADD"
    BY <1>4 DEF IsA, IsContainer, IsPrimitive
  <2>2. Arithmetic(op, a, b) = MultiplyContainer(b, a)
    BY <1>4, <2>1, Zenon DEF Arithmetic
  <2> QED BY <1>4, <2>2, MultipliedOutcome
<1>5. CASE ~ \/ IsA("int", a) /\ IsA("int", b)
             \/ op = "ADD" /\ IsContainer(a) /\ a[1] = b[1]
             \/ op = "MULTIPLY" /\ IsContainer(a) /\ IsPrimitive(b)
             \/ op = "MULTIPLY" /\ IsPrimitive(a) /\ IsContainer(b)
  <2>1. Arithmetic(op, a, b) = Error("UnsupportedOperation")
    BY <1>5, Zenon DEF Arithmetic
  <2> QED BY <2>1, SimpleOutcomes DEF Outcome
<1> QED BY <1>1, <1>2, <1>3, <1>4, <1>5

----------------------------------------------------------------------------
(* Indexing *)

\* An index that get_index accepts lies inside the container.
LEMMA IndexErrorNil ==
  ASSUME NEW d, NEW index, IsContent(d), index \in StackValues, ~Failed(IndexError(d, index))
  PROVE  /\ IsContainer(d) /\ IsA("int", index)
         /\ index[2] + 1 \in 1 .. Len(d[2])
<1>1. ~ (~IsA("int", index))
  BY SimpleOutcomes DEF IndexError
<1>2. index[2] \in Int
  BY <1>1, StackValueKinds
<1>3. ~(index[2] < 0) /\ IsContainer(d) /\ ~(index[2] >= Len(d[2]))
  BY <1>1, SimpleOutcomes DEF IndexError
<1>4. Len(d[2]) \in Nat
  BY <1>3, ContainerParts
<1> QED BY <1>1, <1>2, <1>3, <1>4

\* get_index throws or gives an item: a read never leaves the container.
LEMMA IndexOutcome ==
  ASSUME NEW d, NEW index, IsContent(d), index \in StackValues
  PROVE  Outcome(Index(d, index))
<1>1. CASE Failed(IndexError(d, index))
  BY <1>1 DEF Index, Outcome
<1>2. CASE ~Failed(IndexError(d, index))
  <2>1. /\ IsContainer(d)
        /\ index[2] + 1 \in 1 .. Len(d[2])
    BY <1>2, IndexErrorNil
  <2>2. d[2][index[2] + 1] \in Items(d)
    BY <2>1, ContainerParts
  <2>3. CASE IsA("vec", d)
    <3>1. Index(d, index) = d[2][index[2] + 1]
      BY <1>2, <2>3 DEF Index
    <3>2. Items(d) = StackValues
      BY <2>3 DEF Items, IsA
    <3> QED BY <2>2, <3>1, <3>2, SimpleOutcomes
  <2>4. CASE ~IsA("vec", d)
    <3>1. Index(d, index) = Str(<<d[2][index[2] + 1]>>)
      BY <1>2, <2>4 DEF Index
    <3>2. Items(d) = STRING
      BY <2>1, <2>4 DEF Items, IsA, IsContainer
    <3>3. <<d[2][index[2] + 1]>> \in Seq(STRING)
      BY <2>2, <3>2
    <3> QED BY <3>1, <3>3, HeapDataMade, SimpleOutcomes
  <2> QED BY <2>3, <2>4
<1> QED BY <1>1, <1>2

\* Every bound that slice computes lies inside the container or is refused.
LEMMA SliceOutcome ==
  ASSUME NEW d, NEW start, NEW end, IsContent(d),
         start = Nil \/ (IsA("int", start) /\ start[2] \in Int),
         end = Nil \/ (IsA("int", end) /\ end[2] \in Int)
  PROVE  Outcome(Slice(d, start, end))
<1>1. CASE IsFunction(d) \/ ~IsContainer(d) \/ Failed(SliceBounds(Len(d[2]), start, end))
  BY <1>1, SimpleOutcomes DEF Slice, Outcome
<1>2. CASE ~(IsFunction(d) \/ ~IsContainer(d) \/ Failed(SliceBounds(Len(d[2]), start, end)))
  <2> DEFINE size == Len(d[2])
             from == IF start = Nil THEN 0 ELSE start[2]
             to == IF end = Nil THEN size ELSE end[2]
             first == IF from < 0 THEN from + size ELSE from
             last == IF to < 0 THEN to + size ELSE to
  <2>1. size \in Nat /\ d[2] \in Seq(Items(d))
    BY <1>2, ContainerParts
  <2>2. from \in Int /\ to \in Int
    BY <2>1 DEF Nil, IsA
  <2>3. SliceBounds(size, start, end) =
          IF from > to \/ last > size \/ first > size THEN Error("ValueError")
          ELSE <<"bounds", first, last>>
    BY Zenon DEF SliceBounds
  <2>4. ~(from > to \/ last > size \/ first > size)
    BY <1>2, <2>3, SimpleOutcomes
  <2>5. Slice(d, start, end) = Sliced(d, first, last)
    <3>1. Slice(d, start, end) = Sliced(d, SliceBounds(size, start, end)[2], SliceBounds(size, start, end)[3])
      BY <1>2, Zenon DEF Slice
    <3>2. SliceBounds(size, start, end) = <<"bounds", first, last>>
      BY <2>3, <2>4, Zenon
    <3> HIDE DEF first, last, size
    <3> QED BY <3>1, <3>2
  <2>6. first \in Int /\ last \in Int /\ first <= size /\ last <= size
    BY <2>1, <2>2, <2>4
  <2> HIDE DEF first, last, from, to
  <2>7. CASE 0 <= first /\ first <= last
    <3>1. SubSeq(d[2], first + 1, last) \in Seq(Items(d))
      BY <2>1, <2>6, <2>7
    <3> QED BY <1>2, <2>5, <2>7, <3>1, ContainerParts DEF Sliced
  <2>8. CASE ~(0 <= first /\ first <= last) /\ (IsA("vec", d) \/ first < 0)
    BY <2>5, <2>8, SimpleOutcomes DEF Sliced, Outcome
  <2>9. CASE ~(0 <= first /\ first <= last) /\ ~(IsA("vec", d) \/ first < 0)
    <3>1. Items(d) = STRING
      BY <1>2, <2>9 DEF Items, IsA, IsContainer
    <3>2. SubSeq(d[2], first + 1, Len(d[2])) \in Seq(STRING)
      BY <2>1, <2>6, <2>9, <3>1
    <3>3. Slice(d, start, end) = Str(SubSeq(d[2], first + 1, Len(d[2])))
      BY <2>5, <2>9 DEF Sliced
    <3> QED BY <3>2, <3>3, HeapDataMade, SimpleOutcomes
  <2> QED BY <2>7, <2>8, <2>9
<1> QED BY <1>1, <1>2

----------------------------------------------------------------------------
(* Builtins *)

\* std::format writes text.
TextTyped == \A mem, v : TextOf(mem, v) \in Seq(STRING)

\* The pair that head and tail give, whose parts are stored before it.
IsPair(d) == \E x, y : d = Vec(<<x, y>>) /\ IsData(x) /\ IsData(y)

\* What a builtin gives.
Returned(d) == Outcome(d) \/ IsPair(d)

\* head and tail throw or give the pair of an item and the rest.
LEMMA SplitReturned ==
  ASSUME NEW name, NEW d, IsContent(d)
  PROVE  Returned(SplitOf(name, d))
<1>1. CASE ~IsContainer(d) \/ d[2] = <<>>
  BY <1>1, SimpleOutcomes DEF SplitOf, Returned, Outcome
<1>2. CASE IsContainer(d) /\ d[2] # <<>>
  <2> DEFINE s == d[2]
             One(x) == IF IsA("str", d) THEN Str(<<x>>) ELSE x
             Part(part) == <<d[1], part>>
  <2>1. s \in Seq(Items(d)) /\ Len(s) \in Nat \ {0}
    BY <1>2, ContainerParts, EmptySeq
  <2>2. s[1] \in Items(d) /\ Last(s) \in Items(d)
    BY <2>1 DEF Last
  <2>3. Tail(s) \in Seq(Items(d)) /\ Front(s) \in Seq(Items(d))
    BY <2>1 DEF Front
  <2>4. \A x \in Items(d) : IsData(One(x))
    <3> TAKE x \in Items(d)
    <3>1. CASE IsA("str", d)
      <4>1. <<x>> \in Seq(STRING)
        BY <3>1 DEF Items
      <4> QED BY <3>1, <4>1, HeapDataMade DEF IsData
    <3>2. CASE ~IsA("str", d)
      BY <3>2 DEF Items, IsData
    <3> QED BY <3>1, <3>2
  <2>5. \A part \in Seq(Items(d)) : IsData(Part(part))
    BY <1>2, ContainerParts DEF IsData
  <2>6. SplitOf(name, d) = IF name = "head" THEN Vec(<<One(s[1]), Part(Tail(s))>>)
                           ELSE Vec(<<Part(Front(s)), One(Last(s))>>)
    BY <1>2, Zenon DEF SplitOf
  <2> HIDE DEF One, Part, s
  <2> QED BY <2>2, <2>3, <2>4, <2>5, <2>6, Zenon DEF Returned, IsPair
<1> QED BY <1>1, <1>2

SumOp(mem, total, v) ==
  IF Failed(total) THEN total ELSE Arithmetic("ADD", total, Deref(mem, v))
SumKeeps(mem, k, total) == Failed(total) \/ IsContent(total)
Summing == INSTANCE FoldTheorems WITH Op <- SumOp, Keeps <- SumKeeps

\* Adding gives a content again: never a pointer.
LEMMA AddedIsContent ==
  ASSUME NEW a, NEW b, IsContent(a), IsContent(b)
  PROVE  Failed(Arithmetic("ADD", a, b)) \/ IsContent(Arithmetic("ADD", a, b))
<1> DEFINE sum == Arithmetic("ADD", a, b)
<1>1. CASE IsA("int", a) /\ IsA("int", b)
  <2>1. sum = IntegerOp("ADD", a[2], b[2])
    BY <1>1, Zenon DEF Arithmetic, IsA, IsContainer
  <2>2. a[2] + b[2] \in Int
    BY <1>1, ContentKinds
  <2>3. sum = Num(a[2] + b[2])
    BY <2>1, Zenon DEF IntegerOp
  <2>4. ~IsPointer(Num(a[2] + b[2]))
    BY DEF IsPointer, Num
  <2> QED BY <2>2, <2>3, <2>4, StackValueMade DEF IsContent
<1>2. CASE IsContainer(a) /\ a[1] = b[1]
  <2>1. ~IsA("int", a) /\ IsContainer(b)
    BY <1>2 DEF IsA, IsContainer
  <2>2. sum = <<a[1], a[2] \o b[2]>>
    BY <1>2, <2>1, Zenon DEF Arithmetic
  <2>3. a[2] \in Seq(Items(a)) /\ b[2] \in Seq(Items(a))
    <3>1. Items(a) = Items(b)
      BY <1>2 DEF Items, IsA
    <3> QED BY <1>2, <2>1, <3>1, ContainerParts
  <2>4. a[2] \o b[2] \in Seq(Items(a))
    BY <2>3
  <2> QED BY <1>2, <2>2, <2>4, ContainerParts DEF IsContent
<1>3. CASE ~(IsA("int", a) /\ IsA("int", b)) /\ ~(IsContainer(a) /\ a[1] = b[1])
  <2>1. sum = Error("UnsupportedOperation")
    BY <1>3, Zenon DEF Arithmetic
  <2> QED BY <2>1, SimpleOutcomes
<1> QED BY <1>1, <1>2, <1>3

\* sum throws or gives a value, whatever the array's elements point to.
LEMMA SumOutcome ==
  ASSUME NEW mem, DerefOK(mem), NEW d, IsContent(d)
  PROVE  Outcome(SumOf(mem, d))
<1>1. CASE ~IsA("vec", d) \/ d[2] = <<>>
  BY <1>1, SimpleOutcomes DEF SumOf, Outcome
<1>2. CASE IsA("vec", d) /\ d[2] # <<>>
  <2> DEFINE first == Deref(mem, d[2][1])
             s == Tail(d[2])
  <2>1. d[2] \in Seq(StackValues) /\ Len(d[2]) \in Nat \ {0}
    BY <1>2, ContentKinds, EmptySeq
  <2>2. IsContent(first) /\ s \in Seq(StackValues)
    BY <2>1 DEF DerefOK
  <2>3. SumOf(mem, d) = Summing!Folded(mem, first, s)
    BY <1>2, Zenon DEF SumOf, SumOp, FoldLeft, Summing!Folded, Summing!FoldLeft, MapThenFoldSet,
                 Summing!MapThenFoldSet, Max, Summing!Max
  <2>4. SumKeeps(mem, 0, first)
    BY <2>2 DEF SumKeeps
  <2>5. ASSUME NEW k \in 1 .. Len(s), NEW total, SumKeeps(mem, k - 1, total)
        PROVE  SumKeeps(mem, k, SumOp(mem, total, s[k]))
    <3>1. IsContent(Deref(mem, s[k]))
      BY <2>2 DEF DerefOK
    <3> QED BY <2>5, <3>1, AddedIsContent DEF SumKeeps, SumOp
  <2>6. SumKeeps(mem, Len(s), Summing!Folded(mem, first, s))
    <3>1. Len(s) \in Nat /\ DOMAIN s = 1 .. Len(s)
      BY <2>2
    <3> HIDE DEF s, first
    <3> QED BY <2>4, <2>5, <3>1, Summing!FoldLeftKeeps, Zenon
  <2> QED BY <2>3, <2>6, SimpleOutcomes DEF SumKeeps, Outcome
<1> QED BY <1>1, <1>2

\* all and any throw or give a boolean.
LEMMA AllAnyOutcome ==
  ASSUME NEW mem, DerefOK(mem), NEW d, IsContent(d), NEW isAll \in BOOLEAN
  PROVE  Outcome(AllAny(mem, isAll, d))
<1> DEFINE truths == [i \in DOMAIN d[2] |-> Truthy(Deref(mem, d[2][i]))]
           stops == {i \in DOMAIN truths : Failed(truths[i]) \/ truths[i][2] # isAll}
           first == CHOOSE i \in stops : \A j \in stops : i <= j
<1>1. CASE ~IsA("vec", d)
  BY <1>1, SimpleOutcomes DEF AllAny, Outcome
<1>2. CASE IsA("vec", d) /\ stops = {}
  <2>1. AllAny(mem, isAll, d) = Bool(isAll)
    BY <1>2, Zenon DEF AllAny
  <2> QED BY <2>1, StackValueMade, SimpleOutcomes
<1>3. CASE IsA("vec", d) /\ stops # {}
  <2>1. d[2] \in Seq(StackValues)
    BY <1>3, ContentKinds
  <2>2. stops \in SUBSET Nat
    BY <2>1
  <2>3. first \in stops
    <3> HIDE DEF stops
    <3>1. \E i \in stops : \A j \in stops : i <= j
      BY <1>3, <2>2, Summing!Least
    <3> QED BY <3>1
  <2>4. AllAny(mem, isAll, d) = truths[first]
    BY <1>3, Zenon DEF AllAny
  <2> HIDE DEF first
  <2>5. first \in DOMAIN d[2] /\ truths[first] = Truthy(Deref(mem, d[2][first]))
    BY <2>3
  <2>6. IsContent(Deref(mem, d[2][first]))
    BY <2>1, <2>5 DEF DerefOK
  <2> HIDE DEF truths, stops
  <2> QED BY <2>4, <2>5, <2>6, TruthOutcome, StackValueMade, SimpleOutcomes DEF Outcome
<1> QED BY <1>1, <1>2, <1>3

\* The values behind the arguments of a builtin.
ContentsOf(ds) == \E n \in Nat : DOMAIN ds = 1 .. n /\ \A i \in 1 .. n : IsContent(ds[i])

\* The check of range's arguments leaves integers only.
LEMMA IntegersAre ==
  ASSUME NEW ds, ContentsOf(ds), AreIntegers(ds)
  PROVE  \A i \in DOMAIN ds : ds[i][2] \in Int
BY ContentKinds DEF ContentsOf, AreIntegers

\* range throws or gives an array of integers.
LEMMA RangeOutcome ==
  ASSUME NEW ds, ContentsOf(ds), DOMAIN ds = 1 .. Len(ds), Len(ds) \in 1 .. 3
  PROVE  Outcome(RangeOf(ds))
<1> DEFINE start == IF Len(ds) = 1 THEN 0 ELSE ds[1][2]
           end == IF Len(ds) = 1 THEN ds[1][2] ELSE ds[2][2]
           step == IF Len(ds) = 3 THEN ds[3][2] ELSE 1
           wrong == (step > 0 /\ start > end) \/ (step < 0 /\ start < end)
           count == IF step > 0 THEN (end - start + step - 1) \div step
                    ELSE (start - end - step - 1) \div (-step)
<1>1. CASE ~AreIntegers(ds) \/ step = 0 \/ wrong
  BY <1>1, SimpleOutcomes DEF RangeOf, Outcome
<1>2. CASE AreIntegers(ds) /\ ~(step = 0 \/ wrong)
  <2>1. start \in Int /\ end \in Int /\ step \in Int
    <3>1. \A i \in DOMAIN ds : ds[i][2] \in Int
      BY <1>2, IntegersAre
    <3>2. 1 \in DOMAIN ds /\ (Len(ds) # 1 => 2 \in DOMAIN ds) /\ (Len(ds) = 3 => 3 \in DOMAIN ds)
      OBVIOUS
    <3> QED BY <3>1, <3>2
  <2>2. RangeOf(ds) = Vec([i \in 1 .. count |-> Num(start + (i - 1) * step)])
    BY <1>2, Zenon DEF RangeOf
  <2>3. step # 0 /\ ~wrong
    BY <1>2
  <2> HIDE DEF start, end, step
  <2>4. count \in Nat
    <3>1. CASE step > 0
      <4> DEFINE size == end - start + step - 1
      <4>1. size \in Nat /\ step \in Nat /\ step > 0 /\ count = size \div step
        BY <2>1, <2>3, <3>1
      <4> HIDE DEF size, count
      <4> QED BY <4>1
    <3>2. CASE ~(step > 0)
      <4> DEFINE size == start - end - step - 1
                 down == -step
      <4>1. size \in Nat /\ down \in Nat /\ down > 0 /\ count = size \div down
        BY <2>1, <2>3, <3>2
      <4> HIDE DEF size, count, down
      <4> QED BY <4>1
    <3> QED BY <3>1, <3>2
  <2> HIDE DEF count
  <2>5. \A i \in 1 .. count : Num(start + (i - 1) * step) \in StackValues
    <3> TAKE i \in 1 .. count
    <3>1. i - 1 \in Int
      BY <2>4
    <3>2. (i - 1) * step \in Int
      BY <2>1, <3>1
    <3>3. start + (i - 1) * step \in Int
      BY <2>1, <3>2
    <3> QED BY <3>3, StackValueMade
  <2>6. [i \in 1 .. count |-> Num(start + (i - 1) * step)] \in Seq(StackValues)
    BY <2>4, <2>5
  <2> QED BY <2>2, <2>6, HeapDataMade, SimpleOutcomes
<1> QED BY <1>1, <1>2

ShiftOp(base, total, char) == base * total + (CHOOSE v \in ValuesOfDigit(char, base) : TRUE)
ShiftKeeps(base, k, total) == total \in Int
Shifting == INSTANCE FoldTheorems WITH Op <- ShiftOp, Keeps <- ShiftKeeps

\* std::from_chars reads digits only.
LEMMA FromCharsOutcome ==
  ASSUME NEW chars \in Seq(STRING), NEW base \in Nat
  PROVE  Outcome(FromChars(chars, base))
<1> DEFINE signed == chars # <<>> /\ chars[1] = "-"
           rest == IF signed THEN Tail(chars) ELSE chars
           wrong == {i \in DOMAIN rest : ValuesOfDigit(rest[i], base) = {}}
           least == CHOOSE i \in wrong : \A j \in wrong : i <= j
           count == IF wrong = {} THEN Len(rest) ELSE least - 1
           digits == SubSeq(rest, 1, count)
           number == Shifting!Folded(base, 0, digits)
<1>1. rest \in Seq(STRING)
  <2>1. chars # <<>> => Tail(chars) \in Seq(STRING)
    OBVIOUS
  <2> QED BY <2>1, Zenon
<1>2. FromChars(chars, base) =
        IF count = 0 THEN Error("RuntimeError") ELSE Num(IF signed THEN -number ELSE number)
  BY Zenon DEF FromChars, ShiftOp, FoldLeft, Shifting!Folded, Shifting!FoldLeft,
               MapThenFoldSet, Shifting!MapThenFoldSet, Max, Shifting!Max
<1> HIDE DEF rest, number, signed
<1>3. /\ count \in 0 .. Len(rest)
      /\ \A k \in 1 .. count : ValuesOfDigit(rest[k], base) # {}
  <2>1. CASE wrong = {}
    BY <1>1, <2>1
  <2>2. CASE wrong # {}
    <3>1. wrong \in SUBSET Nat /\ \A i \in wrong : i \in 1 .. Len(rest)
      BY <1>1
    <3>2. least \in wrong /\ \A j \in wrong : least <= j
      <4> HIDE DEF wrong
      <4>1. \E i \in wrong : \A j \in wrong : i <= j
        BY <2>2, <3>1, Shifting!Least
      <4> QED BY <4>1
    <3>3. count = least - 1
      BY <2>2
    <3> HIDE DEF least, count
    <3>4. \A k \in 1 .. count : k \in DOMAIN rest /\ k \notin wrong
      BY <1>1, <3>1, <3>2, <3>3
    <3> QED BY <1>1, <3>1, <3>2, <3>3, <3>4
  <2> QED BY <2>1, <2>2
<1> HIDE DEF count, wrong
<1>4. DOMAIN digits = 1 .. count /\ count \in Nat /\ \A k \in 1 .. count : digits[k] = rest[k]
  BY <1>1, <1>3
<1>5. ShiftKeeps(base, 0, 0)
  BY DEF ShiftKeeps
<1>6. ASSUME NEW k \in 1 .. count, NEW total, ShiftKeeps(base, k - 1, total)
      PROVE  ShiftKeeps(base, k, ShiftOp(base, total, digits[k]))
  <2> DEFINE values == ValuesOfDigit(digits[k], base)
             v == CHOOSE v \in values : TRUE
  <2>1. values # {} /\ values \subseteq Int
    BY <1>3, <1>4 DEF ValuesOfDigit
  <2>2. v \in Int
    <3> HIDE DEF values
    <3> QED BY <2>1
  <2>3. total \in Int /\ base * total \in Int
    BY <1>6 DEF ShiftKeeps
  <2>4. ShiftOp(base, total, digits[k]) = base * total + v
    BY Zenon DEF ShiftOp
  <2>5. base * total + v \in Int
    <3> HIDE DEF v
    <3> QED BY <2>2, <2>3
  <2> QED BY <2>4, <2>5, Zenon DEF ShiftKeeps
<1>7. number \in Int
  <2>1. ShiftKeeps(base, count, Shifting!Folded(base, 0, digits))
    <3> HIDE DEF digits
    <3> QED BY <1>4, <1>5, <1>6, Shifting!FoldLeftKeeps, Zenon
  <2> QED BY <2>1 DEF ShiftKeeps, number
<1>8. (IF signed THEN -number ELSE number) \in Int
  BY <1>7
<1> QED BY <1>2, <1>8, StackValueMade, SimpleOutcomes DEF Outcome

\* len and assert throw or give a value.
LEMMA SmallBuiltins ==
  ASSUME NEW d, IsContent(d)
  PROVE  Outcome(LengthOf(d)) /\ Outcome(AssertResult(d))
<1>1. Outcome(LengthOf(d))
  <2>1. CASE IsContainer(d)
    <3>1. Len(d[2]) \in Int
      BY <2>1, ContainerParts
    <3>2. LengthOf(d) = Num(Len(d[2]))
      BY <2>1 DEF LengthOf, Expect
    <3> QED BY <3>1, <3>2, StackValueMade, SimpleOutcomes
  <2>2. CASE ~IsContainer(d)
    BY <2>2, SimpleOutcomes DEF LengthOf, Expect, Outcome
  <2> QED BY <2>1, <2>2
<1>2. Outcome(AssertResult(d))
  <2>1. CASE Failed(Truthy(d))
    BY <2>1, Zenon DEF AssertResult, Outcome
  <2>2. CASE ~Failed(Truthy(d))
    <3>1. AssertResult(d) = Nil \/ AssertResult(d) = Error("RuntimeError")
      BY <2>2, Zenon DEF AssertResult, Expect
    <3> QED BY <3>1, StackValueMade, SimpleOutcomes DEF Outcome
  <2> QED BY <2>1, <2>2
<1> QED BY <1>1, <1>2

\* int throws or gives an integer.
LEMMA IntOutcome ==
  ASSUME NEW ds, ContentsOf(ds), DOMAIN ds = 1 .. Len(ds), Len(ds) \in 1 .. 2
  PROVE  Outcome(IntOf(ds))
<1> DEFINE base == IF Len(ds) = 2 THEN ds[2] ELSE Num(10)
           d == ds[1]
<1>1. IsContent(d)
  BY DEF ContentsOf
<1>2. CASE ~IsA("int", base) \/ base[2] \notin 2 .. 36
  BY <1>2, SimpleOutcomes DEF IntOf, Outcome
<1>3. CASE ~(~IsA("int", base) \/ base[2] \notin 2 .. 36)
  <2>1. base[2] \in Nat
    <3>1. base[2] \in 2 .. 36
      BY <1>3, Zenon
    <3>2. \A b \in 2 .. 36 : b \in Nat
      OBVIOUS
    <3> QED BY <3>1, <3>2, Zenon
  <2>2. IntOf(ds) = IF IsA("int", d) THEN d
                    ELSE IF IsA("bool", d) THEN Num(IF d[2] THEN 1 ELSE 0)
                    ELSE IF IsA("str", d) THEN FromChars(d[2], base[2])
                    ELSE Error("RuntimeError")
    BY <1>3, Zenon DEF IntOf
  <2>3. CASE IsA("int", d)
    BY <1>1, <2>2, <2>3, SimpleOutcomes
  <2>4. CASE ~IsA("int", d) /\ IsA("bool", d)
    <3>1. (IF d[2] THEN 1 ELSE 0) \in Int
      OBVIOUS
    <3>2. IntOf(ds) = Num(IF d[2] THEN 1 ELSE 0)
      BY <2>2, <2>4, Zenon
    <3> QED BY <3>1, <3>2, StackValueMade, SimpleOutcomes
  <2>5. CASE ~IsA("int", d) /\ ~IsA("bool", d) /\ IsA("str", d)
    <3>1. d[2] \in Seq(STRING)
      BY <1>1, <2>5, ContentKinds
    <3>2. IntOf(ds) = FromChars(d[2], base[2])
      BY <2>2, <2>5, Zenon
    <3> QED BY <2>1, <3>1, <3>2, FromCharsOutcome
  <2>6. CASE ~IsA("int", d) /\ ~IsA("bool", d) /\ ~IsA("str", d)
    BY <2>2, <2>6, SimpleOutcomes DEF Outcome
  <2> QED BY <2>3, <2>4, <2>5, <2>6
<1> QED BY <1>2, <1>3

\* random throws or gives an integer, whichever the engine draws.
LEMMA RandomsOutcome ==
  ASSUME NEW ds, ContentsOf(ds), DOMAIN ds = 1 .. Len(ds), Len(ds) \in 1 .. 2,
         NEW r \in RandomsOf(ds)
  PROVE  Outcome(r)
<1> DEFINE min == IF Len(ds) = 1 THEN 0 ELSE ds[1][2]
           max == ds[Len(ds)][2]
<1>1. RandomsOf(ds) = IF ~AreIntegers(ds) THEN {Error("TypeError")}
                      ELSE IF min > max THEN {Undefined}
                      ELSE {Num(n) : n \in min .. max}
  BY Zenon DEF RandomsOf
<1>2. CASE ~AreIntegers(ds)
  BY <1>1, <1>2, SimpleOutcomes DEF Outcome
<1>3. CASE AreIntegers(ds) /\ min > max
  BY <1>1, <1>3, SimpleOutcomes DEF Outcome
<1>4. CASE AreIntegers(ds) /\ ~(min > max)
  <2>1. r \in {Num(n) : n \in min .. max}
    BY <1>1, <1>4, Zenon
  <2>2. PICK n \in min .. max : r = Num(n)
    BY <2>1, Zenon
  <2>3. min \in Int /\ max \in Int
    <3>1. \A i \in DOMAIN ds : ds[i][2] \in Int
      BY <1>4, IntegersAre
    <3> QED BY <3>1
  <2>4. n \in Int
    <3> HIDE DEF min, max
    <3> QED BY <2>3
  <2> QED BY <2>2, <2>4, StackValueMade, SimpleOutcomes
<1> QED BY <1>2, <1>3, <1>4

\* slice, drop and take throw or give a container.
LEMMA SliceOfOutcome ==
  ASSUME NEW d, NEW bounds, NEW start, NEW end, IsContent(d),
         start = Nil \/ (start \in bounds /\ IsContent(start)),
         end = Nil \/ (end \in bounds /\ IsContent(end))
  PROVE  Outcome(SliceOf(d, bounds, start, end))
<1>1. CASE \A b \in bounds : IsA("int", b)
  <2>1. SliceOf(d, bounds, start, end) = Slice(d, start, end)
    BY <1>1, Zenon DEF SliceOf, Expect
  <2>2. start = Nil \/ (IsA("int", start) /\ start[2] \in Int)
    BY <1>1, ContentKinds
  <2>3. end = Nil \/ (IsA("int", end) /\ end[2] \in Int)
    BY <1>1, ContentKinds
  <2> QED BY <2>1, <2>2, <2>3, SliceOutcome
<1>2. CASE ~ \A b \in bounds : IsA("int", b)
  <2>1. SliceOf(d, bounds, start, end) = Error("TypeError")
    BY <1>2, Zenon DEF SliceOf, Expect
  <2> QED BY <2>1, SimpleOutcomes DEF Outcome
<1> QED BY <1>1, <1>2

Known(name) == name \in KnownBuiltins \ CallingBack

\* How many arguments a builtin has when it looks at them.
LEMMA RightCount ==
  ASSUME NEW name, NEW n \in Nat, ~WrongCount(name, n)
  PROVE  /\ name \in {"len", "sum", "all", "any", "id", "str", "sleep"} => n = 1
         /\ name \in {"drop", "take"} => n = 2
         /\ name = "slice" => n = 3
         /\ name \in {"head", "tail", "assert"} => n # 0
         /\ name \in {"int", "random"} => n \in 1 .. 2
         /\ name = "range" => n \in 1 .. 3
BY DEF WrongCount

\* What a builtin that does not call back returns is an exception or a value.
THEOREM BuiltinReturns ==
  ASSUME TextTyped, NEW mem, DerefOK(mem), NEW args \in Seq(StackValues),
         NEW name, Known(name), NEW result \in BuiltinResults(mem, name, args)
  PROVE  Returned(result)
<1> DEFINE ds == [i \in DOMAIN args |-> Deref(mem, args[i])]
           n == Len(args)
<1>1. CASE WrongCount(name, n)
  <2>1. result = CountError(name)
    BY <1>1, Zenon DEF BuiltinResults
  <2>2. Failed(CountError(name))
    BY SimpleOutcomes DEF CountError
  <2> QED BY <2>1, <2>2 DEF Returned, Outcome
<1>2. CASE ~WrongCount(name, n)
  <2>1. /\ n \in Nat /\ DOMAIN ds = 1 .. n /\ Len(ds) = n
        /\ \A i \in 1 .. n : IsContent(ds[i]) /\ args[i] \in StackValues
    BY DEF DerefOK
  <2>2. ContentsOf(ds)
    BY <2>1 DEF ContentsOf
  <2> HIDE DEF ds, n
  <2>3. CASE name = "input"
    <3>1. result \in {Str(line) : line \in Inputs}
      BY <1>2, <2>3, Zenon DEF BuiltinResults, n
    <3>2. PICK line \in Inputs : result = Str(line)
      BY <3>1, Zenon
    <3>3. line \in Seq(STRING)
      BY InputsAssumption
    <3> QED BY <3>2, <3>3, HeapDataMade, SimpleOutcomes DEF Returned
  <2>4. CASE name = "random"
    <3>1. result \in RandomsOf(ds)
      BY <1>2, <2>4, Zenon DEF BuiltinResults, ds, n
    <3> QED BY <1>2, <2>1, <2>2, <2>4, <3>1, RandomsOutcome, RightCount DEF Returned
  <2>5. CASE name \notin {"input", "random"}
    <3>1. result = BuiltinResult(mem, name, args)
      BY <1>2, <2>5, Zenon DEF BuiltinResults, n
    <3>2. CASE name \in {"print", "println", "__trigger_gc"}
      <4>1. result = Nil
        BY <3>1, <3>2, Zenon DEF BuiltinResult
      <4> QED BY <4>1, StackValueMade, SimpleOutcomes DEF Returned
    <3>3. CASE name = "assert"
      <4>1. result = AssertResult(ds[1])
        BY <3>1, <3>3, Zenon DEF BuiltinResult, ds
      <4> QED BY <1>2, <2>1, <3>3, <4>1, SmallBuiltins, RightCount DEF Returned
    <3>4. CASE name = "error"
      <4>1. result = Error("RuntimeError")
        BY <3>1, <3>4, Zenon DEF BuiltinResult
      <4> QED BY <4>1, SimpleOutcomes DEF Returned, Outcome
    <3>5. CASE name = "len"
      <4>1. result = LengthOf(ds[1])
        BY <3>1, <3>5, Zenon DEF BuiltinResult, ds
      <4> QED BY <1>2, <2>1, <3>5, <4>1, SmallBuiltins, RightCount DEF Returned
    <3>6. CASE name \in {"head", "tail"}
      <4>1. result = SplitOf(name, ds[1])
        BY <3>1, <3>6, Zenon DEF BuiltinResult, ds
      <4> QED BY <1>2, <2>1, <3>6, <4>1, SplitReturned, RightCount
    <3>7. CASE name = "drop"
      <4>1. result = SliceOf(ds[1], {ds[2]}, ds[2], Nil)
        BY <3>1, <3>7, Zenon DEF BuiltinResult, ds
      <4>2. IsContent(ds[1]) /\ IsContent(ds[2])
        BY <1>2, <2>1, <3>7, RightCount
      <4> QED BY <4>1, <4>2, SliceOfOutcome DEF Returned
    <3>8. CASE name = "take"
      <4>1. result = SliceOf(ds[1], {ds[2]}, Nil, ds[2])
        BY <3>1, <3>8, Zenon DEF BuiltinResult, ds
      <4>2. IsContent(ds[1]) /\ IsContent(ds[2])
        BY <1>2, <2>1, <3>8, RightCount
      <4> QED BY <4>1, <4>2, SliceOfOutcome DEF Returned
    <3>9. CASE name = "slice"
      <4>1. result = SliceOf(ds[1], {ds[2], ds[3]}, ds[2], ds[3])
        BY <3>1, <3>9, Zenon DEF BuiltinResult, ds
      <4>2. IsContent(ds[1]) /\ IsContent(ds[2]) /\ IsContent(ds[3])
        BY <1>2, <2>1, <3>9, RightCount
      <4> QED BY <4>1, <4>2, SliceOfOutcome DEF Returned
    <3>10. CASE name = "sum"
      <4>1. result = SumOf(mem, ds[1])
        BY <3>1, <3>10, Zenon DEF BuiltinResult, ds
      <4> QED BY <1>2, <2>1, <3>10, <4>1, SumOutcome, RightCount DEF Returned
    <3>11. CASE name \in {"all", "any"}
      <4>1. result = AllAny(mem, name = "all", ds[1])
        BY <3>1, <3>11, Zenon DEF BuiltinResult, ds
      <4>2. IsContent(ds[1])
        BY <1>2, <2>1, <3>11, RightCount
      <4>3. (name = "all") \in BOOLEAN
        OBVIOUS
      <4> QED BY <4>1, <4>2, <4>3, AllAnyOutcome, Zenon DEF Returned
    <3>12. CASE name = "id"
      <4>1. result = args[1]
        BY <3>1, <3>12, Zenon DEF BuiltinResult
      <4> QED BY <1>2, <2>1, <3>12, <4>1, SimpleOutcomes, RightCount DEF Returned
    <3>13. CASE name = "range"
      <4>1. result = RangeOf(ds)
        BY <3>1, <3>13, Zenon DEF BuiltinResult, ds
      <4>2. Len(ds) \in 1 .. 3
        BY <1>2, <2>1, <3>13, RightCount
      <4> QED BY <2>1, <2>2, <4>1, <4>2, RangeOutcome DEF Returned
    <3>14. CASE name = "int"
      <4>1. result = IntOf(ds)
        BY <3>1, <3>14, Zenon DEF BuiltinResult, ds
      <4> QED BY <1>2, <2>1, <2>2, <3>14, <4>1, IntOutcome, RightCount DEF Returned
    <3>15. CASE name = "str"
      <4>1. result = Str(TextOf(mem, args[1]))
        BY <3>1, <3>15, Zenon DEF BuiltinResult, StrOf
      <4> QED BY <4>1, HeapDataMade, SimpleOutcomes DEF Returned, TextTyped
    <3>16. CASE name = "sleep"
      <4>1. result = SleepResult(ds)
        BY <3>1, <3>16, Zenon DEF BuiltinResult, ds
      <4> QED BY <4>1, StackValueMade, SimpleOutcomes DEF SleepResult, Expect, Returned, Outcome
    <3> QED
      BY <2>5, <3>2, <3>3, <3>4, <3>5, <3>6, <3>7, <3>8, <3>9, <3>10, <3>11, <3>12, <3>13,
         <3>14, <3>15, <3>16 DEF Known, KnownBuiltins, CallingBack
  <2> QED BY <2>3, <2>4, <2>5
<1> QED BY <1>1, <1>2
=============================================================================
