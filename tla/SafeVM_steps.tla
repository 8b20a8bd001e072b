----------------------------- MODULE SafeVM_steps -----------------------------
(***************************************************************************)
(* The steps of the interpreter that stay in one frame keep SafeVM's       *)
(* invariant: all instructions but the calls that begin an activation, and *)
(* the collector that runs between two instructions.                       *)
(***************************************************************************)
EXTENDS SafeVM_values

----------------------------------------------------------------------------
(* The heap *)

MemoryOK(h) == DOMAIN h = Cells /\ \A c \in Cells : IsHeapData(h[c])

ConstantsOK ==
  DOMAIN constants = DOMAIN program.constants /\ \A i \in DOMAIN constants : ConstantKept(i)

ProgramOK == WellFormed(program, Shape)

\* A template is a closure once it has its cells.
LEMMA TemplateKept ==
  ASSUME ConstantsOK, ProgramOK, NEW i \in Templates(program)
  PROVE  LET f == program.constants[i][2]
             g == constants[i][2]
         IN  /\ i \in DOMAIN constants /\ i \in DOMAIN program.constants
             /\ IsA("fun", constants[i]) /\ constants[i] = Fun(g)
             /\ g = [f EXCEPT !.name = g.name]
             /\ f \in [chunk : Nat, arity : Nat, name : STRING, curried : {<<>>}, upvals : {<<>>}]
             /\ DOMAIN g = {"chunk", "arity", "name", "curried", "upvals"}
             /\ g.chunk \in Nat /\ g.chunk = f.chunk /\ g.chunk + 1 \in DOMAIN Shape
             /\ g.arity = f.arity /\ g.arity = Shape[g.chunk + 1].arity
             /\ g.curried = <<>> /\ g.upvals = <<>>
<1> DEFINE T == [chunk : Nat, arity : Nat, name : STRING, curried : {<<>>}, upvals : {<<>>}]
           f == program.constants[i][2]
           g == [f EXCEPT !.name = constants[i][2].name]
<1>1. i \in DOMAIN constants /\ i \in DOMAIN program.constants /\ IsA("fun", program.constants[i])
  BY DEF ConstantsOK, Templates
<1>2. f \in T /\ f.chunk + 1 \in DOMAIN Shape /\ f.arity = Shape[f.chunk + 1].arity
  BY <1>1 DEF ProgramOK, WellFormed, ConstantFits, IsA, Nil
<1>3. constants[i] = Fun(g)
  BY <1>1 DEF ConstantsOK, ConstantKept
<1>4. constants[i][2] = g /\ IsA("fun", constants[i])
  BY <1>3 DEF Fun, IsA
<1>5. /\ DOMAIN g = {"chunk", "arity", "name", "curried", "upvals"}
      /\ g.chunk = f.chunk /\ g.arity = f.arity /\ g.curried = <<>> /\ g.upvals = <<>>
      /\ g.chunk \in Nat
  BY <1>2
<1> QED BY <1>1, <1>2, <1>3, <1>4, <1>5

\* OpConstant finds a complete value in the constant it names.
LEMMA LoadableContent ==
  ASSUME ConstantsOK, ProgramOK, NEW i \in Loadable(program, Shape)
  PROVE  IsContent(constants[i])
<1>1. i \in DOMAIN constants /\ i \in DOMAIN program.constants
  BY DEF ConstantsOK, Loadable
<1>2. CASE i \in Templates(program)
  <2> DEFINE f == constants[i][2]
  <2>1. Shape[program.constants[i][2].chunk + 1].cells = 0
    BY <1>2 DEF Loadable, CellsOf
  <2>2. IsClosure(f)
    <3>1. /\ DOMAIN f = {"chunk", "arity", "name", "curried", "upvals"}
          /\ f.curried = <<>> /\ f.upvals = <<>>
          /\ f.chunk = program.constants[i][2].chunk
          /\ f.chunk \in Nat /\ f.chunk + 1 \in DOMAIN Shape
          /\ f.arity = Shape[f.chunk + 1].arity
      BY <1>2, TemplateKept
    <3> HIDE DEF f
    <3>2. <<>> \in Seq(StackValues) /\ <<>> \in Seq(UpvalueCells) /\ Len(<<>>) = 0
      OBVIOUS
    <3> QED BY <2>1, <3>1, <3>2 DEF IsClosure
  <2>3. constants[i] = Fun(f)
    BY <1>2, TemplateKept
  <2> HIDE DEF f
  <2> QED BY <2>2, <2>3, HeapDataMade DEF IsContent
<1>3. CASE i \notin Templates(program)
  <2>1. constants[i] = program.constants[i]
    BY <1>1, <1>3 DEF ConstantsOK, ConstantKept
  <2>2. program.constants[i] \in {Nil} \cup ({"bool"} \X BOOLEAN) \cup ({"int"} \X Int)
                                   \cup ({"str"} \X Seq(STRING))
    BY <1>1, <1>3 DEF ProgramOK, WellFormed, ConstantFits, Templates, IsA
  <2> QED BY <2>1, <2>2 DEF IsContent, IsHeapData, StackValues, IsPointer, Nil
<1> QED BY <1>2, <1>3

\* Following a pointer gives a string, an array, a function or nothing.
LEMMA DerefIsContent ==
  ASSUME ConstantsOK, ProgramOK, NEW h, MemoryOK(h)
  PROVE  DerefOK([heap |-> h, constants |-> constants])
<1> DEFINE mem == [heap |-> h, constants |-> constants]
<1> SUFFICES ASSUME NEW v \in StackValues
             PROVE  IsContent(Deref(mem, v))
  BY DEF DerefOK
<1>1. CASE IsA("cell", v)
  <2>1. Deref(mem, v) = h[v[2]] /\ v[2] \in Cells
    BY <1>1, StackValueKinds DEF Deref
  <2> QED BY <2>1 DEF MemoryOK, IsContent
<1>2. CASE IsA("const", v)
  <2>1. Deref(mem, v) = constants[v[2]] /\ v[2] \in Loadable(program, Shape)
    BY <1>2, StackValueKinds DEF Deref, IsA
  <2> QED BY <2>1, LoadableContent
<1>3. CASE ~IsA("cell", v) /\ ~IsA("const", v)
  BY <1>3 DEF Deref, IsContent, IsPointer, IsA
<1> QED BY <1>1, <1>2, <1>3

----------------------------------------------------------------------------
(* Storing values *)

FreeOf(h) == {c \in Cells : h[c] = Free}

\* What was there stays.
Extends(h, g) == \A c \in Cells : h[c] # Free => g[c] = h[c]

\* The addresses are finitely many, so that free ones can be counted.
LEMMA FreeIsFinite ==
  ASSUME NEW h
  PROVE  IsFiniteSet(FreeOf(h)) /\ Cardinality(FreeOf(h)) \in Nat
<1>1. IsFiniteSet(Cells)
  BY BoundsAssumption, FS_Interval DEF Cells
<1> QED BY <1>1, FS_Subset, FS_CardinalityType DEF FreeOf

\* The allocator hands out a cell that is free.
LEMMA LowestFreeIsFree ==
  ASSUME NEW n \in Nat, NEW h, DOMAIN h = 1 .. n, \E c \in 1 .. n : h[c] = Free
  PROVE  LowestFree(h) \in 1 .. n /\ h[LowestFree(h)] = Free
<1> DEFINE K == {c \in 1 .. n : h[c] = Free}
<1>1. K \in SUBSET Nat /\ K # {}
  OBVIOUS
<1>2. PICK least \in K : \A b \in K : least <= b
  <2> HIDE DEF K
  <2> QED BY <1>1, Summing!Least
<1>3. \E a \in DOMAIN h : h[a] = Free /\ \A b \in DOMAIN h : h[b] = Free => a <= b
  BY <1>2
<1> QED BY <1>3, Zenon DEF LowestFree

\* heap_store gives a StackValue and keeps everything that is there.
LEMMA HeapStoreKeeps ==
  ASSUME NEW h, MemoryOK(h), NEW d, IsData(d), Cardinality(FreeOf(h)) >= 1
  PROVE  LET stored == HeapStore(h, d)
         IN  /\ stored.value \in StackValues
             /\ MemoryOK(stored.heap) /\ Extends(h, stored.heap)
             /\ Cardinality(FreeOf(stored.heap)) >= Cardinality(FreeOf(h)) - 1
             /\ d \in StackValues => stored = [heap |-> h, value |-> d]
<1> DEFINE stored == HeapStore(h, d)
<1>0. IsFiniteSet(FreeOf(h)) /\ Cardinality(FreeOf(h)) \in Nat
  BY FreeIsFinite
<1>1. CASE IsStackValue(d)
  <2>1. stored = [heap |-> h, value |-> d]
    BY <1>1 DEF HeapStore
  <2>2. d \in StackValues
    BY <1>1, HeapDataKinds DEF IsData
  <2> QED BY <1>0, <2>1, <2>2 DEF Extends
<1>2. CASE ~IsStackValue(d)
  <2> DEFINE c == LowestFree(h)
  <2>1. stored = [heap |-> [h EXCEPT ![c] = d], value |-> Cell(c)]
    BY <1>2, Zenon DEF HeapStore
  <2>2. IsHeapData(d) /\ d \notin StackValues
    BY <1>2, StackValueKinds DEF IsData
  <2>3. c \in Cells /\ h[c] = Free
    <3>1. FreeOf(h) # {}
      BY <1>0, FS_EmptySet
    <3> QED BY <3>1, BoundsAssumption, LowestFreeIsFree DEF MemoryOK, Cells, FreeOf
  <2> HIDE DEF c
  <2>4. MemoryOK(stored.heap) /\ Extends(h, stored.heap) /\ stored.value \in StackValues
    BY <2>1, <2>2, <2>3, StackValueMade DEF MemoryOK, Extends
  <2>5. FreeOf(h) \ {c} \subseteq FreeOf(stored.heap)
    BY <2>1, <2>3 DEF FreeOf, MemoryOK
  <2>6. Cardinality(FreeOf(h) \ {c}) = Cardinality(FreeOf(h)) - 1
    BY <1>0, <2>3, FS_RemoveElement DEF FreeOf
  <2>7. Cardinality(FreeOf(h) \ {c}) <= Cardinality(FreeOf(stored.heap))
    BY <2>5, FreeIsFinite, FS_Subset
  <2>8. Cardinality(FreeOf(stored.heap)) \in Nat
    BY FreeIsFinite
  <2> QED BY <1>0, <2>2, <2>4, <2>6, <2>7, <2>8
<1> QED BY <1>1, <1>2

\* Room for one value, and for the parts of a pair.
LEMMA RoomForOne ==
  ASSUME HasRoom
  PROVE  Cardinality(FreeOf(heap)) >= 3
BY Zenon DEF HasRoom, FreeCells, FreeOf

StoreOp(env, acc, x) ==
  LET stored == HeapStore(acc.heap, x)
  IN  [heap |-> stored.heap, elements |-> Append(acc.elements, stored.value)]
StoreKeeps(env, k, acc) ==
  /\ acc = [heap |-> acc.heap, elements |-> acc.elements]
  /\ MemoryOK(acc.heap) /\ Extends(env.heap, acc.heap)
  /\ acc.elements \in Seq(StackValues)
  /\ Cardinality(FreeOf(acc.heap)) >= env.room[k]
Storing == INSTANCE FoldTheorems WITH Op <- StoreOp, Keeps <- StoreKeeps

\* A builtin's result is a StackValue after the parts of a pair were stored.
LEMMA StoredKeeps ==
  ASSUME MemoryOK(heap), HasRoom, NEW d, Returned(d), ~Failed(d)
  PROVE  LET stored == Stored(d)
         IN  /\ stored.value \in StackValues
             /\ MemoryOK(stored.heap) /\ Extends(heap, stored.heap)
<1>0. Cardinality(FreeOf(heap)) >= 3 /\ Cardinality(FreeOf(heap)) \in Nat
  BY RoomForOne, FreeIsFinite
<1>1. CASE ~IsA("vec", d)
  <2>1. Stored(d) = HeapStore(heap, d)
    BY <1>1, Zenon DEF Stored
  <2>2. IsData(d)
    BY <1>1 DEF Returned, Outcome, IsPair, Vec, IsA
  <2> QED BY <1>0, <2>1, <2>2, HeapStoreKeeps
<1>2. CASE IsA("vec", d)
  <2> DEFINE s == d[2]
             base == [heap |-> heap, elements |-> <<>>]
             pair == ~IsData(d)
             env == [heap |-> heap,
                     room |-> [k \in 0 .. Len(s) |-> IF pair THEN 3 - k ELSE 3]]
             parts == Storing!Folded(env, base, s)
  <2>1. Stored(d) = HeapStore(parts.heap, Vec(parts.elements))
    BY <1>2, Zenon DEF Stored, StoreOp, FoldLeft, Storing!Folded, Storing!FoldLeft, MapThenFoldSet,
                       Storing!MapThenFoldSet, Max, Storing!Max
  <2>2. /\ Len(s) \in Nat /\ DOMAIN s = 1 .. Len(s)
        /\ \A k \in 1 .. Len(s) : IsData(s[k]) /\ (~pair => s[k] \in StackValues)
        /\ pair => Len(s) = 2
    <3>1. CASE IsData(d)
      <4>1. s \in Seq(StackValues)
        BY <1>2, <3>1, HeapDataKinds, StackValueKinds DEF IsData, IsA, StackTags
      <4> QED BY <3>1, <4>1 DEF IsData
    <3>2. CASE ~IsData(d)
      <4>1. PICK x, y : d = Vec(<<x, y>>) /\ IsData(x) /\ IsData(y)
        BY <3>2 DEF Returned, Outcome, IsPair
      <4>2. s = <<x, y>>
        BY <4>1 DEF Vec
      <4> QED BY <3>2, <4>1, <4>2
    <3> QED BY <3>1, <3>2
  <2>3. StoreKeeps(env, 0, base)
    <3>1. env.room[0] = 3 /\ env.heap = heap /\ base.heap = heap /\ base.elements = <<>>
      BY <2>2
    <3>2. base = [heap |-> base.heap, elements |-> base.elements]
      OBVIOUS
    <3> HIDE DEF env, base
    <3> QED BY <1>0, <3>1, <3>2 DEF StoreKeeps, Extends
  <2>4. ASSUME NEW k \in 1 .. Len(s), NEW acc, StoreKeeps(env, k - 1, acc)
        PROVE  StoreKeeps(env, k, StoreOp(env, acc, s[k]))
    <3> DEFINE stored == HeapStore(acc.heap, s[k])
               free == Cardinality(FreeOf(acc.heap))
               after == Cardinality(FreeOf(stored.heap))
    <3>1. /\ env.heap = heap
          /\ env.room[k - 1] = IF pair THEN 3 - (k - 1) ELSE 3
          /\ env.room[k] = IF pair THEN 3 - k ELSE 3
          /\ pair => k <= 2
      BY <2>2
    <3>2. /\ MemoryOK(acc.heap) /\ Extends(heap, acc.heap)
          /\ acc.elements \in Seq(StackValues)
          /\ free >= env.room[k - 1]
      BY <2>4, <3>1 DEF StoreKeeps
    <3>3. free \in Nat /\ after \in Nat
      BY FreeIsFinite
    <3>4. IsData(s[k]) /\ (~pair => s[k] \in StackValues)
      BY <2>2
    <3> HIDE DEF env, s, pair
    <3>5. free >= 1
      BY <3>1, <3>2, <3>3
    <3>6. /\ stored.value \in StackValues
          /\ MemoryOK(stored.heap) /\ Extends(acc.heap, stored.heap)
          /\ after >= free - 1
          /\ s[k] \in StackValues => stored = [heap |-> acc.heap, value |-> s[k]]
      BY <3>2, <3>4, <3>5, HeapStoreKeeps
    <3>7. s[k] \in StackValues => after = free
      BY <3>6
    <3>8. after >= env.room[k]
      <4> HIDE DEF free, after
      <4> QED BY <3>1, <3>2, <3>3, <3>4, <3>6, <3>7
    <3>9. Extends(heap, stored.heap)
      BY <3>2, <3>6 DEF Extends
    <3>10. Append(acc.elements, stored.value) \in Seq(StackValues)
      BY <3>2, <3>6
    <3>11. StoreOp(env, acc, s[k]) =
             [heap |-> stored.heap, elements |-> Append(acc.elements, stored.value)]
      BY Zenon DEF StoreOp
    <3> HIDE DEF stored
    <3> QED BY <3>1, <3>6, <3>8, <3>9, <3>10, <3>11 DEF StoreKeeps
  <2>5. StoreKeeps(env, Len(s), parts)
    <3> HIDE DEF env, base, s
    <3> QED BY <2>2, <2>3, <2>4, Storing!FoldLeftKeeps, Zenon
  <2>6. env.room[Len(s)] >= 1 /\ env.heap = heap
    BY <2>2
  <2> HIDE DEF env, parts
  <2>7. /\ MemoryOK(parts.heap) /\ Extends(heap, parts.heap)
        /\ Vec(parts.elements) \in {Vec(t) : t \in Seq(StackValues)}
        /\ Cardinality(FreeOf(parts.heap)) >= env.room[Len(s)]
        /\ IsData(Vec(parts.elements))
    BY <2>5, <2>6, HeapDataMade DEF StoreKeeps, IsData
  <2>8. Cardinality(FreeOf(parts.heap)) \in Nat
    BY FreeIsFinite
  <2>9. env.room[Len(s)] \in Int
    BY <2>2 DEF env
  <2>10. Cardinality(FreeOf(parts.heap)) >= 1
    BY <2>6, <2>7, <2>8, <2>9
  <2> QED BY <2>1, <2>7, <2>10, HeapStoreKeeps DEF Extends
<1> QED BY <1>1, <1>2

----------------------------------------------------------------------------
(* Arguments and captured variables *)

\* A function on an interval is a list.
LEMMA ListOf ==
  ASSUME NEW S, NEW n \in Nat, NEW f, f = [i \in 1 .. n |-> f[i]],
         \A i \in 1 .. n : f[i] \in S
  PROVE  f \in Seq(S) /\ Len(f) = n
<1>1. f \in [1 .. n -> S]
  OBVIOUS
<1> QED BY <1>1

MoveOp(env, t, i) == [t EXCEPT ![env[1] + i + env[2]] = t[env[1] + i]]
MoveKeeps(env, k, t) ==
  /\ t \in Seq(StackValues) /\ Len(t) = Len(env[3])
  /\ \A i \in 1 .. env[1] : t[i] = env[3][i]
  /\ \A i \in 1 .. env[4] : IF i <= env[4] - k THEN t[env[1] + i] = env[3][env[1] + i]
                            ELSE t[env[1] + i + env[2]] = env[3][env[1] + i]
Moving == INSTANCE FoldTheorems WITH Op <- MoveOp, Keeps <- MoveKeeps

\* Moving the arguments in place, the last one first, overwrites none that is
\* still to be moved: the curried arguments lie before them, and what is below
\* stays alone.
LEMMA InsertCurriedKeeps ==
  ASSUME NEW s \in Seq(StackValues), NEW base \in Nat, base <= Len(s),
         NEW curried \in Seq(StackValues)
  PROVE  LET t == InsertCurried(s, base, curried)
         IN  /\ t \in Seq(StackValues) /\ Len(t) = Len(s) + Len(curried)
             /\ \A i \in 1 .. base : t[i] = s[i]
             /\ \A i \in 1 .. Len(curried) : t[base + i] = curried[i]
             /\ \A i \in 1 .. Len(s) - base : t[base + i + Len(curried)] = s[base + i]
<1> DEFINE new == InsertCurried(s, base, curried)
<1> DEFINE k == Len(curried)
           n == Len(s) - base
           grown == s \o [i \in 1 .. k |-> Nil]
           order == Reverse([i \in 1 .. n |-> i])
           env == <<base, k, grown, n>>
           moved == Moving!Folded(env, grown, order)
<1>1. k \in Nat /\ n \in Nat /\ Len(s) \in Nat
  OBVIOUS
<1>2. /\ grown \in Seq(StackValues) /\ Len(grown) = Len(s) + k
      /\ \A i \in 1 .. Len(s) : grown[i] = s[i]
  <2>1. [i \in 1 .. k |-> Nil] \in Seq(StackValues) /\ Len([i \in 1 .. k |-> Nil]) = k
    BY <1>1, StackValueMade
  <2> QED BY <1>1, <2>1
<1>3. DOMAIN order = 1 .. n /\ \A j \in 1 .. n : order[j] = n - j + 1 /\ order[j] \in 1 .. n
  BY <1>1 DEF Reverse
<1>4. InsertCurried(s, base, curried) =
        [i \in DOMAIN moved |-> IF i \in base + 1 .. base + k THEN curried[i - base] ELSE moved[i]]
  <2>1. moved = FoldLeft(LAMBDA t, i : [t EXCEPT ![base + i + k] = t[base + i]], grown, order)
    BY Zenon DEF MoveOp, FoldLeft, Moving!Folded, Moving!FoldLeft, MapThenFoldSet,
                 Moving!MapThenFoldSet, Max, Moving!Max
  <2> HIDE DEF env, moved
  <2> QED BY <2>1, Zenon DEF InsertCurried
<1> HIDE DEF order
<1>5. MoveKeeps(env, 0, grown)
  <2> HIDE DEF grown
  <2>1. \A i \in 1 .. base : grown[i] = grown[i]
    OBVIOUS
  <2>2. \A i \in 1 .. n : i <= n - 0
    BY <1>1
  <2> QED BY <1>2, <2>1, <2>2 DEF MoveKeeps
<1>6. ASSUME NEW j \in 1 .. n, NEW t, MoveKeeps(env, j - 1, t)
      PROVE  MoveKeeps(env, j, MoveOp(env, t, order[j]))
  <2> DEFINE from == base + order[j]
             to == base + order[j] + k
  <2>1. /\ t \in Seq(StackValues) /\ Len(t) = Len(s) + k /\ Len(t) = Len(grown)
        /\ \A i \in 1 .. base : t[i] = grown[i]
        /\ \A i \in 1 .. n : IF i <= n - (j - 1) THEN t[base + i] = grown[base + i]
                             ELSE t[base + i + k] = grown[base + i]
    <3> HIDE DEF grown, n, k
    <3> QED BY <1>2, <1>6 DEF MoveKeeps
  <2>2. from \in 1 .. Len(t) /\ to \in 1 .. Len(t) /\ to > base
    <3>1. order[j] \in 1 .. n /\ Len(t) = Len(s) + k
      BY <1>3, <2>1
    <3> QED BY <1>1, <3>1
  <2>3. MoveOp(env, t, order[j]) = [t EXCEPT ![to] = t[from]]
    BY DEF MoveOp
  <2> HIDE DEF from, to
  <2>4. t[from] \in StackValues
    BY <2>1, <2>2
  <2>5. [t EXCEPT ![to] = t[from]] \in Seq(StackValues) /\ Len([t EXCEPT ![to] = t[from]]) = Len(t)
    BY <2>1, <2>2, <2>4
  <2>6. \A i \in 1 .. base : [t EXCEPT ![to] = t[from]][i] = t[i]
    BY <2>1, <2>2
  <2>7. ASSUME NEW i \in 1 .. n
        PROVE  IF i <= n - j THEN [t EXCEPT ![to] = t[from]][base + i] = grown[base + i]
               ELSE [t EXCEPT ![to] = t[from]][base + i + k] = grown[base + i]
    <3>1. order[j] = n - j + 1 /\ to = base + (n - j + 1) + k /\ from = base + (n - j + 1)
      BY <1>3 DEF from, to
    <3>2. base + i \in 1 .. Len(t) /\ base + i + k \in 1 .. Len(t)
      BY <1>1, <2>1
    <3>3. CASE i <= n - j
      <4>1. i <= n - (j - 1) /\ base + i # to
        BY <1>1, <3>1, <3>3
      <4> HIDE DEF n, k, grown
      <4> QED BY <2>1, <3>2, <3>3, <4>1
    <3>4. CASE i = n - j + 1
      <4>1. i <= n - (j - 1) /\ ~(i <= n - j) /\ base + i + k = to /\ from = base + i
        BY <1>1, <3>1, <3>4
      <4> HIDE DEF n, k, grown
      <4> QED BY <2>1, <3>2, <4>1
    <3>5. CASE i > n - j + 1
      <4>1. ~(i <= n - (j - 1)) /\ ~(i <= n - j) /\ base + i + k # to
        BY <1>1, <3>1, <3>5
      <4> HIDE DEF n, k, grown
      <4> QED BY <2>1, <3>2, <4>1
    <3>6. i <= n - j \/ i = n - j + 1 \/ i > n - j + 1
      BY <1>1
    <3> QED BY <3>3, <3>4, <3>5, <3>6, Zenon
  <2>8. \A i \in 1 .. base : [t EXCEPT ![to] = t[from]][i] = grown[i]
    BY <2>1, <2>6
  <2> HIDE DEF n, k, grown
  <2> QED BY <2>1, <2>3, <2>5, <2>7, <2>8 DEF MoveKeeps
<1>7. MoveKeeps(env, n, moved)
  <2> HIDE DEF env, grown, n
  <2> QED BY <1>1, <1>3, <1>5, <1>6, Moving!FoldLeftKeeps, Zenon
<1> HIDE DEF moved
<1>8. /\ moved \in Seq(StackValues) /\ Len(moved) = Len(s) + k
      /\ \A i \in 1 .. base : moved[i] = s[i]
      /\ \A i \in 1 .. n : moved[base + i + k] = s[base + i]
  <2>1. /\ moved \in Seq(StackValues) /\ Len(moved) = Len(grown)
        /\ \A i \in 1 .. base : moved[i] = grown[i]
        /\ \A i \in 1 .. n : IF i <= n - n THEN moved[base + i] = grown[base + i]
                             ELSE moved[base + i + k] = grown[base + i]
    <3> HIDE DEF grown, n, k
    <3> QED BY <1>7 DEF MoveKeeps
  <2> HIDE DEF grown
  <2>2. \A i \in 1 .. n : ~(i <= n - n) /\ base + i \in 1 .. Len(s)
    BY <1>1
  <2>3. \A i \in 1 .. base : i \in 1 .. Len(s)
    BY <1>1
  <2> QED BY <1>2, <2>1, <2>2, <2>3
<1>9. ASSUME NEW i \in 1 .. Len(s) + k
      PROVE  /\ new[i] \in StackValues /\ (i <= base => new[i] = s[i])
             /\ new[i] = IF i \in base + 1 .. base + k THEN curried[i - base] ELSE moved[i]
  <2>1. new[i] = IF i \in base + 1 .. base + k THEN curried[i - base] ELSE moved[i]
    BY <1>1, <1>4, <1>8
  <2>2. i \in base + 1 .. base + k => i - base \in 1 .. Len(curried)
    BY <1>1
  <2>3. moved[i] \in StackValues /\ (i <= base => moved[i] = s[i])
    BY <1>1, <1>8
  <2> HIDE DEF new
  <2> QED BY <1>1, <2>1, <2>2, <2>3
<1>10. new = [i \in 1 .. Len(s) + k |-> new[i]]
  BY <1>1, <1>4, <1>8
<1> HIDE DEF new, k, grown
<1>11. new \in Seq(StackValues) /\ Len(new) = Len(s) + k
  <2>1. Len(s) + k \in Nat /\ \A i \in 1 .. Len(s) + k : new[i] \in StackValues
    BY <1>1, <1>9
  <2> QED BY <1>10, <2>1, ListOf
<1>12. \A i \in 1 .. base : new[i] = s[i]
  BY <1>1, <1>9
<1>13. k = Len(curried) /\ n = Len(s) - base
  BY DEF k
<1>14. \A i \in 1 .. k : new[base + i] = curried[i]
  <2> TAKE i \in 1 .. k
  <2>1. base + i \in 1 .. Len(s) + k /\ base + i \in base + 1 .. base + k /\ (base + i) - base = i
    BY <1>1
  <2> QED BY <1>9, <2>1
<1>15. \A i \in 1 .. n : new[base + i + k] = s[base + i]
  <2> TAKE i \in 1 .. n
  <2>1. base + i + k \in 1 .. Len(s) + k /\ base + i + k \notin base + 1 .. base + k
    BY <1>1
  <2> QED BY <1>8, <1>9, <2>1
<1> QED BY <1>11, <1>12, <1>13, <1>14, <1>15, Zenon DEF new

\* The cells of the upvalues.
FreeUpvalues(store) == {u \in UpvalueCells : store[u] = Free}

CaptureOp(env, acc, upvalue) == Capture(acc, upvalue)
CaptureKeeps(env, k, acc) ==
  /\ acc = [refs |-> acc.refs, captured |-> acc.captured, store |-> acc.store]
  /\ acc.refs \in Seq(UpvalueCells) /\ Len(acc.refs) = k
  /\ \A s \in DOMAIN acc.captured : acc.captured[s] \in UpvalueCells
  /\ acc.store \in [UpvalueCells -> {Free} \cup StackValues]
  /\ Cardinality(FreeUpvalues(acc.store)) >= env - k
Capturing == INSTANCE FoldTheorems WITH Op <- CaptureOp, Keeps <- CaptureKeeps

\* A step of the loop over the captured variables, put together.
LEMMA CaptureMade ==
  ASSUME NEW n, NEW k, NEW refs \in Seq(UpvalueCells), Len(refs) = k, NEW captured,
         \A s \in DOMAIN captured : captured[s] \in UpvalueCells,
         NEW store \in [UpvalueCells -> {Free} \cup StackValues],
         Cardinality(FreeUpvalues(store)) >= n - k
  PROVE  CaptureKeeps(n, k, [refs |-> refs, captured |-> captured, store |-> store])
<1> DEFINE acc == [refs |-> refs, captured |-> captured, store |-> store]
<1>1. acc.refs = refs /\ acc.captured = captured /\ acc.store = store
  OBVIOUS
<1>2. acc = [refs |-> acc.refs, captured |-> acc.captured, store |-> acc.store]
  OBVIOUS
<1> HIDE DEF acc
<1> QED BY <1>1, <1>2 DEF CaptureKeeps

\* A captured variable takes one cell at most, and the cell it is given holds a
\* value: a local from the stack, or a cell of the function that runs.
LEMMA CaptureKeepsOne ==
  ASSUME NEW n \in Nat, NEW k \in 1 .. n, NEW acc, CaptureKeeps(n, k - 1, acc),
         NEW upvalue,
         upvalue.local => stack[SlotIndex(upvalue.index)] \in StackValues,
         ~upvalue.local => Frame.closure.upvals[upvalue.index + 1] \in UpvalueCells
  PROVE  CaptureKeeps(n, k, Capture(acc, upvalue))
<1> DEFINE i == upvalue.index
           fresh == LowestFree(acc.store)
           free == Cardinality(FreeUpvalues(acc.store))
<1>1. /\ acc = [refs |-> acc.refs, captured |-> acc.captured, store |-> acc.store]
      /\ acc.refs \in Seq(UpvalueCells) /\ Len(acc.refs) = k - 1
      /\ \A s \in DOMAIN acc.captured : acc.captured[s] \in UpvalueCells
      /\ acc.store \in [UpvalueCells -> {Free} \cup StackValues]
      /\ free >= n - (k - 1)
  BY DEF CaptureKeeps
<1>2. IsFiniteSet(FreeUpvalues(acc.store)) /\ free \in Nat
  <2>1. IsFiniteSet(UpvalueCells)
    BY BoundsAssumption, FS_Interval DEF UpvalueCells
  <2> QED BY <2>1, FS_Subset, FS_CardinalityType DEF FreeUpvalues
<1>3. ASSUME NEW ref \in UpvalueCells
      PROVE  CaptureKeeps(n, k, [acc EXCEPT !.refs = Append(@, ref)])
  <2> DEFINE new == [acc EXCEPT !.refs = Append(@, ref)]
  <2> DEFINE r == acc.refs
             c == acc.captured
             s == acc.store
  <2>1. new = [refs |-> Append(r, ref), captured |-> c, store |-> s]
    <3>1. acc = [refs |-> r, captured |-> c, store |-> s]
      BY <1>1
    <3>2. new = [acc EXCEPT !.refs = Append(r, ref)]
      OBVIOUS
    <3> HIDE DEF new, r, c, s
    <3> QED BY <3>1, <3>2
  <2>2. Append(r, ref) \in Seq(UpvalueCells) /\ Len(Append(r, ref)) = k
    BY <1>1, <1>3
  <2>3. Cardinality(FreeUpvalues(s)) >= n - k
    <3> HIDE DEF free
    <3>1. free >= n - k
      BY <1>1, <1>2
    <3> QED BY <3>1 DEF free
  <2>4. CaptureKeeps(n, k, [refs |-> Append(r, ref), captured |-> c, store |-> s])
    <3>1. s \in [UpvalueCells -> {Free} \cup StackValues]
          /\ \A slot \in DOMAIN c : c[slot] \in UpvalueCells
      BY <1>1
    <3> HIDE DEF r, c, s
    <3> QED BY <2>2, <2>3, <3>1, CaptureMade
  <2> QED BY <2>1, <2>4, Zenon
<1>4. CASE ~upvalue.local
  <2>1. Capture(acc, upvalue) = [acc EXCEPT !.refs = Append(@, Frame.closure.upvals[i + 1])]
    BY <1>4, Zenon DEF Capture
  <2> QED BY <1>3, <1>4, <2>1
<1>5. CASE upvalue.local /\ i \in DOMAIN acc.captured
  <2>1. Capture(acc, upvalue) = [acc EXCEPT !.refs = Append(@, acc.captured[i])]
    BY <1>5, Zenon DEF Capture
  <2> QED BY <1>1, <1>3, <1>5, <2>1
<1>6. CASE upvalue.local /\ i \notin DOMAIN acc.captured
  <2> DEFINE captured == [s \in DOMAIN acc.captured \cup {i} |->
                            IF s = i THEN fresh ELSE acc.captured[s]]
             store == [acc.store EXCEPT ![fresh] = stack[SlotIndex(i)]]
  <2>1. Capture(acc, upvalue) =
          [refs |-> Append(acc.refs, fresh), captured |-> captured, store |-> store]
    BY <1>6, Zenon DEF Capture
  <2>2. fresh \in UpvalueCells /\ acc.store[fresh] = Free
    <3>1. free >= 1
      <4> HIDE DEF free
      <4> QED BY <1>1, <1>2
    <3>2. FreeUpvalues(acc.store) # {}
      BY <3>1, FS_EmptySet
    <3> QED BY <1>1, <3>2, BoundsAssumption, LowestFreeIsFree DEF FreeUpvalues, UpvalueCells
  <2> HIDE DEF fresh
  <2>3. Append(acc.refs, fresh) \in Seq(UpvalueCells) /\ Len(Append(acc.refs, fresh)) = k
    BY <1>1, <2>2
  <2>4. \A s \in DOMAIN captured : captured[s] \in UpvalueCells
    BY <1>1, <2>2
  <2>5. store \in [UpvalueCells -> {Free} \cup StackValues]
    BY <1>1, <1>6, <2>2
  <2>6. Cardinality(FreeUpvalues(store)) >= n - k
    <3>1. FreeUpvalues(acc.store) \ {fresh} \subseteq FreeUpvalues(store)
      BY <1>1, <2>2 DEF FreeUpvalues
    <3>2. Cardinality(FreeUpvalues(acc.store) \ {fresh}) = free - 1
      BY <1>2, <2>2, FS_RemoveElement DEF FreeUpvalues
    <3>3. IsFiniteSet(FreeUpvalues(store)) /\ Cardinality(FreeUpvalues(store)) \in Nat
      <4>1. IsFiniteSet(UpvalueCells)
        BY BoundsAssumption, FS_Interval DEF UpvalueCells
      <4> QED BY <4>1, FS_Subset, FS_CardinalityType DEF FreeUpvalues
    <3>4. free - 1 <= Cardinality(FreeUpvalues(store))
      BY <3>1, <3>2, <3>3, FS_Subset
    <3> HIDE DEF free, store
    <3> QED BY <1>1, <1>2, <3>3, <3>4
  <2>7. CaptureKeeps(n, k, [refs |-> Append(acc.refs, fresh), captured |-> captured,
                            store |-> store])
    <3> HIDE DEF captured, store
    <3> QED BY <2>3, <2>4, <2>5, <2>6, CaptureMade
  <2> QED BY <2>1, <2>7, Zenon
<1> QED BY <1>4, <1>5, <1>6


----------------------------------------------------------------------------
(* The running frame *)

\* Typed in the form that the operations need.
LEMMA TypedMeans ==
  ASSUME Typed
  PROVE  /\ ProgramOK /\ ConstantsOK /\ MemoryOK(heap) /\ DerefOK(Memory)
         /\ Len(stack) \in Nat /\ Len(frames) \in Nat /\ Len(calls) \in Nat
         /\ DOMAIN frames = 1 .. Len(frames) /\ DOMAIN calls = 1 .. Len(calls)
<1>1. ProgramOK
  BY ProgramsAssumption DEF Typed, ProgramOK, Shape
<1>2. ConstantsOK /\ MemoryOK(heap)
  BY DEF Typed, ConstantsOK, MemoryOK
<1>3. DerefOK(Memory)
  BY <1>1, <1>2, DerefIsContent DEF Memory
<1> QED BY <1>1, <1>2, <1>3 DEF Typed

\* CallStackMatches for the innermost activation and for each call.
LEMMA MatchParts ==
  ASSUME CallStackMatches, mode \in {"run", "native"}
  PROVE  /\ mode = "run" => /\ Len(frames) = Target \/ Len(frames) = Target + 1
                            /\ calls # <<>> => Last(calls).kind # "native"
         /\ mode = "native" => /\ calls # <<>> /\ Last(calls).kind = "native"
                               /\ Len(frames) = Target
         /\ \A i \in DOMAIN calls :
              /\ calls[i].target = TargetOf(i)
              /\ calls[i].kind = "callback" <=> i > 1 /\ calls[i - 1].kind = "native"
              /\ calls[i].kind = "call" /\ calls[i].target < Len(frames) =>
                   frames[calls[i].target + 1].fp = Len(calls[i].below) + 1
              /\ calls[i].kind = "callback" /\ calls[i].target < Len(frames) =>
                   frames[calls[i].target + 1].fp = Len(calls[i].below) + 0
<1>1. /\ mode = "run" => Len(frames) \in {Target, Target + 1}
      /\ mode = "run" => (calls # <<>> => Last(calls).kind # "native")
      /\ mode = "native" => calls # <<>> /\ Last(calls).kind = "native" /\ Len(frames) = Target
      /\ \A i \in DOMAIN calls :
           /\ calls[i].target = TargetOf(i)
           /\ calls[i].kind = "callback" <=> i > 1 /\ calls[i - 1].kind = "native"
           /\ calls[i].kind # "native" /\ calls[i].target < Len(frames) =>
                frames[calls[i].target + 1].fp =
                  Len(calls[i].below) + (IF calls[i].kind = "call" THEN 1 ELSE 0)
  BY Zenon DEF CallStackMatches
<1>2. mode = "run" => Len(frames) = Target \/ Len(frames) = Target + 1
  BY <1>1, Zenon
<1>3. ASSUME NEW i \in DOMAIN calls
      PROVE  /\ calls[i].kind = "call" /\ calls[i].target < Len(frames) =>
                  frames[calls[i].target + 1].fp = Len(calls[i].below) + 1
             /\ calls[i].kind = "callback" /\ calls[i].target < Len(frames) =>
                  frames[calls[i].target + 1].fp = Len(calls[i].below) + 0
  BY <1>1, Zenon
<1> QED BY <1>1, <1>2, <1>3, Zenon

\* What holds of the innermost target holds of all targets.
LEMMA Targets ==
  ASSUME Typed, CallStackMatches, mode \in {"run", "native"}
  PROVE  /\ Target \in Nat /\ Target <= Len(frames)
         /\ \A i \in DOMAIN calls : calls[i].target \in 1 .. Target
<1> DEFINE n == Len(calls)
<1>0. n \in Nat /\ DOMAIN calls = 1 .. n /\ Len(frames) \in Nat
  BY TypedMeans
<1>1. \A i \in 1 .. n : calls[i].target \in Nat /\ calls[i].target = TargetOf(i)
  BY <1>0 DEF Typed, CallOK, CallStackMatches
<1>2. calls = <<>> <=> n = 0
  BY <1>0, EmptySeq DEF Typed
<1>3. Target = IF n = 0 THEN 0 ELSE calls[n].target
  BY <1>2 DEF Target, Last
<1>4. Target \in Nat
  BY <1>0, <1>1, <1>3
<1>5. Target <= Len(frames)
  BY <1>0, <1>4, MatchParts
<1>6. \A i \in 1 .. n : i > 1 => calls[i - 1].target <= calls[i].target
  <2> SUFFICES ASSUME NEW i \in 1 .. n, i > 1
               PROVE  calls[i - 1].target <= calls[i].target
    OBVIOUS
  <2>1. i - 1 \in 1 .. n
    OBVIOUS
  <2> QED BY <1>1, <2>1 DEF TargetOf
<1>7. ASSUME NEW i \in 1 .. n PROVE calls[i].target >= 1
  <2> DEFINE low == {k \in 1 .. n : calls[k].target < 1}
  <2> SUFFICES ASSUME low # {} PROVE FALSE
    BY <1>1
  <2>1. low \in SUBSET Nat
    OBVIOUS
  <2>2. PICK k \in low : \A l \in low : k <= l
    <3> HIDE DEF low
    <3> QED BY <2>1, Summing!Least
  <2>3. k \in 1 .. n /\ calls[k].target < 1
    OBVIOUS
  <2>4. k # 1
    BY <1>1, <2>3 DEF TargetOf
  <2>5. k - 1 \in 1 .. n /\ calls[k - 1].target <= calls[k].target
    BY <1>6, <2>3, <2>4
  <2>6. k - 1 \in low
    BY <1>1, <2>3, <2>5
  <2> QED BY <2>2, <2>3, <2>6
<1>8. ASSUME NEW i \in 1 .. n PROVE calls[i].target <= Target
  <2> DEFINE high == {m \in 0 .. n - 1 : calls[n - m].target > Target}
  <2> SUFFICES ASSUME calls[i].target > Target PROVE FALSE
    BY <1>1, <1>4
  <2>1. n - i \in 0 .. n - 1 /\ n - (n - i) = i
    BY <1>0
  <2>9. calls[n - (n - i)].target > Target
    BY <2>1
  <2>2. high \in SUBSET Nat /\ high # {}
    <3> HIDE DEF n
    <3> QED BY <2>1, <2>9
  <2>3. PICK m \in high : \A l \in high : m <= l
    <3> HIDE DEF high
    <3> QED BY <2>2, Summing!Least
  <2>4. m \in 0 .. n - 1 /\ calls[n - m].target > Target
    OBVIOUS
  <2>5. m # 0
    BY <1>0, <1>3, <1>4, <2>4
  <2>6. n - m + 1 \in 1 .. n /\ (n - m + 1) - 1 = n - m /\ n - m + 1 > 1 /\ n - m \in 1 .. n
        /\ n - m + 1 = n - (m - 1) /\ m - 1 \in 0 .. n - 1
    BY <1>0, <2>4, <2>5
  <2>7. calls[n - m].target <= calls[n - m + 1].target
    BY <1>6, <2>6
  <2>8. m - 1 \in high
    BY <1>1, <1>4, <2>4, <2>6, <2>7
  <2> QED BY <2>3, <2>4, <2>8
<1> QED BY <1>0, <1>1, <1>4, <1>5, <1>7, <1>8

\* The frame of the code that runs lies above all calls.
LEMMA Running ==
  ASSUME Safe, InLoop
  PROVE  /\ mode = "run" /\ Len(frames) = Target + 1 /\ Target \in Nat
         /\ Frame = frames[Len(frames)] /\ FrameOK(Frame)
         /\ calls # <<>> => Last(calls).kind # "native"
         /\ \A i \in DOMAIN calls :
              /\ calls[i].target \in 1 .. Target
              /\ i = Len(calls) => calls[i].kind # "native"
              /\ Relied(calls[i]) <= Frame.fp
<1> DEFINE n == Len(calls)
<1>1. Typed /\ Isolated /\ Nested /\ mode = "run"
  BY DEF Safe, InLoop
<1>2. CallStackMatches
  BY <1>1 DEF Nested
<1>3. /\ n \in Nat /\ DOMAIN calls = 1 .. n /\ Len(frames) \in Nat
      /\ DOMAIN frames = 1 .. Len(frames)
  BY <1>1, TypedMeans
<1>4. Target \in Nat /\ \A i \in DOMAIN calls : calls[i].target \in 1 .. Target
  BY <1>1, <1>2, Targets
<1>5. Len(frames) = Target + 1
  <2>1. Len(frames) = Target \/ Len(frames) = Target + 1
    BY <1>1, <1>2, MatchParts, Zenon
  <2>2. Len(frames) > Target
    BY DEF InLoop
  <2>3. Len(frames) \in Nat /\ Target \in Nat
    BY <1>3, <1>4
  <2> QED BY <2>1, <2>2, <2>3
<1>6. Frame = frames[Len(frames)] /\ FrameOK(Frame)
  <2>1. Len(frames) \in DOMAIN frames
    BY <1>3, <1>4, <1>5
  <2> QED BY <1>1, <2>1 DEF Frame, Last, Typed
<1>7. calls # <<>> => Last(calls).kind # "native"
  BY <1>1, <1>2 DEF CallStackMatches
<1>8. calls = <<>> <=> n = 0
  BY <1>1, <1>3, EmptySeq DEF Typed
<1>9. ASSUME NEW i \in 1 .. n
      PROVE  /\ i = n => calls[i].kind # "native"
             /\ Relied(calls[i]) <= Frame.fp
  <2>1. n \in 1 .. n /\ n # 0 /\ Last(calls) = calls[n]
    BY <1>3, <1>9 DEF Last
  <2>2. calls[n].kind # "native" /\ Target = calls[n].target
    BY <1>7, <1>8, <2>1 DEF Target
  <2>3. calls[n].kind \in {"call", "callback"}
    BY <1>1, <1>3, <2>1, <2>2 DEF Typed, CallOK
  <2>4. /\ Target < Len(frames) /\ Frame = frames[calls[n].target + 1]
        /\ n \in DOMAIN calls
    BY <1>3, <1>4, <1>5, <1>6, <2>1, <2>2
  <2>5. Frame.fp = Len(calls[n].below) + 1 \/ Frame.fp = Len(calls[n].below) + 0
    BY <1>1, <1>2, <2>2, <2>3, <2>4, MatchParts
  <2>6. Len(calls[n].below) \in Nat /\ Len(calls[i].below) \in Nat
    BY <1>1, <1>3, <2>1 DEF Typed, CallOK
  <2>7. CASE i = n
    <3>1. Relied(calls[i]) = Len(calls[n].below)
      BY <2>2, <2>6, <2>7 DEF Relied
    <3> HIDE DEF n
    <3> QED BY <2>2, <2>5, <2>6, <2>7, <3>1
  <2>8. CASE i # n
    <3> HIDE DEF n
    <3>1. i < n /\ i \in DOMAIN calls
      BY <1>3, <2>8
    <3>2. Relied(calls[i]) <= Len(calls[n].below)
      BY <1>1, <2>4, <3>1, Zenon DEF Isolated
    <3>3. Relied(calls[i]) \in Int
      BY <2>6 DEF Relied
    <3> QED BY <2>5, <2>6, <2>8, <3>2, <3>3
  <2> QED BY <2>7, <2>8
<1> QED BY <1>1, <1>3, <1>4, <1>5, <1>6, <1>7, <1>9

\* The height of the frame, and what its code may take for granted.
Height == Len(stack) - Frame.fp

\* The instruction that runs finds its operands above the frame's start, names
\* slots of the frame, and goes on where the code has a height: what execute_op
\* relies on without a check.
LEMMA Fits ==
  ASSUME Safe, InLoop
  PROVE  /\ Height \in Nat /\ Frame.fp \in Nat /\ Len(stack) = Frame.fp + Height
         /\ Takes(Instr) <= Height
         /\ \A slot \in SlotsOf(Instr) : slot < Height - Reserves(Instr)
         /\ \A at \in Successors(CodeOf(Frame), <<Frame.ip, Height>>) :
              at[1] \in DOMAIN HeightsOf(Frame) /\ HeightsOf(Frame)[at[1]] = at[2]
         /\ OperandsFit(program, Shape, Shape[Frame.chunk + 1].cells, Instr)
         /\ Frame.ip \in Nat /\ Frame.chunk + 1 \in DOMAIN Shape
         /\ Instr = CodeOf(Frame)[Frame.ip + 1]
<1> DEFINE heights == HeightsOf(Frame)
<1>1. Typed /\ Nested
  BY DEF Safe, InLoop
<1>2. FrameOK(Frame) /\ ProgramOK /\ Len(stack) \in Nat
  BY <1>1, Running, TypedMeans
<1>3. Frame.fp \in Nat /\ Frame.ip \in Nat /\ Frame.chunk + 1 \in DOMAIN Shape
  BY <1>2 DEF FrameOK, IsClosure
<1>4. Frame.ip \in DOMAIN heights /\ Len(stack) = Frame.fp + heights[Frame.ip]
  BY <1>1 DEF Nested, HeightsMatch
<1>5. /\ HeightsFit(CodeOf(Frame), Shape[Frame.chunk + 1].arity, heights)
      /\ OperandsFit(program, Shape, Shape[Frame.chunk + 1].cells, Instr)
  BY <1>2, <1>3, <1>4 DEF ProgramOK, WellFormed, HeightsOf, CodeOf, Instr
<1>6. FitsAt(CodeOf(Frame), heights, Frame.ip)
  BY <1>4, <1>5 DEF HeightsFit
<1>7. Instr = CodeOf(Frame)[Frame.ip + 1]
  BY DEF Instr
<1>8. heights[Frame.ip] \in Nat
  BY <1>6 DEF FitsAt
<1>9. Height = heights[Frame.ip]
  <2> HIDE DEF heights
  <2> QED BY <1>2, <1>3, <1>4, <1>8 DEF Height
<1>10. /\ Takes(Instr) <= Height
       /\ \A slot \in SlotsOf(Instr) : slot < Height - Reserves(Instr)
       /\ \A at \in Successors(CodeOf(Frame), <<Frame.ip, Height>>) :
            at[1] \in DOMAIN heights /\ heights[at[1]] = at[2]
  <2> HIDE DEF heights
  <2> QED BY <1>6, <1>7, <1>9 DEF FitsAt
<1> QED BY <1>3, <1>4, <1>5, <1>7, <1>8, <1>9, <1>10

----------------------------------------------------------------------------
(* Steps of the running frame *)

\* The types of values depend on the program alone, which no step changes.
LEMMA SameProgram ==
  ASSUME program' = program
  PROVE  /\ Shape' = Shape /\ StackValues' = StackValues
         /\ \A f : IsClosure(f)' <=> IsClosure(f)
         /\ \A f : FrameOK(f)' <=> FrameOK(f)
         /\ \A c : CallOK(c)' <=> CallOK(c)
         /\ \A d : IsHeapData(d)' <=> IsHeapData(d)
         /\ \A f : HeightsOf(f)' = HeightsOf(f)
<1>1. Shape' = Shape
  BY DEF Shape
<1>2. StackValues' = StackValues
  BY <1>1 DEF StackValues
<1>3. \A f : IsClosure(f)' <=> IsClosure(f)
  BY <1>1, <1>2 DEF IsClosure
<1>4. \A f : FrameOK(f)' <=> FrameOK(f)
  BY <1>2, <1>3 DEF FrameOK
<1>5. \A c : CallOK(c)' <=> CallOK(c)
  BY <1>2 DEF CallOK
<1>6. \A d : IsHeapData(d)' <=> IsHeapData(d)
  BY <1>2, <1>3 DEF IsHeapData
<1>7. \A f : HeightsOf(f)' = HeightsOf(f)
  BY <1>1 DEF HeightsOf
<1> QED BY <1>1, <1>2, <1>3, <1>4, <1>5, <1>6, <1>7

\* The parts of the state that are typed independently of each other.
LEMMA TypedStep ==
  ASSUME Typed, program' = program,
         stack' \in Seq(StackValues),
         buffer'.cap \in Nat, buffer'.cap >= Len(stack'), DOMAIN buffer' = {"cap", "moves"},
         NEW S, frames' \in Seq(S), \A i \in DOMAIN frames' : FrameOK(frames'[i]),
         NEW T, calls' \in Seq(T), \A i \in DOMAIN calls' : CallOK(calls'[i]),
         MemoryOK(heap'),
         upvalues' \in [UpvalueCells -> {Free} \cup StackValues],
         ConstantsOK',
         mode' \in Modes \ {"waiting"},
         collected' \in 0 .. program.collections
  PROVE  Typed'
<1>1. frames' \in Seq(ToSet(frames')) /\ calls' \in Seq(ToSet(calls'))
  BY DEF ToSet
<1>2. \E name \in DOMAIN Programs : program' = Programs[name]
  BY DEF Typed
<1>3. DOMAIN heap' = Cells /\ \A c \in Cells : IsHeapData(heap'[c])
  BY DEF MemoryOK
<1>4. DOMAIN constants' = DOMAIN program' .constants /\ \A i \in DOMAIN constants' : ConstantKept(i)'
  BY DEF ConstantsOK
<1>5. /\ \A i \in DOMAIN frames' : FrameOK(frames[i])'
      /\ \A i \in DOMAIN calls' : CallOK(calls[i])'
      /\ \A c \in Cells : IsHeapData(heap[c])'
  BY <1>3, SameProgram
<1>6. /\ stack' \in Seq(StackValues')
      /\ upvalues' \in [UpvalueCells -> {Free} \cup StackValues']
  BY SameProgram
<1>7. collected' \in 0 .. program'.collections
  OBVIOUS
<1> QED BY <1>1, <1>2, <1>3, <1>4, <1>5, <1>6, <1>7 DEF Typed

\* An instruction that leaves the constants alone leaves templates templates.
LEMMA SameConstants ==
  ASSUME Typed, program' = program, constants' = constants
  PROVE  ConstantsOK'
<1>1. ConstantsOK
  BY TypedMeans
<1> QED BY <1>1 DEF ConstantsOK, ConstantKept

\* The vector's buffer has room for what is pushed.
LEMMA BufferGrows ==
  ASSUME Typed, NEW n \in Nat
  PROVE  /\ DOMAIN Grown(buffer, n) = {"cap", "moves"} /\ DOMAIN Reserved(buffer, n) = {"cap", "moves"}
         /\ Grown(buffer, n).cap \in Nat /\ Grown(buffer, n).cap >= n
         /\ Reserved(buffer, n).cap \in Nat /\ Reserved(buffer, n).cap >= n
<1>1. buffer.cap \in Nat /\ DOMAIN buffer = {"cap", "moves"}
  BY DEF Typed
<1> DEFINE c == buffer.cap
<1>2. 2 * c \in Nat
  BY <1>1
<1>3. (IF 2 * c >= n THEN 2 * c ELSE n) \in Nat /\ (IF 2 * c >= n THEN 2 * c ELSE n) >= n
  BY <1>2
<1>4. ~(n <= c) \/ c >= n
  BY <1>1
<1> QED BY <1>1, <1>3, <1>4 DEF Grown, Reserved

\* The stack from the frame's start on is the frame's own.
SameBelow(s) == \A k \in 1 .. Frame.fp : s[k] = stack[k]

\* The arrays that builtins hold keep their lengths.
HeldKept(h) ==
  \A i \in DOMAIN calls :
    calls[i].kind = "native" =>
      LET array == calls[i].args[2]
      IN  IsA("vec", h[array[2]]) /\ Len(h[array[2]][2]) = Len(heap[array[2]][2])

\* A record of a call has the fields that the catch and return paths read.
LEMMA CallMeans ==
  ASSUME NEW c, CallOK(c)
  PROVE  /\ c.kind \in {"call", "native", "callback"} /\ c.target \in Nat
         /\ c.below \in Seq(StackValues) /\ Len(c.below) \in Nat
         /\ Relied(c) \in Nat /\ Relied(c) >= Len(c.below)
         /\ c.kind = "native" => /\ Relied(c) = Len(c.below) + 3
                                 /\ c.args[1] \in StackValues /\ c.args[2] \in StackValues
                                 /\ c.next \in Nat \ {0} /\ c.results \in Seq(StackValues)
         /\ c.kind # "native" => Relied(c) = Len(c.below)
<1>1. Len(c.below) \in Nat
  BY DEF CallOK
<1> DEFINE l == Len(c.below)
<1>2. l \in Nat /\ Relied(c) = l + (IF c.kind = "native" THEN 3 ELSE 0)
  BY <1>1 DEF Relied
<1> HIDE DEF l
<1>3. /\ Relied(c) \in Nat /\ Relied(c) >= l
      /\ c.kind = "native" => Relied(c) = l + 3
      /\ c.kind # "native" => Relied(c) = l
  BY <1>2
<1>4. c.kind = "native" => c.args[1] \in StackValues /\ c.args[2] \in StackValues
  BY DEF CallOK
<1> QED BY <1>1, <1>3, <1>4 DEF CallOK, l

\* Storing new objects keeps the arrays that builtins go through.
LEMMA ExtendedHolds ==
  ASSUME Safe, mode \in {"run", "native"}, NEW h, Extends(heap, h)
  PROVE  HeldKept(h)
<1> SUFFICES ASSUME NEW i \in DOMAIN calls, calls[i].kind = "native"
             PROVE  LET array == calls[i].args[2]
                    IN  IsA("vec", h[array[2]]) /\ Len(h[array[2]][2]) = Len(heap[array[2]][2])
  BY DEF HeldKept
<1> DEFINE array == calls[i].args[2]
<1>1. Typed /\ ArraysHeld
  BY DEF Safe, Nested
<1>2. IsA("cell", array) /\ IsA("vec", heap[array[2]])
  BY <1>1, Zenon DEF ArraysHeld
<1>3. array \in StackValues
  <2>1. CallOK(calls[i])
    BY <1>1 DEF Typed
  <2> QED BY <2>1, CallMeans
<1>4. array[2] \in Cells /\ heap[array[2]] # Free
  BY <1>2, <1>3, StackValueKinds DEF IsA, Free
<1>5. h[array[2]] = heap[array[2]]
  BY <1>4 DEF Extends
<1> QED BY <1>2, <1>5

\* What lies below the running frame is safe whatever the frame does.
LEMMA BelowStays ==
  ASSUME Safe, InLoop, NEW s \in Seq(StackValues), SameBelow(s), Frame.fp <= Len(s)
  PROVE  /\ \A i \in DOMAIN calls :
              /\ Len(calls[i].below) <= Len(s)
              /\ \A k \in DOMAIN calls[i].below : s[k] = calls[i].below[k]
         /\ \A i \in DOMAIN calls :
              calls[i].kind = "native" =>
                /\ Len(calls[i].below) + 3 <= Len(s)
                /\ s[Len(calls[i].below) + 3] = calls[i].args[2]
<1>1. Typed /\ Isolated /\ Nested
  BY DEF Safe, InLoop
<1>2. Frame.fp \in Nat /\ Len(s) \in Nat
  BY Fits
<1>3. ASSUME NEW i \in DOMAIN calls
      PROVE  /\ calls[i].below \in Seq(StackValues)
             /\ Len(calls[i].below) \in Nat /\ Len(calls[i].below) <= Frame.fp
             /\ calls[i].kind = "native" => Len(calls[i].below) + 3 <= Frame.fp
  <2>1. CallOK(calls[i]) /\ Relied(calls[i]) <= Frame.fp
    BY <1>1, Running DEF Typed
  <2>2. /\ calls[i].below \in Seq(StackValues) /\ Len(calls[i].below) \in Nat
        /\ Relied(calls[i]) \in Nat /\ Relied(calls[i]) >= Len(calls[i].below)
        /\ calls[i].kind = "native" => Relied(calls[i]) = Len(calls[i].below) + 3
    BY <2>1, CallMeans
  <2> QED BY <1>2, <2>1, <2>2
<1>4. ASSUME NEW i \in DOMAIN calls
      PROVE  /\ Len(calls[i].below) <= Len(s)
             /\ \A k \in DOMAIN calls[i].below : s[k] = calls[i].below[k]
  <2>1. Len(calls[i].below) <= Len(s)
    BY <1>2, <1>3
  <2>2. \A k \in DOMAIN calls[i].below : k \in 1 .. Frame.fp
    BY <1>2, <1>3
  <2>3. \A k \in DOMAIN calls[i].below : stack[k] = calls[i].below[k]
    BY <1>1 DEF Isolated
  <2> QED BY <2>1, <2>2, <2>3 DEF SameBelow
<1>5. ASSUME NEW i \in DOMAIN calls, calls[i].kind = "native"
      PROVE  /\ Len(calls[i].below) + 3 <= Len(s)
             /\ s[Len(calls[i].below) + 3] = calls[i].args[2]
  <2>1. Len(calls[i].below) + 3 <= Len(s) /\ Len(calls[i].below) + 3 \in 1 .. Frame.fp
    BY <1>2, <1>3, <1>5
  <2>2. stack[Len(calls[i].below) + 3] = calls[i].args[2]
    BY <1>1, <1>5, Zenon DEF Nested, ArraysHeld
  <2> QED BY <2>1, <2>2 DEF SameBelow
<1> QED BY <1>4, <1>5

\* What a step inside the running frame leaves alone.
Inside == UNCHANGED <<program, calls, mode, collected>>

\* A step that changes the running frame and what lies above its start only is
\* safe, if it goes on where the height is right.
LEMMA LocalStep ==
  ASSUME Safe, InLoop, Inside,
         NEW f, FrameOK(f), f.chunk = Frame.chunk, f.fp = Frame.fp,
         frames' = [frames EXCEPT ![Len(frames)] = f],
         NEW s \in Seq(StackValues), SetStack(s), SameBelow(s),
         f.ip \in DOMAIN HeightsOf(Frame), Len(s) = Frame.fp + HeightsOf(Frame)[f.ip],
         MemoryOK(heap'), HeldKept(heap'),
         upvalues' \in [UpvalueCells -> {Free} \cup StackValues],
         ConstantsOK'
  PROVE  Safe'
<1> DEFINE n == Len(frames)
<1>1. /\ Typed /\ Isolated /\ Nested
      /\ program' = program /\ calls' = calls /\ mode' = mode /\ collected' = collected
      /\ stack' = s /\ buffer' = Grown(buffer, Len(s))
  BY DEF Safe, InLoop, Inside, SetStack
<1>2. /\ n \in Nat /\ Len(calls) \in Nat
      /\ DOMAIN frames = 1 .. n /\ DOMAIN calls = 1 .. Len(calls)
  BY <1>1, TypedMeans
<1>3. /\ mode = "run" /\ Len(frames) = Target + 1 /\ Target \in Nat /\ FrameOK(Frame)
      /\ Frame = frames[n]
      /\ \A i \in DOMAIN calls : calls[i].target \in 1 .. Target
  BY Running
<1>4. /\ Len(s) \in Nat /\ Frame.fp \in Nat /\ HeightsOf(Frame)[f.ip] \in Nat
      /\ Frame.fp <= Len(s)
  <2>1. HeightsOf(Frame)[f.ip] \in Nat
    <3>1. FitsAt(CodeOf(Frame), HeightsOf(Frame), f.ip)
      BY <1>1, Fits, TypedMeans DEF ProgramOK, WellFormed, HeightsFit, HeightsOf, CodeOf
    <3> QED BY <3>1 DEF FitsAt
  <2>2. Len(s) \in Nat /\ Frame.fp \in Nat
    BY Fits
  <2> QED BY <2>1, <2>2
<1>5. /\ n \in 1 .. n /\ DOMAIN frames' = 1 .. n /\ Len(frames') = n
      /\ frames' \in Seq(ToSet(frames) \cup {f})
      /\ frames'[n] = f
      /\ \A i \in 1 .. n : i # n => frames'[i] = frames[i]
  <2>1. n \in 1 .. n
    BY <1>2, <1>3
  <2>2. frames \in Seq(ToSet(frames) \cup {f})
    BY <1>1 DEF Typed
  <2> QED BY <1>2, <2>1, <2>2
<1>6. Typed'
  <2>1. \A i \in DOMAIN frames' : FrameOK(frames'[i])
    BY <1>1, <1>2, <1>5 DEF Typed
  <2>2. /\ buffer'.cap \in Nat /\ buffer'.cap >= Len(stack') /\ DOMAIN buffer' = {"cap", "moves"}
    BY <1>1, <1>4, BufferGrows
  <2>3. calls' \in Seq(ToSet(calls)) /\ \A i \in DOMAIN calls' : CallOK(calls'[i])
    BY <1>1 DEF Typed
  <2>4. mode' \in Modes \ {"waiting"} /\ collected' \in 0 .. program.collections
    BY <1>1 DEF Typed
  <2> QED BY <1>1, <1>5, <2>1, <2>2, <2>3, <2>4, TypedStep
<1>7. Isolated'
  <2>1. \A i \in DOMAIN calls :
          /\ Len(calls[i].below) <= Len(s)
          /\ \A k \in DOMAIN calls[i].below : s[k] = calls[i].below[k]
    BY <1>4, BelowStays
  <2>2. \A i, j \in DOMAIN calls : i < j => Relied(calls[i]) <= Len(calls[j].below)
    BY <1>1 DEF Isolated
  <2> QED BY <1>1, <2>1, <2>2 DEF Isolated, Relied
<1>8. Target' = Target /\ (\A i : TargetOf(i)' = TargetOf(i)) /\ InLoop'
      /\ Frame' = f
  <2>1. Target' = Target /\ (\A i : TargetOf(i)' = TargetOf(i))
    BY <1>1 DEF Target, TargetOf
  <2>2. Frame' = frames'[Len(frames')]
    BY DEF Frame, Last
  <2>3. InLoop'
    BY <1>1, <1>3, <1>5, <2>1 DEF InLoop
  <2> QED BY <1>5, <2>1, <2>2, <2>3
<1>9. CallStackMatches'
  <2>1. ASSUME NEW i \in DOMAIN calls
        PROVE  /\ calls[i].target = TargetOf(i)
               /\ calls[i].kind = "callback" <=> i > 1 /\ calls[i - 1].kind = "native"
               /\ calls[i].kind # "native" /\ calls[i].target < Len(frames) =>
                    frames'[calls[i].target + 1].fp =
                      Len(calls[i].below) + (IF calls[i].kind = "call" THEN 1 ELSE 0)
    <3>1. CallStackMatches /\ mode \in {"run", "native"}
      BY <1>1, <1>3 DEF Nested
    <3>2. /\ calls[i].target = TargetOf(i)
          /\ calls[i].kind = "callback" <=> i > 1 /\ calls[i - 1].kind = "native"
          /\ calls[i].kind # "native" /\ calls[i].target < Len(frames) =>
               frames[calls[i].target + 1].fp =
                 Len(calls[i].below) + (IF calls[i].kind = "call" THEN 1 ELSE 0)
      BY <3>1, Zenon DEF CallStackMatches
    <3>3. calls[i].target + 1 \in 1 .. n
      BY <1>3
    <3>4. frames'[calls[i].target + 1].fp = frames[calls[i].target + 1].fp
      <4>1. CASE calls[i].target + 1 = n
        BY <1>3, <1>5, <4>1
      <4>2. CASE calls[i].target + 1 # n
        BY <1>5, <3>3, <4>2
      <4> QED BY <4>1, <4>2
    <3> QED BY <3>2, <3>4, Zenon
  <2>2. Len(frames') = Target + 1
    BY <1>3, <1>5
  <2>3. calls # <<>> => Last(calls).kind # "native"
    BY Running
  <2>4. /\ mode' = "run"
        /\ Len(frames') \in {Target', Target' + 1}
        /\ calls' # <<>> => Last(calls').kind # "native"
    BY <1>1, <1>3, <1>8, <2>2, <2>3
  <2>5. \A i \in DOMAIN calls' :
          /\ calls'[i].target = TargetOf(i)'
          /\ calls'[i].kind = "callback" <=> i > 1 /\ calls'[i - 1].kind = "native"
          /\ calls'[i].kind # "native" /\ calls'[i].target < Len(frames') =>
               frames'[calls'[i].target + 1].fp =
                 Len(calls'[i].below) + (IF calls'[i].kind = "call" THEN 1 ELSE 0)
    <3>1. Len(frames') = Len(frames)
      BY <1>5
    <3> QED BY <1>1, <1>8, <2>1, <3>1, Zenon
  <2> QED BY <2>4, <2>5, Zenon DEF CallStackMatches
<1>10. CallersResume'
  <2> SUFFICES ASSUME NEW i \in DOMAIN calls, calls[i].kind # "callback"
               PROVE  LET caller == frames'[calls[i].target]
                      IN  /\ caller.ip \in DOMAIN HeightsOf(caller)
                          /\ Len(calls[i].below) + Left(calls[i])
                               = caller.fp + HeightsOf(caller)[caller.ip]
    <3> QED BY <1>1, SameProgram DEF CallersResume, Left
  <2>1. frames'[calls[i].target] = frames[calls[i].target]
    BY <1>3, <1>5
  <2> QED BY <1>1, <2>1, Zenon DEF Nested, CallersResume
<1>11. ArraysHeld'
  <2> SUFFICES ASSUME NEW i \in DOMAIN calls, calls[i].kind = "native"
               PROVE  LET m == calls[i]
                          array == m.args[2]
                      IN  /\ Len(m.below) + 3 <= Len(s)
                          /\ s[Len(m.below) + 3] = array
                          /\ IsA("cell", array) /\ IsA("vec", heap'[array[2]])
                          /\ i < Len(calls) => m.next <= Len(heap'[array[2]][2])
    BY <1>1 DEF ArraysHeld, IsA
  <2>1. /\ Len(calls[i].below) + 3 <= Len(s)
        /\ s[Len(calls[i].below) + 3] = calls[i].args[2]
    BY <1>4, BelowStays
  <2>2. LET array == calls[i].args[2]
        IN  IsA("vec", heap'[array[2]]) /\ Len(heap'[array[2]][2]) = Len(heap[array[2]][2])
    BY DEF HeldKept
  <2>3. /\ IsA("cell", calls[i].args[2])
        /\ i < Len(calls) => calls[i].next <= Len(heap[calls[i].args[2][2]][2])
    BY <1>1, Zenon DEF Nested, ArraysHeld
  <2> QED BY <2>1, <2>2, <2>3
<1>12. ResultLeft'
  <2>1. ~(Len(frames') = Target')
    BY <1>3, <1>5, <1>8
  <2> QED BY <2>1 DEF ResultLeft
<1>13. HeightsMatch'
  <2>1. HeightsOf(f)' = HeightsOf(f) /\ HeightsOf(f) = HeightsOf(Frame)
    BY <1>1, SameProgram DEF HeightsOf
  <2>2. HeightsOf(Frame)' = HeightsOf(Frame)
    BY <1>8, <2>1 DEF HeightsOf
  <2>3. /\ f.ip \in DOMAIN HeightsOf(Frame)'
        /\ Len(stack') = f.fp + HeightsOf(Frame)'[f.ip]
    BY <1>1, <2>2
  <2> QED BY <1>8, <2>3 DEF HeightsMatch
<1> QED BY <1>6, <1>7, <1>9, <1>10, <1>11, <1>12, <1>13 DEF Safe, Nested

\* Moving the instruction pointer keeps everything else of the frame.
LEMMA FrameAt ==
  ASSUME Safe, InLoop, NEW ip \in Nat
  PROVE  LET f == [Frame EXCEPT !.ip = ip]
         IN  /\ FrameOK(f) /\ f.ip = ip /\ f.chunk = Frame.chunk /\ f.fp = Frame.fp
             /\ GoTo(ip) = [frames EXCEPT ![Len(frames)] = f]
<1> DEFINE f == [Frame EXCEPT !.ip = ip]
<1>1. FrameOK(Frame) /\ Frame = frames[Len(frames)]
  BY Running
<1>2. /\ DOMAIN f = DOMAIN Frame /\ f.ip = ip
      /\ \A field \in DOMAIN Frame : field # "ip" => f[field] = Frame[field]
  BY <1>1 DEF FrameOK
<1>3. /\ f.chunk = Frame.chunk /\ f.fp = Frame.fp /\ f.self = Frame.self
      /\ f.closure = Frame.closure /\ f.upvals = Frame.upvals /\ f.captured = Frame.captured
  BY <1>1, <1>2 DEF FrameOK
<1>4. GoTo(ip) = [frames EXCEPT ![Len(frames)] = f]
  BY <1>1 DEF GoTo
<1> HIDE DEF f
<1>5. FrameOK(f)
  BY <1>1, <1>2, <1>3 DEF FrameOK
<1> QED BY <1>2, <1>3, <1>4, <1>5 DEF f

\* The code goes on at one of the instruction's successors.
LEMMA OpStep ==
  ASSUME Safe, InLoop, Inside,
         NEW ip, frames' = GoTo(ip),
         NEW s \in Seq(StackValues), SetStack(s), SameBelow(s),
         NEW height, Len(s) = Frame.fp + height,
         <<ip, height>> \in Successors(CodeOf(Frame), <<Frame.ip, Height>>),
         MemoryOK(heap'), HeldKept(heap'),
         upvalues' \in [UpvalueCells -> {Free} \cup StackValues],
         ConstantsOK'
  PROVE  Safe'
<1>1. ip \in DOMAIN HeightsOf(Frame) /\ HeightsOf(Frame)[ip] = height
  BY Fits
<1>2. ip \in Nat
  <2>1. ProgramOK /\ Frame.chunk + 1 \in DOMAIN Shape
    BY Fits, TypedMeans DEF Safe
  <2>2. HeightsFit(CodeOf(Frame), Shape[Frame.chunk + 1].arity, HeightsOf(Frame))
    BY <2>1 DEF ProgramOK, WellFormed, HeightsOf, CodeOf
  <2> QED BY <1>1, <2>2 DEF HeightsFit
<1> DEFINE f == [Frame EXCEPT !.ip = ip]
<1>3. /\ FrameOK(f) /\ f.ip = ip /\ f.chunk = Frame.chunk /\ f.fp = Frame.fp
      /\ frames' = [frames EXCEPT ![Len(frames)] = f]
  BY <1>2, FrameAt
<1> HIDE DEF f
<1> QED BY <1>1, <1>3, LocalStep

\* Instructions that are followed by the next one.
LEMMA Behind ==
  ASSUME Safe, InLoop, Instr.op \notin {"RETURN", "JUMP", "JUMP_IF"}
  PROVE  <<Frame.ip + 1, Height - Takes(Instr) + Leaves(Instr)>>
           \in Successors(CodeOf(Frame), <<Frame.ip, Height>>)
<1> DEFINE instr == CodeOf(Frame)[Frame.ip + 1]
<1>1. Instr = instr
  BY DEF Instr
<1>2. CASE instr.op = "FOR_LOOP"
  BY <1>1, <1>2 DEF Successors
<1>3. CASE instr.op # "FOR_LOOP"
  BY <1>1, <1>3 DEF Successors
<1> QED BY <1>2, <1>3

\* The same as LocalStep for an instruction followed by the next one.
LEMMA NextStep ==
  ASSUME Safe, InLoop, Inside, Instr.op \notin {"RETURN", "JUMP", "JUMP_IF"},
         frames' = Advanced,
         NEW s \in Seq(StackValues), SetStack(s), SameBelow(s),
         Takes(Instr) \in Int, Leaves(Instr) \in Int,
         Len(s) = Len(stack) - Takes(Instr) + Leaves(Instr),
         MemoryOK(heap'), HeldKept(heap'),
         upvalues' \in [UpvalueCells -> {Free} \cup StackValues],
         ConstantsOK'
  PROVE  Safe'
<1> DEFINE t == Takes(Instr)
           l == Leaves(Instr)
           h == Height
<1>1. h \in Nat /\ Frame.fp \in Nat /\ Len(stack) = Frame.fp + h /\ t \in Int /\ l \in Int
  BY Fits
<1>2. Len(s) = Len(stack) - t + l
  OBVIOUS
<1>3. <<Frame.ip + 1, h - t + l>> \in Successors(CodeOf(Frame), <<Frame.ip, h>>)
  BY Behind
<1>4. Len(s) = Frame.fp + (h - t + l)
  <2>1. \A fp, x, y, z \in Int : (fp + x) - y + z = fp + (x - y + z)
    OBVIOUS
  <2>2. h \in Int /\ Frame.fp \in Int
    BY <1>1
  <2> HIDE DEF t, l, h
  <2>4. t \in Int /\ l \in Int
    BY <1>1
  <2>3. (Frame.fp + h) - t + l = Frame.fp + (h - t + l)
    BY <2>2, <2>4
  <2> QED BY <1>1, <1>2, <2>3, Zenon
<1>5. frames' = GoTo(Frame.ip + 1)
  BY DEF Advanced
<1> QED BY <1>3, <1>4, <1>5, OpStep

\* Memory that is left alone stays as safe as it was.
LEMMA SameMemory ==
  ASSUME Safe, mode \in {"run", "native"}
  PROVE  MemoryOK(heap) /\ HeldKept(heap) /\ upvalues \in [UpvalueCells -> {Free} \cup StackValues]
<1>1. Extends(heap, heap)
  BY DEF Extends
<1> QED BY <1>1, ExtendedHolds, TypedMeans DEF Safe, Typed

\* The same as NextStep for an instruction that changes the stack only.
LEMMA ContinueStep ==
  ASSUME Safe, InLoop, Instr.op \notin {"RETURN", "JUMP", "JUMP_IF"},
         NEW s \in Seq(StackValues), Continue(s), SameBelow(s),
         Takes(Instr) \in Int, Leaves(Instr) \in Int,
         Len(s) = Len(stack) - Takes(Instr) + Leaves(Instr)
  PROVE  Safe'
<1>1. /\ Inside /\ frames' = Advanced /\ SetStack(s) /\ heap' = heap /\ upvalues' = upvalues
      /\ constants' = constants /\ program' = program
  BY DEF Continue, Inside
<1>2. MemoryOK(heap') /\ HeldKept(heap') /\ upvalues' \in [UpvalueCells -> {Free} \cup StackValues]
  BY <1>1, SameMemory DEF InLoop
<1>3. ConstantsOK'
  BY <1>1, SameConstants DEF Safe
<1> QED BY <1>1, <1>2, <1>3, NextStep

\* An exception leaves the frames, and at least what is below the running one.
LEMMA ThrowStep ==
  ASSUME Safe, InLoop, NEW kind, NEW s \in Seq(StackValues), Throw(kind, s),
         SameBelow(s), Frame.fp <= Len(s), Len(s) <= Len(stack)
  PROVE  Safe'
<1>1. /\ Typed /\ Isolated
      /\ stack' = s /\ frames' = Advanced /\ mode' \in {"undefined", "throw"}
      /\ program' = program /\ constants' = constants /\ buffer' = buffer /\ calls' = calls
      /\ heap' = heap /\ upvalues' = upvalues /\ collected' = collected
  BY DEF Safe, Throw, ModeAfter
<1>2. Frame.ip + 1 \in Nat
  BY Fits
<1> DEFINE f == [Frame EXCEPT !.ip = Frame.ip + 1]
<1>3. FrameOK(f) /\ frames' = [frames EXCEPT ![Len(frames)] = f]
  BY <1>1, <1>2, FrameAt DEF Advanced
<1> HIDE DEF f
<1>4. frames' \in Seq(ToSet(frames) \cup {f}) /\ \A i \in DOMAIN frames' : FrameOK(frames'[i])
  <2>1. frames \in Seq(ToSet(frames) \cup {f}) /\ Len(frames) \in DOMAIN frames
    BY <1>1, Running, TypedMeans DEF Typed
  <2> QED BY <1>1, <1>3, <2>1 DEF Typed
<1>5. Typed'
  <2>1. buffer.cap \in Nat /\ buffer.cap >= Len(s) /\ DOMAIN buffer = {"cap", "moves"}
    <3>1. buffer.cap \in Nat /\ buffer.cap >= Len(stack) /\ DOMAIN buffer = {"cap", "moves"}
      BY <1>1 DEF Typed
    <3>2. Len(s) \in Nat /\ Len(stack) \in Nat
      BY <1>1, TypedMeans
    <3> QED BY <3>1, <3>2
  <2>2. calls' \in Seq(ToSet(calls)) /\ \A i \in DOMAIN calls' : CallOK(calls'[i])
    BY <1>1 DEF Typed
  <2>3. MemoryOK(heap') /\ ConstantsOK'
    BY <1>1, TypedMeans, SameConstants
  <2>4. /\ mode' \in Modes \ {"waiting"} /\ collected' \in 0 .. program.collections
        /\ upvalues' \in [UpvalueCells -> {Free} \cup StackValues]
    BY <1>1 DEF Typed, Modes
  <2> QED BY <1>1, <1>4, <2>1, <2>2, <2>3, <2>4, TypedStep
<1>6. Isolated'
  <2>1. \A i \in DOMAIN calls :
          /\ Len(calls[i].below) <= Len(s)
          /\ \A k \in DOMAIN calls[i].below : s[k] = calls[i].below[k]
    BY BelowStays
  <2> QED BY <1>1, <2>1 DEF Isolated, Relied
<1> QED BY <1>1, <1>5, <1>6 DEF Safe

\* An instruction that makes a value.
LEMMA ProduceStep ==
  ASSUME Safe, InLoop, Instr.op \notin {"RETURN", "JUMP", "JUMP_IF"},
         NEW rest \in Seq(StackValues), SameBelow(rest),
         Takes(Instr) \in Int, Leaves(Instr) = 1, Frame.fp <= Len(rest),
         Len(rest) = Len(stack) - Takes(Instr),
         NEW d, Outcome(d), Produce(rest, d)
  PROVE  Safe'
<1> DEFINE stored == HeapStore(heap, d)
           s == Append(rest, stored.value)
<1>1. CASE Failed(d)
  <2>1. Throw(d[2], stack)
    BY <1>1 DEF Produce
  <2>2. stack \in Seq(StackValues) /\ SameBelow(stack) /\ Frame.fp <= Len(stack)
    BY Fits DEF Safe, Typed, SameBelow
  <2> QED BY <2>1, <2>2, ThrowStep
<1>2. CASE ~Failed(d)
  <2>1. /\ HasRoom /\ SetStack(s) /\ heap' = stored.heap /\ frames' = Advanced
        /\ UNCHANGED <<program, constants, calls, upvalues, out, mode, error, collected>>
    BY <1>2 DEF Produce
  <2>2. /\ stored.value \in StackValues /\ MemoryOK(stored.heap) /\ Extends(heap, stored.heap)
    <3>1. MemoryOK(heap) /\ IsData(d)
      BY <1>2, TypedMeans DEF Safe, Outcome
    <3>2. Cardinality(FreeOf(heap)) >= 1
      BY <2>1, RoomForOne, FreeIsFinite
    <3> QED BY <3>1, <3>2, HeapStoreKeeps
  <2> HIDE DEF stored
  <2>3. s \in Seq(StackValues) /\ Len(s) = Len(rest) + 1 /\ SameBelow(s)
    <3>1. s \in Seq(StackValues) /\ Len(s) = Len(rest) + 1
          /\ \A k \in 1 .. Len(rest) : s[k] = rest[k]
      BY <2>2
    <3>2. \A k \in 1 .. Frame.fp : k \in 1 .. Len(rest)
      BY Fits
    <3> QED BY <3>1, <3>2 DEF SameBelow
  <2>4. MemoryOK(heap') /\ HeldKept(heap') /\ upvalues' \in [UpvalueCells -> {Free} \cup StackValues]
    BY <2>1, <2>2, SameMemory, ExtendedHolds DEF InLoop
  <2>5. ConstantsOK' /\ Inside
    BY <2>1, SameConstants DEF Safe, Inside
  <2>6. Len(s) = Len(stack) - Takes(Instr) + Leaves(Instr)
    BY <2>3
  <2> HIDE DEF s
  <2> QED BY <2>1, <2>3, <2>4, <2>5, <2>6, NextStep
<1> QED BY <1>1, <1>2

----------------------------------------------------------------------------
(* Operands *)

\* Dropping operands never drops what lies below the frame.
LEMMA WithoutKeeps ==
  ASSUME Safe, InLoop, NEW n \in Nat, n <= Height
  PROVE  /\ Without(n) \in Seq(StackValues) /\ Len(Without(n)) = Len(stack) - n
         /\ SameBelow(Without(n)) /\ Frame.fp <= Len(Without(n))
<1>1. /\ stack \in Seq(StackValues) /\ Len(stack) \in Nat /\ Frame.fp \in Nat
      /\ Height \in Nat /\ Len(stack) = Frame.fp + Height
  BY Fits DEF Safe, Typed
<1>2. Len(stack) - n \in Nat /\ Frame.fp <= Len(stack) - n
  BY <1>1
<1> DEFINE m == Len(stack) - n
<1>3. m \in 0 .. Len(stack)
  BY <1>1, <1>2
<1>4. Without(n) = SubSeq(stack, 1, m)
  BY DEF Without
<1> HIDE DEF m
<1>5. Without(n) \in Seq(StackValues) /\ Len(Without(n)) = m /\ \A k \in 1 .. m : Without(n)[k] = stack[k]
  BY <1>1, <1>3, <1>4
<1>6. \A k \in 1 .. Frame.fp : k \in 1 .. m
  BY <1>1, <1>2 DEF m
<1> QED BY <1>2, <1>5, <1>6 DEF SameBelow, m

\* An operand is a value of the frame, and it leads to an object.
LEMMA PeekIs ==
  ASSUME Safe, InLoop, NEW n \in Nat, n < Height
  PROVE  Peek(n) \in StackValues /\ IsContent(Deref(Memory, Peek(n)))
<1>1. /\ stack \in Seq(StackValues) /\ Len(stack) \in Nat /\ Frame.fp \in Nat
      /\ Height \in Nat /\ Len(stack) = Frame.fp + Height
  BY Fits DEF Safe, Typed
<1>2. Len(stack) - n \in 1 .. Len(stack)
  BY <1>1
<1>3. Peek(n) \in StackValues
  BY <1>1, <1>2 DEF Peek
<1> QED BY <1>3, TypedMeans DEF DerefOK, Safe

\* A value that is pushed lies above the frame's start.
LEMMA AppendKeeps ==
  ASSUME Safe, InLoop, NEW s \in Seq(StackValues), SameBelow(s), Frame.fp <= Len(s),
         NEW v \in StackValues
  PROVE  /\ Append(s, v) \in Seq(StackValues) /\ Len(Append(s, v)) = Len(s) + 1
         /\ SameBelow(Append(s, v)) /\ Frame.fp <= Len(Append(s, v))
<1> DEFINE t == Append(s, v)
<1>1. Len(s) \in Nat /\ Frame.fp \in Nat
  BY Fits
<1>2. t \in Seq(StackValues) /\ Len(t) = Len(s) + 1 /\ \A k \in 1 .. Len(s) : t[k] = s[k]
  OBVIOUS
<1>3. \A k \in 1 .. Frame.fp : k \in 1 .. Len(s)
  BY <1>1
<1>4. Frame.fp <= Len(s) + 1
  BY <1>1
<1> HIDE DEF t
<1> QED BY <1>2, <1>3, <1>4 DEF SameBelow, t

\* The stack as it is, as a stack that a step may leave.
LEMMA StackItself ==
  ASSUME Safe, InLoop
  PROVE  /\ stack \in Seq(StackValues) /\ Len(stack) \in Nat /\ SameBelow(stack)
         /\ Frame.fp <= Len(stack)
BY Fits DEF Safe, Typed, SameBelow

\* The top of the stack replaced: most instructions end like this.
LEMMA Pushed ==
  ASSUME Safe, InLoop, NEW n \in Nat, n <= Height, NEW v \in StackValues
  PROVE  LET s == Append(Without(n), v)
         IN  s \in Seq(StackValues) /\ Len(s) = Len(stack) - n + 1 /\ SameBelow(s)
<1>1. /\ Without(n) \in Seq(StackValues) /\ Len(Without(n)) = Len(stack) - n
      /\ SameBelow(Without(n)) /\ Frame.fp <= Len(Without(n))
  BY WithoutKeeps
<1> QED BY <1>1, AppendKeeps

----------------------------------------------------------------------------
(* Instructions without calls *)

\* CONSTANT pushes a complete value and keeps the invariant.
THEOREM OpConstantSafe ==
  ASSUME Safe, OpConstant
  PROVE  Safe'
<1> DEFINE d == constants[Instr.index]
           v == IF IsStackValue(d) THEN d ELSE Const(Instr.index)
           s == Append(stack, v)
<1>1. InLoop /\ Instr.op = "CONSTANT" /\ Continue(s)
  BY DEF OpConstant, At
<1>2. Instr.index \in Loadable(program, Shape)
  BY <1>1, Fits DEF OperandsFit
<1>3. IsContent(d)
  BY <1>2, LoadableContent, TypedMeans DEF Safe
<1>4. v \in StackValues
  <2>1. IsStackValue(d) => d \in StackValues
    BY <1>3, HeapDataKinds DEF IsContent
  <2>2. Const(Instr.index) \in StackValues
    BY <1>2, StackValueMade
  <2> QED BY <2>1, <2>2
<1> HIDE DEF v
<1>5. s \in Seq(StackValues) /\ Len(s) = Len(stack) + 1 /\ SameBelow(s)
  BY <1>1, <1>4, StackItself, AppendKeeps
<1>6. Takes(Instr) = 0 /\ Leaves(Instr) = 1
  BY <1>1 DEF Takes, Leaves, ArithmeticOps, CompareOps
<1>7. Len(s) = Len(stack) - Takes(Instr) + Leaves(Instr)
  BY <1>1, <1>5, <1>6, StackItself
<1> HIDE DEF s
<1> QED BY <1>1, <1>5, <1>6, <1>7, ContinueStep

\* POP drops values of the running frame only.
THEOREM OpPopSafe ==
  ASSUME Safe, OpPop
  PROVE  Safe'
<1>1. /\ InLoop /\ Instr.op = "POP"
      /\ Throw("RuntimeError", stack) \/ Continue(Without(Instr.count))
  BY DEF OpPop, At
<1>2. Takes(Instr) = Instr.count /\ Leaves(Instr) = 0
  BY <1>1 DEF Takes, Leaves, ArithmeticOps, CompareOps
<1>3. Instr.count \in Nat /\ Instr.count <= Height
  BY <1>1, <1>2, Fits DEF OperandsFit
<1>4. CASE Throw("RuntimeError", stack)
  BY <1>1, <1>4, StackItself, ThrowStep
<1>5. CASE Continue(Without(Instr.count))
  <2> DEFINE s == Without(Instr.count)
  <2>1. s \in Seq(StackValues) /\ Len(s) = Len(stack) - Instr.count /\ SameBelow(s)
    BY <1>1, <1>3, WithoutKeeps
  <2>2. Len(s) = Len(stack) - Takes(Instr) + Leaves(Instr)
    BY <1>1, <1>2, <1>3, <2>1, StackItself
  <2> QED BY <1>1, <1>2, <1>3, <1>5, <2>1, <2>2, ContinueStep
<1> QED BY <1>1, <1>4, <1>5

\* DUPLICATE copies a value of the running frame.
THEOREM OpDuplicateSafe ==
  ASSUME Safe, OpDuplicate
  PROVE  Safe'
<1> DEFINE s == Append(stack, Peek(Instr.index))
<1>1. InLoop /\ Instr.op = "DUPLICATE" /\ Continue(s)
  BY DEF OpDuplicate, At
<1>2. Takes(Instr) = Instr.index + 1 /\ Leaves(Instr) = Instr.index + 2
  BY <1>1 DEF Takes, Leaves, ArithmeticOps, CompareOps
<1>3. Instr.index \in Nat
  BY <1>1, Fits DEF OperandsFit
<1>4. Instr.index < Height
  BY <1>1, <1>2, <1>3, Fits
<1>5. Peek(Instr.index) \in StackValues
  BY <1>1, <1>3, <1>4, PeekIs
<1>6. s \in Seq(StackValues) /\ Len(s) = Len(stack) + 1 /\ SameBelow(s)
  BY <1>1, <1>5, StackItself, AppendKeeps
<1>7. Len(s) = Len(stack) - Takes(Instr) + Leaves(Instr)
  BY <1>1, <1>2, <1>3, <1>6, StackItself
<1> HIDE DEF s
<1> QED BY <1>1, <1>2, <1>3, <1>6, <1>7, ContinueStep

\* The arithmetic instructions replace two operands by a result that is stored
\* in the heap if it is an object, or throw.
THEOREM BinaryOpSafe ==
  ASSUME Safe, BinaryOp
  PROVE  Safe'
<1> DEFINE d == Arithmetic(Instr.op, Deref(Memory, Peek(1)), Deref(Memory, Peek(0)))
<1>1. InLoop /\ Instr.op \in ArithmeticOps /\ Produce(Without(2), d)
  BY DEF BinaryOp
<1>2. Takes(Instr) = 2 /\ Leaves(Instr) = 1 /\ Instr.op \notin {"RETURN", "JUMP", "JUMP_IF"}
  BY <1>1 DEF Takes, Leaves, ArithmeticOps, CompareOps
<1>3. Height \in Nat /\ 2 <= Height
  BY <1>1, <1>2, Fits
<1>4. IsContent(Deref(Memory, Peek(1))) /\ IsContent(Deref(Memory, Peek(0)))
  BY <1>1, <1>3, PeekIs
<1>5. Outcome(d)
  BY <1>1, <1>4, ArithmeticOutcome
<1> HIDE DEF d
<1>6. /\ Without(2) \in Seq(StackValues) /\ Len(Without(2)) = Len(stack) - 2
      /\ SameBelow(Without(2)) /\ Frame.fp <= Len(Without(2))
  BY <1>1, <1>3, WithoutKeeps
<1> QED BY <1>1, <1>2, <1>5, <1>6, ProduceStep

\* NEGATE replaces its operand by a value, or throws.
THEOREM OpNegateSafe ==
  ASSUME Safe, OpNegate
  PROVE  Safe'
<1> DEFINE d == Negative(Deref(Memory, Peek(0)))
<1>1. InLoop /\ Instr.op = "NEGATE" /\ Produce(Without(1), d)
  BY DEF OpNegate, At
<1>2. Takes(Instr) = 1 /\ Leaves(Instr) = 1
  BY <1>1 DEF Takes, Leaves, ArithmeticOps, CompareOps
<1>3. Height \in Nat /\ 1 <= Height
  BY <1>1, <1>2, Fits
<1>4. Outcome(d)
  BY <1>1, <1>3, PeekIs, NegativeOutcome
<1> HIDE DEF d
<1>5. /\ Without(1) \in Seq(StackValues) /\ Len(Without(1)) = Len(stack) - 1
      /\ SameBelow(Without(1)) /\ Frame.fp <= Len(Without(1))
  BY <1>1, <1>3, WithoutKeeps
<1> QED BY <1>1, <1>2, <1>4, <1>5, ProduceStep

\* NOT replaces its operand by a value, or throws.
THEOREM OpNotSafe ==
  ASSUME Safe, OpNot
  PROVE  Safe'
<1> DEFINE d == NotOp(Deref(Memory, Peek(0)))
<1>1. InLoop /\ Instr.op = "NOT" /\ Produce(Without(1), d)
  BY DEF OpNot, At
<1>2. Takes(Instr) = 1 /\ Leaves(Instr) = 1
  BY <1>1 DEF Takes, Leaves, ArithmeticOps, CompareOps
<1>3. Height \in Nat /\ 1 <= Height
  BY <1>1, <1>2, Fits
<1>4. Outcome(d)
  BY <1>1, <1>3, PeekIs, NotOutcome
<1> HIDE DEF d
<1>5. /\ Without(1) \in Seq(StackValues) /\ Len(Without(1)) = Len(stack) - 1
      /\ SameBelow(Without(1)) /\ Frame.fp <= Len(Without(1))
  BY <1>1, <1>3, WithoutKeeps
<1> QED BY <1>1, <1>2, <1>4, <1>5, ProduceStep

\* Whether an order satisfies a comparison is a boolean.
LEMMA AcceptsBoolean ==
  ASSUME NEW op \in CompareOps, NEW order
  PROVE  Accepts(op, order) \in BOOLEAN
<1>1. CASE op = "EQUAL"
  BY <1>1, Zenon DEF Accepts
<1>2. CASE op = "NOT_EQUAL"
  BY <1>2, Zenon DEF Accepts
<1>3. CASE op = "LESS"
  BY <1>3, Zenon DEF Accepts
<1>4. CASE op = "LESS_EQUAL"
  <2>1. (order \in {"less", "equal"}) \in BOOLEAN
    OBVIOUS
  <2>2. Accepts(op, order) = (order \in {"less", "equal"})
    BY <1>4, Zenon DEF Accepts
  <2> QED BY <2>1, <2>2, Zenon
<1>5. CASE op = "GREATER"
  BY <1>5, Zenon DEF Accepts
<1>6. CASE op = "GREATER_EQUAL"
  <2>1. (order \in {"greater", "equal"}) \in BOOLEAN
    OBVIOUS
  <2>2. Accepts(op, order) = (order \in {"greater", "equal"})
    BY <1>6, Zenon DEF Accepts
  <2> QED BY <2>1, <2>2, Zenon
<1> QED BY <1>1, <1>2, <1>3, <1>4, <1>5, <1>6 DEF CompareOps

\* The comparisons leave a boolean, and below it the right operand if a chain of
\* comparisons still needs it.
THEOREM CompareOpSafe ==
  ASSUME Safe, CompareOp
  PROVE  Safe'
<1> DEFINE result == Bool(Accepts(Instr.op, CompareValues(Memory, Peek(1), Peek(0))))
           top == IF Instr.keep_rhs THEN <<Peek(0), result>> ELSE <<result>>
           s == Without(2) \o top
<1>1. InLoop /\ Instr.op \in CompareOps /\ Continue(s)
  BY DEF CompareOp
<1>2. /\ Takes(Instr) = 2 /\ Instr.op \notin {"RETURN", "JUMP", "JUMP_IF"}
      /\ Leaves(Instr) = IF Instr.keep_rhs THEN 2 ELSE 1
  BY <1>1 DEF Takes, Leaves, ArithmeticOps, CompareOps
<1>3. Height \in Nat /\ 2 <= Height /\ Instr.keep_rhs \in BOOLEAN
  BY <1>1, <1>2, Fits DEF OperandsFit
<1>4. Peek(0) \in StackValues /\ result \in StackValues
  BY <1>1, <1>3, PeekIs, AcceptsBoolean, StackValueMade
<1> HIDE DEF result
<1>5. top \in Seq(StackValues) /\ Len(top) = Leaves(Instr) /\ Len(top) \in Nat
  BY <1>2, <1>4
<1>6. /\ Without(2) \in Seq(StackValues) /\ Len(Without(2)) = Len(stack) - 2
      /\ SameBelow(Without(2)) /\ Frame.fp <= Len(Without(2)) /\ Frame.fp \in Nat
  BY <1>1, <1>3, WithoutKeeps, Fits
<1> HIDE DEF top
<1>7. /\ s \in Seq(StackValues) /\ Len(s) = Len(Without(2)) + Len(top)
      /\ \A k \in 1 .. Len(Without(2)) : s[k] = Without(2)[k]
  BY <1>5, <1>6
<1>8. SameBelow(s)
  <2>1. \A k \in 1 .. Frame.fp : k \in 1 .. Len(Without(2))
    BY <1>6
  <2> QED BY <1>6, <1>7, <2>1 DEF SameBelow
<1>9. Len(s) = Len(stack) - Takes(Instr) + Leaves(Instr)
  BY <1>2, <1>5, <1>6, <1>7
<1> HIDE DEF s
<1> QED BY <1>1, <1>2, <1>5, <1>7, <1>8, <1>9, ContinueStep

\* A jump keeps the stack, or takes the condition.
LEMMA JumpStep ==
  ASSUME Safe, InLoop, NEW ip, frames' = GoTo(ip),
         NEW s \in Seq(StackValues), SetStack(s), SameBelow(s),
         NEW height, Len(s) = Frame.fp + height,
         <<ip, height>> \in Successors(CodeOf(Frame), <<Frame.ip, Height>>),
         UNCHANGED <<program, constants, calls, heap, upvalues, mode, collected>>
  PROVE  Safe'
<1>1. MemoryOK(heap') /\ HeldKept(heap') /\ upvalues' \in [UpvalueCells -> {Free} \cup StackValues]
  BY SameMemory DEF InLoop
<1>2. ConstantsOK' /\ Inside
  BY SameConstants DEF Safe, Inside
<1> QED BY <1>1, <1>2, OpStep

\* The buffer is no smaller than the stack, so that a step that pushes nothing
\* never moves it.
LEMMA SameBuffer ==
  ASSUME Safe
  PROVE  Grown(buffer, Len(stack)) = buffer
<1>1. buffer.cap \in Nat /\ buffer.cap >= Len(stack) /\ Len(stack) \in Nat
  BY TypedMeans DEF Safe, Typed
<1>2. Len(stack) <= buffer.cap
  BY <1>1
<1> QED BY <1>2 DEF Grown

\* JUMP goes where the height of the frame is the one it has.
THEOREM OpJumpSafe ==
  ASSUME Safe, OpJump
  PROVE  Safe'
<1>1. /\ InLoop /\ Instr.op = "JUMP" /\ frames' = GoTo(Instr.offset)
      /\ UNCHANGED <<program, constants, stack, buffer, calls, heap, upvalues, mode, collected>>
  BY DEF OpJump, At
<1>2. <<Instr.offset, Height>> \in Successors(CodeOf(Frame), <<Frame.ip, Height>>)
  <2> DEFINE instr == CodeOf(Frame)[Frame.ip + 1]
  <2>1. Instr = instr
    BY DEF Instr
  <2> HIDE DEF instr
  <2>2. Successors(CodeOf(Frame), <<Frame.ip, Height>>) = {<<instr.offset, Height>>}
    BY <1>1, <2>1 DEF Successors, instr
  <2> QED BY <2>1, <2>2
<1>3. SetStack(stack)
  BY <1>1, SameBuffer DEF SetStack
<1>4. Len(stack) = Frame.fp + Height
  BY <1>1, Fits
<1> QED BY <1>1, <1>2, <1>3, <1>4, StackItself, JumpStep

\* JUMP_IF keeps or takes its condition on each of its two ways as the code at
\* their ends expects.
THEOREM OpJumpIfSafe ==
  ASSUME Safe, OpJumpIf
  PROVE  Safe'
<1> DEFINE truth == Truthy(Deref(Memory, Peek(0)))
           jump == truth = Bool(Instr.expected)
           pop == IF jump THEN ~Instr.keep_jump ELSE ~Instr.keep_stay
           s == IF pop THEN Without(1) ELSE stack
           ip == IF jump THEN Instr.offset ELSE Frame.ip + 1
           height == IF pop THEN Height - 1 ELSE Height
<1>1. /\ InLoop /\ Instr.op = "JUMP_IF"
      /\ \/ Throw(truth[2], stack)
         \/ /\ frames' = GoTo(ip)
            /\ SetStack(s)
            /\ UNCHANGED <<program, constants, calls, heap, upvalues, mode, collected>>
  BY DEF OpJumpIf, At, Advanced
<1>2. Takes(Instr) = 1 /\ Leaves(Instr) = 0
  BY <1>1 DEF Takes, Leaves, ArithmeticOps, CompareOps
<1>3. /\ Height \in Nat /\ 1 <= Height /\ Frame.fp \in Nat
      /\ Len(stack) = Frame.fp + Height
  BY <1>1, <1>2, Fits
<1>4. CASE Throw(truth[2], stack)
  BY <1>1, <1>4, StackItself, ThrowStep
<1>5. CASE /\ frames' = GoTo(ip)
           /\ SetStack(s)
           /\ UNCHANGED <<program, constants, calls, heap, upvalues, mode, collected>>
  <2>1. s \in Seq(StackValues) /\ SameBelow(s)
    BY <1>1, <1>3, StackItself, WithoutKeeps
  <2>2. Len(s) = Frame.fp + height
    <3>1. Len(Without(1)) = Frame.fp + (Height - 1)
      <4>1. Len(Without(1)) = Len(stack) - 1
        BY <1>1, <1>3, WithoutKeeps
      <4> QED BY <1>3, <4>1
    <3> QED BY <1>3, <3>1
  <2>3. <<ip, height>> \in Successors(CodeOf(Frame), <<Frame.ip, Height>>)
    <3> DEFINE instr == CodeOf(Frame)[Frame.ip + 1]
               h == Height
    <3>1. Instr = instr
      BY DEF Instr
    <3> HIDE DEF instr, jump, h
    <3>2. h - 1 + 0 = h - 1
      BY <1>3 DEF h
    <3>3. Successors(CodeOf(Frame), <<Frame.ip, h>>) =
            {<<Frame.ip + 1, IF instr.keep_stay THEN h ELSE h - 1>>,
             <<instr.offset, IF instr.keep_jump THEN h ELSE h - 1>>}
      BY <1>1, <1>2, <3>1 DEF Successors, instr
    <3>4. <<ip, height>> = <<Frame.ip + 1, IF instr.keep_stay THEN h ELSE h - 1>>
          \/ <<ip, height>> = <<instr.offset, IF instr.keep_jump THEN h ELSE h - 1>>
      BY <3>1 DEF h
    <3> QED BY <3>3, <3>4 DEF h
  <2> HIDE DEF ip, s, height
  <2> QED BY <1>1, <1>5, <2>1, <2>2, <2>3, JumpStep
<1> QED BY <1>1, <1>4, <1>5

\* An address that a global has.
LEMMA GlobalsAreCells ==
  ASSUME NEW name \in DOMAIN Globals
  PROVE  Globals[name] \in StackValues /\ Globals[name] \in {Cell(c) : c \in Cells}
<1> DEFINE i == CHOOSE i \in DOMAIN BuiltinNames : BuiltinNames[i] = name
<1>1. name \in ToSet(BuiltinNames) /\ Globals[name] = Cell(i)
  BY DEF Globals
<1>2. i \in DOMAIN BuiltinNames
  BY <1>1 DEF ToSet
<1> HIDE DEF i
<1>3. i \in Cells
  <2>1. /\ BuiltinNames \in Seq(KnownBuiltins) /\ Len(BuiltinNames) <= CellBound
        /\ CellBound \in Nat
    BY BuiltinsAssumption, BoundsAssumption
  <2>2. i \in 1 .. Len(BuiltinNames) /\ Len(BuiltinNames) \in Nat
    BY <1>2, <2>1
  <2> QED BY <2>1, <2>2 DEF Cells
<1> QED BY <1>1, <1>3, StackValueMade

\* GET_GLOBAL pushes the cell that a builtin's name stands for, or throws.
THEOREM OpGetGlobalSafe ==
  ASSUME Safe, OpGetGlobal
  PROVE  Safe'
<1>1. /\ InLoop /\ Instr.op = "GET_GLOBAL"
      /\ \/ \E kind : Throw(kind, stack)
         \/ \E name \in DOMAIN Globals : Continue(Append(stack, Globals[name]))
  BY DEF OpGetGlobal, At, Named
<1>2. CASE \E kind : Throw(kind, stack)
  BY <1>1, <1>2, StackItself, ThrowStep
<1>3. CASE \E name \in DOMAIN Globals : Continue(Append(stack, Globals[name]))
  <2>1. PICK name \in DOMAIN Globals : Continue(Append(stack, Globals[name]))
    BY <1>3
  <2> DEFINE s == Append(stack, Globals[name])
  <2>2. s \in Seq(StackValues) /\ Len(s) = Len(stack) + 1 /\ SameBelow(s)
    BY <1>1, GlobalsAreCells, StackItself, AppendKeeps
  <2>3. Takes(Instr) = 0 /\ Leaves(Instr) = 1
    BY <1>1 DEF Takes, Leaves, ArithmeticOps, CompareOps
  <2>4. Len(s) = Len(stack) - Takes(Instr) + Leaves(Instr)
    BY <1>1, <2>2, <2>3, StackItself
  <2>5. Continue(s)
    BY <2>1
  <2> HIDE DEF s
  <2> QED BY <1>1, <2>2, <2>3, <2>4, <2>5, ContinueStep
<1> QED BY <1>1, <1>2, <1>3

\* SET_GLOBAL takes its operand, or throws for a name that is no builtin's.
THEOREM OpSetGlobalSafe ==
  ASSUME Safe, OpSetGlobal
  PROVE  Safe'
<1> DEFINE s == Without(1)
<1>1. /\ InLoop /\ Instr.op = "SET_GLOBAL"
      /\ Throw("RuntimeError", stack) \/ Continue(s)
  BY DEF OpSetGlobal, At
<1>2. Takes(Instr) = 1 /\ Leaves(Instr) = 0
  BY <1>1 DEF Takes, Leaves, ArithmeticOps, CompareOps
<1>3. s \in Seq(StackValues) /\ Len(s) = Len(stack) - 1 /\ SameBelow(s)
  BY <1>1, <1>2, Fits, WithoutKeeps
<1>4. Len(s) = Len(stack) - Takes(Instr) + Leaves(Instr)
  BY <1>1, <1>2, <1>3, StackItself
<1>5. CASE Throw("RuntimeError", stack)
  BY <1>1, <1>5, StackItself, ThrowStep
<1>6. CASE Continue(s)
  <2> HIDE DEF s
  <2> QED BY <1>1, <1>2, <1>3, <1>4, <1>6, ContinueStep
<1> QED BY <1>1, <1>5, <1>6

\* A slot of the frame is a place on the stack above the frame's start.
LEMMA SlotOnStack ==
  ASSUME Safe, InLoop, NEW slot \in Nat, slot < Height
  PROVE  /\ SlotIndex(slot) \in 1 .. Len(stack) /\ SlotIndex(slot) > Frame.fp
         /\ SlotIndex(slot) = Frame.fp + slot + 1
         /\ stack[SlotIndex(slot)] \in StackValues
<1>1. /\ Height \in Nat /\ Frame.fp \in Nat /\ Len(stack) = Frame.fp + Height
      /\ stack \in Seq(StackValues)
  BY Fits DEF Safe, Typed
<1>2. SlotIndex(slot) = Frame.fp + slot + 1
  BY DEF SlotIndex
<1>3. SlotIndex(slot) \in 1 .. Len(stack) /\ SlotIndex(slot) > Frame.fp
  BY <1>1, <1>2
<1> QED BY <1>1, <1>2, <1>3

\* Writing above the frame's start keeps what is below.
LEMMA WriteKeeps ==
  ASSUME Safe, InLoop, NEW s \in Seq(StackValues), SameBelow(s), NEW i \in 1 .. Len(s), i > Frame.fp,
         NEW v \in StackValues
  PROVE  LET t == [s EXCEPT ![i] = v]
         IN  t \in Seq(StackValues) /\ Len(t) = Len(s) /\ SameBelow(t)
<1> DEFINE t == [s EXCEPT ![i] = v]
<1>1. t \in Seq(StackValues) /\ Len(t) = Len(s) /\ \A k \in 1 .. Len(s) : k # i => t[k] = s[k]
  OBVIOUS
<1>2. Frame.fp \in Nat /\ Len(s) \in Nat
  BY Fits
<1>3. \A k \in 1 .. Frame.fp : k \in 1 .. Len(s) /\ k # i
  BY <1>2
<1> QED BY <1>1, <1>3 DEF SameBelow

\* GET_LOCAL reads a slot of the running frame.
THEOREM OpGetLocalSafe ==
  ASSUME Safe, OpGetLocal
  PROVE  Safe'
<1> DEFINE s == Append(stack, stack[SlotIndex(Instr.index)])
<1>1. InLoop /\ Instr.op = "GET_LOCAL" /\ Continue(s)
  BY DEF OpGetLocal, At
<1>2. Takes(Instr) = 0 /\ Leaves(Instr) = 1 /\ Reserves(Instr) = 0 /\ SlotsOf(Instr) = {Instr.index}
  BY <1>1 DEF Takes, Leaves, ArithmeticOps, CompareOps, Reserves, SlotsOf
<1>3. Instr.index \in Nat /\ Instr.index < Height
  <2>1. Instr.index \in Nat /\ Instr.index < Height - 0 /\ Height \in Nat
    BY <1>1, <1>2, Fits DEF OperandsFit
  <2> QED BY <2>1
<1>4. s \in Seq(StackValues) /\ Len(s) = Len(stack) + 1 /\ SameBelow(s)
  BY <1>1, <1>3, SlotOnStack, StackItself, AppendKeeps
<1>5. Len(s) = Len(stack) - Takes(Instr) + Leaves(Instr)
  BY <1>1, <1>2, <1>4, StackItself
<1> HIDE DEF s
<1> QED BY <1>1, <1>2, <1>4, <1>5, ContinueStep

\* SET_LOCAL writes a slot of the running frame, and the cell it was captured in.
THEOREM OpSetLocalSafe ==
  ASSUME Safe, OpSetLocal
  PROVE  Safe'
<1> DEFINE s == [Without(1) EXCEPT ![SlotIndex(Instr.index)] = Peek(0)]
           u == IF Instr.index \in DOMAIN Frame.captured
                THEN [upvalues EXCEPT ![Frame.captured[Instr.index]] = Peek(0)]
                ELSE upvalues
<1>1. /\ InLoop /\ Instr.op = "SET_LOCAL" /\ SetStack(s) /\ upvalues' = u /\ frames' = Advanced
      /\ UNCHANGED <<program, constants, calls, heap, mode, collected>>
  BY DEF OpSetLocal, At
<1>2. Takes(Instr) = 1 /\ Leaves(Instr) = 0 /\ Reserves(Instr) = 1 /\ SlotsOf(Instr) = {Instr.index}
  BY <1>1 DEF Takes, Leaves, ArithmeticOps, CompareOps, Reserves, SlotsOf
<1>3. Instr.index \in Nat /\ Instr.index < Height - 1 /\ Height \in Nat /\ 1 <= Height
  BY <1>1, <1>2, Fits DEF OperandsFit
<1>4. Peek(0) \in StackValues
  BY <1>1, <1>3, PeekIs
<1>5. /\ Without(1) \in Seq(StackValues) /\ Len(Without(1)) = Len(stack) - 1
      /\ SameBelow(Without(1)) /\ Frame.fp <= Len(Without(1))
  BY <1>1, <1>3, WithoutKeeps
<1>6. /\ SlotIndex(Instr.index) = Frame.fp + Instr.index + 1 /\ SlotIndex(Instr.index) > Frame.fp
  BY <1>1, <1>3, SlotOnStack
<1>7. SlotIndex(Instr.index) \in 1 .. Len(Without(1))
  <2>1. Frame.fp \in Nat /\ Len(stack) = Frame.fp + Height
    BY <1>1, Fits
  <2> QED BY <1>3, <1>5, <1>6, <2>1
<1>8. s \in Seq(StackValues) /\ Len(s) = Len(stack) - 1 /\ SameBelow(s)
  BY <1>1, <1>4, <1>5, <1>6, <1>7, WriteKeeps
<1>9. Len(s) = Len(stack) - Takes(Instr) + Leaves(Instr)
  BY <1>1, <1>2, <1>8, StackItself
<1>10. u \in [UpvalueCells -> {Free} \cup StackValues]
  <2>1. upvalues \in [UpvalueCells -> {Free} \cup StackValues]
    BY DEF Safe, Typed
  <2>2. FrameOK(Frame)
    BY <1>1, Running
  <2> QED BY <1>4, <2>1, <2>2 DEF FrameOK
<1>11. MemoryOK(heap') /\ HeldKept(heap')
  BY <1>1, SameMemory DEF InLoop
<1>12. ConstantsOK' /\ Inside
  BY <1>1, SameConstants DEF Safe, Inside
<1> HIDE DEF s, u
<1> QED BY <1>1, <1>2, <1>8, <1>9, <1>10, <1>11, <1>12, NextStep

\* A primitive counts as an integer.
LEMMA CounterIsInteger ==
  ASSUME NEW v \in StackValues, IsPrimitive(v)
  PROVE  Counter(v) \in Int
BY StackValueKinds DEF Counter, IsPrimitive, IsA

\* FOR_LOOP changes the counter's slot and enters the body or goes past the
\* loop, with the same height on both ways.
THEOREM OpForLoopSafe ==
  ASSUME Safe, OpForLoop
  PROVE  Safe'
<1> DEFINE control == SlotIndex(Instr.control)
           limit == stack[SlotIndex(Instr.limit)]
           step == IF Instr.step < 0 THEN Num(1) ELSE stack[SlotIndex(Instr.step)]
           next == Counter(stack[control]) + Counter(step)
           moved == [stack EXCEPT ![control] = Num(next)]
           again == IF Instr.inclusive THEN next <= Counter(limit) ELSE next < Counter(limit)
           ip == IF again THEN Instr.body ELSE Frame.ip + 1
           wrong == ~IsPrimitive(stack[control]) \/ ~IsPrimitive(step)
           continues == /\ SetStack(moved)
                        /\ frames' = GoTo(ip)
                        /\ UNCHANGED <<program, constants, calls, heap, upvalues, mode, collected>>
<1>1. /\ InLoop /\ Instr.op = "FOR_LOOP"
      /\ \/ Throw("RuntimeError", stack)
         \/ ~wrong /\ Throw("RuntimeError", moved)
         \/ ~wrong /\ continues
  <2> HIDE DEF control, limit, step, moved, again
  <2> QED BY Zenon DEF OpForLoop, At, Advanced, control, limit, step, moved, again
<1>2. /\ Takes(Instr) = 0 /\ Leaves(Instr) = 0 /\ Reserves(Instr) = 0
      /\ SlotsOf(Instr) = {Instr.control, Instr.limit, Instr.step}
  BY <1>1 DEF Takes, Leaves, ArithmeticOps, CompareOps, Reserves, SlotsOf
<1>3. /\ Instr.control \in Nat /\ Instr.step \in Int
      /\ Instr.control < Height - 0 /\ Instr.step < Height - 0
      /\ Height \in Nat /\ Frame.fp \in Nat /\ Len(stack) = Frame.fp + Height
  BY <1>1, <1>2, Fits DEF OperandsFit
<1>4. Instr.control < Height /\ Instr.step < Height
  BY <1>3
<1>5. control \in 1 .. Len(stack) /\ control > Frame.fp /\ stack[control] \in StackValues
  BY <1>1, <1>3, <1>4, SlotOnStack
<1>6. step \in StackValues
  <2>1. CASE Instr.step < 0
    BY <2>1, StackValueMade
  <2>2. CASE ~(Instr.step < 0)
    BY <1>1, <1>3, <1>4, <2>2, SlotOnStack
  <2> QED BY <2>1, <2>2
<1> HIDE DEF control, step
<1>7. ~wrong => moved \in Seq(StackValues) /\ Len(moved) = Len(stack) /\ SameBelow(moved)
  <2> SUFFICES ASSUME ~wrong
               PROVE  moved \in Seq(StackValues) /\ Len(moved) = Len(stack) /\ SameBelow(moved)
    OBVIOUS
  <2>1. next \in Int
    BY <1>5, <1>6, CounterIsInteger
  <2>2. Num(next) \in StackValues
    BY <2>1, StackValueMade
  <2> HIDE DEF next
  <2> QED BY <1>1, <1>5, <2>2, StackItself, WriteKeeps
<1>8. CASE Throw("RuntimeError", stack)
  BY <1>1, <1>8, StackItself, ThrowStep
<1>9. CASE ~wrong /\ Throw("RuntimeError", moved)
  <2> HIDE DEF moved, wrong
  <2>1. Frame.fp <= Len(moved) /\ Len(moved) <= Len(stack)
    BY <1>1, <1>7, <1>9, StackItself
  <2> QED BY <1>1, <1>7, <1>9, <2>1, ThrowStep
<1>10. CASE ~wrong /\ continues
  <2>1. <<ip, Height>> \in Successors(CodeOf(Frame), <<Frame.ip, Height>>)
    <3> DEFINE instr == CodeOf(Frame)[Frame.ip + 1]
    <3>1. Instr = instr
      BY DEF Instr
    <3> HIDE DEF instr, again
    <3>2. Height - 0 + 0 = Height
      BY <1>3
    <3>3. Successors(CodeOf(Frame), <<Frame.ip, Height>>) =
            {<<Frame.ip + 1, Height - 0 + 0>>, <<instr.body, Height>>}
      BY <1>1, <1>2, <3>1 DEF Successors, instr
    <3> QED BY <3>1, <3>2, <3>3
  <2> HIDE DEF ip, moved, wrong
  <2> QED BY <1>1, <1>3, <1>7, <1>10, <2>1, JumpStep
<1> QED BY <1>1, <1>8, <1>9, <1>10

\* MAKE_ARRAY moves its operands into one new array.
THEOREM OpMakeArraySafe ==
  ASSUME Safe, OpMakeArray
  PROVE  Safe'
<1> DEFINE rest == Without(Instr.count)
           items == SubSeq(stack, Len(rest) + 1, Len(stack))
<1>1. InLoop /\ Instr.op = "MAKE_ARRAY" /\ Produce(rest, Vec(items))
  BY DEF OpMakeArray, At
<1>2. Takes(Instr) = Instr.count /\ Leaves(Instr) = 1
  BY <1>1 DEF Takes, Leaves, ArithmeticOps, CompareOps
<1>3. Instr.count \in Nat /\ Instr.count <= Height
  BY <1>1, <1>2, Fits DEF OperandsFit
<1>4. /\ rest \in Seq(StackValues) /\ Len(rest) = Len(stack) - Instr.count /\ SameBelow(rest)
      /\ Frame.fp <= Len(rest)
  BY <1>1, <1>3, WithoutKeeps
<1>5. Outcome(Vec(items))
  <2>1. stack \in Seq(StackValues) /\ Len(stack) \in Nat /\ Len(rest) + 1 \in 1 .. Len(stack) + 1
    <3>1. stack \in Seq(StackValues) /\ Len(stack) \in Nat
      BY <1>1, StackItself
    <3>2. Len(rest) \in Nat
      BY <1>4
    <3>3. Len(rest) + 1 <= Len(stack) + 1
      <4> HIDE DEF rest
      <4> QED BY <1>3, <1>4, <3>1, <3>2
    <3> HIDE DEF rest
    <3> QED BY <3>1, <3>2, <3>3
  <2> DEFINE from == Len(rest) + 1
  <2>2. from \in 1 .. Len(stack) + 1
    BY <2>1
  <2> HIDE DEF from
  <2>3. SubSeq(stack, from, Len(stack)) \in Seq(StackValues)
    BY <2>1, <2>2
  <2> QED BY <2>3, HeapDataMade, SimpleOutcomes DEF from
<1> HIDE DEF items, rest
<1> QED BY <1>1, <1>2, <1>3, <1>4, <1>5, ProduceStep

\* GET_INDEX replaces the container and the index by an item, or throws.
THEOREM OpGetIndexSafe ==
  ASSUME Safe, OpGetIndex
  PROVE  Safe'
<1> DEFINE d == Index(Deref(Memory, Peek(1)), Peek(0))
<1>1. InLoop /\ Instr.op = "GET_INDEX" /\ Produce(Without(2), d)
  BY DEF OpGetIndex, At
<1>2. Takes(Instr) = 2 /\ Leaves(Instr) = 1
  BY <1>1 DEF Takes, Leaves, ArithmeticOps, CompareOps
<1>3. Height \in Nat /\ 2 <= Height
  BY <1>1, <1>2, Fits
<1>4. IsContent(Deref(Memory, Peek(1))) /\ Peek(0) \in StackValues
  BY <1>1, <1>3, PeekIs
<1>5. Outcome(d)
  BY <1>4, IndexOutcome
<1> HIDE DEF d
<1>6. /\ Without(2) \in Seq(StackValues) /\ Len(Without(2)) = Len(stack) - 2
      /\ SameBelow(Without(2)) /\ Frame.fp <= Len(Without(2))
  BY <1>1, <1>3, WithoutKeeps
<1> QED BY <1>1, <1>2, <1>5, <1>6, ProduceStep

\* An array is never a constant: what leads to one is a cell of the heap.
LEMMA ArrayInHeap ==
  ASSUME Typed, NEW v \in StackValues, IsA("vec", Deref(Memory, v))
  PROVE  /\ IsA("cell", v) /\ v[2] \in Cells
         /\ Deref(Memory, v) = heap[v[2]]
         /\ heap[v[2]] = Vec(heap[v[2]][2]) /\ heap[v[2]][2] \in Seq(StackValues)
<1>1. ConstantsOK /\ ProgramOK /\ MemoryOK(heap)
  BY TypedMeans
<1>2. ~IsA("const", v)
  <2> SUFFICES ASSUME IsA("const", v) PROVE FALSE
    OBVIOUS
  <2> DEFINE i == v[2]
  <2>1. i \in Loadable(program, Shape) /\ Deref(Memory, v) = constants[i]
    BY StackValueKinds DEF Deref, IsA, Memory
  <2>2. i \in DOMAIN constants /\ i \in DOMAIN program.constants
    BY <1>1, <2>1 DEF ConstantsOK, Loadable
  <2>3. CASE i \in Templates(program)
    <3>1. IsA("fun", constants[i])
      BY <1>1, <2>3, TemplateKept
    <3> QED BY <2>1, <3>1 DEF IsA
  <2>4. CASE i \notin Templates(program)
    <3>1. constants[i] = program.constants[i]
      BY <1>1, <2>2, <2>4 DEF ConstantsOK, ConstantKept
    <3>2. program.constants[i] \in {Nil} \cup ({"bool"} \X BOOLEAN) \cup ({"int"} \X Int)
                                     \cup ({"str"} \X Seq(STRING))
      BY <1>1, <2>2, <2>4 DEF ProgramOK, WellFormed, ConstantFits, Templates, IsA
    <3> QED BY <2>1, <3>1, <3>2 DEF IsA, Nil
  <2> QED BY <2>3, <2>4
<1>3. IsA("cell", v)
  <2>1. ~IsA("cell", v) => Deref(Memory, v) = v
    BY <1>2 DEF Deref
  <2> QED BY <2>1, StackValueKinds DEF IsA, StackTags
<1>4. v[2] \in Cells /\ Deref(Memory, v) = heap[v[2]]
  BY <1>3, StackValueKinds DEF Deref, Memory
<1>5. IsHeapData(heap[v[2]]) /\ IsA("vec", heap[v[2]])
  BY <1>1, <1>4 DEF MemoryOK
<1> QED BY <1>3, <1>4, <1>5, HeapDataKinds

\* SET_INDEX changes one element in place: an array that a builtin goes through
\* keeps its place and its length.
THEOREM OpSetIndexSafe ==
  ASSUME Safe, OpSetIndex
  PROVE  Safe'
<1> DEFINE array == Peek(2)
           index == Peek(1)
           e == IndexMutError(Deref(Memory, array), index)
           c == array[2]
           i == index[2] + 1
<1>1. /\ InLoop /\ Instr.op = "SET_INDEX"
      /\ \/ Throw(e[2], Without(2))
         \/ /\ ~Failed(e)
            /\ heap' = [heap EXCEPT ![c][2][i] = Peek(0)]
            /\ SetStack(Without(3))
            /\ frames' = Advanced
            /\ UNCHANGED <<program, constants, calls, upvalues, mode, collected>>
  BY DEF OpSetIndex, At
<1>2. Takes(Instr) = 3 /\ Leaves(Instr) = 0
  BY <1>1 DEF Takes, Leaves, ArithmeticOps, CompareOps
<1>3. Height \in Nat /\ 3 <= Height
  BY <1>1, <1>2, Fits
<1>4. /\ array \in StackValues /\ index \in StackValues /\ Peek(0) \in StackValues
      /\ IsContent(Deref(Memory, array))
  BY <1>1, <1>3, PeekIs
<1>5. /\ Without(2) \in Seq(StackValues) /\ Len(Without(2)) = Len(stack) - 2
      /\ SameBelow(Without(2)) /\ Frame.fp <= Len(Without(2))
      /\ Without(3) \in Seq(StackValues) /\ Len(Without(3)) = Len(stack) - 3
      /\ SameBelow(Without(3))
  BY <1>1, <1>3, WithoutKeeps
<1>6. CASE Throw(e[2], Without(2))
  <2>1. Len(Without(2)) <= Len(stack)
    BY <1>1, <1>5, StackItself
  <2> QED BY <1>1, <1>5, <1>6, <2>1, ThrowStep
<1>7. CASE /\ ~Failed(e)
           /\ heap' = [heap EXCEPT ![c][2][i] = Peek(0)]
           /\ SetStack(Without(3))
           /\ frames' = Advanced
           /\ UNCHANGED <<program, constants, calls, upvalues, mode, collected>>
  <2> DEFINE d == Deref(Memory, array)
  <2>1. ~Failed(IndexError(d, index))
        /\ ~(IsA("str", d) /\ IsA("int", index) /\ index[2] >= 0)
    BY <1>7, SimpleOutcomes DEF IndexMutError
  <2>2. IsContainer(d) /\ IsA("int", index) /\ i \in 1 .. Len(d[2])
    BY <1>4, <2>1, IndexErrorNil
  <2>3. index[2] >= 0
    <3>1. index[2] \in Int
      BY <1>4, <2>2, StackValueKinds
    <3> HIDE DEF index, d
    <3> QED BY <2>2, <3>1
  <2>4. IsA("vec", d)
    BY <2>1, <2>2, <2>3 DEF IsContainer, IsA
  <2>5. /\ c \in Cells /\ d = heap[c]
        /\ heap[c] = Vec(heap[c][2]) /\ heap[c][2] \in Seq(StackValues)
    BY <1>4, <2>4, ArrayInHeap DEF Safe
  <2> DEFINE t == [heap[c][2] EXCEPT ![i] = Peek(0)]
  <2>6. t \in Seq(StackValues) /\ Len(t) = Len(heap[c][2])
    BY <1>4, <2>2, <2>5
  <2>7. MemoryOK(heap)
    BY TypedMeans DEF Safe
  <2>8. /\ DOMAIN heap' = DOMAIN heap /\ heap'[c] = Vec(t)
        /\ \A a \in Cells : a # c => heap'[a] = heap[a]
    <3>1. heap' = [heap EXCEPT ![c] = [heap[c] EXCEPT ![2] = t]]
      BY <1>7
    <3>2. [heap[c] EXCEPT ![2] = t] = Vec(t)
      <4> DEFINE s == heap[c][2]
      <4>1. heap[c] = <<"vec", s>>
        BY <2>5 DEF Vec
      <4> HIDE DEF s, t, c
      <4>2. [<<"vec", s>> EXCEPT ![2] = t] = <<"vec", t>>
        OBVIOUS
      <4> QED BY <4>1, <4>2 DEF Vec
    <3> HIDE DEF t, c
    <3> QED BY <2>5, <2>7, <3>1, <3>2 DEF MemoryOK
  <2> HIDE DEF t, c, i
  <2>9. MemoryOK(heap')
    BY <2>5, <2>6, <2>7, <2>8, HeapDataMade DEF MemoryOK
  <2>10. HeldKept(heap')
    <3> SUFFICES ASSUME NEW k \in DOMAIN calls, calls[k].kind = "native"
                 PROVE  LET a == calls[k].args[2]
                        IN  IsA("vec", heap'[a[2]]) /\ Len(heap'[a[2]][2]) = Len(heap[a[2]][2])
      BY DEF HeldKept
    <3> DEFINE a == calls[k].args[2]
    <3>1. IsA("vec", heap[a[2]])
      BY <1>1, SameMemory DEF HeldKept, InLoop
    <3>2. a[2] \in Cells
      <4>1. IsA("cell", a)
        BY <1>1, Zenon DEF Safe, InLoop, Nested, ArraysHeld
      <4>2. a \in StackValues
        <5>1. CallOK(calls[k])
          BY DEF Safe, Typed
        <5> QED BY <5>1, CallMeans
      <4> QED BY <4>1, <4>2, StackValueKinds
    <3>3. CASE a[2] = c
      <4>1. heap'[a[2]] = Vec(t)
        BY <2>8, <3>3
      <4>2. IsA("vec", Vec(t)) /\ Vec(t)[2] = t
        BY DEF IsA, Vec
      <4> QED BY <2>6, <3>3, <4>1, <4>2, Zenon
    <3>4. CASE a[2] # c
      BY <2>8, <3>1, <3>2, <3>4
    <3> QED BY <3>3, <3>4
  <2>11. /\ upvalues' \in [UpvalueCells -> {Free} \cup StackValues]
         /\ ConstantsOK' /\ Inside
    BY <1>7, SameConstants DEF Safe, Typed, Inside
  <2>12. Len(Without(3)) = Len(stack) - Takes(Instr) + Leaves(Instr)
    BY <1>1, <1>2, <1>5, StackItself
  <2> DEFINE s == Without(3)
  <2>13. /\ InLoop /\ Instr.op \notin {"RETURN", "JUMP", "JUMP_IF"}
         /\ frames' = Advanced /\ s \in Seq(StackValues) /\ SetStack(s) /\ SameBelow(s)
         /\ Takes(Instr) \in Int /\ Leaves(Instr) \in Int
         /\ Len(s) = Len(stack) - Takes(Instr) + Leaves(Instr)
    BY <1>1, <1>2, <1>5, <1>7, <2>12
  <2> HIDE DEF s
  <2> QED BY <2>9, <2>10, <2>11, <2>13, NextStep
<1> QED BY <1>1, <1>6, <1>7

\* The cell that an upvalue instruction names is one of the function's.
LEMMA UpvalueIsCell ==
  ASSUME Safe, InLoop, Instr.op \in {"GET_UPVALUE", "SET_UPVALUE"}
  PROVE  /\ Upvalue \in UpvalueCells
         /\ upvalues[Upvalue] # Free => upvalues[Upvalue] \in StackValues
<1>1. FrameOK(Frame)
  BY Running
<1>2. Instr.index \in 0 .. Shape[Frame.chunk + 1].cells - 1
  BY Fits DEF OperandsFit
<1>3. /\ Frame.upvals \in Seq(UpvalueCells)
      /\ Len(Frame.upvals) = Shape[Frame.chunk + 1].cells
  BY <1>1 DEF FrameOK, IsClosure
<1>4. Instr.index + 1 \in 1 .. Len(Frame.upvals)
  BY <1>2, <1>3
<1>5. Upvalue \in UpvalueCells
  BY <1>3, <1>4 DEF Upvalue
<1> QED BY <1>5 DEF Safe, Typed

\* GET_UPVALUE reads a cell that the running function holds.
THEOREM OpGetUpvalueSafe ==
  ASSUME Safe, OpGetUpvalue
  PROVE  Safe'
<1> DEFINE s == Append(stack, upvalues[Upvalue])
<1>1. /\ InLoop /\ Instr.op = "GET_UPVALUE"
      /\ Throw("undefined", stack) \/ (upvalues[Upvalue] # Free /\ Continue(s))
  BY DEF OpGetUpvalue, At
<1>2. Takes(Instr) = 0 /\ Leaves(Instr) = 1
  BY <1>1 DEF Takes, Leaves, ArithmeticOps, CompareOps
<1>3. CASE Throw("undefined", stack)
  BY <1>1, <1>3, StackItself, ThrowStep
<1>4. CASE upvalues[Upvalue] # Free /\ Continue(s)
  <2>1. s \in Seq(StackValues) /\ Len(s) = Len(stack) + 1 /\ SameBelow(s)
    BY <1>1, <1>4, UpvalueIsCell, StackItself, AppendKeeps
  <2>2. Len(s) = Len(stack) - Takes(Instr) + Leaves(Instr)
    BY <1>1, <1>2, <2>1, StackItself
  <2> HIDE DEF s
  <2> QED BY <1>1, <1>2, <1>4, <2>1, <2>2, ContinueStep
<1> QED BY <1>1, <1>3, <1>4

\* SET_UPVALUE writes a cell that the running function holds.
THEOREM OpSetUpvalueSafe ==
  ASSUME Safe, OpSetUpvalue
  PROVE  Safe'
<1> DEFINE s == Without(1)
           u == [upvalues EXCEPT ![Upvalue] = Peek(0)]
<1>1. /\ InLoop /\ Instr.op = "SET_UPVALUE"
      /\ \/ Throw("undefined", stack)
         \/ /\ SetStack(s) /\ upvalues' = u /\ frames' = Advanced
            /\ UNCHANGED <<program, constants, calls, heap, mode, collected>>
  BY DEF OpSetUpvalue, At
<1>2. Takes(Instr) = 1 /\ Leaves(Instr) = 0
  BY <1>1 DEF Takes, Leaves, ArithmeticOps, CompareOps
<1>3. Height \in Nat /\ 1 <= Height
  BY <1>1, <1>2, Fits
<1>4. CASE Throw("undefined", stack)
  BY <1>1, <1>4, StackItself, ThrowStep
<1>5. CASE /\ SetStack(s) /\ upvalues' = u /\ frames' = Advanced
           /\ UNCHANGED <<program, constants, calls, heap, mode, collected>>
  <2>1. s \in Seq(StackValues) /\ Len(s) = Len(stack) - 1 /\ SameBelow(s)
    BY <1>1, <1>3, WithoutKeeps
  <2>2. Len(s) = Len(stack) - Takes(Instr) + Leaves(Instr)
    BY <1>1, <1>2, <2>1, StackItself
  <2>3. upvalues' \in [UpvalueCells -> {Free} \cup StackValues]
    <3>1. Upvalue \in UpvalueCells /\ Peek(0) \in StackValues
      BY <1>1, <1>3, UpvalueIsCell, PeekIs
    <3> QED BY <1>5, <3>1 DEF Safe, Typed
  <2>4. MemoryOK(heap') /\ HeldKept(heap')
    BY <1>1, <1>5, SameMemory DEF InLoop
  <2>5. ConstantsOK' /\ Inside
    BY <1>5, SameConstants DEF Safe, Inside
  <2> HIDE DEF s, u
  <2> QED BY <1>1, <1>2, <1>5, <2>1, <2>2, <2>3, <2>4, <2>5, NextStep
<1> QED BY <1>1, <1>4, <1>5

CaptureStart ==
  [refs |-> constants[Instr.function][2].upvals, captured |-> Frame.captured, store |-> upvalues]

Captures == FoldLeft(Capture, CaptureStart, Instr.upvalues)

\* An element of a sequence over a set.
LEMMA ElementOf ==
  ASSUME NEW S, NEW s \in Seq(S), NEW k \in 1 .. Len(s)
  PROVE  s[k] \in S
OBVIOUS

\* The cells that a closure gets: one for each variable that it captures.
LEMMA CapturesMade ==
  ASSUME Safe, InLoop, Instr.op = "CLOSURE", IsA("fun", constants[Instr.function]),
         Cardinality(FreeUpvalues(upvalues)) >= Len(Instr.upvalues)
  PROVE  /\ Instr.function \in Templates(program)
         /\ Captures.refs \in Seq(UpvalueCells)
         /\ Len(Captures.refs) = CellsOf(program, Shape, Instr.function)
         /\ \A s \in DOMAIN Captures.captured : Captures.captured[s] \in UpvalueCells
         /\ Captures.store \in [UpvalueCells -> {Free} \cup StackValues]
<1> DEFINE fn == Instr.function
           us == Instr.upvalues
           n == Len(us)
           cells == Shape[Frame.chunk + 1].cells
<1>1. Typed /\ ConstantsOK /\ ProgramOK /\ FrameOK(Frame)
  BY Running, TypedMeans DEF Safe
<1>2. /\ fn \in DOMAIN program.constants
      /\ us \in Seq([local : BOOLEAN, index : Nat])
      /\ \A i \in DOMAIN us : us[i].local \/ us[i].index < cells
      /\ fn \in Templates(program) => n = CellsOf(program, Shape, fn)
  BY Fits DEF OperandsFit
<1>3. fn \in Templates(program)
  <2> SUFFICES ASSUME fn \notin Templates(program) PROVE FALSE
    OBVIOUS
  <2>1. constants[fn] = program.constants[fn]
    BY <1>1, <1>2 DEF ConstantsOK, ConstantKept
  <2> QED BY <1>2, <2>1 DEF Templates
<1>4. n \in Nat /\ DOMAIN us = 1 .. n
  BY <1>2
<1>5. CaptureKeeps(n, 0, CaptureStart)
  <2>1. constants[fn][2].upvals = <<>>
    BY <1>1, <1>3, TemplateKept
  <2>2. <<>> \in Seq(UpvalueCells) /\ Len(<<>>) = 0
    OBVIOUS
  <2>3. upvalues \in [UpvalueCells -> {Free} \cup StackValues]
    BY <1>1 DEF Typed
  <2>4. \A s \in DOMAIN Frame.captured : Frame.captured[s] \in UpvalueCells
    BY <1>1 DEF FrameOK
  <2>5. Cardinality(FreeUpvalues(upvalues)) >= n - 0
    BY <1>4
  <2> HIDE DEF n
  <2>6. CaptureKeeps(n, 0, [refs |-> <<>>, captured |-> Frame.captured, store |-> upvalues])
    BY <2>2, <2>3, <2>4, <2>5, CaptureMade
  <2> QED BY <2>1, <2>6 DEF CaptureStart
<1>6. ASSUME NEW k \in 1 .. n, NEW acc, CaptureKeeps(n, k - 1, acc)
      PROVE  CaptureKeeps(n, k, CaptureOp(n, acc, us[k]))
  <2> DEFINE u == us[k]
  <2>1. u \in [local : BOOLEAN, index : Nat] /\ (u.local \/ u.index < cells)
    <3>1. k \in 1 .. Len(us) /\ k \in DOMAIN us /\ us \in Seq([local : BOOLEAN, index : Nat])
      BY <1>2, <1>4
    <3> HIDE DEF us, cells
    <3>2. us[k] \in [local : BOOLEAN, index : Nat]
      BY <3>1, ElementOf
    <3> QED BY <1>2, <3>1, <3>2
  <2>2. u.local => stack[SlotIndex(u.index)] \in StackValues
    <3> SUFFICES ASSUME u.local PROVE stack[SlotIndex(u.index)] \in StackValues
      OBVIOUS
    <3>1. SlotsOf(Instr) = {w.index : w \in {v \in ToSet(us) : v.local}} /\ Reserves(Instr) = 0
      BY DEF SlotsOf, Reserves
    <3>2. u \in {v \in ToSet(us) : v.local}
      BY <1>4 DEF ToSet
    <3> HIDE DEF u
    <3>3. u.index \in SlotsOf(Instr)
      BY <3>1, <3>2
    <3>4. u.index < Height - 0 /\ Height \in Nat
      BY <3>1, <3>3, Fits
    <3>5. u.index < Height
      BY <3>4
    <3> QED BY <2>1, <3>5, SlotOnStack
  <2>3. ~u.local => Frame.closure.upvals[u.index + 1] \in UpvalueCells
    <3> SUFFICES ASSUME ~u.local PROVE Frame.closure.upvals[u.index + 1] \in UpvalueCells
      OBVIOUS
    <3>1. Frame.closure.upvals \in Seq(UpvalueCells) /\ Len(Frame.closure.upvals) = cells
      BY <1>1 DEF FrameOK, IsClosure
    <3>2. u.index + 1 \in 1 .. Len(Frame.closure.upvals)
      <4>1. u.index \in Nat /\ u.index < cells
        BY <2>1
      <4>2. cells \in Nat
        BY <3>1
      <4> HIDE DEF u, cells
      <4> QED BY <3>1, <4>1, <4>2
    <3> HIDE DEF u
    <3> QED BY <3>1, <3>2
  <2> HIDE DEF u
  <2>4. CaptureKeeps(n, k, Capture(acc, u))
    BY <1>4, <1>6, <2>2, <2>3, CaptureKeepsOne
  <2> QED BY <2>4, Zenon DEF CaptureOp, u
<1>7. Captures = Capturing!Folded(n, CaptureStart, us)
  BY Zenon DEF Captures, CaptureOp, FoldLeft, Capturing!Folded, Capturing!FoldLeft, MapThenFoldSet,
               Capturing!MapThenFoldSet, Max, Capturing!Max
<1>8. CaptureKeeps(n, n, Captures)
  <2> DEFINE acc0 == CaptureStart
  <2> HIDE DEF us, acc0
  <2> QED BY <1>4, <1>5, <1>6, <1>7, Capturing!FoldLeftKeeps, Zenon DEF acc0
<1>9. /\ Captures.refs \in Seq(UpvalueCells) /\ Len(Captures.refs) = n
      /\ \A s \in DOMAIN Captures.captured : Captures.captured[s] \in UpvalueCells
      /\ Captures.store \in [UpvalueCells -> {Free} \cup StackValues]
  BY <1>8 DEF CaptureKeeps
<1> QED BY <1>2, <1>3, <1>9

\* What is left of a template is a template without its name.
LEMMA MovedIsTemplate ==
  ASSUME NEW f \in [chunk : Nat, arity : Nat, name : STRING, curried : {<<>>}, upvals : {<<>>}],
         NEW g, DOMAIN g = {"chunk", "arity", "name", "curried", "upvals"},
         g.chunk = f.chunk, g.arity = f.arity
  PROVE  MovedFrom(g) = [f EXCEPT !.name = MovedFrom(g).name]
<1>1. ASSUME NEW name
      PROVE  LET m == [g EXCEPT !.name = name, !.curried = <<>>, !.upvals = <<>>]
             IN  m = [f EXCEPT !.name = m.name]
  <2> DEFINE m == [g EXCEPT !.name = name, !.curried = <<>>, !.upvals = <<>>]
             r == [f EXCEPT !.name = name]
             fields == {"chunk", "arity", "name", "curried", "upvals"}
  <2>1. /\ m = [x \in fields |-> m[x]] /\ r = [x \in fields |-> r[x]]
        /\ m.name = name /\ m.chunk = f.chunk /\ m.arity = f.arity
        /\ m.curried = <<>> /\ m.upvals = <<>>
        /\ r.name = name /\ r.chunk = f.chunk /\ r.arity = f.arity
        /\ r.curried = <<>> /\ r.upvals = <<>>
    OBVIOUS
  <2>2. \A x \in fields : m[x] = r[x]
    BY <2>1
  <2> HIDE DEF m, r
  <2>3. m = r
    BY <2>1, <2>2
  <2> QED BY <2>1, <2>3 DEF r
<1> QED BY <1>1, Zenon DEF MovedFrom

\* CLOSURE makes a function that holds as many cells as its code uses, and leaves
\* the template usable for the next closure.
THEOREM OpClosureSafe ==
  ASSUME Safe, OpClosure
  PROVE  Safe'
<1> DEFINE fn == Instr.function
           template == constants[fn][2]
           closed == [template EXCEPT !.upvals = Captures.refs]
           stored == HeapStore(heap, Fun(closed))
           s == Append(stack, stored.value)
           g == [[Frame EXCEPT !.ip = Frame.ip + 1] EXCEPT !.captured = Captures.captured]
<1>1. /\ InLoop /\ Instr.op = "CLOSURE"
      /\ \/ Throw("RuntimeError", stack)
         \/ /\ IsA("fun", constants[fn]) /\ HasRoom
            /\ Cardinality(FreeUpvalues(upvalues)) >= Len(Instr.upvalues)
            /\ constants' = [constants EXCEPT ![fn] = Fun(MovedFrom(closed))]
            /\ upvalues' = Captures.store
            /\ frames' = [Advanced EXCEPT ![Len(frames)].captured = Captures.captured]
            /\ heap' = stored.heap
            /\ SetStack(s)
            /\ UNCHANGED <<program, calls, mode, collected>>
  BY Zenon DEF OpClosure, At, Captures, CaptureStart, FreeUpvalues
<1>2. CASE Throw("RuntimeError", stack)
  BY <1>1, <1>2, StackItself, ThrowStep
<1>3. CASE /\ IsA("fun", constants[fn]) /\ HasRoom
           /\ Cardinality(FreeUpvalues(upvalues)) >= Len(Instr.upvalues)
           /\ constants' = [constants EXCEPT ![fn] = Fun(MovedFrom(closed))]
           /\ upvalues' = Captures.store
           /\ frames' = [Advanced EXCEPT ![Len(frames)].captured = Captures.captured]
           /\ heap' = stored.heap
           /\ SetStack(s)
           /\ UNCHANGED <<program, calls, mode, collected>>
  <2>1. Typed /\ ConstantsOK /\ ProgramOK /\ FrameOK(Frame) /\ MemoryOK(heap)
    BY <1>1, Running, TypedMeans DEF Safe
  <2>2. /\ fn \in Templates(program)
        /\ Captures.refs \in Seq(UpvalueCells)
        /\ Len(Captures.refs) = CellsOf(program, Shape, fn)
        /\ \A slot \in DOMAIN Captures.captured : Captures.captured[slot] \in UpvalueCells
        /\ Captures.store \in [UpvalueCells -> {Free} \cup StackValues]
    BY <1>1, <1>3, CapturesMade
  <2> DEFINE f == program.constants[fn][2]
             fields == {"chunk", "arity", "name", "curried", "upvals"}
  <2>3. /\ fn \in DOMAIN constants /\ DOMAIN template = fields
        /\ template.chunk = f.chunk /\ template.chunk \in Nat
        /\ template.chunk + 1 \in DOMAIN Shape
        /\ template.arity = f.arity /\ template.arity = Shape[template.chunk + 1].arity
        /\ template.curried = <<>>
        /\ f \in [chunk : Nat, arity : Nat, name : STRING, curried : {<<>>}, upvals : {<<>>}]
    BY <2>1, <2>2, TemplateKept
  <2> HIDE DEF template, f
  <2>7. /\ DOMAIN closed = fields /\ closed.upvals = Captures.refs
        /\ closed.chunk = template.chunk /\ closed.arity = template.arity
        /\ closed.curried = <<>>
    BY <2>3
  <2> HIDE DEF closed
  <2>8. IsClosure(closed)
    <3>0. CellsOf(program, Shape, fn) = Shape[f.chunk + 1].cells
      BY DEF CellsOf, f
    <3>1. Len(closed.upvals) = Shape[closed.chunk + 1].cells /\ closed.upvals \in Seq(UpvalueCells)
      BY <2>2, <2>3, <2>7, <3>0
    <3>2. closed.curried \in Seq(StackValues)
      <4>1. <<>> \in Seq(StackValues)
        OBVIOUS
      <4> QED BY <2>7, <4>1
    <3> QED BY <2>3, <2>7, <3>1, <3>2 DEF IsClosure
  <2>9. /\ stored.value \in StackValues /\ MemoryOK(stored.heap) /\ Extends(heap, stored.heap)
    <3>1. IsData(Fun(closed))
      BY <2>8, HeapDataMade DEF IsData
    <3>2. Cardinality(FreeOf(heap)) >= 1
      BY <1>3, RoomForOne, FreeIsFinite
    <3> QED BY <2>1, <3>1, <3>2, HeapStoreKeeps
  <2> HIDE DEF stored
  <2>10. MemoryOK(heap') /\ HeldKept(heap')
    BY <1>1, <1>3, <2>9, ExtendedHolds DEF InLoop
  <2>11. ConstantsOK'
    <3> DEFINE moved == MovedFrom(closed)
    <3>1. moved = [f EXCEPT !.name = moved.name]
      <4>1. DOMAIN closed = {"chunk", "arity", "name", "curried", "upvals"}
            /\ closed.chunk = f.chunk /\ closed.arity = f.arity
        BY <2>3, <2>7
      <4>2. MovedFrom(closed) = [f EXCEPT !.name = MovedFrom(closed).name]
        BY <2>3, <4>1, MovedIsTemplate, Zenon
      <4> QED BY <4>2
    <3> HIDE DEF moved
    <3>2. /\ DOMAIN constants' = DOMAIN constants
          /\ constants'[fn] = Fun(moved)
          /\ \A i \in DOMAIN constants : i # fn => constants'[i] = constants[i]
      BY <1>3, <2>3 DEF moved
    <3>3. constants'[fn][2] = moved
      BY <3>2 DEF Fun
    <3>4. ASSUME NEW i \in DOMAIN constants
          PROVE  IF i \in Templates(program)
                 THEN constants'[i] = Fun([program.constants[i][2] EXCEPT !.name = constants'[i][2].name])
                 ELSE constants'[i] = program.constants[i]
      <4>1. CASE i = fn
        BY <2>2, <3>1, <3>2, <3>3, <4>1 DEF f
      <4>2. CASE i # fn
        BY <2>1, <3>2, <4>2 DEF ConstantsOK, ConstantKept
      <4> QED BY <4>1, <4>2
    <3> QED BY <1>3, <2>1, <3>2, <3>4 DEF ConstantsOK, ConstantKept
  <2>12. s \in Seq(StackValues) /\ Len(s) = Len(stack) + 1 /\ SameBelow(s)
    BY <1>1, <2>9, StackItself, AppendKeeps
  <2>13. /\ FrameOK(g) /\ g.chunk = Frame.chunk /\ g.fp = Frame.fp /\ g.ip = Frame.ip + 1
         /\ frames' = [frames EXCEPT ![Len(frames)] = g]
    <3> DEFINE h == [Frame EXCEPT !.ip = Frame.ip + 1]
    <3>1. /\ FrameOK(h) /\ h.chunk = Frame.chunk /\ h.fp = Frame.fp /\ h.ip = Frame.ip + 1
          /\ Advanced = [frames EXCEPT ![Len(frames)] = h]
      <4>1. InLoop /\ Frame.ip + 1 \in Nat
        BY <1>1, Fits
      <4> QED BY <4>1, FrameAt DEF Advanced
    <3> HIDE DEF h
    <3>2. /\ DOMAIN g = DOMAIN h /\ g.captured = Captures.captured
          /\ \A field \in DOMAIN h : field # "captured" => g[field] = h[field]
      BY <3>1 DEF FrameOK, h
    <3>3. /\ g.chunk = h.chunk /\ g.fp = h.fp /\ g.self = h.self /\ g.ip = h.ip
          /\ g.closure = h.closure /\ g.upvals = h.upvals
      BY <3>1, <3>2 DEF FrameOK
    <3>4. frames' = [frames EXCEPT ![Len(frames)] = g]
      <4>1. Len(frames) \in DOMAIN frames
        BY <1>1, <2>1, Running, TypedMeans
      <4> QED BY <1>3, <3>1, <4>1 DEF h
    <3> HIDE DEF g
    <3>5. FrameOK(g)
      BY <2>2, <3>1, <3>2, <3>3 DEF FrameOK
    <3> QED BY <3>1, <3>3, <3>4, <3>5
  <2>14. /\ g.ip \in DOMAIN HeightsOf(Frame)
         /\ Len(s) = Frame.fp + HeightsOf(Frame)[g.ip]
    <3>1. Takes(Instr) = 0 /\ Leaves(Instr) = 1
      BY <1>1 DEF Takes, Leaves, ArithmeticOps, CompareOps
    <3>2. <<Frame.ip + 1, Height - 0 + 1>> \in Successors(CodeOf(Frame), <<Frame.ip, Height>>)
      BY <1>1, <3>1, Behind
    <3>3. /\ Frame.ip + 1 \in DOMAIN HeightsOf(Frame)
          /\ HeightsOf(Frame)[Frame.ip + 1] = Height - 0 + 1
          /\ Height \in Nat /\ Frame.fp \in Nat /\ Len(stack) = Frame.fp + Height
      BY <1>1, <3>2, Fits
    <3> HIDE DEF g, s
    <3>4. Len(stack) + 1 = Frame.fp + (Height - 0 + 1)
      BY <3>3
    <3> QED BY <2>12, <2>13, <3>3, <3>4, Zenon
  <2>15. upvalues' \in [UpvalueCells -> {Free} \cup StackValues]
    BY <1>3, <2>2
  <2>16. Inside /\ SetStack(s)
    BY <1>3 DEF Inside
  <2> HIDE DEF g, s
  <2> QED BY <1>1, <2>10, <2>11, <2>12, <2>13, <2>14, <2>15, <2>16, LocalStep
<1> QED BY <1>1, <1>2, <1>3

----------------------------------------------------------------------------
(* The collector *)

\* What is reached in one more step.
Wider(X) == X \cup UNION {Marks(o) : o \in X}

\* A function on a finite set has finitely many values.
LEMMA ImageIsFinite ==
  ASSUME NEW f, IsFiniteSet(DOMAIN f)
  PROVE  IsFiniteSet({f[x] : x \in DOMAIN f})
<1> DEFINE T == {f[x] : x \in DOMAIN f}
           g == [x \in DOMAIN f |-> f[x]]
<1>1. g \in Surjection(DOMAIN f, T)
  BY DEF Surjection
<1> HIDE DEF g
<1> QED BY <1>1, FS_Surjection

\* The objects that the collector goes through are finitely many.
LEMMA ObjectsAreFinite ==
  ASSUME Typed
  PROVE  IsFiniteSet(Objects)
<1>1. IsFiniteSet(Cells) /\ IsFiniteSet(UpvalueCells)
  BY BoundsAssumption, FS_Interval DEF Cells, UpvalueCells
<1>2. IsFiniteSet(DOMAIN constants)
  BY TypedMeans DEF ProgramOK, WellFormed, ConstantsOK
<1>3. /\ IsFiniteSet({Cell(c) : c \in Cells}) /\ IsFiniteSet({Up(u) : u \in UpvalueCells})
      /\ IsFiniteSet({Const(i) : i \in DOMAIN constants})
  <2> DEFINE f == [c \in Cells |-> Cell(c)]
             g == [u \in UpvalueCells |-> Up(u)]
             h == [i \in DOMAIN constants |-> Const(i)]
  <2>1. /\ DOMAIN f = Cells /\ DOMAIN g = UpvalueCells /\ DOMAIN h = DOMAIN constants
        /\ {Cell(c) : c \in Cells} = {f[c] : c \in DOMAIN f}
        /\ {Up(u) : u \in UpvalueCells} = {g[u] : u \in DOMAIN g}
        /\ {Const(i) : i \in DOMAIN constants} = {h[i] : i \in DOMAIN h}
    OBVIOUS
  <2> HIDE DEF f, g, h
  <2> QED BY <1>1, <1>2, <2>1, ImageIsFinite, Zenon
<1> QED BY <1>3, FS_Union, Zenon DEF Objects

\* A pointer that the stack may hold leads to an object.
LEMMA PointersAreObjects ==
  ASSUME ConstantsOK, NEW S, S \subseteq {Free} \cup StackValues
  PROVE  PointersOf(S) \subseteq Objects
<1> SUFFICES ASSUME NEW v \in S, IsPointer(v) PROVE v \in Objects
  BY DEF PointersOf
<1>1. v \in StackValues
  BY DEF IsPointer, Free
<1>2. \/ v \in {"cell"} \X Cells
      \/ v \in {"const"} \X Loadable(program, Shape)
  BY <1>1 DEF StackValues, IsPointer, Nil
<1>3. Loadable(program, Shape) \subseteq DOMAIN constants
  BY DEF Loadable, ConstantsOK
<1> QED BY <1>2, <1>3 DEF Objects, Cell, Const

\* Marking an object leads to objects.
LEMMA MarksAreObjects ==
  ASSUME Typed, NEW o \in Objects
  PROVE  Marks(o) \subseteq Objects
<1>1. ConstantsOK /\ ProgramOK /\ MemoryOK(heap)
  BY TypedMeans
<1>2. CASE IsA("upvalue", o)
  <2>1. Marks(o) = PointersOf({upvalues[o[2]]})
    BY <1>2 DEF Marks, Refs
  <2>2. o[2] \in UpvalueCells
    BY <1>2 DEF Objects, IsA, Cell, Const, Up
  <2>3. upvalues[o[2]] \in {Free} \cup StackValues
    BY <2>2 DEF Typed
  <2> QED BY <1>1, <2>1, <2>3, PointersAreObjects
<1>3. CASE ~IsA("upvalue", o)
  <2> DEFINE d == Deref(Memory, o)
  <2>1. CASE IsFunction(d)
    BY <1>3, <2>1 DEF Marks
  <2>2. CASE ~IsFunction(d)
    <3>1. Marks(o) = PointersOf(ValuesIn(d)) \cup {Up(u) : u \in UpvaluesIn(d)}
      BY <1>3, <2>2 DEF Marks, Refs
    <3>2. IsContent(d)
      <4>1. CASE IsA("cell", o)
        <5>1. o[2] \in Cells /\ d = heap[o[2]]
          BY <4>1 DEF Objects, IsA, Cell, Const, Up, Deref, Memory
        <5> QED BY <1>1, <5>1 DEF MemoryOK, IsContent
      <4>2. CASE IsA("const", o)
        <5>1. o[2] \in DOMAIN constants /\ d = constants[o[2]]
          BY <4>2 DEF Objects, IsA, Cell, Const, Up, Deref, Memory
        <5>2. o[2] \notin Templates(program)
          <6>1. o[2] \in Templates(program) => IsA("fun", constants[o[2]])
            BY <1>1, TemplateKept, Zenon
          <6> HIDE DEF d
          <6> QED BY <2>2, <5>1, <6>1 DEF IsFunction, IsA
        <5>3. o[2] \in Loadable(program, Shape)
          BY <1>1, <5>1, <5>2 DEF ConstantsOK, Loadable
        <5> QED BY <1>1, <5>1, <5>3, LoadableContent
      <4> QED BY <1>3, <4>1, <4>2 DEF Objects, IsA, Cell, Const, Up
    <3> HIDE DEF d
    <3>3. UpvaluesIn(d) = {}
      BY <2>2 DEF UpvaluesIn, IsFunction, IsA
    <3>4. ValuesIn(d) \subseteq StackValues
      <4>1. CASE IsA("vec", d)
        BY <3>2, <4>1, ContentKinds DEF ValuesIn, ToSet
      <4>2. CASE ~IsA("vec", d)
        BY <2>2, <4>2 DEF ValuesIn, IsFunction, IsA
      <4> QED BY <4>1, <4>2
    <3>5. PointersOf(ValuesIn(d)) \subseteq Objects
      BY <1>1, <3>4, PointersAreObjects
    <3> QED BY <3>1, <3>3, <3>5
  <2> QED BY <2>1, <2>2
<1> QED BY <1>2, <1>3

\* The collector starts at objects.
LEMMA RootsAreObjects ==
  ASSUME Typed
  PROVE  RootSet \subseteq Objects
<1>1. ConstantsOK
  BY TypedMeans
<1>2. PointersOf(ToSet(stack)) \subseteq Objects
  <2>1. ToSet(stack) \subseteq StackValues
    BY DEF Typed, ToSet
  <2> QED BY <1>1, <2>1, PointersAreObjects
<1>3. {Globals[name] : name \in DOMAIN Globals} \subseteq Objects
  <2> SUFFICES ASSUME NEW name \in DOMAIN Globals PROVE Globals[name] \in Objects
    OBVIOUS
  <2>1. Globals[name] \in {Cell(c) : c \in Cells}
    BY GlobalsAreCells
  <2> QED BY <2>1 DEF Objects
<1>4. ASSUME NEW f \in ToSet(frames)
      PROVE  /\ PointersOf({f.self}) \subseteq Objects
             /\ {Up(u) : u \in ToSet(f.upvals)} \subseteq Objects
             /\ {Up(f.captured[s]) : s \in DOMAIN f.captured} \subseteq Objects
  <2>1. FrameOK(f)
    BY DEF Typed, ToSet
  <2>2. PointersOf({f.self}) \subseteq Objects
    BY <1>1, <2>1, PointersAreObjects DEF FrameOK
  <2>3. ToSet(f.upvals) \subseteq UpvalueCells
    BY <2>1 DEF FrameOK, IsClosure, ToSet
  <2> QED BY <2>1, <2>2, <2>3, Zenon DEF FrameOK, Objects
<1>5. {Const(i) : i \in DOMAIN constants} \subseteq Objects
  BY DEF Objects
<1> DEFINE inFrame(f) == PointersOf({f.self}) \cup {Up(u) : u \in ToSet(f.upvals)}
                           \cup {Up(f.captured[s]) : s \in DOMAIN f.captured}
<1>6. UNION {inFrame(f) : f \in ToSet(frames)} \subseteq Objects
  <2>1. \A f \in ToSet(frames) : inFrame(f) \subseteq Objects
    BY <1>4, Zenon
  <2> HIDE DEF inFrame
  <2> QED BY <2>1
<1>7. RootSet = PointersOf(ToSet(stack)) \cup {Globals[name] : name \in DOMAIN Globals}
                  \cup {Const(i) : i \in DOMAIN constants}
                  \cup UNION {inFrame(f) : f \in ToSet(frames)}
  BY DEF RootSet
<1> DEFINE ofStack == PointersOf(ToSet(stack))
           ofGlobals == {Globals[name] : name \in DOMAIN Globals}
           ofFrames == UNION {inFrame(f) : f \in ToSet(frames)}
           ofConstants == {Const(i) : i \in DOMAIN constants}
<1>8. /\ ofStack \subseteq Objects
      /\ ofGlobals \subseteq Objects
      /\ ofConstants \subseteq Objects
      /\ ofFrames \subseteq Objects
  <2>1. ofStack \subseteq Objects
    BY <1>2
  <2>2. ofGlobals \subseteq Objects
    BY <1>3
  <2>3. ofConstants \subseteq Objects
    BY <1>5
  <2>4. ofFrames \subseteq Objects
    BY <1>6
  <2> QED BY <2>1, <2>2, <2>3, <2>4, Zenon
<1>9. RootSet = ofStack \cup ofGlobals \cup ofConstants \cup ofFrames
  BY <1>7
<1> HIDE DEF ofStack, ofGlobals, ofFrames, ofConstants
<1> QED BY <1>8, <1>9

\* The marks are the least set that holds the roots and whatever its objects refer to:
\* there is one, so that the recursive definition has a solution.
LEMMA ClosureDefined ==
  ASSUME Typed
  PROVE  \E g : g = [X \in SUBSET Objects |-> IF Wider(X) = X THEN X ELSE g[Wider(X)]]
<1> DEFINE Closed(X) == {Y \in SUBSET Objects : X \subseteq Y /\ Wider(Y) = Y}
           g == [X \in SUBSET Objects |-> {o \in Objects : \A Y \in Closed(X) : o \in Y}]
<1>1. ASSUME NEW X \in SUBSET Objects
      PROVE  Wider(X) \in SUBSET Objects /\ X \subseteq Wider(X)
  BY MarksAreObjects DEF Wider
<1>2. ASSUME NEW X \in SUBSET Objects, Wider(X) = X
      PROVE  g[X] = X
  BY <1>2
<1>3. ASSUME NEW X \in SUBSET Objects
      PROVE  Closed(X) = Closed(Wider(X))
  <2>1. ASSUME NEW Y \in SUBSET Objects, X \subseteq Y, Wider(Y) = Y
        PROVE  Wider(X) \subseteq Y
    BY <2>1 DEF Wider
  <2> QED BY <1>1, <2>1
<1>4. ASSUME NEW X \in SUBSET Objects
      PROVE  g[X] = g[Wider(X)]
  <2> HIDE DEF Closed
  <2>1. g[X] = {o \in Objects : \A Y \in Closed(X) : o \in Y}
    OBVIOUS
  <2>2. g[Wider(X)] = {o \in Objects : \A Y \in Closed(Wider(X)) : o \in Y}
    BY <1>1
  <2> QED BY <1>3, <2>1, <2>2, Zenon
<1> HIDE DEF Closed
<1>5. g = [X \in SUBSET Objects |-> g[X]]
  OBVIOUS
<1> HIDE DEF g
<1>6. \A X \in SUBSET Objects : g[X] = IF Wider(X) = X THEN X ELSE g[Wider(X)]
  BY <1>2, <1>4
<1>7. g = [X \in SUBSET Objects |-> IF Wider(X) = X THEN X ELSE g[Wider(X)]]
  BY <1>5, <1>6, Zenon
<1> QED BY <1>7

\* The collector marks at least the roots.
LEMMA RootsAreMarked ==
  ASSUME Typed
  PROVE  RootSet \subseteq Marked
<1> DEFINE r == CHOOSE g : g = [X \in SUBSET Objects |-> IF Wider(X) = X THEN X ELSE g[Wider(X)]]
           Size(X) == Cardinality(Objects \ X)
           Wrong == {n \in Nat : \E X \in SUBSET Objects : Size(X) = n /\ ~(X \subseteq r[X])}
<1>1. Marked = r[RootSet]
  BY Zenon DEF Marked, Closure, Wider
<1>2. r = [X \in SUBSET Objects |-> IF Wider(X) = X THEN X ELSE r[Wider(X)]]
  BY ClosureDefined, Zenon
<1>3. \A X \in SUBSET Objects : r[X] = IF Wider(X) = X THEN X ELSE r[Wider(X)]
  <2> DEFINE R(X) == IF Wider(X) = X THEN X ELSE r[Wider(X)]
             f == [X \in SUBSET Objects |-> R(X)]
  <2>1. \A X \in SUBSET Objects : f[X] = R(X)
    BY Zenon
  <2>2. r = f
    BY <1>2, Zenon
  <2> HIDE DEF f
  <2> QED BY <2>1, <2>2, Zenon
<1> HIDE DEF r
<1>4. \A X \in SUBSET Objects : IsFiniteSet(Objects \ X) /\ Size(X) \in Nat
  BY ObjectsAreFinite, FS_Subset, FS_CardinalityType
<1>5. Wrong = {}
  <2> SUFFICES ASSUME Wrong # {} PROVE FALSE
    OBVIOUS
  <2>1. PICK n \in Wrong : \A m \in Wrong : n <= m
    <3>1. Wrong \in SUBSET Nat
      OBVIOUS
    <3> HIDE DEF Wrong
    <3> QED BY <3>1, Summing!Least
  <2>2. PICK X \in SUBSET Objects : Size(X) = n /\ ~(X \subseteq r[X])
    BY <2>1, Zenon
  <2> DEFINE W == Wider(X)
  <2>3. W # X /\ r[X] = r[W]
    BY <1>3, <2>2
  <2>4. W \in SUBSET Objects /\ X \subseteq W
    BY MarksAreObjects DEF Wider
  <2> HIDE DEF W
  <2>5. PICK o \in W : o \notin X
    BY <2>3, <2>4, Zenon
  <2>6. Size(W) < Size(X)
    <3>1. Objects \ W \subseteq (Objects \ X) \ {o} /\ o \in Objects \ X
      BY <2>4, <2>5
    <3>2. Cardinality((Objects \ X) \ {o}) = Size(X) - 1 /\ IsFiniteSet((Objects \ X) \ {o})
      BY <1>4, <3>1, FS_RemoveElement, Zenon
    <3>3. Size(W) <= Cardinality((Objects \ X) \ {o})
      BY <3>1, <3>2, FS_Subset
    <3>4. Size(X) \in Nat /\ Size(W) \in Nat
      BY <1>4, <2>4, Zenon
    <3> HIDE DEF Size
    <3> QED BY <3>2, <3>3, <3>4
  <2>7. ~(W \subseteq r[W])
    BY <2>2, <2>3, <2>4
  <2>8. Size(W) \in Wrong /\ Size(W) \in Nat /\ Size(X) \in Nat
    BY <1>4, <2>4, <2>7, Zenon
  <2>9. n <= Size(W)
    BY <2>1, <2>8, Zenon
  <2> HIDE DEF Size, Wrong
  <2> QED BY <2>2, <2>6, <2>8, <2>9
<1>6. RootSet \in SUBSET Objects
  BY RootsAreObjects
<1>7. RootSet \subseteq r[RootSet]
  BY <1>4, <1>5, <1>6, Zenon
<1> QED BY <1>1, <1>7

\* Sweeping erases cells, never one that the stack points to.
LEMMA SweepKeeps ==
  ASSUME Safe, mode \in {"run", "native"}
  PROVE  /\ MemoryOK(SweptHeap(Marked)) /\ HeldKept(SweptHeap(Marked))
         /\ SweptUpvalues(Marked) \in [UpvalueCells -> {Free} \cup StackValues]
<1> DEFINE m == Marked
<1>1. Typed /\ ArraysHeld
  BY DEF Safe, Nested
<1>2. RootSet \subseteq m
  BY <1>1, RootsAreMarked
<1> HIDE DEF m
<1>3. MemoryOK(SweptHeap(m))
  <2>1. MemoryOK(heap) /\ IsHeapData(Free)
    BY <1>1, TypedMeans, HeapDataMade
  <2> QED BY <2>1 DEF MemoryOK, SweptHeap
<1>4. SweptUpvalues(m) \in [UpvalueCells -> {Free} \cup StackValues]
  BY <1>1 DEF Typed, SweptUpvalues
<1>5. ASSUME NEW i \in DOMAIN calls, calls[i].kind = "native"
      PROVE  LET array == calls[i].args[2]
             IN  /\ IsA("vec", SweptHeap(m)[array[2]])
                 /\ Len(SweptHeap(m)[array[2]][2]) = Len(heap[array[2]][2])
  <2> DEFINE array == calls[i].args[2]
             at == Len(calls[i].below) + 3
  <2>1. at <= Len(stack) /\ stack[at] = array /\ IsA("cell", array) /\ IsA("vec", heap[array[2]])
    BY <1>1, <1>5, Zenon DEF ArraysHeld
  <2>2. at \in DOMAIN stack
    <3>1. Len(calls[i].below) \in Nat /\ Len(stack) \in Nat /\ stack \in Seq(StackValues)
      BY <1>1, CallMeans, TypedMeans DEF Typed
    <3> QED BY <2>1, <3>1
  <2>3. array \in StackValues
    BY <1>1, <2>1, <2>2 DEF Typed
  <2>4. array \in PointersOf(ToSet(stack))
    BY <2>1, <2>2 DEF PointersOf, IsPointer, IsA, ToSet
  <2>5. array \in m
    BY <1>2, <2>4 DEF RootSet
  <2>6. array[2] \in Cells /\ Cell(array[2]) = array
    BY <2>1, <2>3, StackValueKinds DEF IsA, Cell
  <2> HIDE DEF array
  <2>7. SweptHeap(m)[array[2]] = heap[array[2]]
    BY <2>5, <2>6 DEF SweptHeap
  <2> QED BY <2>1, <2>7 DEF array
<1> QED BY <1>3, <1>4, <1>5 DEF HeldKept, m

----------------------------------------------------------------------------
(* Calls that are over at once *)

\* What a call finds, by its kind.
LEMMA CallKindMeans ==
  ASSUME Typed, NEW v \in StackValues, NEW n \in Nat
  PROVE  LET d == Deref(Memory, v)
         IN  /\ CallKind(v, n) = "builtin" => d[2] \in KnownBuiltins
             /\ CallKind(v, n) \in {"partial", "enter"} => IsClosure(d[2])
             /\ CallKind(v, n) = "enter" => Len(d[2].curried) + n = d[2].arity
<1> DEFINE d == Deref(Memory, v)
           total == Len(d[2].curried) + n
<1>1. IsContent(d)
  BY TypedMeans DEF DerefOK
<1>2. /\ CallKind(v, n) = "builtin" => IsA("builtin", d)
      /\ CallKind(v, n) \in {"partial", "enter"} =>
           IsFunction(d) /\ ~IsA("builtin", d) /\ ~(total > d[2].arity)
      /\ CallKind(v, n) = "enter" => ~(total < d[2].arity)
  BY DEF CallKind
<1>3. ASSUME IsA("fun", d), ~(total > d[2].arity), ~(total < d[2].arity)
      PROVE  total = d[2].arity
  <2>1. IsClosure(d[2])
    BY <1>1, <1>3, ContentKinds
  <2>2. d[2].curried \in Seq(StackValues) /\ d[2].arity \in Nat
    <3>1. ProgramOK
      BY TypedMeans
    <3> HIDE DEF d
    <3> QED BY <2>1, <3>1 DEF IsClosure, ProgramOK, WellFormed
  <2> HIDE DEF d
  <2>3. total \in Nat
    BY <2>2
  <2> HIDE DEF total
  <2> QED BY <1>3, <2>2, <2>3
<1> HIDE DEF total
<1>4. CallKind(v, n) \in {"partial", "enter"} => IsA("fun", d) /\ IsClosure(d[2])
  <2> HIDE DEF d
  <2> QED BY <1>1, <1>2, ContentKinds DEF IsFunction, IsA
<1>5. CallKind(v, n) = "builtin" => d[2] \in KnownBuiltins
  <2> HIDE DEF d
  <2> QED BY <1>1, <1>2, ContentKinds
<1> HIDE DEF d
<1>6. CallKind(v, n) = "enter" => total = d[2].arity
  BY <1>2, <1>3, <1>4
<1> QED BY <1>4, <1>5, <1>6 DEF d, total

\* A function with curried arguments is one that the heap may hold.
LEMMA CurryIsData ==
  ASSUME NEW f, IsClosure(f), NEW args \in Seq(StackValues)
  PROVE  IsData(Curry(f, args))
<1> DEFINE g == [f EXCEPT !.curried = f.curried \o args]
<1>1. f.curried \o args \in Seq(StackValues)
  BY DEF IsClosure
<1>2. /\ DOMAIN g = DOMAIN f /\ g.curried = f.curried \o args
      /\ g.chunk = f.chunk /\ g.arity = f.arity /\ g.upvals = f.upvals
  BY DEF IsClosure
<1>3. Curry(f, args) = Fun(g)
  BY DEF Curry
<1> HIDE DEF g
<1>4. IsClosure(g)
  BY <1>1, <1>2 DEF IsClosure
<1> QED BY <1>3, <1>4, HeapDataMade DEF IsData

\* The operands of a call are the frame's own.
LEMMA CallOperands ==
  ASSUME Safe, InLoop, Instr.op = "CALL"
  PROVE  /\ Instr.argc \in Nat /\ Instr.keep \in BOOLEAN
         /\ Takes(Instr) = Instr.argc + 1
         /\ Leaves(Instr) = IF Instr.keep THEN 1 ELSE 0
         /\ Base \in Nat /\ Base > Frame.fp /\ Base = Len(stack) - Instr.argc
         /\ Base <= Len(stack) /\ Frame.fp \in Nat /\ Len(stack) \in Nat
         /\ Below \in Seq(StackValues) /\ Len(Below) = Base - 1
         /\ SameBelow(Below) /\ Frame.fp <= Len(Below)
         /\ \A k \in 1 .. Base - 1 : Below[k] = stack[k]
         /\ Callee \in StackValues
         /\ Args \in Seq(StackValues) /\ Len(Args) = Instr.argc
         /\ \A k \in 1 .. Instr.argc : Args[k] = stack[Base + k]
<1> DEFINE argc == Instr.argc
           b == Len(stack) - argc
           h == Height
<1>1. /\ argc \in Nat /\ Instr.keep \in BOOLEAN
      /\ h \in Nat /\ Frame.fp \in Nat /\ Len(stack) = Frame.fp + h
      /\ Takes(Instr) <= h /\ stack \in Seq(StackValues) /\ Len(stack) \in Nat
  BY Fits, StackItself DEF OperandsFit
<1>2. Takes(Instr) = argc + 1
  BY DEF Takes, ArithmeticOps, CompareOps
<1>3. Leaves(Instr) = IF Instr.keep THEN 1 ELSE 0
  BY DEF Leaves, ArithmeticOps, CompareOps
<1> HIDE DEF argc, h
<1>4. b \in Nat /\ b > Frame.fp /\ b <= Len(stack) /\ Frame.fp <= b - 1 /\ b \in 1 .. Len(stack)
      /\ b - 1 \in 0 .. Len(stack)
  BY <1>1, <1>2
<1>5. Len(stack) - b = argc
  BY <1>1
<1> HIDE DEF b
<1>6. /\ SubSeq(stack, 1, b - 1) \in Seq(StackValues) /\ Len(SubSeq(stack, 1, b - 1)) = b - 1
      /\ \A k \in 1 .. b - 1 : SubSeq(stack, 1, b - 1)[k] = stack[k]
  BY <1>1, <1>4
<1>7. /\ SubSeq(stack, b + 1, Len(stack)) \in Seq(StackValues)
      /\ Len(SubSeq(stack, b + 1, Len(stack))) = Len(stack) - b
      /\ \A k \in 1 .. Len(stack) - b : SubSeq(stack, b + 1, Len(stack))[k] = stack[b + k]
  BY <1>1, <1>4
<1>8. stack[b] \in StackValues
  BY <1>1, <1>4
<1>9. \A k \in 1 .. Frame.fp : k \in 1 .. b - 1
  BY <1>1, <1>4
<1>10. Base = b
  BY DEF Base, b, argc
<1>11. Below = SubSeq(stack, 1, b - 1) /\ Callee = stack[b] /\ Args = SubSeq(stack, b + 1, Len(stack))
  BY <1>10 DEF Below, Callee, Args
<1>12. SameBelow(Below)
  BY <1>6, <1>9, <1>11 DEF SameBelow
<1>13. b = Len(stack) - argc
  BY DEF b
<1> QED BY <1>1, <1>2, <1>3, <1>4, <1>5, <1>6, <1>7, <1>8, <1>10, <1>11, <1>12, <1>13, Zenon DEF argc

\* A call that is over at once leaves its result where the callee lay, if the
\* instruction keeps it.
LEMMA CompleteMeans ==
  ASSUME Safe, InLoop, Instr.op = "CALL", NEW v \in StackValues
  PROVE  LET s == Complete(Below, Instr.keep, v)
         IN  /\ s \in Seq(StackValues) /\ SameBelow(s)
             /\ Takes(Instr) \in Int /\ Leaves(Instr) \in Int
             /\ Len(s) = Len(stack) - Takes(Instr) + Leaves(Instr)
<1> DEFINE t == Takes(Instr)
           l == Leaves(Instr)
           argc == Instr.argc
<1>1. /\ argc \in Nat /\ Instr.keep \in BOOLEAN /\ t = argc + 1
      /\ l = (IF Instr.keep THEN 1 ELSE 0)
      /\ Base = Len(stack) - argc /\ Base \in Nat /\ Len(stack) \in Nat
      /\ Below \in Seq(StackValues) /\ Len(Below) = Base - 1
      /\ SameBelow(Below) /\ Frame.fp <= Len(Below)
  BY CallOperands
<1> HIDE DEF t, l, argc
<1>2. /\ Append(Below, v) \in Seq(StackValues) /\ Len(Append(Below, v)) = Len(Below) + 1
      /\ SameBelow(Append(Below, v))
  BY <1>1, AppendKeeps, Zenon
<1>3. Len(stack) - t = Len(Below) /\ Len(Below) \in Int
  BY <1>1
<1>4. CASE Instr.keep
  <2>1. l = 1 /\ Complete(Below, Instr.keep, v) = Append(Below, v)
    BY <1>1, <1>4 DEF Complete
  <2> QED BY <1>1, <1>2, <1>3, <2>1 DEF t, l
<1>5. CASE ~Instr.keep
  <2>1. l = 0 /\ Complete(Below, Instr.keep, v) = Below
    BY <1>1, <1>5 DEF Complete
  <2> QED BY <1>1, <1>2, <1>3, <2>1 DEF t, l
<1> QED BY <1>4, <1>5

\* A call of something that cannot be called, or with too many arguments, throws.
THEOREM OpCallFailsSafe ==
  ASSUME Safe, OpCallFails
  PROVE  Safe'
<1>1. InLoop /\ Instr.op = "CALL" /\ Throw("RuntimeError", Below)
  BY DEF OpCallFails, At
<1>2. /\ Below \in Seq(StackValues) /\ SameBelow(Below) /\ Frame.fp <= Len(Below)
      /\ Len(Below) = Base - 1 /\ Base \in Nat /\ Base <= Len(stack) /\ Len(stack) \in Nat
  BY <1>1, CallOperands
<1>3. Len(Below) <= Len(stack)
  BY <1>2
<1> QED BY <1>1, <1>2, <1>3, ThrowStep

\* A call with too few arguments leaves a new function that holds them.
THEOREM OpCallPartialSafe ==
  ASSUME Safe, OpCallPartial
  PROVE  Safe'
<1> DEFINE d == Curry(Deref(Memory, Callee)[2], Args)
           stored == HeapStore(heap, d)
           s == Complete(Below, Instr.keep, stored.value)
<1>1. /\ InLoop /\ Instr.op = "CALL" /\ CallKind(Callee, Instr.argc) = "partial" /\ HasRoom
      /\ SetStack(s) /\ heap' = stored.heap /\ frames' = Advanced
      /\ UNCHANGED <<program, constants, calls, upvalues, out, mode, error, collected>>
  BY DEF OpCallPartial, Calling, At
<1>2. Typed /\ MemoryOK(heap)
  BY TypedMeans DEF Safe
<1>3. IsData(d)
  <2>1. Callee \in StackValues /\ Instr.argc \in Nat /\ Args \in Seq(StackValues)
    BY <1>1, CallOperands
  <2>2. IsClosure(Deref(Memory, Callee)[2])
    BY <1>1, <1>2, <2>1, CallKindMeans
  <2> QED BY <2>1, <2>2, CurryIsData
<1> HIDE DEF d
<1>4. /\ stored.value \in StackValues /\ MemoryOK(stored.heap) /\ Extends(heap, stored.heap)
  <2>1. Cardinality(FreeOf(heap)) >= 1
    BY <1>1, RoomForOne, FreeIsFinite
  <2> QED BY <1>2, <1>3, <2>1, HeapStoreKeeps
<1> HIDE DEF stored
<1>5. /\ s \in Seq(StackValues) /\ SameBelow(s)
      /\ Takes(Instr) \in Int /\ Leaves(Instr) \in Int
      /\ Len(s) = Len(stack) - Takes(Instr) + Leaves(Instr)
  BY <1>1, <1>4, CompleteMeans
<1>6. MemoryOK(heap') /\ HeldKept(heap') /\ upvalues' \in [UpvalueCells -> {Free} \cup StackValues]
  BY <1>1, <1>4, SameMemory, ExtendedHolds DEF InLoop
<1>7. ConstantsOK' /\ Inside
  BY <1>1, <1>2, SameConstants DEF Inside
<1> HIDE DEF s
<1> QED BY <1>1, <1>5, <1>6, <1>7, NextStep

\* A call of a builtin that does not call back leaves its result, or throws.
THEOREM OpCallBuiltinSafe ==
  ASSUME TextTyped, Safe, OpCallBuiltin
  PROVE  Safe'
<1>1. /\ InLoop /\ Instr.op = "CALL" /\ CallKind(Callee, Instr.argc) = "builtin"
      /\ BuiltinCalled \notin CallingBack
  BY DEF OpCallBuiltin, Calling, At
<1>2. PICK result \in BuiltinResults(Memory, BuiltinCalled, Args) :
        LET stored == Stored(result)
            marked == Marked
            sweeps == BuiltinCalled = "__trigger_gc"
        IN  IF Failed(result) THEN Throw(result[2], Below)
            ELSE /\ HasRoom
                 /\ SetStack(Complete(Below, Instr.keep, stored.value))
                 /\ heap' = IF sweeps THEN SweptHeap(marked) ELSE stored.heap
                 /\ upvalues' = IF sweeps THEN SweptUpvalues(marked) ELSE upvalues
                 /\ frames' = Advanced
                 /\ UNCHANGED <<program, constants, calls, mode, error, collected>>
  BY Zenon DEF OpCallBuiltin
<1>3. Typed /\ MemoryOK(heap) /\ DerefOK(Memory)
  BY TypedMeans DEF Safe
<1>4. Callee \in StackValues /\ Instr.argc \in Nat /\ Args \in Seq(StackValues)
  BY <1>1, CallOperands
<1>5. BuiltinCalled \in KnownBuiltins
  BY <1>1, <1>3, <1>4, CallKindMeans DEF BuiltinCalled
<1>6. Returned(result)
  BY <1>1, <1>3, <1>4, <1>5, BuiltinReturns DEF Known
<1>7. CASE Failed(result)
  <2>1. /\ Below \in Seq(StackValues) /\ SameBelow(Below) /\ Frame.fp <= Len(Below)
        /\ Len(Below) = Base - 1 /\ Base \in Nat /\ Base <= Len(stack) /\ Len(stack) \in Nat
    BY <1>1, CallOperands
  <2>2. Len(Below) <= Len(stack)
    BY <2>1
  <2>3. Throw(result[2], Below)
    BY <1>2, <1>7, Zenon
  <2> QED BY <1>1, <2>1, <2>2, <2>3, ThrowStep
<1>8. CASE ~Failed(result)
  <2> DEFINE stored == Stored(result)
             sweeps == BuiltinCalled = "__trigger_gc"
             s == Complete(Below, Instr.keep, stored.value)
  <2>1. /\ HasRoom /\ SetStack(s)
        /\ heap' = (IF sweeps THEN SweptHeap(Marked) ELSE stored.heap)
        /\ upvalues' = (IF sweeps THEN SweptUpvalues(Marked) ELSE upvalues)
        /\ frames' = Advanced
        /\ UNCHANGED <<program, constants, calls, mode, error, collected>>
    BY <1>2, <1>8, Zenon
  <2>2. stored.value \in StackValues /\ MemoryOK(stored.heap) /\ Extends(heap, stored.heap)
    BY <1>3, <1>6, <1>8, <2>1, StoredKeeps
  <2> HIDE DEF stored
  <2>3. /\ s \in Seq(StackValues) /\ SameBelow(s)
        /\ Takes(Instr) \in Int /\ Leaves(Instr) \in Int
        /\ Len(s) = Len(stack) - Takes(Instr) + Leaves(Instr)
    BY <1>1, <2>2, CompleteMeans
  <2>4. MemoryOK(heap') /\ HeldKept(heap') /\ upvalues' \in [UpvalueCells -> {Free} \cup StackValues]
    <3>1. mode \in {"run", "native"}
      BY <1>1 DEF InLoop
    <3>2. CASE sweeps
      BY <2>1, <3>1, <3>2, SweepKeeps
    <3>3. CASE ~sweeps
      BY <2>1, <2>2, <3>1, <3>3, SameMemory, ExtendedHolds
    <3> QED BY <3>2, <3>3
  <2>5. ConstantsOK' /\ Inside
    BY <1>3, <2>1, SameConstants DEF Inside
  <2> HIDE DEF s
  <2> QED BY <1>1, <2>1, <2>3, <2>4, <2>5, NextStep
<1> QED BY <1>7, <1>8
====
