----------------------------- MODULE FoldTheorems -----------------------------
(***************************************************************************)
(* The folds of the community modules, about which neither they nor the    *)
(* library state a theorem: FoldLeft is a function defined by recursion    *)
(* over the sets 1 .. k, chosen by CHOOSE.  That there is such a function, *)
(* and that it keeps what each step keeps, follows from the well-          *)
(* foundedness of < on Nat.  A module that needs this for an operator of   *)
(* its own takes it by INSTANCE FoldTheorems WITH Op <- ..., Keeps <- ...  *)
(***************************************************************************)
EXTENDS SequencesExt, WellFoundedInduction, TLAPS

CONSTANTS
  Op(_, _, _),    \* the operator, of a parameter, the result so far and an element
  Keeps(_, _, _)  \* what it keeps, of the parameter, a count and the result so far

Folded(env, base, s) == FoldLeft(LAMBDA acc, x : Op(env, acc, x), base, s)

\* A set of natural numbers that is not empty has a least element.
LEMMA Least ==
  ASSUME NEW K \in SUBSET Nat, K # {}
  PROVE  \E k \in K : \A l \in K : k <= l
<1>1. IsWellFoundedOn({pair \in Nat \X Nat : pair[1] < pair[2]}, Nat)
  BY NatLessThanWellFounded DEF OpToRel
<1>2. PICK k \in K : \A l \in K : <<l, k>> \notin {pair \in Nat \X Nat : pair[1] < pair[2]}
  BY <1>1, WFMin
<1>3. ASSUME NEW l \in K
      PROVE  k <= l
  <2>1. k \in Nat /\ l \in Nat
    OBVIOUS
  <2>2. ~(<<l, k>>[1] < <<l, k>>[2])
    BY <1>2, <2>1, Zenon
  <2> QED BY <2>1, <2>2
<1> QED BY <1>3

\* Max of FiniteSetsExt is the greatest element of a set of positions.
LEMMA MaxOfSome ==
  ASSUME NEW n \in Nat, NEW T \in SUBSET (1 .. n), T # {}
  PROVE  Max(T) \in T /\ \A t \in T : t <= Max(T)
<1> DEFINE K == {n - t : t \in T}
<1>1. K \in SUBSET Nat /\ K # {}
  <2>1. \A t \in T : n - t \in Nat
    OBVIOUS
  <2> QED BY <2>1
<1>2. PICK k \in K : \A l \in K : k <= l
  BY <1>1, Least
<1>3. PICK m \in T : k = n - m
  BY <1>2
<1>4. \A t \in T : m >= t
  <2> TAKE t \in T
  <2>1. n - t \in K
    OBVIOUS
  <2>2. n - m <= n - t
    BY <2>1, <1>2, <1>3
  <2> QED BY <2>2
<1> QED BY <1>4, Zenon DEF Max

\* What holds of the start of a fold and is kept by every element it takes
\* holds of its result: the loops of the code that go through a list once, such
\* as those of OpClosure, insert_curried and heap_store_return_data.
THEOREM FoldLeftKeeps ==
  ASSUME NEW env, NEW base, NEW n \in Nat, NEW s, DOMAIN s = 1 .. n,
         Keeps(env, 0, base),
         \A k \in 1 .. n : \A acc : Keeps(env, k - 1, acc) => Keeps(env, k, Op(env, acc, s[k]))
  PROVE  Keeps(env, n, Folded(env, base, s))
<1> DEFINE Body(g, T) == IF T = {} THEN base ELSE Op(env, g[T \ {Max(T)}], s[Max(T)])
           Right(g, k) == \A T \in SUBSET (1 .. k) : g[T] = Body(g, T)
           Over(g) == [T \in SUBSET (1 .. n) |-> Body(g, T)]
           Missing == {k \in 0 .. n : ~ \E g : Right(g, k)}
           iter == CHOOSE iter : iter = Over(iter)
<1>1. \E g : Right(g, 0)
  <2> WITNESS [T \in {{}} |-> base]
  <2>1. SUBSET (1 .. 0) = {{}}
    OBVIOUS
  <2> QED BY <2>1, Zenon
<1>2. ASSUME NEW k \in 0 .. n - 1, NEW g, Right(g, k)
      PROVE  Right(Over(g), k + 1)
  <2> SUFFICES ASSUME NEW T \in SUBSET (1 .. k + 1)
               PROVE  Over(g)[T] = Body(Over(g), T)
    BY Zenon
  <2>1. T \in SUBSET (1 .. n)
    OBVIOUS
  <2>2. Over(g)[T] = Body(g, T)
    BY <2>1, Zenon
  <2>3. CASE T = {}
    BY <2>2, <2>3, Zenon
  <2>4. CASE T # {}
    <3>1. T \ {Max(T)} \in SUBSET (1 .. k)
      <4>1. Max(T) \in T /\ \A t \in T : t <= Max(T)
        BY <2>1, <2>4, MaxOfSome
      <4>2. ASSUME NEW t \in T, t # Max(T)
            PROVE  t \in 1 .. k
        <5>1. t \in 1 .. k + 1 /\ Max(T) \in 1 .. k + 1 /\ t <= Max(T)
          BY <4>1, Zenon
        <5> QED BY <5>1, <4>2
      <4> QED BY <4>2, Zenon
    <3>2. T \ {Max(T)} \in SUBSET (1 .. n)
      BY <2>1
    <3>3. g[T \ {Max(T)}] = Body(g, T \ {Max(T)})
      BY <3>1, <1>2, Zenon
    <3>4. Over(g)[T \ {Max(T)}] = Body(g, T \ {Max(T)})
      BY <3>2, Zenon
    <3> QED BY <2>2, <2>4, <3>3, <3>4, Zenon
  <2> QED BY <2>3, <2>4
<1>3. \E g : Right(g, n)
  <2>1. CASE Missing = {}
    BY <2>1, n \in 0 .. n
  <2>2. CASE Missing # {}
    <3> HIDE DEF Right, Over
    <3>0. Missing \in SUBSET Nat
      OBVIOUS
    <3>1. PICK k \in Missing : \A l \in Missing : k <= l
      <4> HIDE DEF Missing
      <4> QED BY <2>2, <3>0, Least
    <3>2. k # 0
      BY <1>1, <3>1
    <3>3. k - 1 \in 0 .. n - 1 /\ k - 1 \notin Missing /\ k - 1 \in 0 .. n
      BY <3>1, <3>2
    <3>4. PICK g : Right(g, k - 1)
      BY <3>3
    <3>5. Right(Over(g), k)
      BY <3>3, <3>4, <1>2, (k - 1) + 1 = k
    <3> QED BY <3>1, <3>5
  <2> QED BY <2>1, <2>2
<1>4. \E g : g = Over(g)
  <2>1. PICK g : Right(g, n)
    BY <1>3
  <2>2. Over(g) = Over(Over(g))
    <3> DEFINE f == Over(g)
    <3>1. \A T \in SUBSET (1 .. n) : f[T] = g[T]
      BY <2>1, Zenon
    <3>2. \A T \in SUBSET (1 .. n) : Body(f, T) = Body(g, T)
      <4> TAKE T \in SUBSET (1 .. n)
      <4>1. T \ {Max(T)} \in SUBSET (1 .. n)
        OBVIOUS
      <4> HIDE DEF f
      <4> QED BY <3>1, <4>1, Zenon
    <3> QED BY <3>2, Zenon
  <2> QED BY <2>2, Zenon
<1>5. iter = Over(iter)
  BY <1>4, Zenon
<1>6. \A k \in 0 .. n : Keeps(env, k, iter[1 .. k])
  <2> DEFINE Wrong == {k \in 0 .. n : ~ Keeps(env, k, iter[1 .. k])}
  <2> SUFFICES ASSUME Wrong # {} PROVE FALSE
    OBVIOUS
  <2>0. Wrong \in SUBSET Nat
    OBVIOUS
  <2>1. PICK k \in Wrong : \A l \in Wrong : k <= l
    <3> HIDE DEF Wrong
    <3> QED BY <2>0, Least
  <2>2. 1 .. k \in SUBSET (1 .. n)
    BY <2>1
  <2>3. iter[1 .. k] = Body(iter, 1 .. k)
    BY <2>2, <1>5, Zenon
  <2>4. k # 0
    <3> SUFFICES ASSUME k = 0 PROVE FALSE
      OBVIOUS
    <3>1. 1 .. k = {}
      OBVIOUS
    <3>2. iter[1 .. k] = base
      BY <2>3, <3>1, Zenon
    <3> QED BY <3>2, <2>1
  <2>5. k \in 1 .. n /\ k - 1 \in 0 .. n /\ k - 1 \notin Wrong
    <3>1. k \in 0 .. n /\ k \in Int
      BY <2>1
    <3>2. k \in 1 .. n /\ k - 1 \in 0 .. n /\ ~(k <= k - 1)
      BY <3>1, <2>4
    <3> HIDE DEF Wrong
    <3> QED BY <3>2, <2>1
  <2>6. Max(1 .. k) = k /\ 1 .. k # {}
    <3>1. k \in Int /\ k >= 1 /\ k \in 1 .. k
      BY <2>5
    <3>2. Max(1 .. k) \in 1 .. k /\ k <= Max(1 .. k)
      BY <2>2, <3>1, MaxOfSome, Zenon
    <3> QED BY <3>1, <3>2
  <2>7. (1 .. k) \ {k} = 1 .. k - 1
    <3>1. k \in Int
      BY <2>5
    <3> HIDE DEF Wrong
    <3> QED BY <3>1
  <2>8. iter[1 .. k] = Op(env, iter[1 .. k - 1], s[k])
    BY <2>3, <2>6, <2>7, Zenon
  <2> HIDE DEF iter
  <2>9. Keeps(env, k - 1, iter[1 .. k - 1])
    BY <2>5
  <2> QED BY <2>1, <2>5, <2>8, <2>9
<1>7. Folded(env, base, s) = iter[1 .. n]
  BY Zenon DEF Folded, FoldLeft, MapThenFoldSet
<1>8. n \in 0 .. n
  OBVIOUS
<1> HIDE DEF iter
<1> QED BY <1>6, <1>7, <1>8
====
