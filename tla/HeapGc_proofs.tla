---------------------------- MODULE HeapGc_proofs ----------------------------
(***************************************************************************)
(* Proofs about HeapGc, for every set of cells and every threshold:        *)
(* type correctness, Heap's bookkeeping, and, for programs without         *)
(* callbacks from builtins whose functions refer to nothing that is not    *)
(* kept anyway, that marking computes reachability, that no live pointer   *)
(* dangles and that run_gc implements the one-step collection of           *)
(* ManagedHeap.                                                            *)
(***************************************************************************)
EXTENDS HeapGc, FiniteSetTheorems, TLAPS

----------------------------------------------------------------------------
(* Reachability *)

\* A set of objects is contained in what it reaches, and what it reaches is
\* closed under following references.
LEMMA ReachableClosed ==
  ASSUME refs \in [M!Objects -> SUBSET M!Objects], NEW S \in SUBSET M!Objects
  PROVE  /\ S \subseteq M!Reachable(S)
         /\ M!Reachable(S) \subseteq M!Objects
         /\ M!Closed(M!Reachable(S))
<1>1. /\ S \subseteq M!Reachable(S)
      /\ M!Reachable(S) \subseteq M!Objects
  BY DEF M!Reachable, M!ClosedAbove
<1>2. ASSUME NEW o \in M!Reachable(S), NEW p \in refs[o]
      PROVE  p \in M!Reachable(S)
  BY <1>2 DEF M!Reachable, M!ClosedAbove, M!Closed
<1> QED
  BY <1>1, <1>2 DEF M!Closed

\* What a set reaches lies inside every closed set around it.
LEMMA ReachableLeast ==
  ASSUME NEW S, NEW T \in SUBSET M!Objects, S \subseteq T, M!Closed(T)
  PROVE  M!Reachable(S) \subseteq T
BY DEF M!Reachable, M!ClosedAbove

\* What mark() keeps of S contains S and is closed under mark().
LEMMA KeptClosed ==
  ASSUME refs \in [M!Objects -> SUBSET M!Objects], NEW S \in SUBSET M!Objects
  PROVE  /\ S \subseteq Kept(S)
         /\ Kept(S) \subseteq M!Objects
         /\ \A o \in Kept(S) : Visited(o) \subseteq Kept(S)
<1>1. /\ S \subseteq Kept(S)
      /\ Kept(S) \subseteq M!Objects
  BY DEF Kept
<1>2. ASSUME NEW o \in Kept(S), NEW p \in Visited(o)
      PROVE  p \in Kept(S)
  <2>1. p \in M!Objects
    BY <1>1, <1>2 DEF Visited
  <2> QED
    BY <1>2, <2>1 DEF Kept
<1> QED
  BY <1>1, <1>2

\* It lies inside every set around S that is closed under mark().
LEMMA KeptLeast ==
  ASSUME NEW S, NEW T \in SUBSET M!Objects, S \subseteq T,
         \A o \in T : Visited(o) \subseteq T
  PROVE  Kept(S) \subseteq T
BY DEF Kept

\* Erasing what mark() does not keep changes nothing about what it keeps.
LEMMA KeptStable ==
  ASSUME refs \in [M!Objects -> SUBSET M!Objects],
         refs' \in [M!Objects -> SUBSET M!Objects],
         M!RootSet \in SUBSET M!Objects, M!RootSet' = M!RootSet,
         \A o \in Kept(M!RootSet) : refs'[o] = refs[o]
  PROVE  Kept(M!RootSet)' = Kept(M!RootSet)
<1> DEFINE K == Kept(M!RootSet)
           L == Kept(M!RootSet)'
<1>1. /\ M!RootSet \subseteq K /\ K \subseteq M!Objects
      /\ \A o \in K : Visited(o) \subseteq K
  BY KeptClosed
<1>2. \A o \in K : Visited(o)' = Visited(o)
  BY DEF Visited
<1>3. L = {o \in M!Objects :
             \A T \in SUBSET M!Objects :
               (M!RootSet \subseteq T /\ \A p \in T : Visited(p)' \subseteq T) => o \in T}
  BY DEF Kept
<1>4. L \subseteq K
  BY <1>1, <1>2, <1>3
<1>5. K \subseteq L
  <2>1. ASSUME NEW T \in SUBSET M!Objects, M!RootSet \subseteq T,
               \A p \in T : Visited(p)' \subseteq T
        PROVE  K \subseteq T
    <3>1. \A p \in T \cap K : Visited(p) \subseteq T \cap K
      BY <1>1, <1>2, <2>1
    <3>2. M!RootSet \subseteq T \cap K /\ T \cap K \in SUBSET M!Objects
      BY <1>1, <2>1
    <3>3. K \subseteq T \cap K
      BY <3>1, <3>2, KeptLeast
    <3> QED
      BY <3>3
  <2> QED
    BY <1>1, <1>3, <2>1
<1> QED
  BY <1>4, <1>5

\* When whatever a kept function refers to is kept too, mark() keeps all that
\* the root set reaches.
LEMMA AnchoredKeepsAll ==
  ASSUME refs \in [M!Objects -> SUBSET M!Objects], M!RootSet \in SUBSET M!Objects,
         Anchored
  PROVE  Kept(M!RootSet) = M!Reachable(M!RootSet)
<1> DEFINE K == Kept(M!RootSet)
<1>1. /\ M!RootSet \subseteq K /\ K \subseteq M!Objects
      /\ \A o \in K : Visited(o) \subseteq K
  BY KeptClosed
<1>2. M!Closed(K)
  BY <1>1 DEF M!Closed, Visited, Anchored
<1>3. M!Reachable(M!RootSet) \subseteq K
  BY <1>1, <1>2, ReachableLeast
<1>4. /\ M!RootSet \subseteq M!Reachable(M!RootSet)
      /\ M!Reachable(M!RootSet) \in SUBSET M!Objects
      /\ \A o \in M!Reachable(M!RootSet) : Visited(o) \subseteq M!Reachable(M!RootSet)
  BY ReachableClosed DEF Visited, M!Closed
<1>5. K \subseteq M!Reachable(M!RootSet)
  BY <1>4, KeptLeast
<1> QED
  BY <1>3, <1>5

----------------------------------------------------------------------------
(* Type correctness and bookkeeping *)

\* The heap is finite, so its cardinality is a number.
LEMMA FiniteHeap ==
  ASSUME NEW S \in SUBSET HeapCells
  PROVE  IsFiniteSet(S) /\ Cardinality(S) \in Nat
BY ObjectsAssumption, FS_Subset, FS_CardinalityType

\* Cells kept and cells erased by a sweep add up to the cells there were.
LEMMA SweepCounts ==
  ASSUME NEW S \in SUBSET HeapCells, NEW T
  PROVE  Cardinality(S) = Cardinality(S \cap T) + Cardinality(S \ T)
<1>1. SUFFICES ASSUME NEW A \in SUBSET HeapCells, NEW B \in SUBSET HeapCells,
                      A \cup B = S, A \cap B = {}
               PROVE  Cardinality(S) = Cardinality(A) + Cardinality(B)
  <2>1. /\ S \cap T \in SUBSET HeapCells /\ S \ T \in SUBSET HeapCells
        /\ (S \cap T) \cup (S \ T) = S /\ (S \cap T) \cap (S \ T) = {}
    OBVIOUS
  <2> QED
    BY <2>1, <1>1, Zenon
<1>2. /\ IsFiniteSet(A) /\ Cardinality(A) \in Nat
      /\ IsFiniteSet(B) /\ Cardinality(B) \in Nat
  BY FiniteHeap
<1>3. Cardinality(A \cup B) = Cardinality(A) + Cardinality(B) - Cardinality(A \cap B)
  BY <1>2, FS_Union
<1>4. Cardinality(A \cup B) = Cardinality(S)
  BY <1>1, Zenon
<1>5. Cardinality(A \cap B) = 0
  BY <1>1, FS_EmptySet, Zenon
<1> QED
  BY <1>2, <1>3, <1>4, <1>5

\* Type correctness needs the bookkeeping: Heap::size is unsigned, and only
\* because it counts the cells does the subtraction in Heap::sweep stay in Nat.
BookInv == TypeOK /\ Accounting

\* The counters of a heap that has just been made are right.
LEMMA BookInit == Init => BookInv
<1> SUFFICES ASSUME Init PROVE BookInv
  OBVIOUS
<1>1. PICK builtins \in SUBSET HeapCells :
        /\ heap = builtins
        /\ store = {}
        /\ refs = [o \in M!Objects |-> {}]
        /\ roots = [s \in M!Sources |-> IF s = "globals" THEN builtins ELSE {}]
  BY DEF Init, M!Init
<1>2. M!TypeOK
  BY <1>1 DEF M!TypeOK, M!Objects
<1>3. Cardinality(heap) \in Nat
  BY <1>1, FiniteHeap
<1>4. TypeOK
  BY <1>2, <1>3, ThresholdAssumption, SMT DEF Init, TypeOK, Phases
<1>5. Accounting
  BY <1>3, ThresholdAssumption DEF Init, Accounting, Larger
<1> QED
  BY <1>4, <1>5 DEF BookInv

\* Every allocation, every step of a collection and of the program keeps them right.
LEMMA BookStep == BookInv /\ [Next]_vars => BookInv'
<1> SUFFICES ASSUME BookInv, [Next]_vars PROVE BookInv'
  OBVIOUS
<1> USE DEF BookInv, TypeOK, Phases
<1>0. M!InUse \subseteq M!Objects
  BY DEF M!InUse, M!Reachable
<1>1. CASE NextInstruction
  BY <1>1 DEF NextInstruction, gcState, counters, M!TypeOK, Accounting
<1>2. CASE StartMarking
  BY <1>2 DEF StartMarking, counters, M!TypeOK, Accounting, M!RootSet, M!Sources,
              M!VisitedSources, M!Objects
<1>3. CASE EndInstruction
  BY <1>3 DEF EndInstruction, gcState, counters, M!TypeOK, Accounting
<1>4. ASSUME NEW c \in HeapCells, Emplace(c) PROVE BookInv'
  <2>1. M!TypeOK'
    <3>1. roots' \in [M!Sources -> SUBSET M!Objects]
      BY <1>4 DEF Emplace, M!HeapStore, M!TypeOK, M!Objects
    <3>2. refs' \in [M!Objects -> SUBSET M!Objects]
      BY <1>0, <1>4 DEF Emplace, M!HeapStore, M!TypeOK
    <3> QED
      BY <1>4, <3>1, <3>2 DEF Emplace, M!HeapStore, M!TypeOK
  <2>2. Cardinality(heap') = Cardinality(heap) + 1
    BY <1>4, FiniteHeap, FS_AddElement DEF Emplace, M!HeapStore, M!TypeOK
  <2>3. Accounting'
    BY <1>4, <2>2 DEF Emplace, Accounting
  <2> QED
    BY <1>4, <2>1, <2>3 DEF Emplace
<1>5. ASSUME NEW u \in UpvalueCells, EmplaceUpvalue(u) PROVE BookInv'
  <2>1. roots' \in [M!Sources -> SUBSET M!Objects]
    BY <1>5 DEF EmplaceUpvalue, M!CaptureLocal, M!TypeOK, M!Objects
  <2>2. refs' \in [M!Objects -> SUBSET M!Objects]
    <3>1. PICK R \in M!AtMostOne(M!InUse \cap M!Values) : refs' = [refs EXCEPT ![u] = R]
      BY <1>5 DEF EmplaceUpvalue, M!CaptureLocal
    <3>2. R \subseteq M!Objects
      BY <1>0 DEF M!AtMostOne
    <3> QED
      BY <3>1, <3>2 DEF M!TypeOK
  <2> QED
    BY <1>5, <2>1, <2>2 DEF EmplaceUpvalue, M!CaptureLocal, counters, M!TypeOK, Accounting
<1>6. CASE Rewire
  <2>1. ASSUME NEW s \in M!Sources, M!Load(s) PROVE M!TypeOK' /\ heap' = heap
    BY <1>0, <2>1 DEF M!Load, M!TypeOK
  <2>2. ASSUME NEW s \in M!Sources, M!Release(s) PROVE M!TypeOK' /\ heap' = heap
    BY <2>2 DEF M!Release, M!TypeOK
  <2>3. ASSUME NEW c \in HeapCells, M!SetElement(c) PROVE M!TypeOK' /\ heap' = heap
    BY <1>0, <2>3 DEF M!SetElement, M!TypeOK
  <2>4. ASSUME NEW u \in UpvalueCells, M!SetUpvalue(u) PROVE M!TypeOK' /\ heap' = heap
    BY <1>0, <2>4 DEF M!SetUpvalue, M!AtMostOne, M!TypeOK
  <2> QED
    BY <1>6, <2>1, <2>2, <2>3, <2>4 DEF Rewire, gcState, counters, Accounting
<1>7. ASSUME NEW o \in M!Objects, MarkObject(o) PROVE BookInv'
  BY <1>7 DEF MarkObject, Visited, counters, M!TypeOK, Accounting
<1>8. CASE MarkingDone
  BY <1>8 DEF MarkingDone, gcState, counters, M!TypeOK, Accounting
<1>9. CASE SweepHeap
  <2>1. /\ Cardinality(heap) = Cardinality(heap \cap marked) + Cardinality(heap \ marked)
        /\ Cardinality(heap \cap marked) \in Nat
        /\ Cardinality(heap \ marked) \in Nat
    <3>1. heap \cap marked \in SUBSET HeapCells /\ heap \ marked \in SUBSET HeapCells
      BY DEF M!TypeOK
    <3> QED
      BY <3>1, SweepCounts, FiniteHeap DEF M!TypeOK
  <2>2. size' = Cardinality(heap')
    BY <1>9, <2>1 DEF SweepHeap, NextThreshold, Accounting
  <2>3. Accounting'
    BY <1>9, <2>1, <2>2 DEF SweepHeap, NextThreshold, Accounting, Larger
  <2>4. M!TypeOK'
    BY <1>9 DEF SweepHeap, NextThreshold, M!TypeOK
  <2> QED
    BY <1>9, <2>1, <2>2, <2>3, <2>4, ThresholdAssumption DEF SweepHeap, NextThreshold, Larger
<1>10. CASE SweepUpvalues
  BY <1>10 DEF SweepUpvalues, counters, M!TypeOK, Accounting
<1>11. CASE UNCHANGED vars
  BY <1>11 DEF vars, M!TypeOK, Accounting
<1> QED
  BY <1>1, <1>2, <1>3, <1>4, <1>5, <1>6, <1>7, <1>8, <1>9, <1>10, <1>11
  DEF Next, MaybeGc, TriggerGc

\* So they always are.
LEMMA BookCorrect == Spec => []BookInv
BY BookInit, BookStep, PTL DEF Spec

\* Every variable of the collector keeps its type; in particular the unsigned
\* Heap::size never wraps below zero in Heap::sweep.
THEOREM TypeCorrect == Spec => []TypeOK
<1>1. BookInv => TypeOK
  BY DEF BookInv
<1> QED
  BY <1>1, BookCorrect, PTL

\* Heap::size counts the cells of the list, and the threshold follows from it
\* and from the cells added since the last sweep, whatever happens in between.
THEOREM AccountingCorrect == Spec => []Accounting
<1>1. BookInv => Accounting
  BY DEF BookInv
<1> QED
  BY <1>1, BookCorrect, PTL

\* maybe_gc lets an instruction start only while the heap is smaller than three
\* times what survived the last collection, or the minimum above it.
THEOREM GrowthIsBounded == Spec => GrowthBounded
<1>1. BookInv /\ [Next]_vars =>
        [phase = "loop" /\ phase' = "run" =>
           size < Larger(3 * (size - added), (size - added) + MinThreshold)]_vars
  <2> SUFFICES ASSUME BookInv, [Next]_vars, phase = "loop", phase' = "run"
               PROVE  size < Larger(3 * (size - added), (size - added) + MinThreshold)
    OBVIOUS
  <2>1. added < threshold
    BY DEF Next, vars, NextInstruction, MaybeGc, StartMarking, TriggerGc, EndInstruction,
           Emplace, EmplaceUpvalue, Rewire, MarkObject, MarkingDone, SweepHeap, SweepUpvalues
  <2> QED
    BY <2>1, ThresholdAssumption DEF BookInv, TypeOK, Accounting, Larger
<1> QED
  BY <1>1, BookCorrect, PTL DEF Spec, GrowthBounded

----------------------------------------------------------------------------
(* The inductive invariant of the collector *)

\* The cells that stay allocated when the collection in progress is over.
AllocatedBar == heap \cup storeBar \cup Constants

\* No cell and no part of the VM refers to a cell outside AllocatedBar.
GraphInv ==
  /\ \A o \in M!Objects : refsBar[o] \subseteq AllocatedBar
  /\ \A o \in M!Objects \ AllocatedBar : refsBar[o] = {}
  /\ \A s \in M!Sources : roots[s] \subseteq AllocatedBar
  /\ \A k \in Constants : refs[k] = {}
  /\ roots["native"] = {}

\* The marked objects are the part of the kept graph explored so far, the
\* grey ones its frontier; a constant's stale mark hides nothing, because
\* between instructions a constant refers to nothing.
MarkInv ==
  /\ phase \in {"loop", "run"} => marked \subseteq Constants /\ grey = {}
  /\ phase = "mark" =>
       /\ M!RootSet \subseteq marked \cup grey
       /\ marked \cup grey \subseteq Kept(M!RootSet)
       /\ \A o \in marked : Visited(o) \subseteq marked \cup grey
  /\ phase = "sweepHeap" => marked = Kept(M!RootSet) /\ grey = {}
  /\ phase = "sweepUpvalues" => marked \subseteq store \cup Constants /\ grey = {}

\* Everything the program can reach, and so everything a collection keeps, is
\* allocated and stays allocated.
LEMMA InUseAllocated ==
  ASSUME TypeOK, GraphInv
  PROVE  /\ M!InUse \subseteq AllocatedBar
         /\ M!Reachable(M!RootSet) \subseteq AllocatedBar
<1>1. AllocatedBar \in SUBSET M!Objects
  BY DEF TypeOK, M!TypeOK, AllocatedBar, storeBar, M!Objects
<1>2. M!Closed(AllocatedBar)
  <2>1. ASSUME NEW o \in AllocatedBar PROVE refs[o] = refsBar[o]
    BY <1>1, <2>1, ObjectsAssumption DEF AllocatedBar, storeBar, refsBar, TypeOK, M!TypeOK
  <2> QED
    BY <1>1, <2>1 DEF M!Closed, GraphInv
<1>3. M!RootSet \subseteq AllocatedBar
  BY DEF M!RootSet, M!Sources, AllocatedBar, GraphInv
<1>4. roots["native"] \subseteq AllocatedBar
  BY DEF GraphInv
<1> QED
  BY <1>1, <1>2, <1>3, <1>4, ReachableLeast DEF M!InUse

\* At the start nothing is marked and only roots exist.
LEMMA GraphInit == Init => GraphInv /\ MarkInv /\ Anchored
<1> SUFFICES ASSUME Init PROVE GraphInv /\ MarkInv /\ Anchored
  OBVIOUS
<1>1. PICK builtins \in SUBSET HeapCells :
        /\ heap = builtins
        /\ store = {}
        /\ refs = [o \in M!Objects |-> {}]
        /\ roots = [s \in M!Sources |-> IF s = "globals" THEN builtins ELSE {}]
  BY DEF Init, M!Init
<1>2. phase = "loop" /\ marked = {} /\ grey = {}
  BY DEF Init
<1>3. MarkInv
  BY <1>2 DEF MarkInv
<1>4. GraphInv
  <2>1. /\ refsBar = refs
        /\ \A o \in M!Objects : refs[o] = {}
        /\ Constants \subseteq M!Objects
    BY <1>1, <1>2 DEF refsBar, M!Objects
  <2>2. \A s \in M!Sources : roots[s] \subseteq AllocatedBar
    BY <1>1 DEF AllocatedBar
  <2>3. roots["native"] = {}
    BY <1>1 DEF M!Sources
  <2> QED
    BY <2>1, <2>2, <2>3 DEF GraphInv
<1>5. Anchored
  BY <1>1, ObjectsAssumption DEF Anchored, M!Objects
<1> QED
  BY <1>3, <1>4, <1>5

\* No instruction makes the graph refer to a freed cell: what it stores it has
\* found by following pointers.
LEMMA MutatorGraph ==
  ASSUME Callbacks = FALSE, TypeOK, GraphInv, phase = "run", phase' = "run",
         M!Mutate
  PROVE  GraphInv'
<1>0. /\ storeBar = store /\ storeBar' = store'
      /\ refsBar = refs /\ refsBar' = refs'
  BY DEF storeBar, refsBar
<1>1. M!InUse \subseteq AllocatedBar
  BY InUseAllocated
<1>2. /\ AllocatedBar = heap \cup store \cup Constants
      /\ AllocatedBar' = heap' \cup store' \cup Constants
  BY <1>0 DEF AllocatedBar
<1>3. /\ refs \in [M!Objects -> SUBSET M!Objects]
      /\ roots \in [M!Sources -> SUBSET M!Objects]
      /\ heap \subseteq HeapCells /\ store \subseteq UpvalueCells
  BY DEF TypeOK, M!TypeOK
<1>4. /\ \A o \in M!Objects : refs[o] \subseteq AllocatedBar
      /\ \A o \in M!Objects \ AllocatedBar : refs[o] = {}
      /\ \A s \in M!Sources : roots[s] \subseteq AllocatedBar
      /\ \A k \in Constants : refs[k] = {}
      /\ roots["native"] = {}
  BY <1>0 DEF GraphInv
<1>5. ASSUME \A o \in M!Objects : refs'[o] \subseteq AllocatedBar',
             \A o \in M!Objects \ AllocatedBar' : refs'[o] = {},
             \A s \in M!Sources : roots'[s] \subseteq AllocatedBar',
             \A k \in Constants : refs'[k] = {},
             roots'["native"] = {}
      PROVE  GraphInv'
  BY <1>0, <1>5 DEF GraphInv
\* A cell of either kind is new and refers to R.
<1>6. ASSUME NEW x \in HeapCells \cup UpvalueCells, NEW R \in SUBSET AllocatedBar,
             NEW s \in {"stack", "frames"},
             AllocatedBar' = AllocatedBar \cup {x},
             refs' = [refs EXCEPT ![x] = R],
             roots' = [roots EXCEPT ![s] = @ \cup {x}]
      PROVE  GraphInv'
  <2>1. x \in M!Objects /\ x \notin Constants
    BY ObjectsAssumption DEF M!Objects
  <2>2. \A o \in M!Objects : refs'[o] = IF o = x THEN R ELSE refs[o]
    BY <1>3, <1>6, <2>1
  <2>3. \A t \in M!Sources : roots'[t] \subseteq roots[t] \cup {x}
    BY <1>3, <1>6
  <2>4. roots'["native"] = roots["native"]
    BY <1>3, <1>6 DEF M!Sources
  <2> HIDE <1>6
  <2>5. AllocatedBar' = AllocatedBar \cup {x}
    BY <1>6
  <2>6. \A o \in M!Objects : refs'[o] \subseteq AllocatedBar'
    BY <1>4, <2>2, <2>5
  <2>7. \A o \in M!Objects \ AllocatedBar' : refs'[o] = {}
    BY <1>4, <2>2, <2>5
  <2>8. \A k \in Constants : refs'[k] = {}
    BY <1>4, <2>1, <2>2 DEF M!Objects
  <2>9. \A t \in M!Sources : roots'[t] \subseteq AllocatedBar'
    BY <1>4, <2>3, <2>5
  <2> QED
    BY <1>4, <1>5, <2>4, <2>6, <2>7, <2>8, <2>9
\* What an allocated cell refers to changes.
<1>7. ASSUME NEW x \in heap \cup store, NEW R \in SUBSET AllocatedBar,
             UNCHANGED <<heap, store, roots>>,
             refs' = [refs EXCEPT ![x] = R]
      PROVE  GraphInv'
  <2>1. x \in M!Objects /\ x \in AllocatedBar /\ x \notin Constants
    BY <1>2, <1>3, ObjectsAssumption DEF M!Objects
  <2>2. \A o \in M!Objects : refs'[o] = IF o = x THEN R ELSE refs[o]
    BY <1>3, <1>7, <2>1
  <2>3. AllocatedBar' = AllocatedBar /\ roots' = roots
    BY <1>2, <1>7
  <2>4. \A k \in Constants : refs'[k] = {}
    BY <1>4, <2>1, <2>2 DEF M!Objects
  <2> HIDE <1>7
  <2> QED
    BY <1>4, <1>5, <2>1, <2>2, <2>3, <2>4
\* What a part of the VM holds changes.
<1>8. ASSUME NEW s \in M!Sources, s # "native", NEW R \in SUBSET AllocatedBar,
             UNCHANGED <<heap, store, refs>>,
             roots' = [roots EXCEPT ![s] = R]
      PROVE  GraphInv'
  <2>1. \A t \in M!Sources : roots'[t] = IF t = s THEN R ELSE roots[t]
    BY <1>3, <1>8
  <2>2. AllocatedBar' = AllocatedBar /\ refs' = refs
    BY <1>2, <1>8
  <2>3. "native" \in M!Sources
    BY DEF M!Sources
  <2> QED
    BY <1>4, <1>5, <1>8, <2>1, <2>2, <2>3
<1>9. ASSUME NEW c \in HeapCells, M!HeapStore(c) PROVE GraphInv'
  <2>1. PICK R \in SUBSET M!InUse : refs' = [refs EXCEPT ![c] = R]
    BY <1>9 DEF M!HeapStore
  <2> QED
    BY <1>1, <1>2, <1>6, <1>9, <2>1 DEF M!HeapStore
<1>10. ASSUME NEW u \in UpvalueCells, M!CaptureLocal(u) PROVE GraphInv'
  <2>1. PICK R \in M!AtMostOne(M!InUse \cap M!Values) : refs' = [refs EXCEPT ![u] = R]
    BY <1>10 DEF M!CaptureLocal
  <2>2. R \subseteq AllocatedBar
    BY <1>1 DEF M!AtMostOne
  <2> QED
    BY <1>2, <1>6, <1>10, <2>1, <2>2 DEF M!CaptureLocal
<1>11. ASSUME NEW s \in M!Sources, M!Load(s) PROVE GraphInv'
  <2>1. PICK o \in M!InUse \ roots[s] : roots' = [roots EXCEPT ![s] = @ \cup {o}]
    BY <1>11 DEF M!Load
  <2>2. roots[s] \cup {o} \in SUBSET AllocatedBar /\ s # "native"
    BY <1>1, <1>4, <1>11 DEF M!Load
  <2> QED
    BY <1>8, <1>11, <2>1, <2>2 DEF M!Load
<1>12. ASSUME NEW s \in M!Sources, M!Release(s) PROVE GraphInv'
  <2>1. PICK o \in roots[s] : roots' = [roots EXCEPT ![s] = @ \ {o}]
    BY <1>12 DEF M!Release
  <2>2. roots[s] \ {o} \in SUBSET AllocatedBar /\ s # "native"
    BY <1>4, <2>1
  <2> QED
    BY <1>8, <1>12, <2>1, <2>2 DEF M!Release
<1>13. ASSUME NEW c \in HeapCells, M!SetElement(c) PROVE GraphInv'
  <2>1. PICK R \in SUBSET AllocatedBar : refs' = [refs EXCEPT ![c] = R]
    <3>1. CASE \E x \in M!InUse \cap M!Values : refs' = [refs EXCEPT ![c] = @ \cup {x}]
      BY <1>1, <1>4, <3>1 DEF M!Objects
    <3>2. CASE \E x \in refs[c] : refs' = [refs EXCEPT ![c] = @ \ {x}]
      BY <1>4, <3>2 DEF M!Objects
    <3> QED
      BY <1>13, <3>1, <3>2 DEF M!SetElement
  <2> QED
    BY <1>7, <1>13, <2>1 DEF M!SetElement
<1>14. ASSUME NEW u \in UpvalueCells, M!SetUpvalue(u) PROVE GraphInv'
  <2>1. PICK R \in M!AtMostOne(M!InUse \cap M!Values) : refs' = [refs EXCEPT ![u] = R]
    BY <1>14 DEF M!SetUpvalue
  <2>2. R \subseteq AllocatedBar
    BY <1>1 DEF M!AtMostOne
  <2> QED
    BY <1>7, <1>14, <2>1, <2>2 DEF M!SetUpvalue
<1> QED
  BY <1>9, <1>10, <1>11, <1>12, <1>13, <1>14 DEF M!Mutate

\* Every step of the interpreter and of run_gc preserves the two invariants.
LEMMA GraphStep ==
  ASSUME Callbacks = FALSE, Escapes = FALSE, TypeOK, TypeOK',
         GraphInv, MarkInv, Anchored, [Next]_vars
  PROVE  GraphInv' /\ MarkInv' /\ Anchored'
<1>0. /\ refs \in [M!Objects -> SUBSET M!Objects]
      /\ M!RootSet \in SUBSET M!Objects
      /\ heap \subseteq HeapCells /\ store \subseteq UpvalueCells
      /\ marked \subseteq M!Objects /\ grey \subseteq M!Objects
      /\ refs' \in [M!Objects -> SUBSET M!Objects]
  BY DEF TypeOK, M!TypeOK, M!RootSet, M!Sources, M!Objects
<1>1. /\ M!RootSet \subseteq Kept(M!RootSet)
      /\ \A o \in Kept(M!RootSet) : Visited(o) \subseteq Kept(M!RootSet)
      /\ Kept(M!RootSet) \subseteq AllocatedBar
      /\ M!Closed(Kept(M!RootSet))
  BY <1>0, KeptClosed, AnchoredKeepsAll, ReachableClosed, InUseAllocated
\* Steps that leave the graph alone, outside the window between the sweeps.
<1>2. ASSUME UNCHANGED <<heap, store, refs, roots>>,
             phase # "sweepUpvalues", phase' # "sweepUpvalues"
      PROVE  /\ GraphInv' /\ Anchored'
             /\ Kept(M!RootSet)' = Kept(M!RootSet) /\ M!RootSet' = M!RootSet
  <2>1. GraphInv'
    BY <1>2 DEF GraphInv, AllocatedBar, storeBar, refsBar
  <2>2. M!RootSet' = M!RootSet /\ refs' = refs
    BY <1>2 DEF M!RootSet
  <2>3. Kept(M!RootSet)' = Kept(M!RootSet)
    BY <1>0, <2>2, KeptStable
  <2> QED
    BY <2>1, <2>2, <2>3 DEF Anchored
<1>3. CASE NextInstruction
  BY <1>2, <1>3 DEF NextInstruction, gcState, MarkInv
<1>4. CASE phase \in {"loop", "run"} /\ StartMarking
  <2>1. \A o \in marked : refs[o] = {}
    BY <1>4 DEF MarkInv, GraphInv
  <2>2. /\ M!RootSet' = M!RootSet /\ Kept(M!RootSet)' = Kept(M!RootSet)
        /\ GraphInv' /\ Anchored'
    BY <1>2, <1>4 DEF StartMarking
  <2>3. Constants \subseteq M!RootSet
    BY DEF M!RootSet
  <2>4. \A o \in marked' : Visited(o)' = {}
    BY <1>4, <2>1 DEF StartMarking, Visited
  <2>5. MarkInv'
    BY <1>1, <1>4, <2>2, <2>3, <2>4 DEF StartMarking, MarkInv
  <2> QED
    BY <2>2, <2>5
<1>5. CASE EndInstruction
  BY <1>2, <1>5 DEF EndInstruction, gcState, MarkInv
<1>6. ASSUME NEW c \in HeapCells, Emplace(c) PROVE GraphInv' /\ MarkInv' /\ Anchored'
  <2>1. MarkInv' /\ Anchored'
    BY <1>6 DEF Emplace, Permitted, MarkInv
  <2> QED
    BY <1>6, <2>1, MutatorGraph DEF Emplace, M!Mutate
<1>7. ASSUME NEW u \in UpvalueCells, EmplaceUpvalue(u) PROVE GraphInv' /\ MarkInv' /\ Anchored'
  <2>1. MarkInv' /\ Anchored'
    BY <1>7 DEF EmplaceUpvalue, Permitted, MarkInv
  <2> QED
    BY <1>7, <2>1, MutatorGraph DEF EmplaceUpvalue, M!Mutate
<1>8. CASE Rewire
  <2>1. MarkInv' /\ Anchored'
    BY <1>8 DEF Rewire, Permitted, gcState, MarkInv
  <2> QED
    BY <1>8, <2>1, MutatorGraph DEF Rewire, M!Mutate
<1>9. ASSUME NEW o \in M!Objects, MarkObject(o) PROVE GraphInv' /\ MarkInv' /\ Anchored'
  <2>1. phase = "mark" /\ phase' = "mark" /\ refs' = refs
    BY <1>9 DEF MarkObject
  <2>2. /\ M!RootSet' = M!RootSet /\ Kept(M!RootSet)' = Kept(M!RootSet)
        /\ GraphInv' /\ Anchored'
    BY <1>2, <1>9 DEF MarkObject
  <2>3. marked' \cup grey' = marked \cup grey \cup (IF o \in marked THEN {} ELSE Visited(o))
    BY <1>9 DEF MarkObject
  <2>4. Visited(o) \subseteq Kept(M!RootSet)
    BY <1>1, <1>9, <2>1 DEF MarkObject, MarkInv
  <2>5. \A p \in marked' : Visited(p) \subseteq marked' \cup grey'
    <3>1. ASSUME NEW p \in marked', p # o PROVE Visited(p) \subseteq marked' \cup grey'
      BY <1>9, <2>1, <2>3, <3>1 DEF MarkObject, MarkInv
    <3>2. o \in marked' => Visited(o) \subseteq marked' \cup grey'
      BY <1>9, <2>1, <2>3 DEF MarkObject, MarkInv
    <3> QED
      BY <3>1, <3>2
  <2>6. \A p \in marked' : Visited(p)' \subseteq marked' \cup grey'
    BY <2>1, <2>5 DEF Visited
  <2>7. MarkInv'
    BY <2>1, <2>2, <2>3, <2>4, <2>6 DEF MarkInv
  <2> QED
    BY <2>2, <2>7
<1>10. CASE MarkingDone
  <2>1. /\ M!RootSet \subseteq marked /\ marked \subseteq Kept(M!RootSet)
        /\ \A o \in marked : Visited(o) \subseteq marked
    BY <1>10 DEF MarkingDone, MarkInv
  <2>2. marked = Kept(M!RootSet)
    BY <1>0, <2>1, KeptLeast
  <2>3. Kept(M!RootSet)' = Kept(M!RootSet) /\ GraphInv' /\ Anchored'
    BY <1>2, <1>10 DEF MarkingDone
  <2>4. MarkInv'
    BY <1>10, <2>2, <2>3 DEF MarkingDone, gcState, MarkInv
  <2> QED
    BY <2>3, <2>4
<1>11. CASE SweepHeap
  <2>1. /\ phase = "sweepHeap" /\ phase' = "sweepUpvalues"
        /\ marked = Kept(M!RootSet) /\ grey = {} /\ grey' = {}
        /\ heap' = heap \cap marked /\ store' = store /\ roots' = roots
        /\ marked' = marked \ (heap \cap marked)
        /\ refs' = [o \in M!Objects |-> IF o \in heap \ marked THEN {} ELSE refs[o]]
    BY <1>11 DEF SweepHeap, MarkInv
  <2>2. marked \subseteq heap \cup store \cup Constants
    BY <1>1, <2>1 DEF AllocatedBar, storeBar
  <2>3. MarkInv'
    BY <2>1, <2>2 DEF MarkInv
  <2>4. /\ storeBar' = store \cap marked
        /\ AllocatedBar' = marked
    <3>1. storeBar' = store \cap marked
      BY <1>0, <2>1, ObjectsAssumption DEF storeBar
    <3>2. Constants \subseteq marked
      BY <1>1, <2>1 DEF M!RootSet
    <3> QED
      BY <2>1, <2>2, <3>1, <3>2 DEF AllocatedBar
  <2>5. \A o \in M!Objects : refsBar'[o] = IF o \in marked THEN refs[o] ELSE {}
    <3>1. \A o \in M!Objects :
            refsBar'[o] = IF o \in store' \ marked' THEN {} ELSE refs'[o]
      BY <2>1 DEF refsBar
    <3>2. \A o \in M!Objects : o \notin heap \cup store \cup Constants => refs[o] = {}
      BY <2>1 DEF GraphInv, AllocatedBar, storeBar, refsBar
    <3>3. Constants \subseteq marked
      BY <1>1, <2>1 DEF M!RootSet
    <3> QED
      BY <1>0, <2>1, <3>1, <3>2, <3>3, ObjectsAssumption
  <2>6. \A o \in marked : refs[o] \subseteq marked
    BY <1>1, <2>1 DEF M!Closed
  <2>7. \A s \in M!Sources : roots[s] \subseteq marked
    BY <1>1, <2>1 DEF M!RootSet, M!Sources, GraphInv
  <2>8. GraphInv'
    <3>1. \A k \in Constants : refs'[k] = {}
      BY <2>1 DEF GraphInv, M!Objects
    <3> QED
      BY <2>1, <2>4, <2>5, <2>6, <2>7, <3>1 DEF GraphInv
  <2>9. Anchored'
    <3>1. M!RootSet' = M!RootSet
      BY <2>1 DEF M!RootSet
    <3>2. \A o \in Kept(M!RootSet) : refs'[o] = refs[o]
      BY <1>0, <2>1
    <3>3. Kept(M!RootSet)' = Kept(M!RootSet)
      BY <1>0, <3>1, <3>2, KeptStable
    <3> QED
      BY <3>2, <3>3 DEF Anchored
  <2> QED
    BY <2>3, <2>8, <2>9
<1>12. CASE SweepUpvalues
  <2>1. /\ phase = "sweepUpvalues" /\ phase' = "run"
        /\ heap' = heap /\ store' = store \cap marked /\ roots' = roots
        /\ marked' = marked \ (store \cap marked) /\ grey' = {}
        /\ refs' = [o \in M!Objects |-> IF o \in store \ marked THEN {} ELSE refs[o]]
    BY <1>12 DEF SweepUpvalues, MarkInv
  <2>2. MarkInv'
    BY <2>1 DEF MarkInv
  <2>3. storeBar' = storeBar /\ refsBar' = refsBar
    BY <2>1 DEF storeBar, refsBar
  <2>4. \A k \in Constants : refs'[k] = {}
    BY <2>1 DEF GraphInv, M!Objects
  <2>5. GraphInv'
    BY <2>1, <2>3, <2>4 DEF GraphInv, AllocatedBar
  <2>6. Anchored'
    <3>1. M!RootSet' = M!RootSet
      BY <2>1 DEF M!RootSet
    <3>2. \A o \in Kept(M!RootSet) : o \in M!Objects /\ o \notin store \ marked
      BY <1>0, <1>1, <2>1, ObjectsAssumption, KeptClosed DEF AllocatedBar, storeBar
    <3>3. Kept(M!RootSet)' = Kept(M!RootSet)
      BY <1>0, <2>1, <3>1, <3>2, KeptStable
    <3> QED
      BY <2>1, <3>2, <3>3 DEF Anchored
  <2> QED
    BY <2>2, <2>5, <2>6
<1>13. CASE UNCHANGED vars
  <2>1. M!RootSet' = M!RootSet /\ refs' = refs
    BY <1>13 DEF vars, M!RootSet
  <2>2. Kept(M!RootSet)' = Kept(M!RootSet) /\ \A o : Visited(o)' = Visited(o)
    BY <1>0, <2>1, KeptStable DEF Visited
  <2>3. Anchored'
    BY <2>1, <2>2 DEF Anchored
  <2>4. MarkInv'
    BY <1>13, <2>1, <2>2 DEF vars, MarkInv
  <2> QED
    BY <1>13, <2>3, <2>4 DEF vars, GraphInv, AllocatedBar, storeBar, refsBar
<1> QED
  BY <1>3, <1>4, <1>5, <1>6, <1>7, <1>8, <1>9, <1>10, <1>11, <1>12, <1>13
  DEF Next, MaybeGc, TriggerGc

\* Where no builtin calls back and nothing escapes a function, the whole invariant
\* always holds.
LEMMA GcCorrect ==
  ASSUME Callbacks = FALSE, Escapes = FALSE
  PROVE  Spec => [](TypeOK /\ GraphInv /\ MarkInv /\ Anchored)
<1>1. TypeOK /\ TypeOK' /\ GraphInv /\ MarkInv /\ Anchored /\ [Next]_vars
        => (GraphInv /\ MarkInv /\ Anchored)'
  BY GraphStep
<1> QED
  BY <1>1, GraphInit, TypeCorrect, PTL DEF Spec

----------------------------------------------------------------------------
(* Safety of the collector *)

\* In a program whose builtins run no callbacks and whose functions refer to
\* nothing that is not kept anyway, nothing the VM can reach is ever freed: not
\* between collections and not in the middle of one.
THEOREM NoDanglingCorrect ==
  ASSUME Callbacks = FALSE, Escapes = FALSE
  PROVE  Spec => []NoDangling
<1>1. TypeOK /\ GraphInv => NoDangling
  <2> SUFFICES ASSUME TypeOK, GraphInv PROVE NoDangling
    OBVIOUS
  <2>1. AllocatedBar \subseteq M!Allocated
    BY DEF AllocatedBar, storeBar, M!Allocated
  <2> QED
    BY <2>1, InUseAllocated DEF NoDangling, M!NoDangling
<1> QED
  BY <1>1, GcCorrect, PTL

\* When run_gc starts to sweep, the marked objects are exactly those the root
\* set reaches: the recursion of mark() misses nothing and marks no garbage.
THEOREM MarkingExactCorrect ==
  ASSUME Callbacks = FALSE, Escapes = FALSE
  PROVE  Spec => []MarkingExact
<1>1. TypeOK /\ MarkInv /\ Anchored => MarkingExact
  <2> SUFFICES ASSUME TypeOK, MarkInv, Anchored PROVE MarkingExact
    OBVIOUS
  <2>1. /\ refs \in [M!Objects -> SUBSET M!Objects]
        /\ M!RootSet \in SUBSET M!Objects
    BY DEF TypeOK, M!TypeOK, M!RootSet, M!Sources, M!Objects
  <2> QED
    BY <2>1, AnchoredKeepsAll DEF MarkInv, MarkingExact
<1> QED
  BY <1>1, GcCorrect, PTL

\* The sweeps leave no mark bit set except on the program's constants.
THEOREM MarksClearedCorrect ==
  ASSUME Callbacks = FALSE, Escapes = FALSE
  PROVE  Spec => []MarksCleared
<1>1. MarkInv => MarksCleared
  BY DEF MarkInv, MarksCleared
<1> QED
  BY <1>1, GcCorrect, PTL

----------------------------------------------------------------------------
(* run_gc implements the one-step collection *)

\* While nothing is being swept, the two views of the graph are the same.
LEMMA SameView ==
  ASSUME phase # "sweepUpvalues"
  PROVE  /\ storeBar = store /\ refsBar = refs
         /\ \A S : Promise!Reachable(S) = M!Reachable(S)
         /\ Promise!InUse = M!InUse
<1>1. storeBar = store /\ refsBar = refs
  BY DEF storeBar, refsBar
<1>2. \A S : Promise!Reachable(S) = M!Reachable(S)
  BY <1>1 DEF Promise!Reachable, Promise!ClosedAbove, Promise!Closed, Promise!Objects,
              M!Reachable, M!ClosedAbove, M!Closed, M!Objects
<1> QED
  BY <1>1, <1>2 DEF Promise!InUse, Promise!RootSet, Promise!VisitedSources, M!InUse,
                    M!RootSet, M!VisitedSources

\* The heap starts as the promised one.
LEMMA RefinesInit == Init => Promise!Init
<1> SUFFICES ASSUME Init PROVE Promise!Init
  OBVIOUS
<1>1. storeBar = store /\ refsBar = refs
  BY SameView DEF Init
<1> QED
  BY <1>1 DEF Init, M!Init, Promise!Init, M!Objects, Promise!Objects, M!Sources,
              Promise!Sources, M!VisitedSources, Promise!VisitedSources

\* A mutator step of an instruction is the same step of the promise.
LEMMA RefinesMutate ==
  ASSUME phase = "run", phase' = "run", M!Mutate
  PROVE  Promise!Mutate
<1>1. /\ storeBar = store /\ refsBar = refs /\ Promise!InUse = M!InUse
      /\ storeBar' = store' /\ refsBar' = refs'
  BY SameView DEF storeBar, refsBar
<1>2. /\ Promise!Values = M!Values /\ Promise!Sources = M!Sources
      /\ \A S : Promise!AtMostOne(S) = M!AtMostOne(S)
  BY DEF Promise!Values, M!Values, Promise!Sources, M!Sources, Promise!VisitedSources,
         M!VisitedSources, Promise!AtMostOne, M!AtMostOne
<1>3. ASSUME NEW c \in HeapCells, M!HeapStore(c) PROVE Promise!HeapStore(c)
  BY <1>1, <1>2, <1>3 DEF M!HeapStore, Promise!HeapStore
<1>4. ASSUME NEW c \in HeapCells, M!SetElement(c) PROVE Promise!SetElement(c)
  BY <1>1, <1>2, <1>4 DEF M!SetElement, Promise!SetElement
<1>5. ASSUME NEW u \in UpvalueCells, M!CaptureLocal(u) PROVE Promise!CaptureLocal(u)
  BY <1>1, <1>2, <1>5 DEF M!CaptureLocal, Promise!CaptureLocal
<1>6. ASSUME NEW u \in UpvalueCells, M!SetUpvalue(u) PROVE Promise!SetUpvalue(u)
  BY <1>1, <1>2, <1>6 DEF M!SetUpvalue, Promise!SetUpvalue
<1>7. ASSUME NEW s \in M!Sources, M!Load(s) PROVE Promise!Load(s)
  BY <1>1, <1>7 DEF M!Load, Promise!Load
<1>8. ASSUME NEW s \in M!Sources, M!Release(s) PROVE Promise!Release(s)
  BY <1>1, <1>2, <1>8 DEF M!Release, Promise!Release
<1> QED
  BY <1>2, <1>3, <1>4, <1>5, <1>6, <1>7, <1>8 DEF M!Mutate, Promise!Mutate

\* Sweeping the heap is the step that collects; every other step of run_gc is
\* invisible.
LEMMA RefinesStep ==
  ASSUME Callbacks = FALSE, Escapes = FALSE, TypeOK, GraphInv, MarkInv, Anchored, [Next]_vars
  PROVE  [Promise!Next]_(Promise!graph)
<1>0. heap \subseteq HeapCells /\ store \subseteq UpvalueCells
  BY DEF TypeOK, M!TypeOK
<1>1. ASSUME UNCHANGED <<heap, store, refs, roots>>,
             phase # "sweepUpvalues", phase' # "sweepUpvalues"
      PROVE  UNCHANGED Promise!graph
  BY <1>1 DEF Promise!graph, storeBar, refsBar
<1>2. CASE NextInstruction
  BY <1>1, <1>2 DEF NextInstruction
<1>3. CASE phase \in {"loop", "run"} /\ StartMarking
  BY <1>1, <1>3 DEF StartMarking
<1>4. CASE EndInstruction
  BY <1>1, <1>4 DEF EndInstruction
<1>5. ASSUME NEW c \in HeapCells, Emplace(c) PROVE Promise!Next
  BY <1>5, RefinesMutate DEF Emplace, M!Mutate, Promise!Next
<1>6. ASSUME NEW u \in UpvalueCells, EmplaceUpvalue(u) PROVE Promise!Next
  BY <1>6, RefinesMutate DEF EmplaceUpvalue, M!Mutate, Promise!Next
<1>7. CASE Rewire
  BY <1>7, RefinesMutate DEF Rewire, M!Mutate, Promise!Next
<1>8. ASSUME NEW o \in M!Objects, MarkObject(o) PROVE UNCHANGED Promise!graph
  BY <1>1, <1>8 DEF MarkObject
<1>9. CASE MarkingDone
  BY <1>1, <1>9 DEF MarkingDone
<1>10. CASE SweepHeap
  <2>1. /\ phase = "sweepHeap" /\ phase' = "sweepUpvalues"
        /\ marked = M!Reachable(M!RootSet)
        /\ heap' = heap \cap marked /\ store' = store /\ roots' = roots
        /\ marked' = marked \ (heap \cap marked)
        /\ refs' = [o \in M!Objects |-> IF o \in heap \ marked THEN {} ELSE refs[o]]
    <3>1. /\ refs \in [M!Objects -> SUBSET M!Objects]
          /\ M!RootSet \in SUBSET M!Objects
      BY DEF TypeOK, M!TypeOK, M!RootSet, M!Sources, M!Objects
    <3> QED
      BY <1>10, <3>1, AnchoredKeepsAll DEF SweepHeap, MarkInv
  <2>2. /\ storeBar = store /\ refsBar = refs
        /\ Promise!Reachable(Promise!RootSet) = marked
    BY <2>1, SameView DEF Promise!RootSet, Promise!VisitedSources, M!RootSet, M!VisitedSources
  <2>3. storeBar' = store \cap marked
    BY <1>0, <2>1, ObjectsAssumption DEF storeBar
  <2>4. refsBar' = [o \in M!Objects |-> IF o \in (heap \cup store) \ marked THEN {} ELSE refs[o]]
    <3>1. refsBar' = [o \in M!Objects |-> IF o \in store' \ marked' THEN {} ELSE refs'[o]]
      BY <2>1 DEF refsBar
    <3>2. \A o \in M!Objects : (o \in store' \ marked') <=> (o \in store \ marked)
      BY <1>0, <2>1, ObjectsAssumption
    <3> QED
      BY <2>1, <3>1, <3>2
  <2>5. Promise!Collect
    BY <2>1, <2>2, <2>3, <2>4 DEF Promise!Collect, Promise!Objects, M!Objects
  <2> QED
    BY <2>5 DEF Promise!Next
<1>11. CASE SweepUpvalues
  <2>1. storeBar' = storeBar /\ refsBar' = refsBar
    BY <1>11 DEF SweepUpvalues, storeBar, refsBar
  <2> QED
    BY <1>11, <2>1 DEF SweepUpvalues, Promise!graph
<1>12. CASE UNCHANGED vars
  BY <1>12 DEF vars, Promise!graph, storeBar, refsBar
<1> QED
  BY <1>2, <1>3, <1>4, <1>5, <1>6, <1>7, <1>8, <1>9, <1>10, <1>11, <1>12
  DEF Next, MaybeGc, TriggerGc

\* run_gc, with its marking, its two sweeps and the stale marks of the
\* constants, implements a collection that in one step frees exactly the cells
\* the root set does not reach.
THEOREM Refinement ==
  ASSUME Callbacks = FALSE, Escapes = FALSE
  PROVE  Spec => ImplementsManagedHeap
<1>1. TypeOK /\ GraphInv /\ MarkInv /\ Anchored /\ [Next]_vars
        => [Promise!Next]_(Promise!graph)
  BY RefinesStep
<1> QED
  BY <1>1, RefinesInit, GcCorrect, PTL DEF Spec, ImplementsManagedHeap, Promise!Spec
=============================================================================
