------------------------------- MODULE HeapGc -------------------------------
(***************************************************************************)
(* The mark-and-sweep collector of the VM: Heap, HeapCell::mark,           *)
(* UpvalueCell::mark, UpvalueStorage, BytecodeVM::run_gc and maybe_gc.     *)
(*                                                                         *)
(* The interpreter loop alternates between its head, where maybe_gc looks  *)
(* at the allocation counter, and one instruction, whose effect on the     *)
(* object graph is a number of mutator steps of ManagedHeap.  run_gc marks *)
(* from the root set one mark() call at a time, then sweeps the heap, then *)
(* the upvalue store.  The mark bits of the program's constants are set    *)
(* like any other and, because no sweep visits constants, never cleared.   *)
(*                                                                         *)
(* HeapCell::mark follows the elements of an array and NOT what a function *)
(* refers to: its handler for functions takes a Function, HeapData holds a *)
(* unique_ptr<Function>, so a function falls to the empty handler.  What a *)
(* closure captured is kept only while something else refers to it too.    *)
(***************************************************************************)
EXTENDS Integers, FiniteSets

CONSTANTS
  HeapCells, FunctionCells, UpvalueCells, Constants, Callbacks,
  Escapes,       \* may what a function refers to lose all its other references?
  MinThreshold   \* smallest allocation threshold (1024 in the code)

ASSUME ObjectsAssumption ==
  /\ IsFiniteSet(HeapCells)
  /\ FunctionCells \subseteq HeapCells
  /\ HeapCells \cap UpvalueCells = {}
  /\ HeapCells \cap Constants = {}
  /\ UpvalueCells \cap Constants = {}

ASSUME ProgramAssumption == Callbacks \in BOOLEAN /\ Escapes \in BOOLEAN

ASSUME ThresholdAssumption == MinThreshold \in Nat \ {0}

VARIABLES
  heap, store, refs, roots,   \* the object graph of ManagedHeap
  phase,      \* "loop": loop head; "run": in an instruction; then run_gc's steps
  marked,     \* the objects whose mark bit is set
  grey,       \* the objects mark() is still to be called on
  size,       \* Heap::size
  added,      \* Heap::added_since_last_sweep
  threshold   \* Heap::next_gc_threshold

gcState == <<marked, grey>>
counters == <<size, added, threshold>>
vars == <<heap, store, refs, roots, phase, marked, grey, size, added, threshold>>

M == INSTANCE ManagedHeap

Phases == {"loop", "run", "mark", "sweepHeap", "sweepUpvalues"}

Larger(a, b) == IF a >= b THEN a ELSE b

Init ==
  /\ M!Init
  /\ phase = "loop"
  /\ marked = {}
  /\ grey = {}
  /\ size = Cardinality(heap)
  /\ added = Cardinality(heap)
  /\ threshold = MinThreshold

----------------------------------------------------------------------------
(* What the collector keeps *)

\* The objects mark() goes on to from o.
Visited(o) == IF o \in FunctionCells THEN {} ELSE refs[o]

\* The least set around S that is closed under mark().
Kept(S) ==
  LET closed == {T \in SUBSET M!Objects :
                   S \subseteq T /\ \A o \in T : Visited(o) \subseteq T}
  IN  {o \in M!Objects : \A T \in closed : o \in T}

\* Whatever a function the program can use refers to is kept without it.
Anchored ==
  \A f \in FunctionCells \cap Kept(M!RootSet) : refs[f] \subseteq Kept(M!RootSet)

\* The steps of the programs this instance is about.
Permitted == Escapes \/ Anchored

----------------------------------------------------------------------------
(* The interpreter *)

\* Mutant: run_gc does not visit the frames.
StartMarkingSkipsFrames ==
  /\ phase' = "mark"
  /\ grey' = M!RootSet \ roots["frames"]
  /\ UNCHANGED <<heap, store, refs, roots, marked, counters>>

\* run_gc starts: mark() is due on every root.
StartMarking ==
  /\ phase' = "mark"
  /\ grey' = M!RootSet
  /\ UNCHANGED <<heap, store, refs, roots, marked, counters>>

\* Mutant: maybe_gc collects one allocation late.
NextInstructionLate ==
  /\ phase = "loop"
  /\ added <= threshold
  /\ phase' = "run"
  /\ UNCHANGED <<heap, store, refs, roots, gcState, counters>>

\* maybe_gc at the head of execute_loop, when the threshold is not reached.
NextInstruction ==
  /\ phase = "loop"
  /\ added < threshold
  /\ phase' = "run"
  /\ UNCHANGED <<heap, store, refs, roots, gcState, counters>>

\* maybe_gc at the head of execute_loop, when it is.
MaybeGc ==
  /\ phase = "loop"
  /\ added >= threshold
  /\ StartMarking

\* The trigger_gc builtin calls run_gc in the middle of an OpCall.
TriggerGc ==
  /\ phase = "run"
  /\ StartMarking

EndInstruction ==
  /\ phase = "run"
  /\ phase' = "loop"
  /\ UNCHANGED <<heap, store, refs, roots, gcState, counters>>

\* Mutant: Heap::emplace does not count the cell.
EmplaceUncounted(c) ==
  /\ phase = "run"
  /\ M!HeapStore(c)
  /\ marked' = marked \ {c}
  /\ UNCHANGED <<phase, grey, counters>>
  /\ Permitted'

\* Heap::emplace counts the cell; the constructor leaves its mark bit clear.
Emplace(c) ==
  /\ phase = "run"
  /\ M!HeapStore(c)
  /\ marked' = marked \ {c}
  /\ size' = size + 1
  /\ added' = added + 1
  /\ UNCHANGED <<phase, grey, threshold>>
  /\ Permitted'

\* UpvalueStorage::emplace
EmplaceUpvalue(u) ==
  /\ phase = "run"
  /\ M!CaptureLocal(u)
  /\ marked' = marked \ {u}
  /\ UNCHANGED <<phase, grey, counters>>
  /\ Permitted'

\* The rest of what instructions do to the graph.
Rewire ==
  /\ phase = "run"
  /\ \/ \E s \in M!Sources : M!Load(s) \/ M!Release(s)
     \/ \E c \in HeapCells : M!SetElement(c)
     \/ \E u \in UpvalueCells : M!SetUpvalue(u)
  /\ UNCHANGED <<phase, gcState, counters>>
  /\ Permitted'

----------------------------------------------------------------------------
(* The collector *)

\* Mutants: mark() does not go on to what an object refers to; it does not stop
\* at an object that is marked.
MarkObjectShallow(o) ==
  /\ phase = "mark"
  /\ o \in grey
  /\ grey' = grey \ {o}
  /\ marked' = marked \cup {o}
  /\ UNCHANGED <<heap, store, refs, roots, phase, counters>>
MarkObjectAgain(o) ==
  /\ phase = "mark"
  /\ o \in grey
  /\ grey' = (grey \ {o}) \cup Visited(o)
  /\ marked' = marked \cup {o}
  /\ UNCHANGED <<heap, store, refs, roots, phase, counters>>

\* One call of HeapCell::mark or UpvalueCell::mark: nothing when the bit is
\* already set, otherwise set it and call mark() on what Visited names.
MarkObject(o) ==
  /\ phase = "mark"
  /\ o \in grey
  /\ IF o \in marked
     THEN /\ grey' = grey \ {o}
          /\ UNCHANGED marked
     ELSE /\ grey' = (grey \ {o}) \cup Visited(o)
          /\ marked' = marked \cup {o}
  /\ UNCHANGED <<heap, store, refs, roots, phase, counters>>

\* Mutant: the sweep does not wait for all mark() calls.
MarkingDoneEarly ==
  /\ phase = "mark"
  /\ phase' = "sweepHeap"
  /\ UNCHANGED <<heap, store, refs, roots, gcState, counters>>

MarkingDone ==
  /\ phase = "mark"
  /\ grey = {}
  /\ phase' = "sweepHeap"
  /\ UNCHANGED <<heap, store, refs, roots, gcState, counters>>

\* Mutant: the threshold is what survived, not twice that.
NextThresholdTight(survivors) == Larger(survivors, MinThreshold)

NextThreshold(survivors) == Larger(survivors * 2, MinThreshold)

\* Heap::sweep: erase the unmarked cells, clear the marks of the others, count
\* and choose the next threshold.
SweepHeap ==
  LET kept == heap \cap marked
      newSize == size - Cardinality(heap \ marked)
  IN  /\ phase = "sweepHeap"
      /\ phase' = "sweepUpvalues"
      /\ heap' = kept
      /\ refs' = [o \in M!Objects |-> IF o \in heap \ marked THEN {} ELSE refs[o]]
      /\ marked' = marked \ kept
      /\ size' = newSize
      /\ added' = 0
      /\ threshold' = NextThreshold(newSize)
      /\ UNCHANGED <<store, roots, grey>>

\* Mutant: the marks of the upvalue cells that stay are not cleared.
SweepUpvaluesKeepsMarks ==
  LET kept == store \cap marked
  IN  /\ phase = "sweepUpvalues"
      /\ phase' = "run"
      /\ store' = kept
      /\ refs' = [o \in M!Objects |-> IF o \in store \ marked THEN {} ELSE refs[o]]
      /\ UNCHANGED <<heap, roots, gcState, counters>>

\* UpvalueStorage::sweep, the last step of run_gc.
SweepUpvalues ==
  LET kept == store \cap marked
  IN  /\ phase = "sweepUpvalues"
      /\ phase' = "run"
      /\ store' = kept
      /\ refs' = [o \in M!Objects |-> IF o \in store \ marked THEN {} ELSE refs[o]]
      /\ marked' = marked \ kept
      /\ UNCHANGED <<heap, roots, grey, counters>>

----------------------------------------------------------------------------
Collector ==
  (\E o \in M!Objects : MarkObject(o)) \/ MarkingDone \/ SweepHeap \/ SweepUpvalues

Next ==
  \/ NextInstruction \/ MaybeGc \/ TriggerGc \/ EndInstruction
  \/ \E c \in HeapCells : Emplace(c)
  \/ \E u \in UpvalueCells : EmplaceUpvalue(u)
  \/ Rewire
  \/ \E o \in M!Objects : MarkObject(o)
  \/ MarkingDone \/ SweepHeap \/ SweepUpvalues

Spec == Init /\ [][Next]_vars

\* run_gc is one C++ call: once it started it runs to its end.
FairSpec == Spec /\ WF_vars(Collector)

----------------------------------------------------------------------------
(* Properties *)

TypeOK ==
  /\ M!TypeOK
  /\ phase \in Phases
  /\ marked \subseteq M!Objects
  /\ grey \subseteq M!Objects
  /\ size \in Nat
  /\ added \in Nat
  /\ threshold \in Nat

Collecting == phase \in {"mark", "sweepHeap", "sweepUpvalues"}

\* Memory safety of the collector (run_gc's choice of roots): whatever the VM
\* can still reach, from the stack, the globals, the frames, the constants or a
\* waiting builtin, is allocated, also in the middle of a collection.
NoDangling == M!NoDangling

\* HeapCell::mark and UpvalueCell::mark together compute reachability: when
\* run_gc starts to sweep, the marked objects are exactly the reachable ones,
\* although constants enter the collection with their mark bits still set.
MarkingExact ==
  phase = "sweepHeap" => marked = M!Reachable(M!RootSet)

\* Between collections no allocated cell carries a stale mark; a stale mark
\* would stop mark() there and hide what the cell refers to.
MarksCleared ==
  phase \in {"loop", "run"} => marked \subseteq Constants

\* Heap::size is the number of cells of the list, and the threshold is at least
\* the minimum and twice what survived the last sweep (all of Heap::sweep's and
\* Heap::emplace's bookkeeping together).
Accounting ==
  /\ size = Cardinality(heap)
  /\ added <= size
  /\ threshold = Larger(2 * (size - added), MinThreshold)

\* The heap never grows past three times what survived the last collection (or
\* the minimum above it) before the next instruction is allowed to start.
GrowthBounded ==
  [][phase = "loop" /\ phase' = "run" =>
       size < Larger(3 * (size - added), (size - added) + MinThreshold)]_vars

\* A collection that has started comes to its end (mark() terminates on cyclic
\* data, because a marked object is not entered again).
CollectionEnds == Collecting ~> phase = "run"

----------------------------------------------------------------------------
(* Refinement: the whole collection takes effect when the heap is swept.  In *)
(* the one state between the two sweeps the upvalue cells that are about to  *)
(* be erased count as erased.                                               *)
storeBar == IF phase = "sweepUpvalues" THEN store \cap marked ELSE store
refsBar ==
  IF phase = "sweepUpvalues"
  THEN [o \in M!Objects |-> IF o \in store \ marked THEN {} ELSE refs[o]]
  ELSE refs

Promise == INSTANCE ManagedHeap WITH store <- storeBar, refs <- refsBar

\* HeapGc implements ManagedHeap: run_gc behaves like one atomic step that
\* frees exactly the unreachable cells.
ImplementsManagedHeap == Promise!Spec
============================================================================
