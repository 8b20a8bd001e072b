---------------------------- MODULE ManagedHeap ----------------------------
(***************************************************************************)
(* What the garbage collector promises the rest of the Lang3 VM.           *)
(*                                                                         *)
(* The state is the object graph the running program sees: the cells of    *)
(* the heap, the upvalue cells, the constants of the compiled program, the *)
(* references between them and the places in the VM that hold references.  *)
(* The mutator actions are what instructions and builtins do to that       *)
(* graph; a collection is ONE step, which frees exactly the cells that the *)
(* root set no longer reaches.  HeapGc refines that step into the calls    *)
(* run_gc really makes.                                                    *)
(***************************************************************************)
EXTENDS Naturals, FiniteSets

CONSTANTS
  HeapCells,     \* addresses of the HeapCells of Heap::backing_store
  FunctionCells, \* the addresses among them that hold functions
  UpvalueCells,  \* addresses of the cells of UpvalueStorage::backing_store
  Constants,     \* the HeapCells of ProgramBytecode::constants (not on the heap)
  Callbacks      \* does the program pass bytecode functions to map/filter/count?

VARIABLES
  heap,   \* the allocated heap cells
  store,  \* the allocated upvalue cells
  refs,   \* the cells each cell points to
  roots   \* the cells each part of the VM points to

graph == <<heap, store, refs, roots>>

Objects == HeapCells \cup UpvalueCells \cup Constants

\* What a StackValue can point to: never an UpvalueCell.
Values == HeapCells \cup Constants

\* A StackValue is one pointer, or none (nil, a primitive).
AtMostOne(S) == {{}} \cup {{x} : x \in S}

\* The parts of the VM that hold pointers.  "native" are the C++ locals of a
\* builtin that is waiting for a callback: run_gc does not visit those.
VisitedSources == {"stack", "globals", "frames"}
Sources == VisitedSources \cup {"native"}

Allocated == heap \cup store \cup Constants

----------------------------------------------------------------------------
(* Reachability *)

Closed(T) == \A o \in T : refs[o] \subseteq T

\* The least closed set of objects that contains S.
ClosedAbove(S) == {T \in SUBSET Objects : S \subseteq T /\ Closed(T)}

Reachable(S) ==
  LET candidates == ClosedAbove(S)
  IN  {o \in Objects : \A T \in candidates : o \in T}

\* The root set of run_gc.
RootSet == Constants \cup UNION {roots[s] : s \in VisitedSources}

\* Everything the program can still get a pointer to.
InUse == Reachable(RootSet \cup roots["native"])

----------------------------------------------------------------------------
(* The VM's constructor stores one function per builtin and binds it to a   *)
(* global name; the set of globals never changes afterwards.                *)
Init ==
  \E builtins \in SUBSET HeapCells :
    /\ heap = builtins
    /\ store = {}
    /\ refs = [o \in Objects |-> {}]
    /\ roots = [s \in Sources |-> IF s = "globals" THEN builtins ELSE {}]

\* heap_store: a new cell, whose pointer is pushed.  An array refers to values,
\* a function to its curried arguments and to the upvalues it captured.
HeapStore(c) ==
  /\ c \in HeapCells \ heap
  /\ heap' = heap \cup {c}
  /\ roots' = [roots EXCEPT !["stack"] = @ \cup {c}]
  /\ UNCHANGED store
  /\ \E R \in SUBSET InUse :
       /\ c \notin FunctionCells => R \subseteq Values
       /\ refs' = [refs EXCEPT ![c] = R]

\* OpClosure captures a local: an upvalue cell copies the slot's value and the
\* frame's captured_locals remembers the cell.
CaptureLocal(u) ==
  /\ u \in UpvalueCells \ store
  /\ store' = store \cup {u}
  /\ roots' = [roots EXCEPT !["frames"] = @ \cup {u}]
  /\ UNCHANGED heap
  /\ \E R \in AtMostOne(InUse \cap Values) : refs' = [refs EXCEPT ![u] = R]

\* A pointer is copied to the stack, into a frame, or into a local of a builtin
\* that runs callbacks.
Load(s) ==
  /\ s \in {"stack", "frames"} \cup (IF Callbacks THEN {"native"} ELSE {})
  /\ UNCHANGED <<heap, store, refs>>
  /\ \E o \in InUse \ roots[s] :
       /\ o \in UpvalueCells => s = "frames"
       /\ roots' = [roots EXCEPT ![s] = @ \cup {o}]

\* The last copy of a pointer in a part of the VM goes away: pops, returns, a
\* builtin that ends.
Release(s) ==
  /\ s \in Sources \ {"globals"}
  /\ UNCHANGED <<heap, store, refs>>
  /\ \E o \in roots[s] : roots' = [roots EXCEPT ![s] = @ \ {o}]

\* Assignment to an array element: what a cell refers to changes by one value.
SetElement(c) ==
  /\ c \in heap \ FunctionCells
  /\ c \in InUse
  /\ UNCHANGED <<heap, store, roots>>
  /\ \/ \E x \in InUse \cap Values : refs' = [refs EXCEPT ![c] = @ \cup {x}]
     \/ \E x \in refs[c] : refs' = [refs EXCEPT ![c] = @ \ {x}]

\* Assignment to a captured variable replaces the one value in its cell.
SetUpvalue(u) ==
  /\ u \in store
  /\ UNCHANGED <<heap, store, roots>>
  /\ u \in InUse
  /\ \E R \in AtMostOne(InUse \cap Values) : refs' = [refs EXCEPT ![u] = R]

\* A collection frees what the root set does not reach, and nothing else.
Collect ==
  LET live == Reachable(RootSet)
  IN  /\ UNCHANGED roots
      /\ heap' = heap \cap live
      /\ store' = store \cap live
      /\ refs' = [o \in Objects |->
                    IF o \in (heap \cup store) \ live THEN {} ELSE refs[o]]

Mutate ==
  \/ \E c \in HeapCells : HeapStore(c) \/ SetElement(c)
  \/ \E u \in UpvalueCells : CaptureLocal(u) \/ SetUpvalue(u)
  \/ \E s \in Sources : Load(s) \/ Release(s)

Next == Mutate \/ Collect

Spec == Init /\ [][Next]_graph

----------------------------------------------------------------------------
TypeOK ==
  /\ heap \subseteq HeapCells
  /\ store \subseteq UpvalueCells
  /\ refs \in [Objects -> SUBSET Objects]
  /\ roots \in [Sources -> SUBSET Objects]

\* No pointer the program can still follow leads to a freed cell: everything
\* reachable from any part of the VM is allocated.
NoDangling == InUse \subseteq Allocated
============================================================================
