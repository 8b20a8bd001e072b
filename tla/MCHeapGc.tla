------------------------------ MODULE MCHeapGc ------------------------------
(* Small instances of HeapGc for TLC. *)
EXTENDS HeapGc

CONSTANTS
  MaxEdges,   \* bound on the number of references between cells
  MaxHeld     \* bound on the number of pointers the stack and the frames hold

\* TLC explores the graphs within these bounds.
SmallGraph ==
  /\ Cardinality({e \in M!Objects \X M!Objects : e[2] \in refs[e[1]]}) <= MaxEdges
  /\ Cardinality(roots["stack"]) + Cardinality(roots["frames"]) <= MaxHeld
=============================================================================
