---------------------------- MODULE MCCompilation ----------------------------
(***************************************************************************)
(* The sources of Sources for Compilation.                                 *)
(***************************************************************************)
EXTENDS CompiledCode, Compiler

Deep == INSTANCE DeepValues
MCCompare(memory, v, w) == Deep!Compare(memory, v, w)

L == INSTANCE Listings
T == INSTANCE Sources

Snapshot(tree, program) ==
  [tree |-> tree,
   listing |-> <<program.chunks,
                 [i \in 1 .. Cardinality(DOMAIN program.constants) |->
                    program.constants[i - 1]]>>]

MCSnapshots ==
  [closures_stateful |-> Snapshot(T!ClosuresStatefulTree, L!ClosuresStateful),
   closures_recursive_factory |->
     Snapshot(T!ClosuresRecursiveFactoryTree, L!ClosuresRecursiveFactory),
   functions_closures |-> Snapshot(T!FunctionsClosuresTree, L!FunctionsClosures),
   recursion_direct |-> Snapshot(T!RecursionDirectTree, L!RecursionDirect),
   mutable_references |-> Snapshot(T!MutableReferencesTree, L!MutableReferences),
   indexing_nested_error |-> Snapshot(T!NestedErrorTree, L!NestedError),
   chained_comparison |-> Snapshot(T!ChainedComparisonTree, L!ChainedComparison),
   range_for |-> Snapshot(T!RangeForTree, L!RangeFor),
   indexing_assignments |-> Snapshot(T!IndexingAssignmentsTree, L!IndexingAssignments),
   comparisons_and_logic |-> Snapshot(T!ComparisonsAndLogicTree, L!ComparisonsAndLogic),
   control_flow |-> Snapshot(T!ControlFlowTree, L!ControlFlow),
   expressions |-> Snapshot(T!ExpressionsTree, L!Expressions)]

----------------------------------------------------------------------------
(* Programs from parts.  A break where there are locals in the loop, and   *)
(* what the violation runs compile, is left out.                           *)

Unlisted(tree) == [tree |-> tree, listing |-> <<>>]

Statements == T!Effects @@ T!Binders

Family ==
  {<<loop, c, first, second, ending>> \in
     {"no", "while", "for", "range", "function"} \X (DOMAIN T!Conditions) \X
     {"updates", "declares"} \X (DOMAIN Statements) \X (DOMAIN T!Endings) :
       ending = "breaks" =>
         /\ loop \notin {"for", "range"}
         /\ {first, second} \subseteq DOMAIN T!Effects}

MCFamily ==
  [p \in Family |->
     Unlisted(T!Program(p[1], T!Body(Statements[p[3]], T!Conditions[p[2]],
                                     Statements[p[4]], T!Endings[p[5]])))]

MCNegatedBool ==
  [p \in {<<"negated bool">>} |-> Unlisted(Block(<<T!Println(Unary("NEGATE", T!True))>>))]
MCSameNames == [p \in {<<"same names">>} |-> Unlisted(T!SameNamesTree)]

\* All of them, with the snapshot tests.
MCPrograms == MCFamily @@ MCNegatedBool @@ MCSameNames @@
  [p \in {"snapshot"} \X DOMAIN MCSnapshots |-> MCSnapshots[p[2]]]

----------------------------------------------------------------------------
(* One program each for the violation runs *)

MCChainedCondition == [chained_condition |-> Unlisted(T!ChainedConditionTree)]
MCBreak == [break |-> Unlisted(T!BreakTree)]
=============================================================================
