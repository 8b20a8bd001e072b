----------------------------- MODULE MCBytecodeVM -----------------------------
(***************************************************************************)
(* The programs of Listings for BytecodeVM.                                *)
(***************************************************************************)
EXTENDS SafeVM, Listings

Deep == INSTANCE DeepValues
H == INSTANCE StackHeights

MCCompare(memory, v, w) == Deep!Compare(memory, v, w)
MCShow(memory, v) == Deep!Show(memory, v)

MCText(memory, v) == Deep!Text(memory, v)

\* Lines of standard input: none, which reads as an empty one, and a number.
MCInputs == {<<>>, <<"4", "2">>}

MCBuiltinNames ==
  <<"print", "println", "__trigger_gc", "assert", "error", "input", "int", "str", "head",
    "tail", "len", "drop", "take", "slice", "random", "sleep", "map", "filter", "sum", "all",
    "any", "count", "id", "range">>

MCPrograms ==
  [closures_stateful |-> ClosuresStateful,
   closures_recursive_factory |-> ClosuresRecursiveFactory,
   currying |-> Currying,
   functions_closures |-> FunctionsClosures,
   indexing_nested_error |-> NestedError,
   recursion_direct |-> RecursionDirect,
   mutable_references |-> MutableReferences,
   chained_comparison |-> ChainedComparison,
   range_for |-> RangeFor,
   indexing_assignments |-> IndexingAssignments,
   comparisons_and_logic |-> ComparisonsAndLogic, control_flow |-> ControlFlow,
   expressions |-> Expressions,
   callbacks |-> Callbacks, containers |-> Containers,
   garbage_cycle |-> GarbageCycle, captured_array |-> CapturedArray,
   replaced_array |-> ReplacedArray,
   binary_search |-> BinarySearch, set_global |-> AssignGlobal, call_mismatch |-> CallMismatch,
   undefined_name |-> UndefinedName, callback_fails |-> CallbackFails,
   callback_mismatch |-> CallbackMismatch, filter_partial |-> FilterPartial,
   filter_function |-> FilterFunction, filter_none |-> FilterNone,
   small_stack_map |-> SmallStackMap]

AllPrograms ==
  {MCPrograms[name] : name \in DOMAIN MCPrograms}
    \cup {ClosuresInLoop[name] : name \in DOMAIN ClosuresInLoop}
    \cup {SmallMap[name] : name \in DOMAIN SmallMap}
Shapes == [p \in AllPrograms |-> H!Shape(p)]
MCShapeOf(p) == Shapes[p]
=============================================================================
