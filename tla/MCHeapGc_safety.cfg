SPECIFICATION Spec
CONSTANTS
  HeapCells = {c1, f1}
  FunctionCells = {f1}
  UpvalueCells = {u1}
  Constants = {k1}
  Callbacks = FALSE
  Escapes = FALSE
  MinThreshold = 2
  MaxEdges = 4
  MaxHeld = 2
CONSTRAINT SmallGraph
INVARIANTS TypeOK NoDangling MarkingExact MarksCleared Accounting
PROPERTIES GrowthBounded ImplementsManagedHeap
