SPECIFICATION Spec
CONSTANTS
  ShapeOf <- MCShapeOf
  Programs <- ClosuresInLoop
  BuiltinNames <- MCBuiltinNames
  CellBound = 31
  UpvalueBound = 2
  Inputs <- MCInputs
  TextOf <- MCText
  CompareValues <- MCCompare
  ShowValue <- MCShow
PROPERTIES SnapshotTaken
