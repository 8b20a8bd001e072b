SPECIFICATION Spec
CONSTANTS
  ShapeOf <- MCShapeOf
  Programs <- SmallMap
  BuiltinNames <- MCBuiltinNames
  CellBound = 31
  UpvalueBound = 1
  Inputs <- MCInputs
  TextOf <- MCText
  CompareValues <- MCCompare
  ShowValue <- MCShow
INVARIANTS DefinedBehaviour
