SPECIFICATION Spec
CONSTANTS
  CompileTree <- CompileProgram
  Sources <- MCChainedCondition
  CompareValues <- MCCompare
INVARIANTS StackDiscipline
