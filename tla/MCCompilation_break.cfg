SPECIFICATION Spec
CONSTANTS
  CompileTree <- CompileProgram
  Sources <- MCBreak
  CompareValues <- MCCompare
INVARIANTS StackDiscipline
