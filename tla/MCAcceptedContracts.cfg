SPECIFICATION Spec
CONSTANTS
  Main = "main"
  Programs <- MCPrograms
INVARIANTS
  ModifiersKept
  LoopVariableFixed
  InitializedOnce
  NeverStuck
PROPERTIES
  OrderIrrelevant
CHECK_DEADLOCK FALSE
