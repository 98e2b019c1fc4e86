SPECIFICATION Spec
CONSTANTS
  NumFunctions = 4
  CallGraphs <- GraphsOfThree
  Kind <- KindOf
  NumArgs <- Arguments
  NumLocals <- LocalVariables
  Statements <- AllStatements
  MaxStatements = 1
  MemoryWords = 32
INVARIANTS
  VerdictRight
  ReachableIsClosure
  CalleesFirst
  ValuesSurviveCalls
  ReferencesResolve
  DeployRegionClear
