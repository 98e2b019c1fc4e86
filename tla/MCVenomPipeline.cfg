SPECIFICATION Spec
CONSTANTS
  WordBits = 4
  ByteBits = 1
  MemoryTop = 16
  Silent = {}
  SymbolSize = 2
  CodeLimit = 1000
  Fuel = 128
  Programs <- Small
  CallData <- Input
  Compacted <- Compact
PROPERTY BehaviourPreserved
INVARIANTS AnalysesFresh AnalysesCorrect SSAForm NeverPanics CodeBehaves ReadyForAssembly
CHECK_DEADLOCK FALSE
