SPECIFICATION Spec
CONSTANTS
  WordBits = 4
  ByteBits = 1
  MemoryTop = 16
  Silent = {}
  SymbolSize = 2
  CodeLimit = 1000
  Fuel = 64
  Programs <- ScratchHash
  CallData <- Input
  Compacted = {}
PROPERTY BehaviourPreserved
CHECK_DEADLOCK FALSE
