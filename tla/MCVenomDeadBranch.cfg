SPECIFICATION Spec
CONSTANTS
  WordBits = 4
  ByteBits = 1
  MemoryTop = 16
  Silent = {}
  SymbolSize = 2
  CodeLimit = 1000
  Fuel = 128
  Programs <- DeadBranch
  CallData <- Input
  Compacted = {}
INVARIANT UsesAreDefined
CHECK_DEADLOCK FALSE
