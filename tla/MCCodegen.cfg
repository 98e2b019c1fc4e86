SPECIFICATION Spec
CONSTANTS
  WordBits = 12
  ByteBits = 3
  MemoryTop = 240
  Silent = {2}
  SymbolSize = 4
  CodeLimit = 2000
  DecimalBits = 9
  DecimalDivisor = 3
  AddressBits = 6
  FreeVarSpace = 0
  FreeVarSpace2 = 4
  Radix = 3
  ZeroDigit = 1
  SelectorBytes = 1
  LockKey = 4000
  ErrorId = 7
  Fuel = 2000
  Contracts <- MCContracts
  CallArguments <- MCArguments
  Dirt <- MCDirt
  SettingsFor <- MCSettings
PROPERTIES ArithmeticExact ConversionsExact DataExact DirtyInputRejected StatementsAsWritten BuiltinsExact ImplementsPromise FailsForAReason
CHECK_DEADLOCK FALSE
