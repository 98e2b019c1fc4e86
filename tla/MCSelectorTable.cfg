SPECIFICATION Spec
CONSTANTS
  Byte = 4
  IdBytes = 2
  Word = 4
  Magics = 4
  Shift = 4
  StartBucketSize = 2
  Contracts <- MCContracts
  Calls <- MCCalls
INVARIANT RoutedAsDeclared
CHECK_DEADLOCK FALSE
