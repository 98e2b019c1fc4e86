SPECIFICATION Spec
CONSTANTS
  External = {"deposit", "price", "ping", "peek"}
  Internal = {"move", "show"}
  View = {"price", "peek", "show"}
  Nonreentrant = {"deposit", "price", "move"}
  MaxCalls = 4
INVARIANTS
  NoReentry
  LockTellsHolder
  FreeBetweenTransactions
PROPERTIES
  StaticLeavesLock
  LockReleased
