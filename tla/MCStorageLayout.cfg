SPECIFICATION Spec
CONSTANTS
  ModuleIds = {"main", "lib"}
  Main = "main"
  Programs <- Trees
  MaxSlot = 6
  CodeLimit = 2
  OverrideSlots = {0, 1, 2, 3, 4, 5}
INVARIANTS
  NoOverlap
  LayoutIgnoresLock
  UpgradeKeepsLayout
  GoodOverrideAccepted
