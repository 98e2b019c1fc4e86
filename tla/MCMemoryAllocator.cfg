SPECIFICATION Spec
CONSTANTS
  Handles = {h1, h2, h3}
  Sizes = {0, 32, 64, 48}
  StartPosition = 64
  AllocationLimit = 192
INVARIANTS
  NothingLeaks
  NoFrameOverrun
PROPERTIES
  Coalesced
  HeapSpec
