SPECIFICATION Spec
CONSTANTS
  CacheSize = 2
  BlockSize = 2
  Sizes = {1}
  KeepModes = {FALSE}
  Pinned <- AnythingDeleted
  SwapMayFail = FALSE
  MaxWrites = 4
INVARIANT
  StoredIntact
CHECK_DEADLOCK FALSE
