SPECIFICATION Spec
CONSTANTS
  CacheSize = 2
  BlockSize = 2
  Sizes = {1, 2, 5}
  KeepModes = {TRUE, FALSE}
  Pinned <- FirstOrAllKept
  SwapMayFail = FALSE
  MaxWrites = 4
INVARIANTS
  NoSharing
PROPERTIES
  IsBlobStore
  OperationsEnd
CHECK_DEADLOCK FALSE
