\* Both modes of open, clients that delete whatever they like, a swap file that
\* may be full, images of no, one and two blocks.
SPECIFICATION Spec
CONSTANTS
  CacheSize = 2
  BlockSize = 2
  Sizes = {0, 1, 3}
  KeepModes = {TRUE, FALSE}
  Pinned <- AnythingDeleted
  SwapMayFail = TRUE
  MaxWrites = 3
INVARIANTS
  TypeOK
  CachePartition
  ResidentBound
  LockedResident
CHECK_DEADLOCK FALSE
