SPECIFICATION Spec
CONSTANTS
  SourceSizes = {0, 3}
  Modes = {"file", "read only", "create", "handle"}
  Habits = {}
  Failures = {"source page", "cached page", "spool", "remove", "rename", "crash"}
  MaxPages = 3
  MaxImages = 2
  Absent = Absent
INVARIANTS
  LockedWithin
  LockedIsAtPosition
  EachImageOnce
PROPERTIES
  IsPageSequence
  CloseEnds
CHECK_DEADLOCK FALSE
