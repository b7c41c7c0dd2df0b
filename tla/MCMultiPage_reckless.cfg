SPECIFICATION Spec
CONSTANTS
  SourceSizes = {2}
  Modes = {"file", "read only", "create", "handle"}
  Habits = {"moved", "beyond", "delete beyond"}
  Failures = {"encode", "source page", "cached page", "spool", "remove", "rename", "crash"}
  MaxPages = 3
  MaxImages = 2
  Absent = Absent
INVARIANTS
  TypeOK
  CountIsCurrent
  SourcePagesOnce
  DocumentKept
CHECK_DEADLOCK FALSE
