SPECIFICATION Spec
CONSTANTS
  SourceSizes = {0, 3}
  Modes = {"file"}
  Habits = {"moved", "beyond"}
  Failures = {}
  MaxPages = 3
  MaxImages = 2
  Absent = Absent
INVARIANT
  LockedIsAtPosition
CHECK_DEADLOCK FALSE
