SPECIFICATION Spec
CONSTANTS
  SourceSizes = {0, 3}
  Modes = {"file"}
  Habits = {}
  Failures = {"source page"}
  MaxPages = 3
  MaxImages = 2
  Absent = Absent
INVARIANT
  AllPagesWritten
CHECK_DEADLOCK FALSE
