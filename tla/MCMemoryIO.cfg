SPECIFICATION Spec
CONSTANTS
  First = 2
  Half = 3
  Top = 5
  UserSizes = {3}
  Sizes = {1, 2}
  Counts = {0, 1, 2}
  Offsets <- BackAndForth
  Labels = {"a", "b"}
  MaxPosition = 6
  Hole = Hole
INVARIANTS
  TypeOK
  BufferCovers
PROPERTIES
  IsByteFile
  WritesEnd
