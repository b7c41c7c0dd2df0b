SPECIFICATION Spec
CONSTANTS
  Threads = {t1, t2}
  loader = loader
  Formats <- ThreeFormats
  Tiff = "tiff"
  Raw = "raw"
  Sizes = {0, 1, 2}
  Counts = {1, 2}
  Offsets <- Around
  Labels = {"a"}
  MaxLength = 3
  Hole = Hole
INVARIANTS
  TypeOK
  ListThere
  DetectsByContent
  LossOnlyAtTheEnd
PROPERTIES
  OverstatesOneItem
  LikeAFile
  RequestsEnd
  OthersLetIn
CHECK_DEADLOCK FALSE
