SPECIFICATION FairSpec
CONSTANTS
  ByteBits = 6
  CodeBits = 7
  BlockLen = 20
  LastLen = 4
  OutLen = 128
  MayFail = FALSE
  Images <- Ramps
INVARIANT EveryPixelArrives
CHECK_DEADLOCK FALSE
