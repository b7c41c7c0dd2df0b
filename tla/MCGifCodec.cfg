SPECIFICATION FairSpec
CONSTANTS
  ByteBits = 6
  CodeBits = 7
  BlockLen = 20
  LastLen = 4
  OutLen = 128
  MayFail = TRUE
  Images <- AllImages
INVARIANTS TypeOK CoderInRange DecoderInRange SubBlocksWellFormed Leftover OnlyKnownLosses
PROPERTIES IsTransfer LoadEnds
CHECK_DEADLOCK FALSE
