SPECIFICATION Spec
CONSTANTS
  Sizes <- MCSizes
  SndBuf = 2
  MaxGiven = 4
  MaxRcv = 1
PROPERTY AllRead
CHECK_DEADLOCK FALSE
