SPECIFICATION Spec
CONSTANTS
  Sizes <- MCSizes
  SndBuf = 2
  MaxGiven = 6
  MaxRcv = 2
INVARIANTS
  TypeOK
  InOrder
PROPERTIES
  StreamSpec
  ReadUnlessBlocked
CHECK_DEADLOCK FALSE
