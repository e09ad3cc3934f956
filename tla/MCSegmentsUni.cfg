\* A UNI alone.
SPECIFICATION Safety
CONSTANTS
  SegLen = 2
  Reserved = 6
  Extra = 2
  Cost <- MCCost
  Data = {1, 2, 3, 4, 5, 6, 7}
  Tids = {1}
  RET_SUCCESS = RET_SUCCESS
  Rets = {RET_SUCCESS, RET_FAILED}
  Sids = {s1}
  None = None
  MaxMessages = 1
  Messages <- MCMessages
CHECK_DEADLOCK FALSE
INVARIANT
  UniArrivesAsUni
