SPECIFICATION Spec
CONSTANTS
  p1 = p1
  p2 = p2
  o1 = o1
  o2 = o2
  None = None
  Pool <- TwoPool
  Outsiders <- MCOutsiders
  Quota <- MCQuota
  SpawnMayFail = TRUE
INVARIANTS
  TypeOK
  ExactlyOnce
  NoStrandedQueue
PROPERTY EveryLambdaStarts
CHECK_DEADLOCK FALSE
