SPECIFICATION Spec
CONSTANTS
  p1 = p1
  p2 = p2
  o1 = o1
  o2 = o2
  None = None
  Pool <- OnePool
  Outsiders <- MCOutsiders
  Quota <- MCQuota
  SpawnMayFail = FALSE
PROPERTY MailboxSpec
CHECK_DEADLOCK FALSE
