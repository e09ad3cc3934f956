SPECIFICATION Spec
CONSTANTS
  w1 = w1
  w2 = w2
  o1 = o1
  o2 = o2
  None = None
  Workers <- MCWorkers
  Outsiders <- MCOutsiders
  Quota <- MCQuota
INVARIANTS
  TypeOK
  NoLostWakeup
  InOrder
PROPERTY MailboxSpec
