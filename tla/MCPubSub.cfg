\* Two subscriptions at a time.
SPECIFICATION Safety
CONSTANTS
  N = 2
  Outsiders = {}
  c1 = c1
  c2 = c2
  root = root
  path = path
  Conns = {c1, c2}
  Home <- MCHome
  Users = {c1}
  Topics = {root, path}
  Sids = {s1}
  Pubs = {p1, p2}
  Of <- MCOf
  MaxSubs = 2
SYMMETRY MCSymmetry
CHECK_DEADLOCK FALSE
INVARIANTS
  TypeOK
  NothingFreedUsed
  RefsBalanced
  ToldOnce
  AllTold
  InOrder
  NothingLeft
