SPECIFICATION Safety
CONSTANTS
  c1 = c1
  c2 = c2
  c3 = c3
  d1 = d1
  d2 = d2
  None = None
  Conns <- TwoConns
  Fds <- OneFd
  OwnAcceptor = TRUE
  Does <- KeepsAndEnds
  ChecksEst = TRUE
  BareErrors = FALSE
  PeersClose = TRUE
  Late = {}
  Elsewhere <- LateEnd
  MaxFrames = 1
  MaxKept = 1
INVARIANT NobodyRefers
CHECK_DEADLOCK FALSE
