SPECIFICATION Spec
CONSTANTS
  c1 = c1
  c2 = c2
  c3 = c3
  d1 = d1
  d2 = d2
  None = None
  Conns <- TwoConns
  Fds <- MCFds
  OwnAcceptor = FALSE
  Does <- Deeds
  ChecksEst = TRUE
  BareErrors = FALSE
  PeersClose = TRUE
  Late <- LateEnds
  Elsewhere = {}
  MaxFrames = 3
  MaxKept = 1
INVARIANTS
  NoFault
  ReportedOnce
  OwnDescriptors
PROPERTIES
  PeerCloseFrees
  FramesRead
CHECK_DEADLOCK FALSE
