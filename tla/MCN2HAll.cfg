SPECIFICATION Safety
CONSTANTS
  c1 = c1
  c2 = c2
  c3 = c3
  d1 = d1
  d2 = d2
  None = None
  Conns <- ThreeConns
  Fds <- MCFds
  OwnAcceptor = TRUE
  Does <- Deeds
  ChecksEst = FALSE
  BareErrors = TRUE
  PeersClose = TRUE
  Late <- Ends
  Elsewhere <- Ends
  MaxFrames = 2
  MaxKept = 1
INVARIANTS
  TypeOK
  OwnDescriptors
SYMMETRY ConnSymmetry
CHECK_DEADLOCK FALSE
