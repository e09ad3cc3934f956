SPECIFICATION Spec
CHECK_DEADLOCK FALSE
CONSTANTS
  Base <- MCBase
  Pings <- MCPings
  Mtu <- MCMtu
  Frames <- MCFrames
  Spoiled <- MCSpoiled
  Declined <- MCDeclined
  MaxFrames = 3
INVARIANTS TypeOK InSync RoomLeft NothingWholeWaits FramesInOrder ClosedForCause
PROPERTY ChannelSpec
