CONSTANTS
  Nodes = {n1, n2}
  Receivers = {n1, bcast}
  Bcast = bcast
  NoNode = nonode
  PsMode = "STD"
  SoftBeacon = FALSE
  Faults <- LostAnswers
  MaxPending = 2
  MaxRx = 2
  MaxChunks = 1
  MaxStatus = 1
SPECIFICATION HSpec
INVARIANT AwakeTruthful
INVARIANT EveryPacketAnnounced
INVARIANT BlockedOneInterval
INVARIANT FrameAtHead
INVARIANT NoOrphanChunk
INVARIANT SleepOnlyInTxWindow
PROPERTY StatusOfItsFrame
PROPERTY ImplementsBeaconCycle
