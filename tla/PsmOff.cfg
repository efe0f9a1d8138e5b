CONSTANTS
  Nodes = {n1}
  Receivers = {n1, bcast}
  Bcast = bcast
  NoNode = nonode
  PsMode = "NONE"
  SoftBeacon = FALSE
  Faults <- LostResponses
  MaxPending = 1
  MaxRx = 1
  MaxChunks = 1
  MaxStatus = 1
SPECIFICATION FairSpec
PROPERTY PacketsLeave
