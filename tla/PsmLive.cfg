CONSTANTS
  Nodes = {n1}
  Receivers = {n1}
  Bcast = bcast
  NoNode = nonode
  PsMode = "STD"
  SoftBeacon = FALSE
  Faults <- LateAnswers
  MaxPending = 1
  MaxRx = 1
  MaxChunks = 1
  MaxStatus = 1
SPECIFICATION FairSpec
PROPERTY WaitsReleased
PROPERTY WindowsRecur
PROPERTY SleepSettles
