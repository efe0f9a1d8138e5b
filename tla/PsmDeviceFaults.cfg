CONSTANTS
  Nodes = {n1}
  Receivers = {n1}
  Bcast = bcast
  NoNode = nonode
  PsMode = "STD"
  SoftBeacon = TRUE
  Faults <- DeviceFaults
  MaxPending = 1
  MaxRx = 1
  MaxChunks = 1
  MaxStatus = 1
SPECIFICATION Spec
INVARIANT WindowTimer
INVARIANT BufferInFlight
INVARIANT WaitDiscipline
