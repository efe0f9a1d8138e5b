CONSTANTS
  s1 = s1
  s2 = s2
  Bcast = bcast
  NoAddr = noaddr
  Stations <- Two
  Addr <- Addresses
  Receivers <- Targets
  Talkers <- One
  Ps = TRUE
  Timely = TRUE
  MaxInbox = 1
  MaxPending = 1
SPECIFICATION FairNetworkSpec
INVARIANT ReceiverIsAwake
INVARIANT BothKnow
PROPERTY QueuesMove
