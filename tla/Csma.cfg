CONSTANTS
  Packets = {p1, p2, p3, p4}
  Urgent = {}
  Records = {n1, n2}
  Addresses = {a, b, all}
  Broadcast = all
  None = None
  MaxTransmissions = 2
  MaxQueued = 3
  MaxDelays = 2
SPECIFICATION FairSpec
INVARIANT OneDriver
INVARIANT OneFate
PROPERTY AllReported
CHECK_DEADLOCK FALSE
