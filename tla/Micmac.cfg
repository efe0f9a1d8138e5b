CONSTANTS
  Cycle = 8
  Guard = 3
  Lead = 1
  KnownTrain = 4
  Slack = 1
  ClockTick = 2
  MaxDelay = 1
  ClockMod = 64
  IndexMod = 8
  Channels <- FourChannels
  Row <- FourRow
  MaxNoacks = 3
  MaxFaults = 2
SPECIFICATION FairSpec
INVARIANT PhaseTruthful
PROPERTY MissedForCause
PROPERTY PacketArrives
