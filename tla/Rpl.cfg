CONSTANTS
  r = r
  n1 = n1
  n2 = n2
  None = None
  Nodes = {r, n1, n2}
  Root = r
  MaxFaults = 1
  MinHopRankInc = 2
  MaxRankInc = 4
  InfiniteRank = 15
  InitMetric = 2
  Metrics = {1, 2, 8}
  SwitchThreshold = 1
  MaxVersion = 15
  CircularRegion = 7
  SequenceWindow = 4
SPECIFICATION FairSpec
INVARIANT RankThroughParent
INVARIANT RouteIsParent
INVARIANT LoopsAreStale
PROPERTY Converges
CHECK_DEADLOCK FALSE
