CONSTANTS
  Envs <- AllEnvs
  MaxPlugs = 3
  NumEvents = 3
SPECIFICATION FairSpec
INVARIANT JoinedHasDevice
INVARIANT OneActive
PROPERTY NetworkReturns
CHECK_DEADLOCK FALSE
