CONSTANTS
  Sync = {s1, s2}
  Async = {a1, a2}
  None = none
  Envs <- AllEnvs
  MaxQueue = 0
  CmdBufs = 3
  MaxReplies = 2
  MaxLost = 2
SPECIFICATION FairSpec
INVARIANT HeadInFlight
PROPERTY OwnReply
PROPERTY BrokenForGood
PROPERTY SequenceRecovers
PROPERTY CommandsSent
PROPERTY SyncReturns
