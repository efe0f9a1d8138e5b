CONSTANTS
  Apps = {a, b}
  Timers = {t1, t2}
  NumEvents = 1
  MaxInterval = 1
  MaxNesting = 3
  Etimer = Etimer
  First = First
  NoProc = NoProc
  Broadcast = Broadcast
SPECIFICATION Spec
INVARIANT PollNotLost
INVARIANT RunningIsListed
INVARIANT TimersOfTheLiving
SYMMETRY Symmetry
