SPECIFICATION FairSpec
CONSTANTS
  OutMax = 1
  Pulses = 1
  MaxSend = 2
  MaxType = 2
  Clients = {c1}
  RingSize = 2
  ChanSize = 1
  MaxJoins = 1
INVARIANTS TypeOK NoLostInput NoGap
PROPERTIES InputIsFifo EventuallyRead EventuallyShown
CHECK_DEADLOCK FALSE
