CONSTANTS
  RxHeads = {"r1", "r2", "r3"}
  TxHeads = {"t1", "t2"}
  Layout <- MCLayout
  TxKinds = {"whole"}
  MaxFrames = 2
  MaxSends = 2
  NoHead = NoHead
SPECIFICATION FairSpec
INVARIANTS TypeOK NoLostRxIrq OneOwner
PROPERTIES RxIsFifo TxIsFifo EventuallyServed
\* the dataplane ends when the TAP cannot be opened
CHECK_DEADLOCK FALSE
