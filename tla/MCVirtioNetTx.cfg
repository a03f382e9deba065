CONSTANTS
  RxHeads = {"r1", "r2", "r3"}
  TxHeads = {"t1", "t2"}
  Layout <- MCLayout
  TxKinds = {"whole"}
  MaxFrames = 0
  MaxSends = 2
  NoHead = NoHead
SPECIFICATION FairSpec
PROPERTY TxNotified
\* the dataplane ends when the TAP cannot be opened
CHECK_DEADLOCK FALSE
