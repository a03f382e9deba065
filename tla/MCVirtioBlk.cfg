CONSTANTS
  QueueSize = 2
  IdxMod = 4
  MaxPosts = 4
  Sectors = {"s0"}
  Values = {"a", "b"}
  Image <- MCImage
  Requests <- MCRequests
  ReadOnly = FALSE
SPECIFICATION FairSpec
INVARIANTS TypeOK NoLostKick NoLostIrq Ownership
PROPERTIES ImplementsService EventuallyCollected
\* the driver may stop posting, or have lost all its descriptors to bad headers
CHECK_DEADLOCK FALSE
