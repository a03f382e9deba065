CONSTANTS
  QueueSize = 2
  IdxMod = 4
  MaxPosts = 3
  Sectors = {"s0"}
  Values = {"a"}
  Image <- MCImage
  Requests <- MCRequests
  ReadOnly = FALSE
SPECIFICATION ReloadSpec
INVARIANT OnlyPostedServed
CHECK_DEADLOCK FALSE
