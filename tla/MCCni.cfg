SPECIFICATION Spec
CONSTANTS
  Vms = {v1, v2, v3}
  Procs = {p1, p2}
  IpStart = 2
  IpEnd = 3
  None = None
  Torn = Torn
  MaxRequests = 5
  MaxFaults = 1
INVARIANTS
  TypeOK
  UniqueAddress
  AllocatedOnce
PROPERTY
  StableAddress
CHECK_DEADLOCK FALSE
