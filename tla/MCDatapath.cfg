SPECIFICATION FairSpec
CONSTANTS
  Names = {n1, n2}
  Policies <- MCPolicies
  Identities <- MCIdentities
  Unknown = "unknown"
  Frames <- MCFrames
  default_policy <- MCDefault
  NoVerdict = "none"
  NoPolicy = NoPolicy
  NoFrame = NoFrame
  MaxEvents = 3
  MaxFaults = 1
  Vms = {v1, v2}
  Ids = {7}
  vm_num <- MCNum
  Uplinks = {"eth0"}
  uplink <- MCUplink
  Progs = {"router", "microseg"}
  NoProg = "none"
  MaxAdds = 2
  MaxCmds = 2
  MsUplink = "eth0"
  MsProg = "microseg"
  MaxInputs = 4
INVARIANTS
  TypeOK
  MapExplained
  MapExact
  Enforced
  DefaultDeny
  NoReferenceLeaks
PROPERTY
  EventuallyKnown
CHECK_DEADLOCK FALSE
