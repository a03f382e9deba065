SPECIFICATION Spec
CONSTANTS
  Names = {n1, n2}
  Policies <- MCPolicies
  Identities <- MCIdentities
  Unknown = "unknown"
  Frames <- MCFrames
  default_policy <- MCDefault
  NoVerdict = "none"
  NoPolicy = NoPolicy
  NoFrame = NoFrame
  MaxEvents = 2
  MaxFaults = 0
  Vms = {v1, v2}
  Ids = {7}
  vm_num <- MCNum
  Uplinks = {"eth0"}
  uplink <- MCUplink
  Progs = {"router", "microseg"}
  NoProg = "none"
  MaxAdds = 0
  MaxCmds = 0
  MsUplink = "eth0"
  MsProg = "microseg"
  MaxInputs = 2
INVARIANT ExplicitAllow
CHECK_DEADLOCK FALSE
