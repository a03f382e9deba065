CONSTANTS
  VMs = {v1, v2}
  NoVm = NoVm
  Pids = {1, 2}
  Tasks = {t1, t2}
  MaxRequests = 3
  MaxFaults = 1
  Faults = {"spawn", "save", "signal", "crash"}
  Discipline = "any"
SPECIFICATION FairSpec
INVARIANTS TypeOK 
PROPERTY StatusHeals
CHECK_DEADLOCK FALSE
