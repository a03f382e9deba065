CONSTANTS
  VMs = {v1}
  NoVm = NoVm
  Pids = {1, 2}
  Tasks = {t1, t2, t3}
  MaxRequests = 4
  MaxFaults = 0
  Faults = {}
  Discipline = "observe"
SPECIFICATION Spec
INVARIANT SingleVmm
CHECK_DEADLOCK FALSE
