\* As MCFs.cfg; no crash.
CONSTANTS
  p1 = p1
  p2 = p2
  Procs = {p1, p2}
  NULL = NULL
  NINODES = 3
  NINODE = 3
  DPB = 3
  MaxCrashes = 0
  Workloads <- MCWorkloads
SPECIFICATION Spec
INVARIANTS UnlinkedFreed
CHECK_DEADLOCK FALSE
