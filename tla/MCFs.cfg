\* Two processes, three inodes; a disk that may be full whenever a directory
\* grows; one crash.
CONSTANTS
  p1 = p1
  p2 = p2
  Procs = {p1, p2}
  NULL = NULL
  NINODES = 3
  NINODE = 3
  DPB = 3
  MaxCrashes = 1
  Workloads <- MCWorkloads
SPECIFICATION Spec
INVARIANTS ItableOK PanicOnlyByDotDot Accounted NoWaitCycle
CHECK_DEADLOCK FALSE
