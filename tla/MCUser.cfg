SPECIFICATION UserSpec
CONSTANTS
  NULL = NULL
  Lines <- MCLines
  Words = {"a"}
  MAXARGS = 3
  NPROC = 6
  NOFILE = 5
  NBYTES = {0, 3, 9}
  HEADER = 2
  CORE = 4
  TOP = 11
INVARIANTS ParsesGrammar FdsWired ForegroundDone HeapOK
PROPERTIES LineEnds
CHECK_DEADLOCK FALSE
