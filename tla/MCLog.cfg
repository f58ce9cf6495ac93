CONSTANTS
  Procs = {p1, p2}
  b1 = b1
  b2 = b2
  b3 = b3
  v1 = v1
  v2 = v2
  Blocks = {b1, b2, b3}
  Values = {v1, v2}
  Data <- MCData
  NoBlock = NoBlock
  NoData = NoData
  MAXOPBLOCKS = 2
  LOGSIZE = 4
  NLOG = 4
  OPBLOCKS = 1
  MaxCrash = 2
SPECIFICATION FairSpec
INVARIANTS NoPanic CommittedIsDurable
PROPERTIES Atomic SleeperIsWoken
