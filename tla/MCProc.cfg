CONSTANTS
  init = init
  a = a
  b = b
  c1 = c1
  c2 = c2
  NULL = NULL
  Procs <- Slots
  initproc <- init
  Cpus <- Two
  MaxPid = 3
  KillArgs <- Kills
SPECIFICATION FairSpec
INVARIANTS ProcInv NoMissedZombie KilledWasNamed
PROPERTY OrphansReaped
