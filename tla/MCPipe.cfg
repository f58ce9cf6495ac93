CONSTANTS
  w1 = w1
  r1 = r1
  NULL = NULL
  Procs <- OneToOne
  Writers <- W1
  Readers <- R1
  Bytes = {0, 1}
  PIPESIZE = 2
  UINT = 4
  Counts <- Sizes
SPECIFICATION FairSpec
INVARIANT PipeInv
PROPERTIES EofIsEnd IsStream CallsReturn
CHECK_DEADLOCK FALSE
