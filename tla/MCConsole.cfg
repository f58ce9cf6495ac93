SPECIFICATION Spec
CONSTANTS
  c0 = c0
  c1 = c1
  p1 = p1
  p2 = p2
  CPUs = {c0, c1}
  Procs = {p1, p2}
  Locks = {"cons", "tx", "pr", "ticks"}
  NULL = NULL
  Cpu0 = c0
  INPUT_BUF_SIZE = 4
  UART_TX_BUF_SIZE = 2
  UINT = 8
  FIFO = 2
  Loads <- MCLoads
INVARIANTS InterruptsSafe OutputInOrder NoLostWakeup SleptEnough
PROPERTIES IsLineEditor
