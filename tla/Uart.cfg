CONSTANTS
  UART_MAX_FIFO_LEN = 2
  Trigger = {1, 2}
  CHECK_DELAY = 2
  CHAR_TIMEOUT = 2
  TIME_LIMIT = 5
  Char = {"a"}
  Workloads <- AllWorkloads
SPECIFICATION Spec
INVARIANTS
  OneJobEach
  RegistersRight
  PriorityKept
PROPERTIES
  SchedulerRuns
  DataNoticed
