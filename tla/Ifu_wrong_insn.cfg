CONSTANTS
  WIDTH = 4
  HALF = 8
  IFU_BUF_SIZE = 4
  ADDRESSES = 6
  Target = {3}
  VECTOR = 0
  CPU = {0, 1}
  Workloads <- FastJumps
SPECIFICATION Spec
INVARIANTS
  ProgramOrder
