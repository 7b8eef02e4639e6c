CONSTANTS
  WIDTH = 4
  HALF = 8
  IFU_BUF_SIZE = 4
  ADDRESSES = 6
  Target = {3}
  VECTOR = 0
  CPU = {0, 1}
  Workloads <- Programs
SPECIFICATION LiveSpec
INVARIANTS
  ProgramOrder
  NpcRight
  AluExecutes
PROPERTIES
  RequestHeld
  LsuClientSpec
  AccessMade
  FlagsRestored
  Progress
