CONSTANTS
  CPU_CORES = 1
  CACHE_BANKS = 2
  CACHE_SETS = 1
  CACHE_WAYS = 2
  BR_PORTS = 1
  PRIO_CLOCKS = 1
  Lane = {0, 1}
  Byte = {0, 1}
  CachedAdr = {0, 4, 8, 12, 16, 20}
  DirectAdr = {24, 28}
  Workloads <- WaysWorkloads
SPECIFICATION Spec
INVARIANTS
  OneWayPerLine
PROPERTIES
  SharedMemorySpec
  ArbiterSpec
