CONSTANTS
  CPU_CORES = 2
  CACHE_BANKS = 1
  CACHE_SETS = 1
  CACHE_WAYS = 1
  BR_PORTS = 2
  PRIO_CLOCKS = 1
  Lane = {0, 1}
  Byte = {0, 1}
  CachedAdr = {0, 4}
  DirectAdr = {}
  Workloads <- SharedWorkloads
SPECIFICATION LiveSpec
INVARIANTS
  AccessesLocked
  CleanLinesInMemory
PROPERTIES
  LinkKeptUnderLock
  AllServed
  SharedMemorySpec
