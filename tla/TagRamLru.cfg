\* A 4-way set and four lines.
CONSTANTS
  CPU_CORES = 1
  CACHE_BANKS = 1
  CACHE_SETS = 1
  CACHE_WAYS = 4
  BR_PORTS = 1
  Lane = {0}
  Byte = {0}
  CachedAdr = {0,4,8,12}
  DirectAdr = {}
  LruAdr = {0,4,8,12}
SPECIFICATION Spec
INVARIANTS
  LeastRecentlyUsed
