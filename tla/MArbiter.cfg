CONSTANTS
  CPU_CORES = 2
  CACHE_BANKS = 1
  CACHE_SETS = 2
  CACHE_WAYS = 1
  BR_PORTS = 2
  PRIO_CLOCKS = 1
  Requested = {{"linelock"}, {"tag"}, {"busif"}}
  MaxRequests = 4
SPECIFICATION Spec
INVARIANTS
  Exclusive
  GrantsSettled
PROPERTIES
  GrantsHeld
