CONSTANTS
  MAX_WBUF_SIZE = 3
  Byte = {0, 1}
  Adr = {0, 4, 8, 12, 16}
  SpecialAdr = {16}
  Workloads <- AllWorkloads
SPECIFICATION LiveSpec
INVARIANTS
  LoadsSeeStores
  OneEntryPerWord
  FlushWrites
PROPERTIES
  WritePortHeld
  SpecialInOrder
  RequestsAcked
  StoresDrain
