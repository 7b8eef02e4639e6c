CONSTANTS
  LastAddr = 3
  Sends <- SomeRequests
  TAP_RESET_CYCLES = 5
  Junk = 200
  BufSize = 6
SPECIFICATION Spec
INVARIANTS
  TypeOK
  TargetKnown
  BreakpointsExact
  TrapStopExact
  LinkCarries
PROPERTIES
  RequestsAnswered
  StopsReported
