SPECIFICATION Spec
CONSTANTS
  Keys = {k1, k2}
  MaxEntries = 2
  MaxBytes = 3
  RequestBytes = 1
  Requests = {r1, r2, r3}
  Callers = {c1, c2}
  MaxIssued = 1
  MaxAppSessions = 1
  ResponseBytes = {2}
INVARIANTS
  ControlInv
  WaitersRemembered
  OneWorkerPerKey
  DrainedBeforeLower
  ShutdownRunsOnce
  LogoutForgotten
  LeasesExact
  NothingStuck
SYMMETRY Symmetry
CHECK_DEADLOCK FALSE
