\* Log files per thread, with failures of calloc and fopen, and liveness; no symmetry.
CONSTANTS
  t1 = t1
  t2 = t2
  c1 = c1
  g1 = g1
  p1 = p1
  a0 = a0
  a1 = a1
  a2 = a2
  a3 = a3
  a4 = a4
  Thread = {t1, t2}
  NoThread = NoThread
  NULL = NULL
  MAX_TRACE_THREAD_NUM = 2
  VAContextID = {c1}
  VAConfigID = {g1}
  VAProfile = {p1}
  VA_INVALID_ID = VA_INVALID_ID
  MAX_TRACE_CTX_NUM = 2
  Address = {a0, a1, a2, a3, a4}
  VirtualCtx = a0
  LogOn = TRUE
  CallocMayFail = TRUE
  FopenMayFail = TRUE
  DriverMayFail = FALSE
  MaxUsed = 4
SPECIFICATION FairSpec
INVARIANTS LogFilesCounted WritesToOpenFile OneFilePerThread
CHECK_DEADLOCK FALSE
PROPERTIES FileKeepsThread MutexReleased CallsReturn
