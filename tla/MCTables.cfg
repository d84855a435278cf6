\* The tables without log files (LIBVA_TRACE unset, another variable set).
CONSTANTS
  t1 = t1
  t2 = t2
  c1 = c1
  c2 = c2
  c3 = c3
  g1 = g1
  p1 = p1
  a0 = a0
  a1 = a1
  a2 = a2
  a3 = a3
  Thread = {t1, t2}
  NoThread = NoThread
  NULL = NULL
  MAX_TRACE_THREAD_NUM = 1
  VAContextID = {c1, c2, c3}
  VAConfigID = {g1}
  VAProfile = {p1}
  VA_INVALID_ID = VA_INVALID_ID
  MAX_TRACE_CTX_NUM = 2
  Address = {a0, a1, a2, a3}
  VirtualCtx = a0
  LogOn = FALSE
  CallocMayFail = TRUE
  FopenMayFail = FALSE
  DriverMayFail = TRUE
  MaxUsed = 1
SPECIFICATION Spec
SYMMETRY Symmetry
INVARIANTS TypeOK ContextNumIsOccupied EntryIsFound FreedOnce
CHECK_DEADLOCK FALSE
