SPECIFICATION Spec
CONSTANTS
  t1 = t1
  t2 = t2
  Thread = {t1, t2}
  NULL = NULL
  FAILED = FAILED
  PIXELS = PIXELS
  LOG = TRUE
  FTRACE = TRUE
  BUFDATA = TRUE
  ListLengths <- MCListLengths
  VA_TRACE_MAX_SIZE = 1024
  Buffer <- MCBuffer
  BufferLists <- MCBufferLists
  DriverHooks <- MCDriverHooks
  Calls <- MCCalls
INVARIANTS
  ReadsMapped
  MapsReturned
  SurfaceReturned
  EventsNest
  BufferDataWhole
  NoSelfLock
  HookPresent
