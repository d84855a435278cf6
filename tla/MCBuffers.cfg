\* Two levels of two hash values, three buffers with the same hash value.
CONSTANTS
  t1 = t1
  t2 = t2
  c1 = c1
  c2 = c2
  c3 = c3
  Thread = {t1, t2}
  VAContextID = {c1, c2, c3}
  Traced = {c1, c2}
  VABufferID = {0, 2, 4}
  VA_INVALID_ID = VA_INVALID_ID
  NULL = NULL
  MAX_TRACE_BUF_INFO_HASH_SIZE = 2
  MAX_TRACE_BUF_INFO_HASH_LEVEL = 2
  CallocMayFail = TRUE
SPECIFICATION Spec
INVARIANTS TypeOK OneEntry OwnContext
PROPERTY ImplementsRegistry
CHECK_DEADLOCK FALSE
