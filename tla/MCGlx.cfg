SPECIFICATION Spec
CONSTANTS
  Thread = {t1, t2}
  Surface = {s1, s2}
  NULL = NULL
INVARIANTS
  ContextReturned
  PutUnbound
  StateBalanced
  ObjectsOwned
  HandlerRestored
