SPECIFICATION Spec
CONSTANTS
  BUFDATA = TRUE
  Profile <- AllProfiles
  Counts = {0, 4, 14, 31}
  SliceSize = {1, 2, 3}
  MaxElements = 2
INVARIANTS
  WithinStruct
  OwnStruct
  SliceDataShown
CHECK_DEADLOCK FALSE
