\* Two candidate drivers in two directories, with LIBVA_DRIVER_NAME set or not.
CONSTANTS
  iHD = iHD
  i965 = i965
  NULL = NULL
  MapBuffer = MapBuffer
  MapBuffer2 = MapBuffer2
  default_log_error = default_log_error
  DriverName = {iHD, i965}
  NumDirs = 2
  Hook = {MapBuffer, MapBuffer2}
  Required = {MapBuffer}
  Callback = {default_log_error}
  Default = default_log_error
  Environment = {NULL, i965}
  TraceOn = TRUE
  MaxInit = 2
  MaxNames = 2
SPECIFICATION Spec
INVARIANTS TypeOK HooksPresent OneReference StatusTellsOpen ResourcesCleaned
PROPERTIES OverrideWins ImplementsSlot
CHECK_DEADLOCK FALSE
