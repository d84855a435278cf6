\* An X11 display, initialised twice, beside a Wayland and a DRM display.
CONSTANTS
  x1 = x1
  w1 = w1
  a1 = a1
  c1 = c1
  c2 = c2
  Display = {x1}
  Drawable = {c1, c2}
  WlDisplay = {w1}
  DrmApp = {a1}
  FD = {0, 1, 2}
  MaxInit = 2
  MaxInUse = 2
CONSTRAINT Bounds
SPECIFICATION Spec
INVARIANTS DriverHasDevice DescriptorsReturned DrawablesOwned DisplayGiven
CHECK_DEADLOCK FALSE
