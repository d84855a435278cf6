\* Closing a descriptor twice closes that of another display.
CONSTANTS
  d1 = d1
  d2 = d2
  Display = {d1, d2}
  Drawable = {}
  FD = {0, 1, 2, 3}
  MaxInit = 2
SPECIFICATION X11Spec
INVARIANT DescriptorIntact
CHECK_DEADLOCK FALSE
