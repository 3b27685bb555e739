SPECIFICATION SuiteSpec
CONSTANTS
  a = a
  b = b
  one = one
  p1 = p1
  p2 = p2
  rec1 = rec1
  rec2 = rec2
  db1 = db1
  Elsewhere = Elsewhere
  None = None
  Ids = {a, b}
  Contents = {one}
  Size <- MCSize
  maxPendingSaves = 1
  maxPendingSaveBytes = 3
  MaxFaults = 2
  MaxImages = 1
CONSTRAINT FewEvents
PROPERTIES
  EventuallySettled
  DesktopDrains
  LifecycleGetsIn
