SPECIFICATION Spec
CONSTANTS
  a = a
  b = b

  small = small
  large = large
  None = None
  Ids = {a, b}
  Contents = {small, large}
  Size <- MCSize
  maxPendingSaves = 2
  maxPendingSaveBytes = 3
  MaxFaults = 1
  MaxImages = 1
SYMMETRY IdSymmetry
CONSTRAINT FewEvents
INVARIANTS
  ExactlyOnce
  DurableReceipts
  NoLostWakeup
PROPERTIES
  ImplementsQueue
