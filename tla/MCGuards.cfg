SPECIFICATION SuiteSpec
CONSTANTS
  Procs = {p1, p2}
  None = None
  Elsewhere = Elsewhere
  db1 = db1
  one = one
  two = two
  rec1 = rec1
  rec2 = rec2
  rec3 = rec3
  agent = agent
  key1 = key1
  key2 = key2
  here = here
  there = there
  MaxFailures = 2
  BaseLock = 1
  MaxLock = 2
  Decay = 2
  KDFSlots = 1
  maxPasskeyCeremonies = 1
  Lifetime = 1
  MaxPasskeysPerUser = 1
  MaxTime = 2
  MaxBegun = 2
SYMMETRY Symmetric
INVARIANTS
  LockHolds
  CeremonyOnce
  DesktopLeases
  DesktopWayIn
  SnapshotOwed
  AIOnce
  AuditAccounts
