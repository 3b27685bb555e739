SPECIFICATION SuiteSpec
CONSTANTS
  ledger = ledger
  snapshot = snapshot
  marked = marked
  Data = {ledger, snapshot, marked}
  Marked = {marked}
  None = None
  Procs = {p1, p2}
  Users = {u1, u2}
  vault = vault
  key = key
SYMMETRY Symmetric
CONSTRAINT FewPreviews
INVARIANTS
  RestoreAtomic
  OpensAgain
  RetentionAtomic
  LegacyDataKept
  MigrationResumes
  OneInstancePerVault
  PreviewHolds
  BudgetCoversLive
