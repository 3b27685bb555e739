SPECIFICATION FairSpec
CONSTANTS
  dek = dek
  other = other
  None = None
  Procs = {p1, p2, p3}
  Users = {u1}
  Vaults = {v1}
  Keys = {dek, other}
  KeyOf <- MCKeyOf
  Cancellable = {p3}
CONSTRAINT FewEntries
INVARIANTS
  LeaseKeepsInstance
PROPERTIES
  DrainCompletes
