SPECIFICATION Spec
CONSTANTS
  dek = dek
  other = other
  None = None
  Procs = {p1, p2}
  Users = {u1}
  Vaults = {v1}
  Keys = {dek}
  KeyOf <- MCKeyOf
  Cancellable = {p1, p2}
INVARIANTS
  DrainHasCloser
