SPECIFICATION Spec
CONSTANTS
  u1 = u1
  u2 = u2
  i1 = i1
  t1 = t1
  t2 = t2
  c1 = c1
  k1 = k1
  None = None
  Users = {u1, u2}
  Invites = {i1}
  Tickets = {t1, t2}
  Passkeys = {k1}
  Clients = {c1}
  MaxPasskeysPerUser = 1
  MaxRevision = 3
SYMMETRY Symmetry
CONSTRAINT FewChanges
INVARIANTS
  AdministratorRemains
  CapabilitiesFollowRole
  OneOpenBearer
PROPERTIES
  ChangesProven
