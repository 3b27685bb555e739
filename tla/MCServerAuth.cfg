SPECIFICATION Spec
CONSTANTS
    Procs = {p1, p2}
    Users = {u1}
    MaxConcurrent = 1
    MaxIds = 3
    KDFSlots = 1
    MaxChanges = 2
    None = None
    MaxEvents = 3
CONSTRAINT FewEvents
SYMMETRY Symmetric
INVARIANTS
    NoStaleSession
    DrainIsFinal
    NothingLeaks
CHECK_DEADLOCK FALSE
