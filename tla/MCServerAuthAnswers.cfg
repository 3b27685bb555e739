SPECIFICATION Spec
CONSTANTS
    Procs = {p1, p2}
    Users = {u1}
    MaxConcurrent = 1
    MaxIds = 2
    KDFSlots = 1
    MaxChanges = 1
    None = None
    MaxEvents = 2
CONSTRAINT FewEvents
PROPERTY
    RequestsAnswered
CHECK_DEADLOCK FALSE
