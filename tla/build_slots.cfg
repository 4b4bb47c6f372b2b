CONSTANTS
    Requests = {r1, r2, r3}
    Programs = {p1, p2}
    Concurrency = 2
    MayDisconnect = TRUE
    MaxRestarts = 0
    None = None
SYMMETRY Symmetry
SPECIFICATION Spec
INVARIANTS BuildTypeOK PermitsAgree IdAlwaysFound
PROPERTY ImplementsSlotPool
