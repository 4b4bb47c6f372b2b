CONSTANTS
    Requests = {r1, r2, r3}
    Programs = {p1, p2}
    Concurrency = 1
    MayDisconnect = TRUE
    MaxRestarts = 0
    None = None
SPECIFICATION Spec
INVARIANT BinaryIsOwn
