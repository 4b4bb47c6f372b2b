CONSTANTS
    Requests = {r1, r2, r3}
    Programs = {p1, p2}
    Concurrency = 1
    MayDisconnect = FALSE
    MaxRestarts = 1
    None = None
SPECIFICATION FairSpec
INVARIANTS ReadyMeansComplete BinaryIsOwn AnswerIsOwn CompilersBounded
PROPERTIES BinaryNeverLost EveryRequestAnswered
