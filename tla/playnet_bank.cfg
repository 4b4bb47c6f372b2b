CONSTANTS
    key = key
    u1 = u1
    u2 = u2
    d1 = d1
    p1 = p1
    pd1 = pd1
    None = None
    System = System
    Loader = Loader
    Addresses <- MCAddresses
    BaseOf <- MCBaseOf
    ProgramData <- MCProgramData
    MAX_SPACE = 3
    NonceSpace = 2
    MinimumBalance = 1
    Callers = {c1}
    Bodies <- AllBodies
    Receivers = {u1}
    AirdropKey = key
    Endowment = 6
    AirdropAmount = 3
    MaxSlot = 3
    MaxStarts = 1
SPECIFICATION FairSpec
INVARIANTS PlaynetTypeOK LedgerIsDated AirdropIsFresh NonceIsUnreachable
PROPERTIES OnlySignersPay ProgramsStay LamportsConserved SendEnds
CHECK_DEADLOCK FALSE
