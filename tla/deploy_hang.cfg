CONSTANTS
    Chunks = {c1, c2}
    MAX_RETRIES = 2
    loadConcurrency = 2
    preflightChecks = FALSE
    NestedFails = TRUE
SPECIFICATION FairSpec
PROPERTIES CommandEnds
CHECK_DEADLOCK FALSE
