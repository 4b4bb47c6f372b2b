CONSTANTS
    Chunks = {c1, c2}
    MAX_RETRIES = 2
    loadConcurrency = 2
    preflightChecks = FALSE
    NestedFails = FALSE
SPECIFICATION FairSpec
INVARIANTS DeployTypeOK BufferIsReady
PROPERTIES PromptHolds CommandEnds ImplementsDeployment
CHECK_DEADLOCK FALSE
