CONSTANTS
    Workspaces = {w1, w2}
    Home = w1
    Ops = {o1, o2}
    Switches = {s1}
    IdeSwitches = TRUE
    Buttons = {"build", "deploy", "interact", "inline"}
    Typed = {"deployCmd"}
    None = None
SPECIFICATION FairSpec
INVARIANTS WorkspaceTypeOK InfoIsOwn OneDeployment LockHasHolder
PROPERTY LockIsReleased
CHECK_DEADLOCK FALSE
