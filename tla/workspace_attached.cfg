CONSTANTS
    Workspaces = {w1, w2}
    Home = w1
    Ops = {o1}
    Switches = {s1}
    IdeSwitches = FALSE
    Buttons = {"deploy"}
    Typed = {}
    None = None
SPECIFICATION Spec
INVARIANT DeployIsAttached
CHECK_DEADLOCK FALSE
