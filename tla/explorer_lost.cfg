CONSTANTS
    None = None
    Workspaces = {w1, w2}
    x = x
    y = y
    Names = {x, y}
    NewFiles = {x}
    Extends <- YBeginsWithX
    MaxTabs = 2
SYMMETRY Symmetry
SPECIFICATION Spec
PROPERTY RecoveryFindsOne
