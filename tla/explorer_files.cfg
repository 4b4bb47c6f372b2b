CONSTANTS
    None = None
    Workspaces = {w1, w2}
    x = x
    y = y
    Names = {x, y}
    NewFiles = {x}
    Extends <- YBeginsWithX
    MaxTabs = 2
SYMMETRY Symmetry
SPECIFICATION Spec
INVARIANTS ExplorerTypeOK OpenIsWhole ListedOnDisk
PROPERTY FilesAreKept
