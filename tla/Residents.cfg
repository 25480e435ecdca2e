SPECIFICATION Spec
CONSTANTS
    Callers = {c1, c2}
    Exts <- MCExts
    Shape <- MCShape
    Imports <- MCImports
    Links <- MCLinks
    Bridges <- MCBridges
    Alias <- MCAlias
    Prebuilt <- MCPrebuilt
    Loads <- MCLoads
    Requests <- MCRequests
    Names = {n1}
    MaxCells = 4
    MaxOps = 4
    MaxFaults = 1
    None = None
INVARIANTS StateIsKept  RegisteredHasAnswered
PROPERTY EveryCallReturns
