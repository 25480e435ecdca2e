SPECIFICATION Spec
CONSTANTS
    c1 = c1  c2 = c2  p = p  b = b
    Conns <- MCConns
    Exts <- MCExts
    Bridged <- MCBridged
    Files <- MCFiles
    Eager <- MCEager
    Initial <- MCInitial
    Programs <- MCPrograms
    MaxFaults = 0
    None = None
INVARIANTS OwnRowsOnly
