CONSTANTS
    None = None
    a = a
    b2 = b2
    c3 = c3
    good = good
    other = other
    lib = lib
    ours = ours
    theirs = theirs
    text = text
    k1 = k1
    k2 = k2
    uri = uri
    q1 = q1
    q2 = q2
    Default = ours
    SqliteRuntime = sqlite_runtime
    MaxFaults = 1
    Clients <- mc_Clients
    Contents <- mc_Contents
    Paths <- mc_Paths
    Tenants <- mc_Tenants
    Ids <- mc_Ids
    Keys <- mc_Keys
    Policies <- mc_Policies
    Programs <- mc_Programs
    FirstFiles <- mc_FirstFiles
SPECIFICATION Spec
INVARIANTS OnlyTrustedCode OwnRows ResolvedAsAsked
PROPERTY EveryCallReturns
CHECK_DEADLOCK FALSE
