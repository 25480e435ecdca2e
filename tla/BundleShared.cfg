SPECIFICATION AloneSpec
CONSTANTS
    p1 = p1
    p2 = p2
    OwnName = n2
    sA = sA
    sB = sB
    x = x
    y = y
    z = z
    Nobody = Nobody
    Procs = {p1, p2}
    Names = {n1, n2}
    NoName = NoName
    Sets = {sA, sB}
    NoSet = NoSet
    Members = {x, y, z}
    Ext <- ExtOf
    MembersOf <- MembersOfTwo
    MaxId = 2
    Work = {"save", "add_alias", "remove_alias", "delete", "gc", "record_binary", "launch", "exit"}
SYMMETRY Sym
INVARIANTS NoOrphans ExactWhenAlone
PROPERTY AliasNeverRebinds
CHECK_DEADLOCK FALSE
