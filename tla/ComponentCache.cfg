CONSTANTS
    t1 = t1
    t2 = t2
    t3 = t3
    s1 = s1
    s2 = s2
    Hosts = {"h1", "h2"}
    Tasks = {t1, t2, t3}
    HostOf <- MCHostOf
    Engine <- MCEngine
    Digests = {"d1", "d2"}
    NoDigest = "none"
    Size <- MCSize
    Cap1 <- MCCap1
    MaxBytes = 2
    MayDisable = {"h2"}
    Secrets = {s1, s2}
    ForeignRows <- MCForeignRows
SPECIFICATION CacheSpec
SYMMETRY Sym
INVARIANTS RightCode KeysAgree CachesBounded
