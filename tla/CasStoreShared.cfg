SPECIFICATION ProgramSpec
CONSTANTS
    Programs <- NameOrDigest
    p1 = p1
    p2 = p2
    b1 = b1
    b2 = b2
    u1 = u1
    Procs = {p1, p2}
    Blobs = {b1, b2}
    Uris = {u1}
    NoBlob = NoBlob
    NoUri = NoUri
    NoSnap = NoSnap
    Size <- SizeOfTwo
    EvictTarget = 1
    Legacy = {b1}
    Imports <- OneImport
    Work = {"put", "resolve_uri", "purge", "merge_from", "evict_lru", "get", "blob_delete"}
SYMMETRY Sym
INVARIANTS  NeverMissing 
PROPERTIES HitIsCurrent ImplementsCache
