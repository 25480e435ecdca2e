SPECIFICATION ProgramSpec
CONSTANTS
    Programs <- AnyWork
    p1 = p1
    p2 = p2
    b1 = b1
    b2 = b2
    u1 = u1
    Procs = {p1, p2}
    Blobs = {b1, b2}
    Uris = {u1}
    NoBlob = NoBlob
    NoUri = NoUri
    NoSnap = NoSnap
    Size <- SizeOfTwo
    EvictTarget = 1
    Legacy <- NoLegacy
    Imports <- NoImports
    Work = {"put", "blob_has", "delete_uri", "gc", "evict_lru"}
PROPERTY OperationsReturn
