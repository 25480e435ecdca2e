SPECIFICATION Spec
CONSTANTS
    c1 = c1
    c2 = c2
    Clients = {c1, c2}
    Requests <- MCRequests
    Routes <- MCRoutes
    Hello <- hello
    Covers <- MCCovers
    Length <- MCLength
    Loaded = {"upper"}
    FirstTables <- MCFirstTables
    MaxRequests = 3
    MaxOthers = 1
    MaxKills = 1
INVARIANTS   AnsweredInTime
CHECK_DEADLOCK FALSE
