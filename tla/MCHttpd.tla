------------------------------ MODULE MCHttpd ------------------------------
(* Two clients, a table with a general and a special route, and one of each *)
(* other kind that only matters by itself.                                  *)
EXTENDS Httpd

CONSTANTS c1, c2

Row(m, p, k, h, s, n) ==
    [method |-> m, pattern |-> p, kind |-> k, handler |-> h, status |-> s, priority |-> n]
hello == Row("GET", "/a", "sql", "select", 200, 0)
anything == Row("*", "*", "sql", "insert", 200, 1)
binary == Row("POST", "/a", "blob", "insert", 65736, 1)
pinned == Row("GET", "/a", "static", "ok", 70000, 2)
plugin == Row("GET", "/b", "wasm", "upper", 200, 0)
unnamed == Row("GET", "/b", "sql", "", 200, 3)

MCRoutes == {hello, anything, binary, pinned, plugin, unnamed}
MCCovers == [p \in {"/a", "/b", "*"} |-> IF p = "*" THEN {"/a", "/b", "/sql", "/tables", "/health"} ELSE {p}]
MCLength == [p \in {"/a", "/b", "*"} |-> IF p = "*" THEN 1 ELSE 2]
MCFirstTables == {NoTable, [schema |-> "legacy", rows |-> {anything}], [schema |-> "current", rows |-> {anything, binary, plugin, unnamed}]}

Sql(m, s) == [method |-> m, path |-> "/sql", stmt |-> s]
To(m, p) == [method |-> m, path |-> p, stmt |-> [op |-> "none"]]
Administration ==
    {Sql("POST", [op |-> o]) : o \in {"begin", "commit", "rollback", "insert"}}
    \cup {Sql("GET", [op |-> "add", row |-> pinned])}
Use == {To("GET", "/a"), To("POST", "/a"), To("GET", "/b"), To("GET", "/tables"), To("POST", "/schema/t")}
MCRequests == [c \in Clients |-> IF c = c1 THEN Administration ELSE Use]
=============================================================================
