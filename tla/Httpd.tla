------------------------------- MODULE Httpd -------------------------------
(***************************************************************************)
(* The HTTP server (sqlink-httpd): requests of several clients, answered    *)
(* from one SQLite connection behind a mutex, by routes that are rows of    *)
(* the same database.                                                       *)
(*                                                                          *)
(* Abstractions.  Everything done under one hold of the mutex is one step.  *)
(* The database is the routes table and the set of requests whose write is  *)
(* in it.  SQLite (external) is its rollback-journal locking: another       *)
(* process may read (shared) or write (reserved, then exclusive) the file,  *)
(* and the server, which sets no busy timeout, is then refused.  A path     *)
(* matches a pattern by Covers.  Bodies, headers and content types are left *)
(* out; of a handler's result the number of rows and its columns are kept.  *)
(***************************************************************************)
EXTENDS Integers, FiniteSets

CONSTANTS
    Clients,
    Requests,           \* Requests[c]: what c may send, [method, path, stmt]
    Routes,             \* rows the routes table may have
    Hello,              \* the row init_routes_table seeds
    Covers,             \* Covers[pattern]: the paths that GLOB it
    Length,             \* Length[pattern]
    Loaded,             \* components given with --load
    FirstTables,        \* the routes tables a file may come with
    MaxRequests,        \* bound: requests ever sent
    MaxOthers,          \* bound: transactions of other processes
    MaxKills            \* bound: times the server is killed

(* What answers a request: a row of the table, an administrative path, or  *)
(* nothing.                                                                 *)
Builtin(path) == [handler |-> path]
NoRoute == Builtin("")
NoTable == [schema |-> "none", rows |-> {}]

ASSUME HttpdAssumption ==
    /\ Hello \in Routes
    /\ \A r \in Routes : /\ r.kind \in {"sql", "static", "wasm", "blob"}
                         /\ {r.status, r.priority, Length[r.pattern]} \subseteq Int
    /\ \A c \in Clients : \A req \in Requests[c] :
          req.stmt.op = "add" => req.stmt.row \in Routes
    /\ FirstTables \subseteq [schema : {"none", "legacy", "current"}, rows : SUBSET Routes]
    /\ {MaxRequests, MaxOthers, MaxKills} \subseteq Nat

VARIABLES
    server,     \* down, create, alter, count, seed or serving
    file,       \* the committed database: [table, log]
    conn,       \* the connection: [open, lock, view, txn]
    other,      \* the lock another process has on the file
    task,       \* task[c]: the request of client c
    sent, others, kills,
    \* history
    could,      \* could[c]: what was right to answer, since c's request arrived
    acked,      \* [id, txn, kind] of writes whose client was told of success
    undone      \* explicit transactions that were rolled back

vars == <<server, file, conn, other, task, sent, others, kills, could, acked, undone>>

Empty == [table |-> NoTable, log |-> {}]
Closed == [open |-> FALSE, lock |-> "none", view |-> Empty, txn |-> 0]
Idle == [pc |-> "idle", req |-> [path |-> ""], id |-> 0, match |-> NoRoute,
         by |-> NoRoute, status |-> 0]

Init ==
    /\ server = "down"
    /\ file \in [table : FirstTables, log : {{}}]
    /\ conn = Closed
    /\ other = "none"
    /\ task = [c \in Clients |-> Idle]
    /\ sent = 0 /\ others = 0 /\ kills = 0
    /\ could = [c \in Clients |-> {}]
    /\ acked = {} /\ undone = {}
-----------------------------------------------------------------------------
(* SQLite, as the connection uses it.                                       *)
View == IF conn.lock = "none" THEN file ELSE conn.view

CanRead == conn.lock # "none" \/ other # "exclusive"
CanWrite == CanRead /\ other \notin {"reserved", "exclusive"}
CanCommit == other # "shared"

Result(ok, c, f) == [ok |-> ok, conn |-> c, file |-> f]
Refused == Result(FALSE, conn, file)

(* A reading statement: inside BEGIN it leaves a shared lock.               *)
Read ==
    IF ~CanRead THEN Refused
    ELSE IF conn.open /\ conn.lock = "none"
         THEN Result(TRUE, [conn EXCEPT !.lock = "shared", !.view = file], file)
         ELSE Result(TRUE, conn, file)

(* A writing statement that makes the database new.  Outside BEGIN its own  *)
(* commit needs the file to itself; what that commit says reaches only a    *)
(* caller that steps to the end of the statement.                           *)
Changed(new, toTheEnd) ==
    CASE ~CanWrite -> Refused
      [] CanWrite /\ conn.open ->
            Result(TRUE, [conn EXCEPT !.lock = "reserved", !.view = new], file)
      [] CanWrite /\ ~conn.open /\ CanCommit -> Result(TRUE, conn, new)
      [] OTHER -> Result(~toTheEnd, conn, file)

Logged(id) == [View EXCEPT !.log = @ \cup {id}]
WithRow(r) == [View EXCEPT !.table.rows = @ \cup {r}]

Begin(id) == IF conn.open THEN Refused
             ELSE Result(TRUE, [conn EXCEPT !.open = TRUE, !.txn = id], file)
Commit ==
    IF ~conn.open \/ (conn.lock = "reserved" /\ ~CanCommit) THEN Refused
    ELSE Result(TRUE, Closed, IF conn.lock = "reserved" THEN conn.view ELSE file)
Rollback == IF conn.open THEN Result(TRUE, Closed, file) ELSE Refused

(* A statement that names a column the table does not have is refused: only *)
(* rows of kind sql can be added to a table of the old schema.              *)
HasColumns(r) == View.table.schema = "current" \/ (View.table.schema = "legacy" /\ r.kind = "sql")
-----------------------------------------------------------------------------
(* db.rs.  query and query_named step to the end; query_blob_named takes    *)
(* the first row and finalizes.                                             *)
query_named_first_row(handler, id) ==
    CASE handler = "insert" -> Changed(Logged(id), FALSE)
      [] handler \in {"select", "status"} -> Read
      [] OTHER -> Refused

query_named(handler, id) ==
    CASE handler = "insert" -> Changed(Logged(id), TRUE)
      [] handler \in {"select", "status"} -> Read
      [] OTHER -> Refused

query_blob_named(handler, id) ==
    CASE handler = "insert" -> Changed(Logged(id), FALSE)
      [] handler \in {"select", "none"} -> Read
      [] OTHER -> Refused

query(stmt, id) ==
    CASE stmt.op = "begin" -> Begin(id)
      [] stmt.op = "commit" -> Commit
      [] stmt.op = "rollback" -> Rollback
      [] stmt.op = "insert" -> Changed(Logged(id), TRUE)
      [] stmt.op = "select" -> Read
      [] stmt.op = "add" /\ HasColumns(stmt.row) -> Changed(WithRow(stmt.row), TRUE)
      [] OTHER -> Refused

Apply(r) == conn' = r.conn /\ file' = r.file
-----------------------------------------------------------------------------
(* Start-up: the pragmas of open do not need the file; init_routes_table    *)
(* makes the table, adds the column old tables lack, whatever that says,    *)
(* and seeds an empty table.  A refused statement ends the program.         *)
Connection_open ==
    /\ server = "down" /\ kills <= MaxKills
    /\ server' = "create"
    /\ conn' = Closed
    /\ UNCHANGED <<file, other, task, sent, others, kills, acked, undone>>

StartsWith(r, next) ==
    /\ Apply(r)
    /\ server' = IF r.ok THEN next ELSE "down"
    /\ kills' = IF r.ok THEN kills ELSE kills + 1
    /\ UNCHANGED <<other, task, sent, others, acked, undone>>

init_routes_create ==
    /\ server = "create"
    /\ StartsWith(IF View.table.schema = "none"
                  THEN Changed([View EXCEPT !.table.schema = "current"], TRUE) ELSE Read, "alter")

init_routes_alter ==
    /\ server = "alter"
    /\ LET r == IF View.table.schema = "legacy"
                THEN Changed([View EXCEPT !.table.schema = "current"], TRUE) ELSE Refused
       IN  StartsWith([r EXCEPT !.ok = TRUE], "count")

init_routes_count ==
    /\ server = "count"
    /\ StartsWith(Read, IF View.table.rows = {} THEN "seed" ELSE "serving")

init_routes_seed ==
    /\ server = "seed"
    /\ StartsWith(Changed(WithRow(Hello), TRUE), "serving")
-----------------------------------------------------------------------------
(* The administrative paths, which no row of the table may take over.       *)
builtin_post(req) == <<req.method, req.path>> \in {<<"GET", "/health">>, <<"POST", "/sql">>}

builtin(req) ==
    \/ <<req.method, req.path>> \in {<<"GET", "/health">>, <<"GET", "/sql">>, <<"POST", "/sql">>, <<"GET", "/tables">>}
    \/ req.path = "/schema/t"

(* The first row by priority, then by the length of the pattern.  What two  *)
(* rows that tie give is SQLite's choice.  A table of the old schema has no *)
(* kind: the second query takes every row as SQL.                           *)
Matching(req, table) ==
    {r \in table.rows : r.method \in {req.method, "*"} /\ req.path \in Covers[r.pattern]}
Before_longest(r, s) ==
    Length[r.pattern] > Length[s.pattern]
    \/ (Length[r.pattern] = Length[s.pattern] /\ r.priority >= s.priority)

Before(r, s) ==
    r.priority > s.priority \/ (r.priority = s.priority /\ Length[r.pattern] >= Length[s.pattern])
First(rows) == {r \in rows : \A s \in rows : Before(r, s)}

lookup(req) ==
    LET found == IF Read.ok THEN First(Matching(req, View.table)) ELSE {}
    IN  IF found = {} THEN {NoRoute}
        ELSE {IF r.handler = "" THEN NoRoute ELSE r : r \in found}

(* The status of a row, as an unsigned 16-bit number; not every number is   *)
(* a status.                                                                *)
StatusCode(n, default) == IF n % 65536 \in 100..999 THEN n % 65536 ELSE default

(* What a result becomes: nothing, a status of its own, or the route's.     *)
build_response(m) ==
    CASE m.handler = "insert" -> 204
      [] m.handler = "status" -> StatusCode(418, StatusCode(m.status, 200))
      [] OTHER -> StatusCode(m.status, 200)

execute_sql(m, id) ==
    LET r == query_named(m.handler, id)
    IN  [res |-> r, status |-> IF r.ok THEN build_response(m) ELSE 500]

execute_blob(m, id) ==
    LET r == query_blob_named(m.handler, id)
    IN  [res |-> r, status |-> IF ~r.ok THEN 500
                               ELSE IF m.handler = "none" THEN 404 ELSE StatusCode(m.status, 200)]

execute_static(m) == [res |-> Result(TRUE, conn, file), status |-> StatusCode(m.status, 200)]

(* A component in a store of its own: it answers, or the call fails.        *)
HostDispatcher_dispatch(name) == IF name \in Loaded THEN {200, 500} ELSE {500}
execute_wasm(m) ==
    {[res |-> Result(TRUE, conn, file), status |-> s] : s \in HostDispatcher_dispatch(m.handler)}

execute(m, id) ==
    CASE m.kind = "static" -> {execute_static(m)}
      [] m.kind = "wasm" -> execute_wasm(m)
      [] m.kind = "sql" -> {execute_sql(m, id)}
      [] m.kind = "blob" -> {execute_blob(m, id)}

run_sql_commits(stmt, id) ==
    LET r == query(stmt, id)
        kept == IF r.ok /\ r.conn.lock = "reserved"
                THEN [r EXCEPT !.conn.lock = "shared", !.file = r.conn.view] ELSE r
    IN  [res |-> kept, status |-> IF r.ok THEN 200 ELSE 422]

run_sql(stmt, id) ==
    LET r == query(stmt, id) IN [res |-> r, status |-> IF r.ok THEN 200 ELSE 422]

-----------------------------------------------------------------------------
(* One client's request.                                                    *)
Unmoved == UNCHANGED <<server, other, others, kills>>

Send(c, req) ==
    /\ server = "serving" /\ task[c].pc \in {"idle", "answered"} /\ sent < MaxRequests
    /\ sent' = sent + 1
    /\ task' = [task EXCEPT ![c] = [Idle EXCEPT !.pc = "arrived", !.req = req, !.id = sent + 1]]
    /\ UNCHANGED <<server, file, conn, other, others, kills, acked, undone>>

Answer(c, by, status) ==
    task' = [task EXCEPT ![c] = [@ EXCEPT !.pc = "answered", !.by = by, !.status = status]]

Await(c, m) == task' = [task EXCEPT ![c] = [@ EXCEPT !.pc = "body", !.match = m]]

(* The answer of a statement, and what its client now believes.             *)
Serve(c, by, kind, inserts, out) ==
    /\ Apply(out.res)
    /\ Answer(c, by, out.status)
    /\ acked' = IF inserts /\ out.res.ok
                THEN acked \cup {[id |-> task[c].id, txn |-> out.res.conn.txn, kind |-> kind]}
                ELSE acked
    /\ undone' = IF conn.open /\ ~out.res.conn.open /\ task[c].req.stmt.op = "rollback"
                 THEN undone \cup {conn.txn} ELSE undone

ServeSql(c) ==
    LET stmt == task[c].req.stmt
    IN  Serve(c, Builtin("/sql"), "sql", stmt.op = "insert", run_sql(stmt, task[c].id))

(* handle, up to its first await.                                           *)
handle(c) ==
    LET req == task[c].req IN
    /\ server = "serving" /\ task[c].pc = "arrived"
    /\ \/ /\ builtin(req) /\ (req.path = "/health" \/ (req.path = "/schema/t" /\ req.method # "GET"))
          /\ IF req.path = "/health" THEN Answer(c, Builtin(req.path), 200) ELSE Answer(c, NoRoute, 404)
          /\ UNCHANGED <<file, conn, acked, undone>>
       \/ /\ builtin(req) /\ req.path \in {"/tables", "/schema/t"} /\ req.method = "GET"
          /\ Serve(c, Builtin(req.path), "sql", FALSE, run_sql([op |-> "select"], task[c].id))
       \/ /\ builtin(req) /\ req.path = "/sql" /\ req.method = "GET"
          /\ ServeSql(c)
       \/ /\ builtin(req) /\ req.path = "/sql" /\ req.method = "POST"
          /\ Await(c, NoRoute)
          /\ UNCHANGED <<file, conn, acked, undone>>
       \/ /\ ~builtin(req)
          /\ IF View.table.schema = "none" THEN UNCHANGED <<file, conn>> ELSE Apply(Read)
          /\ \E m \in lookup(req) : IF m = NoRoute THEN Answer(c, NoRoute, 404) ELSE Await(c, m)
          /\ UNCHANGED <<acked, undone>>
    /\ Unmoved /\ UNCHANGED sent

(* read_body: the body is there, is cut short, or the client is gone.       *)
read_body(c) ==
    /\ server = "serving" /\ task[c].pc = "body"
    /\ \/ task' = [task EXCEPT ![c] = [@ EXCEPT !.pc = "ready"]]
       \/ Answer(c, NoRoute, 400)
       \/ task' = [task EXCEPT ![c] = Idle]
    /\ Unmoved /\ UNCHANGED <<file, conn, sent, acked, undone>>

(* handle, after the body: the route that was found before it.              *)
finish(c) ==
    LET m == task[c].match IN
    /\ server = "serving" /\ task[c].pc = "ready"
    /\ \/ m = NoRoute /\ ServeSql(c)
       \/ m # NoRoute /\ \E out \in execute(m, task[c].id) :
             Serve(c, m, m.kind, m.kind \in {"sql", "blob"} /\ m.handler = "insert", out)
    /\ Unmoved /\ UNCHANGED sent

(* The server is killed: SQLite takes back what was not committed.          *)
Kill ==
    /\ server # "down" /\ kills < MaxKills
    /\ server' = "down" /\ kills' = kills + 1
    /\ conn' = Closed
    /\ task' = [c \in Clients |-> Idle]
    /\ undone' = IF conn.open THEN undone \cup {conn.txn} ELSE undone
    /\ UNCHANGED <<file, other, sent, others, acked>>
-----------------------------------------------------------------------------
(* Another process with the file open.                                      *)
OtherSays(lock, f) ==
    /\ other' = lock /\ file' = f
    /\ UNCHANGED <<server, conn, task, sent, kills, acked, undone>>

OtherStarts ==
    /\ other = "none" /\ others < MaxOthers
    /\ others' = others + 1
    /\ \/ OtherSays("shared", file)
       \/ conn.lock # "reserved" /\ OtherSays("reserved", file)

OtherCommits ==
    /\ other = "reserved" /\ conn.lock = "none"
    /\ OtherSays("exclusive", file)
    /\ UNCHANGED others

OtherEnds ==
    /\ other # "none"
    /\ \/ other # "exclusive" /\ OtherSays("none", file)
       \/ /\ other = "exclusive" /\ file.table.schema # "none"
          /\ \E r \in file.table.rows : OtherSays("none", [file EXCEPT !.table.rows = @ \ {r}])
       \/ other = "exclusive" /\ OtherSays("none", file)
    /\ UNCHANGED others
-----------------------------------------------------------------------------
(* What is right to answer a request with, in the state as it is.           *)
ByTable(req) ==
    LET rows == {r \in View.table.rows : r.method \in {req.method, "*"} /\ req.path \in Covers[r.pattern]}
        better(s, r) == \/ s.priority > r.priority
                        \/ s.priority = r.priority /\ Length[s.pattern] > Length[r.pattern]
        best == {r \in rows : ~\E s \in rows : better(s, r)}
    IN  best \cup (IF best = {} \/ ~CanRead \/ \E r \in best : r.handler = "" THEN {NoRoute} ELSE {})

RightNow(req) ==
    IF \/ req.method = "GET" /\ req.path \in {"/sql", "/tables", "/health"}
       \/ req.method = "POST" /\ req.path = "/sql"
    THEN {Builtin(req.path)}
    ELSE IF req.path = "/schema/t" THEN {Builtin(req.path), NoRoute} ELSE ByTable(req)

InFlight(t) == t.pc \in {"arrived", "body", "ready"}

History ==
    could' = [c \in Clients |->
        CASE InFlight(task'[c]) -> (IF InFlight(task[c]) THEN could[c] ELSE {}) \cup RightNow(task[c].req)'
          [] task'[c].pc = "answered" -> could[c]
          [] OTHER -> {}]

Next ==
    \/ Connection_open /\ History
    \/ init_routes_create /\ History
    \/ init_routes_alter /\ History
    \/ init_routes_count /\ History
    \/ init_routes_seed /\ History
    \/ \E c \in Clients : \/ \E req \in Requests[c] : Send(c, req) /\ History
                          \/ handle(c) /\ History
                          \/ read_body(c) /\ History
                          \/ finish(c) /\ History
    \/ Kill /\ History
    \/ OtherStarts /\ History
    \/ OtherCommits /\ History
    \/ OtherEnds /\ History

Spec == Init /\ [][Next]_vars
-----------------------------------------------------------------------------
TypeOK ==
    /\ server \in {"down", "create", "alter", "count", "seed", "serving"}
    /\ file.table.schema \in {"none", "legacy", "current"}
    /\ file.table.rows \subseteq Routes /\ file.log \subseteq 1..MaxRequests
    /\ conn.lock \in {"none", "shared", "reserved"} /\ (conn.lock # "none" => conn.open)
    /\ other \in {"none", "shared", "reserved", "exclusive"}
    /\ \A c \in Clients : /\ task[c].pc \in {"idle", "arrived", "body", "ready", "answered"}
                          /\ task[c].status \in {0} \cup 100..999

(* A write a client was told of is in the file, or in the transaction that  *)
(* some client has open on the one connection, or was rolled back with that *)
(* transaction (execute_sql, run_sql).  Left out are the writes of a blob   *)
(* route outside a transaction: query_blob_named answers before the commit. *)
AckedIsKept ==
    \A a \in acked :
        \/ a.id \in file.log
        \/ a.txn # 0 /\ (a.txn \in undone \/ (conn.txn = a.txn /\ a.id \in conn.view.log))
        \/ a.txn = 0 /\ a.kind = "blob"

(* Requests that found a transaction of somebody else open share its fate:  *)
(* all their writes are in the file or none is, whoever ends it, a kill     *)
(* included (SharedConn, run_sql).                                          *)
AllOrNothing ==
    \A a \in acked, b \in acked :
        a.txn # 0 /\ a.txn = b.txn => (a.id \in file.log <=> b.id \in file.log)

(* A request that was answered with an error left nothing behind.  A blob   *)
(* route whose own status says error sends it with every answer.            *)
OwnStatus(t) == t.by \in Routes /\ t.by.kind = "blob" /\ t.status = StatusCode(t.by.status, 200)

FailedLeavesNothing ==
    \A c \in Clients :
        task[c].pc = "answered" /\ task[c].status \in {400, 404, 422, 500} =>
            task[c].id \notin View.log \/ OwnStatus(task[c])

(* What a client is told of its write is true: what was acknowledged is     *)
(* kept, and what failed left nothing behind (execute_sql, query_blob_named).*)
AnswersAreTrue == AckedIsKept /\ FailedLeavesNothing

(* An answer comes from a route that was the best for its request at some   *)
(* moment between arrival and answer: one deleted before the request        *)
(* arrived never answers it, one added after never does, and no row of the  *)
(* table takes over an administrative path.  404 means that no route        *)
(* matched, or that the file was locked (lookup, handle).                   *)
AnsweredInTime ==
    \A c \in Clients :
        task[c].pc = "answered" /\ task[c].status # 400 => task[c].by \in could[c]
=============================================================================
