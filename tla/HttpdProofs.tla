---------------------------- MODULE HttpdProofs ----------------------------
(***************************************************************************)
(* Proofs about the HTTP server, for any clients, requests, routes and      *)
(* databases, any number of requests, of transactions of other processes    *)
(* and of kills: what a client is told of its write is true, the writes of  *)
(* one transaction share its fate, and answers come in time.                *)
(*                                                                          *)
(* A statement is seen through three numbers: the log of the file, the log  *)
(* the connection sees, and the transaction it is in.  What the others see  *)
(* of it is that it is quiet, or inserts, begins, commits or takes back.    *)
(***************************************************************************)
EXTENDS Httpd, TLAPS

Reqs == {[path |-> ""]} \cup UNION {Requests[c] : c \in Clients}
Answers == Routes \cup {Builtin(p) : p \in {"", "/health", "/sql", "/tables", "/schema/t"}}
FileT == [table : [schema : {"none", "legacy", "current"}, rows : SUBSET Routes], log : SUBSET (Nat \ {0})]
ConnT == [open : BOOLEAN, lock : {"none", "shared", "reserved"}, view : FileT, txn : Nat]
Places == {"idle", "arrived", "body", "ready", "answered"}
Matches == Routes \cup {NoRoute}
Codes == 100..999
Statuses == {0} \cup Codes
TaskT == [pc : Places, req : Reqs, id : Nat, match : Matches, by : Answers, status : Statuses]
AckT == [id : Nat, txn : Nat, kind : {"sql", "blob"}]

Types ==
    /\ server \in {"down", "create", "alter", "count", "seed", "serving"}
    /\ file \in FileT /\ conn \in ConnT
    /\ other \in {"none", "shared", "reserved", "exclusive"}
    /\ task \in [Clients -> TaskT]
    /\ \A c \in Clients : task[c].pc # "idle" => task[c].req \in Requests[c]
    /\ sent \in 0..MaxRequests
    /\ acked \subseteq AckT /\ undone \subseteq Nat

(* The connection and the lock of the other process: what a transaction has *)
(* read is still so, and nobody else writes beside it.                      *)
Locks ==
    /\ conn.open <=> conn.txn # 0
    /\ ~conn.open => conn.lock = "none"
    /\ conn.lock = "none" => conn.view = Empty
    /\ conn.lock # "none" => other # "exclusive"
    /\ conn.lock = "shared" => conn.view = file
    /\ conn.lock = "reserved" =>
          file.log \subseteq conn.view.log /\ other \notin {"reserved", "exclusive"}

(* The numbers in use, in the database and as names of transactions.        *)
Used == View.log \cup {a.id : a \in acked} \cup {a.txn : a \in acked} \cup undone \cup {conn.txn}

(* A request that is not answered yet has a number that is its own.         *)
Numbers ==
    /\ Used \subseteq 0..sent
    /\ \A c \in Clients : task[c].pc # "idle" => task[c].id \in 1..sent
    /\ \A c \in Clients : InFlight(task[c]) => task[c].id \notin Used
    /\ \A c, d \in Clients :
          c # d /\ task[c].pc # "idle" /\ task[d].pc # "idle" => task[c].id # task[d].id

(* The fate of a write that was acknowledged inside a transaction: it waits *)
(* for the end of the one that is open, or was taken back, or is kept.      *)
Waits(a) == conn.txn = a.txn /\ a.txn \notin undone /\ a.id \in View.log /\ a.id \notin file.log
TakenBack(a) == conn.txn # a.txn /\ a.txn \in undone /\ a.id \notin View.log
Kept(a) == conn.txn # a.txn /\ a.txn \notin undone /\ a.id \in file.log

Fates ==
    /\ conn.txn \notin undone /\ 0 \notin undone
    /\ \A a \in acked : IF a.txn # 0 THEN Waits(a) \/ TakenBack(a) \/ Kept(a)
                        ELSE a.id \in file.log \/ a.kind = "blob"

WriteInv == Types /\ Locks /\ Numbers /\ Fates /\ FailedLeavesNothing

(* What a request in flight may still be answered with is remembered, and   *)
(* the route found before its body is one of those.                         *)
Remembered == \A c \in Clients : InFlight(task[c]) => RightNow(task[c].req) \subseteq could[c]
FoundInTime == \A c \in Clients : task[c].pc \in {"body", "ready"} =>
                  (IF task[c].match = NoRoute THEN Builtin("/sql") ELSE task[c].match) \in could[c]

AnswerInv == Remembered /\ FoundInTime /\ AnsweredInTime

-----------------------------------------------------------------------------
(* What a statement does to the logs and to the open transaction.           *)
Quiet == View'.log = View.log /\ file'.log = file.log /\ conn'.txn = conn.txn
Written(log) == /\ View'.log = log /\ conn'.txn = conn.txn
                /\ file'.log = IF conn.txn = 0 THEN log ELSE file.log
Begun(id) == /\ View'.log = View.log /\ file'.log = file.log
             /\ conn.txn = 0 /\ conn'.txn = id
Committed == conn.txn # 0 /\ conn'.txn = 0 /\ View'.log = View.log /\ file'.log = View.log
RolledBack == conn.txn # 0 /\ conn'.txn = 0 /\ View'.log = file.log /\ file'.log = file.log

Keeps == conn' \in ConnT /\ file' \in FileT /\ Locks'

(* The connection sees a database, with all that the file has; before it    *)
(* writes, the file itself.                                                 *)
LEMMA ViewTyped ==
    ASSUME Types, Locks
    PROVE  /\ View \in FileT /\ file.log \subseteq View.log
           /\ conn.lock # "reserved" => View = file
<1>1. file \in FileT /\ conn.view \in FileT
  BY DEF Types, ConnT
<1>2. CASE conn.lock = "none"
  BY <1>1, <1>2 DEF View
<1>3. CASE conn.lock = "shared"
  BY <1>1, <1>3 DEF View, Locks
<1>4. CASE conn.lock = "reserved"
  BY <1>1, <1>4 DEF View, Locks
<1> QED
  BY <1>2, <1>3, <1>4 DEF Types, ConnT

(* The databases that statements write.                                     *)
LEMMA NewTyped ==
    ASSUME Types, Locks
    PROVE  /\ \A id \in Nat \ {0} : Logged(id) \in FileT /\ Logged(id).log = View.log \cup {id}
           /\ \A r \in Routes : WithRow(r) \in FileT /\ WithRow(r).log = View.log
           /\ LET n == [View EXCEPT !.table.schema = "current"]
              IN  n \in FileT /\ n.log = View.log
  BY ViewTyped DEF Logged, WithRow, FileT

LEMMA ReadEffect ==
    ASSUME Types, Locks, Apply(Read), other' = other
    PROVE  Keeps /\ Quiet
<1>1. conn \in ConnT /\ file \in FileT
  BY DEF Types
<1>2. CASE conn' = conn /\ file' = file
  BY <1>1, <1>2 DEF Keeps, Quiet, Locks, View
<1>3. CASE /\ conn.open /\ conn.lock = "none" /\ other # "exclusive"
           /\ conn' = [conn EXCEPT !.lock = "shared", !.view = file] /\ file' = file
  <2>1. /\ conn' \in ConnT /\ conn'.open = conn.open /\ conn'.txn = conn.txn
        /\ conn'.lock = "shared" /\ conn'.view = file
    BY <1>1, <1>3 DEF ConnT
  <2>2. Locks'
    BY <1>3, <2>1 DEF Locks
  <2> QED
    BY <1>1, <1>3, <2>1, <2>2 DEF Keeps, Quiet, View
<1> QED
  BY <1>2, <1>3 DEF Apply, Read, Refused, Result, CanRead

LEMMA ChangedEffect ==
    ASSUME Types, Locks, NEW new \in FileT, View.log \subseteq new.log, NEW b \in BOOLEAN,
           Apply(Changed(new, b)), other' = other
    PROVE  /\ Keeps
           /\ \/ Changed(new, b).ok /\ Written(new.log)
              \/ Quiet /\ (Changed(new, b).ok => ~b /\ conn.txn = 0)
<1>1. conn \in ConnT /\ file \in FileT /\ file.log \subseteq new.log
  BY ViewTyped DEF Types
<1>2. CASE /\ conn' = conn /\ file' = file
           /\ Changed(new, b).ok => ~b /\ ~conn.open
  BY <1>1, <1>2 DEF Keeps, Quiet, Locks, View
<1>3. CASE /\ CanWrite /\ conn.open /\ Changed(new, b).ok
           /\ conn' = [conn EXCEPT !.lock = "reserved", !.view = new] /\ file' = file
  <2>1. /\ conn' \in ConnT /\ conn'.open = conn.open /\ conn'.txn = conn.txn
        /\ conn'.lock = "reserved" /\ conn'.view = new
    BY <1>1, <1>3 DEF ConnT
  <2>2. Locks'
    BY <1>1, <1>3, <2>1 DEF Locks, CanWrite
  <2> QED
    BY <1>1, <1>3, <2>1, <2>2 DEF Keeps, Written, View, Locks
<1>4. CASE ~conn.open /\ Changed(new, b).ok /\ conn' = conn /\ file' = new
  <2>1. conn.lock = "none" /\ conn.txn = 0
    BY <1>4 DEF Locks
  <2> QED
    BY <1>1, <1>4, <2>1 DEF Keeps, Written, View, Locks
<1> QED
  BY <1>2, <1>3, <1>4 DEF Apply, Changed, Refused, Result

LEMMA BeginEffect ==
    ASSUME Types, Locks, NEW id \in Nat, id # 0, Apply(Begin(id)), other' = other
    PROVE  Keeps /\ ((Quiet /\ ~Begin(id).ok) \/ Begun(id))
<1>1. conn \in ConnT /\ file \in FileT
  BY DEF Types
<1>2. CASE conn.open
  BY <1>1, <1>2 DEF Apply, Begin, Refused, Result, Keeps, Quiet, Locks, View
<1>3. CASE ~conn.open
  <2>1. conn' = [conn EXCEPT !.open = TRUE, !.txn = id] /\ file' = file
    BY <1>3 DEF Apply, Begin, Result
  <2>2. /\ conn' \in ConnT /\ conn'.open /\ conn'.txn = id
        /\ conn'.lock = conn.lock /\ conn'.view = conn.view
    BY <1>1, <2>1 DEF ConnT
  <2>3. conn.lock = "none" /\ conn.txn = 0
    BY <1>3 DEF Locks
  <2> QED
    BY <1>1, <1>3, <2>1, <2>2, <2>3 DEF Keeps, Begun, Locks, View
<1> QED
  BY <1>2, <1>3

(* The connection that is left by COMMIT, ROLLBACK and the end.             *)
LEMMA ClosedTyped == Closed \in ConnT /\ Closed.view.log = {} /\ Empty \in FileT
  BY DEF Closed, ConnT, Empty, FileT, NoTable

LEMMA ClosedLocks ==
    ASSUME conn' = Closed, file' \in FileT
    PROVE  Keeps /\ View' = file' /\ conn'.txn = 0 /\ ~conn'.open
  BY ClosedTyped DEF Closed, Keeps, Locks, View

LEMMA CommitEffect ==
    ASSUME Types, Locks, Apply(Commit), other' = other
    PROVE  Keeps /\ ((Quiet /\ ~Commit.ok) \/ Committed)
<1>1. conn \in ConnT /\ file \in FileT
  BY DEF Types
<1>2. CASE ~conn.open \/ (conn.lock = "reserved" /\ ~CanCommit)
  BY <1>1, <1>2 DEF Apply, Commit, Refused, Result, Keeps, Quiet, Locks, View
<1>3. CASE conn.open /\ ~(conn.lock = "reserved" /\ ~CanCommit)
  <2>1. conn' = Closed /\ file' = IF conn.lock = "reserved" THEN conn.view ELSE file
    BY <1>3 DEF Apply, Commit, Result
  <2>2. file' = View /\ View \in FileT
    BY <2>1, ViewTyped DEF View
  <2>3. Keeps /\ View' = file' /\ conn'.txn = 0
    BY <2>1, <2>2, ClosedLocks
  <2> QED
    BY <1>3, <2>2, <2>3 DEF Committed, Locks
<1> QED
  BY <1>2, <1>3

LEMMA RollbackEffect ==
    ASSUME Types, Locks, Apply(Rollback), other' = other
    PROVE  Keeps /\ ((Quiet /\ ~Rollback.ok) \/ RolledBack)
<1>1. conn \in ConnT /\ file \in FileT
  BY DEF Types
<1>2. CASE ~conn.open
  BY <1>1, <1>2 DEF Apply, Rollback, Refused, Result, Keeps, Quiet, Locks, View
<1>3. CASE conn.open
  <2>1. conn' = Closed /\ file' = file
    BY <1>3 DEF Apply, Rollback, Result
  <2>2. Keeps /\ View' = file' /\ conn'.txn = 0
    BY <1>1, <2>1, ClosedLocks
  <2> QED
    BY <1>3, <2>1, <2>2 DEF RolledBack, Locks
<1> QED
  BY <1>2, <1>3

(* What the client of a request sees.  told: its write is acknowledged.     *)
Insertion(id, told, surely) ==
    \/ Quiet /\ (told => ~surely /\ conn.txn = 0)
    \/ told /\ Written(View.log \cup {id})

LEMMA InsertEffect ==
    ASSUME Types, Locks, NEW id \in Nat, id # 0, NEW b \in BOOLEAN,
           Apply(Changed(Logged(id), b)), other' = other
    PROVE  Keeps /\ Insertion(id, Changed(Logged(id), b).ok, b)
<1>1. Logged(id) \in FileT /\ Logged(id).log = View.log \cup {id}
  BY NewTyped
<1>2. View.log \subseteq Logged(id).log
  BY <1>1
<1> HIDE DEF Insertion
<1>3. /\ Keeps
      /\ \/ Changed(Logged(id), b).ok /\ Written(Logged(id).log)
         \/ Quiet /\ (Changed(Logged(id), b).ok => ~b /\ conn.txn = 0)
  BY <1>1, <1>2, ChangedEffect
<1> QED
  BY <1>1, <1>3 DEF Insertion

(* A change of the routes table: the logs stay as they are.                 *)
LEMMA TableEffect ==
    ASSUME Types, Locks, NEW new \in FileT, new.log = View.log, NEW b \in BOOLEAN,
           Apply(Changed(new, b)), other' = other
    PROVE  Keeps /\ Quiet
<1>1. /\ Keeps
      /\ \/ Written(new.log)
         \/ Quiet
  BY ChangedEffect
<1>2. CASE Quiet
  BY <1>1, <1>2
<1>3. CASE Written(new.log)
  <2>1. conn.txn = 0 => View = file
    BY ViewTyped DEF Locks
  <2> QED
    BY <1>1, <1>3, <2>1 DEF Written, Quiet
<1> QED
  BY <1>1, <1>2, <1>3

LEMMA RefusedEffect ==
    ASSUME Types, Locks, Apply(Refused), other' = other
    PROVE  Keeps /\ Quiet /\ ~Refused.ok
  BY DEF Types, Apply, Refused, Result, Keeps, Quiet, Locks, View

(* SQL that a client sends, and the SQL of a route.                         *)
SqlOutcome(op, id, ok) ==
    \/ Quiet /\ (op = "insert" => ~ok)
    \/ ok /\ op = "insert" /\ Written(View.log \cup {id})
    \/ op = "begin" /\ Begun(id)
    \/ op = "commit" /\ Committed
    \/ op = "rollback" /\ RolledBack

RouteOutcome(handler, id, ok, surely) ==
    \/ Quiet /\ (handler = "insert" /\ ok => ~surely /\ conn.txn = 0)
    \/ ok /\ handler = "insert" /\ Written(View.log \cup {id})

LEMMA QueryEffect ==
    ASSUME Types, Locks, NEW stmt, NEW id \in Nat, id # 0,
           stmt.op = "add" => stmt.row \in Routes,
           Apply(query(stmt, id)), other' = other
    PROVE  Keeps /\ SqlOutcome(stmt.op, id, query(stmt, id).ok)
<1> DEFINE q == query(stmt, id)
<1>1. CASE stmt.op = "begin"
  <2>1. q = Begin(id)
    BY <1>1 DEF query
  <2> QED
    BY <1>1, <2>1, BeginEffect DEF SqlOutcome
<1>2. CASE stmt.op = "commit"
  <2>1. q = Commit
    BY <1>2 DEF query
  <2> QED
    BY <1>2, <2>1, CommitEffect DEF SqlOutcome
<1>3. CASE stmt.op = "rollback"
  <2>1. q = Rollback
    BY <1>3 DEF query
  <2> QED
    BY <1>3, <2>1, RollbackEffect DEF SqlOutcome
<1>4. CASE stmt.op = "insert"
  <2>1. q = Changed(Logged(id), TRUE)
    BY <1>4 DEF query
  <2>2. Keeps /\ Insertion(id, q.ok, TRUE)
    BY <2>1, InsertEffect
  <2> QED
    BY <1>4, <2>2 DEF SqlOutcome, Insertion
<1>5. CASE stmt.op = "select"
  <2>1. q = Read
    BY <1>5 DEF query
  <2> QED
    BY <1>5, <2>1, ReadEffect DEF SqlOutcome
<1>6. CASE stmt.op = "add" /\ HasColumns(stmt.row)
  <2>1. q = Changed(WithRow(stmt.row), TRUE)
    BY <1>6 DEF query
  <2>2. WithRow(stmt.row) \in FileT /\ WithRow(stmt.row).log = View.log
    BY <1>6, NewTyped
  <2> QED
    BY <1>6, <2>1, <2>2, TableEffect DEF SqlOutcome
<1>7. CASE stmt.op \notin {"begin", "commit", "rollback", "insert", "select"}
           /\ ~(stmt.op = "add" /\ HasColumns(stmt.row))
  <2>1. q = Refused
    BY <1>7 DEF query
  <2> QED
    BY <1>7, <2>1, RefusedEffect DEF SqlOutcome
<1> QED
  BY <1>1, <1>2, <1>3, <1>4, <1>5, <1>6, <1>7

LEMMA NamedEffect ==
    ASSUME Types, Locks, NEW handler, NEW id \in Nat, id # 0,
           Apply(query_named(handler, id)), other' = other
    PROVE  Keeps /\ RouteOutcome(handler, id, query_named(handler, id).ok, TRUE)
<1> DEFINE q == query_named(handler, id)
<1>1. CASE handler = "insert"
  <2>1. q = Changed(Logged(id), TRUE)
    BY <1>1 DEF query_named
  <2>2. Keeps /\ Insertion(id, q.ok, TRUE)
    BY <2>1, InsertEffect
  <2> QED
    BY <1>1, <2>2 DEF RouteOutcome, Insertion
<1>2. CASE handler \in {"select", "status"}
  <2>1. q = Read
    BY <1>2 DEF query_named
  <2> QED
    BY <1>2, <2>1, ReadEffect DEF RouteOutcome
<1>3. CASE handler \notin {"insert", "select", "status"}
  <2>1. q = Refused
    BY <1>3 DEF query_named
  <2> QED
    BY <1>3, <2>1, RefusedEffect DEF RouteOutcome
<1> QED
  BY <1>1, <1>2, <1>3

LEMMA BlobEffect ==
    ASSUME Types, Locks, NEW handler, NEW id \in Nat, id # 0,
           Apply(query_blob_named(handler, id)), other' = other
    PROVE  Keeps /\ RouteOutcome(handler, id, query_blob_named(handler, id).ok, FALSE)
<1> DEFINE q == query_blob_named(handler, id)
<1>1. CASE handler = "insert"
  <2>1. q = Changed(Logged(id), FALSE)
    BY <1>1 DEF query_blob_named
  <2>2. Keeps /\ Insertion(id, q.ok, FALSE)
    BY <2>1, InsertEffect
  <2> QED
    BY <1>1, <2>2 DEF RouteOutcome, Insertion
<1>2. CASE handler \in {"select", "none"}
  <2>1. q = Read
    BY <1>2 DEF query_blob_named
  <2> QED
    BY <1>2, <2>1, ReadEffect DEF RouteOutcome
<1>3. CASE handler \notin {"insert", "select", "none"}
  <2>1. q = Refused
    BY <1>3 DEF query_blob_named
  <2> QED
    BY <1>3, <2>1, RefusedEffect DEF RouteOutcome
<1> QED
  BY <1>1, <1>2, <1>3

-----------------------------------------------------------------------------
(* Steps of the requests: one that is in flight may be answered, any may be *)
(* dropped, and none changes its number.                                    *)
Moves ==
    \A d \in Clients :
        \/ task'[d] = task[d]
        \/ task'[d].pc = "idle"
        \/ InFlight(task[d]) /\ task'[d].pc # "idle" /\ task'[d].id = task[d].id

Failing == {400, 404, 422, 500}

LEMMA MovesNumbers ==
    ASSUME Numbers, Moves, sent' = sent, NEW n \in 0..sent, Used' \subseteq Used \cup {n},
           \A d \in Clients : InFlight(task'[d]) => task[d].id # n
    PROVE  Numbers'
<1>1. \A d \in Clients : task'[d].pc # "idle" => task[d].pc # "idle" /\ task'[d].id = task[d].id
  BY DEF Moves, InFlight
<1>2. \A d \in Clients : InFlight(task'[d]) => InFlight(task[d]) /\ task'[d].id = task[d].id
  BY DEF Moves, InFlight
<1>3. Used' \subseteq 0..sent'
  BY DEF Numbers
<1>4. \A d \in Clients : InFlight(task'[d]) => task'[d].id \notin Used'
  BY <1>2 DEF Numbers
<1>5. \A d \in Clients : task'[d].pc # "idle" => task'[d].id \in 1..sent'
  BY <1>1 DEF Numbers
<1>6. \A c, d \in Clients :
         c # d /\ task'[c].pc # "idle" /\ task'[d].pc # "idle" => task'[c].id # task'[d].id
  BY <1>1 DEF Numbers
<1> QED
  BY <1>3, <1>4, <1>5, <1>6 DEF Numbers, InFlight

LEMMA MovesFailing ==
    ASSUME FailedLeavesNothing, Numbers, Moves, NEW n \in 0..sent, View'.log \subseteq View.log \cup {n},
           \A d \in Clients : task'[d].pc = "answered" /\ task'[d].id = n =>
               task'[d].status \notin Failing \/ OwnStatus(task'[d])
    PROVE  FailedLeavesNothing'
<1> SUFFICES ASSUME NEW d \in Clients, task'[d].pc = "answered", task'[d].status \in Failing,
                    ~OwnStatus(task'[d]), task'[d].id # n
             PROVE  task'[d].id \notin View'.log
  BY DEF FailedLeavesNothing, Failing, OwnStatus
<1>1. CASE task'[d] = task[d]
  <2>1. task[d].id \notin View.log
    BY <1>1 DEF FailedLeavesNothing, Failing
  <2> QED
    BY <1>1, <2>1
<1>2. CASE InFlight(task[d]) /\ task'[d].id = task[d].id
  <2>1. task[d].id \notin View.log
    BY <1>2 DEF Numbers, Used
  <2> QED
    BY <1>2, <2>1
<1> QED
  BY <1>1, <1>2 DEF Moves

LEMMA NoneIsZero ==
    ASSUME WriteInv, Moves
    PROVE  /\ 0 \in 0..sent
           /\ \A d \in Clients : task'[d].pc # "idle" => task[d].id # 0 /\ task'[d].id # 0
<1>1. 0 \in 0..sent /\ \A d \in Clients : task[d].pc # "idle" => task[d].id # 0
  BY DEF WriteInv, Types, Numbers
<1> QED
  BY <1>1 DEF Moves, InFlight

(* A step that is quiet.                                                    *)
LEMMA QuietKeeps ==
    ASSUME WriteInv, Types', Locks', Moves, sent' = sent, Quiet, acked' = acked, undone' = undone
    PROVE  WriteInv'
<1>1. Numbers'
  <2>1. Used' = Used
    BY DEF Quiet, Used
  <2>2. 0 \in 0..sent /\ \A d \in Clients : InFlight(task'[d]) => task[d].id # 0
    BY NoneIsZero DEF InFlight
  <2>3. Used' \subseteq Used \cup {0}
    BY <2>1
  <2> QED
    BY <2>2, <2>3, MovesNumbers DEF WriteInv
<1>2. FailedLeavesNothing'
  <2>1. View'.log \subseteq View.log \cup {0}
    BY DEF Quiet
  <2> QED
    BY <2>1, NoneIsZero, MovesFailing DEF WriteInv
<1>3. Fates'
  BY DEF WriteInv, Fates, Quiet, Waits, TakenBack, Kept
<1> QED
  BY <1>1, <1>2, <1>3 DEF WriteInv

(* The request of c is answered.                                            *)
Served(c) ==
    /\ InFlight(task[c]) /\ task'[c].pc = "answered" /\ task'[c].id = task[c].id
    /\ \A d \in Clients \ {c} : task'[d] = task[d]

LEMMA ServedMoves ==
    ASSUME NEW c \in Clients, Served(c), WriteInv
    PROVE  /\ Moves /\ task[c].id \in 1..sent /\ task[c].id \notin Used
           /\ \A d \in Clients : InFlight(task'[d]) => d # c /\ task[d].id # task[c].id
           /\ \A d \in Clients : task'[d].pc = "answered" /\ task'[d].id = task[c].id => d = c
<1>1. task[c].id \in 1..sent /\ task[c].id \notin Used /\ task[c].pc # "idle"
  BY DEF Served, WriteInv, Numbers, InFlight
<1>2. \A d \in Clients : d # c => task'[d] = task[d]
  BY DEF Served
<1>3. \A d \in Clients : InFlight(task'[d]) => d # c /\ task[d].id # task[c].id
  BY <1>1, <1>2 DEF Served, WriteInv, Numbers, InFlight
<1>4. \A d \in Clients : task'[d].pc = "answered" /\ task'[d].id = task[c].id => d = c
  BY <1>1, <1>2 DEF Served, WriteInv, Numbers
<1>5. Moves
  BY <1>2 DEF Moves, Served
<1> QED
  BY <1>1, <1>3, <1>4, <1>5

(* ... after its write.                                                     *)
LEMMA WrittenKeeps ==
    ASSUME WriteInv, Types', Locks', NEW c \in Clients, Served(c), sent' = sent,
           Written(View.log \cup {task[c].id}),
           NEW kind, acked' = acked \cup {[id |-> task[c].id, txn |-> conn'.txn, kind |-> kind]},
           undone' = undone, task'[c].status \notin Failing \/ OwnStatus(task'[c])
    PROVE  WriteInv'
<1> DEFINE n == task[c].id  new == [id |-> n, txn |-> conn.txn, kind |-> kind]
<1>1. /\ Moves /\ n \in 1..sent /\ n \notin Used
      /\ \A d \in Clients : InFlight(task'[d]) => task[d].id # n
      /\ \A d \in Clients : task'[d].pc = "answered" /\ task'[d].id = n => d = c
  BY ServedMoves
<1>2. View'.log = View.log \cup {n} /\ conn'.txn = conn.txn /\ acked' = acked \cup {new}
  BY DEF Written
<1>3. Numbers'
  <2>1. Used' \subseteq Used \cup {n}
    BY <1>2 DEF Used
  <2>2. n \in 0..sent
    BY <1>1
  <2> QED
    BY <1>1, <2>1, <2>2, MovesNumbers DEF WriteInv
<1>4. FailedLeavesNothing'
  <2>1. View'.log \subseteq View.log \cup {n} /\ n \in 0..sent
    BY <1>1, <1>2
  <2> QED
    BY <1>1, <2>1, MovesFailing DEF WriteInv
<1>5. Fates'
  <2>1. ASSUME NEW a \in acked
        PROVE  IF a.txn # 0 THEN Waits(a)' \/ TakenBack(a)' \/ Kept(a)'
                            ELSE a.id \in file'.log \/ a.kind = "blob"
    <3>1. a.id # n
      BY <1>1 DEF Used
    <3>2. a.id \in file'.log <=> a.id \in IF conn.txn = 0 THEN View.log ELSE file.log
      BY <3>1 DEF Written
    <3>3. a.id \in View'.log <=> a.id \in View.log
      BY <1>2, <3>1
    <3>4. conn.txn = 0 => View = file
      BY ViewTyped DEF WriteInv, Locks
    <3> QED
      BY <1>2, <3>2, <3>3, <3>4 DEF WriteInv, Fates, Waits, TakenBack, Kept
  <2>2. ASSUME NEW a, a = new
        PROVE  IF a.txn # 0 THEN Waits(a)' ELSE a.id \in file'.log
    <3>1. a.id = n /\ a.txn = conn.txn
      BY <2>2
    <3>2. n \in View'.log
      BY <1>2
    <3>3. conn.txn = 0 => n \in file'.log
      BY DEF Written
    <3>4. conn.txn # 0 => n \notin file'.log
      <4>1. conn.txn # 0 => file'.log = file.log
        BY DEF Written
      <4> QED
        BY <1>1, <4>1, ViewTyped DEF WriteInv, Used
    <3>5. conn.txn \notin undone'
      BY DEF WriteInv, Fates
    <3> QED
      BY <1>2, <3>1, <3>2, <3>3, <3>4, <3>5 DEF Waits
  <2>3. conn'.txn \notin undone' /\ 0 \notin undone'
    BY <1>2 DEF WriteInv, Fates
  <2> HIDE DEF new
  <2>4. \A a \in acked' : IF a.txn # 0 THEN Waits(a)' \/ TakenBack(a)' \/ Kept(a)'
                           ELSE a.id \in file'.log \/ a.kind = "blob"
    BY <1>2, <2>1, <2>2
  <2> QED
    BY <2>3, <2>4 DEF Fates
<1> QED
  BY <1>3, <1>4, <1>5 DEF WriteInv

(* ... by a blob route, before the commit of its own that may fail.         *)
LEMMA UnsureKeeps ==
    ASSUME WriteInv, Types', Locks', NEW c \in Clients, Served(c), sent' = sent,
           Quiet, conn.txn = 0,
           acked' = acked \cup {[id |-> task[c].id, txn |-> conn'.txn, kind |-> "blob"]},
           undone' = undone
    PROVE  WriteInv'
<1> DEFINE n == task[c].id  new == [id |-> n, txn |-> conn.txn, kind |-> "blob"]
<1>1. /\ Moves /\ n \in 1..sent /\ n \notin Used
      /\ \A d \in Clients : InFlight(task'[d]) => task[d].id # n
  BY ServedMoves
<1>2. Numbers'
  <2>1. Used' \subseteq Used \cup {n}
    BY DEF Used, Quiet
  <2>2. n \in 0..sent
    BY <1>1
  <2> QED
    BY <1>1, <2>1, <2>2, MovesNumbers DEF WriteInv
<1>3. FailedLeavesNothing'
  <2>1. View'.log \subseteq View.log \cup {0}
    BY DEF Quiet
  <2> QED
    BY <1>1, <2>1, NoneIsZero, MovesFailing DEF WriteInv
<1>4. new.txn = 0 /\ new.kind = "blob" /\ acked' = acked \cup {new}
  BY DEF Quiet
<1>5. Fates'
  <2> HIDE DEF new
  <2>1. ASSUME NEW a \in acked
        PROVE  IF a.txn # 0 THEN Waits(a)' \/ TakenBack(a)' \/ Kept(a)'
                            ELSE a.id \in file'.log \/ a.kind = "blob"
    BY DEF WriteInv, Fates, Quiet, Waits, TakenBack, Kept
  <2>2. \A a \in acked' : IF a.txn # 0 THEN Waits(a)' \/ TakenBack(a)' \/ Kept(a)'
                           ELSE a.id \in file'.log \/ a.kind = "blob"
    BY <1>4, <2>1
  <2>3. conn'.txn \notin undone' /\ 0 \notin undone'
    BY DEF Quiet, WriteInv, Fates
  <2> QED
    BY <2>2, <2>3 DEF Fates
<1> QED
  BY <1>2, <1>3, <1>5 DEF WriteInv

(* ... after its BEGIN: the transaction has the number of the request.      *)
LEMMA BegunKeeps ==
    ASSUME WriteInv, Types', Locks', NEW c \in Clients, Served(c), sent' = sent,
           Begun(task[c].id), acked' = acked, undone' = undone
    PROVE  WriteInv'
<1> DEFINE n == task[c].id
<1>1. /\ Moves /\ n \in 1..sent /\ n \notin Used
      /\ \A d \in Clients : InFlight(task'[d]) => task[d].id # n
  BY ServedMoves
<1>2. Numbers'
  <2>1. Used' \subseteq Used \cup {n}
    BY DEF Used, Begun
  <2>2. n \in 0..sent
    BY <1>1
  <2> QED
    BY <1>1, <2>1, <2>2, MovesNumbers DEF WriteInv
<1>3. FailedLeavesNothing'
  <2>1. View'.log \subseteq View.log \cup {0}
    BY DEF Begun
  <2> QED
    BY <1>1, <2>1, NoneIsZero, MovesFailing DEF WriteInv
<1>4. Fates'
  <2>1. n \notin undone /\ \A a \in acked : a.txn # n
    BY <1>1 DEF Used
  <2> QED
    BY <2>1 DEF WriteInv, Fates, Begun, Waits, TakenBack, Kept
<1> QED
  BY <1>2, <1>3, <1>4 DEF WriteInv

(* The transaction is committed: what waited is kept.                       *)
LEMMA CommittedKeeps ==
    ASSUME WriteInv, Types', Locks', Moves, sent' = sent,
           Committed, acked' = acked, undone' = undone
    PROVE  WriteInv'
<1>1. 0 \in 0..sent /\ \A d \in Clients : InFlight(task'[d]) => task[d].id # 0
  BY NoneIsZero DEF InFlight
<1>2. Numbers'
  <2>1. Used' \subseteq Used \cup {0}
    BY DEF Used, Committed
  <2> QED
    BY <1>1, <2>1, MovesNumbers DEF WriteInv
<1>3. FailedLeavesNothing'
  <2>1. View'.log \subseteq View.log \cup {0}
    BY DEF Committed
  <2> QED
    BY <2>1, NoneIsZero, MovesFailing DEF WriteInv
<1>4. Fates'
  <2>1. file.log \subseteq View.log /\ undone \subseteq Nat
    BY ViewTyped DEF WriteInv, Types
  <2>2. 0 \notin undone
    BY DEF WriteInv, Fates
  <2> QED
    BY <2>1, <2>2 DEF WriteInv, Fates, Committed, Waits, TakenBack, Kept
<1> QED
  BY <1>2, <1>3, <1>4 DEF WriteInv

(* It is taken back, by ROLLBACK or with the end of the server.             *)
LEMMA RolledBackKeeps ==
    ASSUME WriteInv, Types', Locks', Moves, sent' = sent,
           RolledBack, acked' = acked, undone' = undone \cup {conn.txn}
    PROVE  WriteInv'
<1>0. file.log \subseteq View.log
  BY ViewTyped DEF WriteInv
<1>1. 0 \in 0..sent /\ \A d \in Clients : InFlight(task'[d]) => task[d].id # 0
  BY NoneIsZero DEF InFlight
<1>2. Numbers'
  <2>1. Used' \subseteq Used \cup {0}
    BY <1>0 DEF Used, RolledBack
  <2> QED
    BY <1>1, <2>1, MovesNumbers DEF WriteInv
<1>3. FailedLeavesNothing'
  <2>1. View'.log \subseteq View.log \cup {0}
    BY <1>0 DEF RolledBack
  <2> QED
    BY <2>1, NoneIsZero, MovesFailing DEF WriteInv
<1>4. Fates'
  <2>1. 0 \notin undone'
    BY DEF WriteInv, Fates, RolledBack
  <2> QED
    BY <1>0, <2>1 DEF WriteInv, Fates, RolledBack, Waits, TakenBack, Kept
<1> QED
  BY <1>2, <1>3, <1>4 DEF WriteInv

(* A new request arrives.                                                   *)
LEMMA SentKeeps ==
    ASSUME WriteInv, Types', Locks', NEW c \in Clients, sent' = sent + 1,
           task'[c].pc = "arrived", task'[c].id = sent + 1,
           \A d \in Clients \ {c} : task'[d] = task[d],
           Quiet, acked' = acked, undone' = undone
    PROVE  WriteInv'
<1>1. sent \in Nat
  BY DEF WriteInv, Types
<1>2. Used' = Used
  BY DEF Quiet, Used
<1>3. Numbers'
  <2>1. Used' \subseteq 0..sent' /\ sent + 1 \notin Used'
    BY <1>1, <1>2 DEF WriteInv, Numbers
  <2>2. \A d \in Clients : task'[d].pc # "idle" => task'[d].id \in 1..sent'
    BY <1>1 DEF WriteInv, Numbers
  <2>3. \A d \in Clients : InFlight(task'[d]) => task'[d].id \notin Used'
    BY <1>2, <2>1 DEF WriteInv, Numbers
  <2>4. \A d, e \in Clients :
           d # e /\ task'[d].pc # "idle" /\ task'[e].pc # "idle" => task'[d].id # task'[e].id
    BY <1>1 DEF WriteInv, Numbers
  <2> QED
    BY <2>1, <2>2, <2>3, <2>4 DEF Numbers, InFlight
<1>4. FailedLeavesNothing'
  BY DEF WriteInv, FailedLeavesNothing, Quiet, OwnStatus
<1>5. Fates'
  BY DEF WriteInv, Fates, Quiet, Waits, TakenBack, Kept
<1> QED
  BY <1>3, <1>4, <1>5 DEF WriteInv

-----------------------------------------------------------------------------
(* The tasks after an answer, and after a route is found.                   *)
AnsweredWith(c, by, status) ==
    /\ task' \in [Clients -> TaskT] /\ Served(c)
    /\ \A d \in Clients : task'[d].pc # "idle" => task'[d].req \in Requests[d]
    /\ task'[c].by = by /\ task'[c].status = status

LEMMA AnswerTyped ==
    ASSUME Types, NEW c \in Clients, InFlight(task[c]), NEW by \in Answers,
           NEW status \in Codes, Answer(c, by, status)
    PROVE  AnsweredWith(c, by, status)
<1>1. task \in [Clients -> TaskT] /\ task[c] \in TaskT /\ task[c].pc # "idle"
  BY DEF Types, InFlight
<1>2. task' = [task EXCEPT ![c] = [task[c] EXCEPT !.pc = "answered", !.by = by, !.status = status]]
  BY DEF Answer
<1>3. [task[c] EXCEPT !.pc = "answered", !.by = by, !.status = status] \in TaskT
  <2>1. "answered" \in Places /\ status \in Statuses
    BY DEF Places, Statuses
  <2> QED
    BY <1>1, <2>1 DEF TaskT
<1>4. task' \in [Clients -> TaskT] /\ \A d \in Clients \ {c} : task'[d] = task[d]
  BY <1>1, <1>2, <1>3
<1>5. /\ task'[c].pc = "answered" /\ task'[c].id = task[c].id /\ task'[c].req = task[c].req
      /\ task'[c].by = by /\ task'[c].status = status
  BY <1>1, <1>2 DEF TaskT
<1> QED
  BY <1>1, <1>4, <1>5 DEF Types, Served, AnsweredWith

LEMMA AwaitTyped ==
    ASSUME Types, NEW c \in Clients, InFlight(task[c]), NEW m \in Matches, Await(c, m)
    PROVE  /\ task' \in [Clients -> TaskT]
           /\ \A d \in Clients : task'[d].pc # "idle" => task'[d].req \in Requests[d]
           /\ task'[c].pc = "body" /\ task'[c].id = task[c].id /\ task'[c].match = m
           /\ task'[c].req = task[c].req
           /\ \A d \in Clients \ {c} : task'[d] = task[d]
<1>1. task \in [Clients -> TaskT] /\ task[c] \in TaskT /\ task[c].pc # "idle"
  BY DEF Types, InFlight
<1>2. task' = [task EXCEPT ![c] = [task[c] EXCEPT !.pc = "body", !.match = m]]
  BY DEF Await
<1>3. [task[c] EXCEPT !.pc = "body", !.match = m] \in TaskT
  <2>1. "body" \in Places
    BY DEF Places
  <2> QED
    BY <1>1, <2>1 DEF TaskT
<1>4. task' \in [Clients -> TaskT] /\ \A d \in Clients \ {c} : task'[d] = task[d]
  BY <1>1, <1>2, <1>3
<1>5. /\ task'[c].pc = "body" /\ task'[c].id = task[c].id /\ task'[c].req = task[c].req
      /\ task'[c].match = m
  BY <1>1, <1>2 DEF TaskT
<1> QED
  BY <1>1, <1>4, <1>5 DEF Types

LEMMA StatusTyped ==
    ASSUME NEW n, NEW default \in Codes
    PROVE  StatusCode(n, default) \in Codes
  BY DEF StatusCode, Codes

(* A route is a route, and is not the absence of one when it has a handler. *)
LEMMA RoutesTyped ==
    ASSUME NEW m \in Routes
    PROVE  /\ m.kind \in {"sql", "static", "wasm", "blob"} /\ m \in Answers
           /\ m.status \in Int /\ m.priority \in Int /\ Length[m.pattern] \in Int
  BY HttpdAssumption DEF Answers

LEMMA BuiltinTyped == NoRoute \in Answers /\ \A p \in {"/health", "/sql", "/tables", "/schema/t"} : Builtin(p) \in Answers
  BY DEF NoRoute, Builtin, Answers

(* What a served request changes besides.                                   *)
Around == sent' = sent /\ other' = other /\ server' = server

LEMMA SqlKeeps ==
    ASSUME WriteInv, NEW c \in Clients, InFlight(task[c]), Around,
           NEW stmt, stmt.op = "add" => stmt.row \in Routes,
           stmt = task[c].req.stmt \/ stmt.op = "select",
           NEW by \in Answers, NEW inserts \in BOOLEAN, inserts <=> stmt.op = "insert",
           Serve(c, by, "sql", inserts, run_sql(stmt, task[c].id))
    PROVE  WriteInv' /\ conn' \in ConnT
<1> DEFINE id == task[c].id  q == query(stmt, id)  status == IF q.ok THEN 200 ELSE 422
<1>1. /\ Apply(q) /\ Answer(c, by, status)
      /\ acked' = IF inserts /\ q.ok THEN acked \cup {[id |-> id, txn |-> q.conn.txn, kind |-> "sql"]}
                  ELSE acked
      /\ undone' = IF conn.open /\ ~q.conn.open /\ task[c].req.stmt.op = "rollback"
                   THEN undone \cup {conn.txn} ELSE undone
  BY DEF Serve, run_sql
<1>2. Types /\ Locks /\ id \in Nat /\ id # 0 /\ status \in Codes
  BY DEF WriteInv, Numbers, InFlight, Types, Codes
<1> HIDE DEF status
<1>3. Keeps /\ SqlOutcome(stmt.op, id, q.ok)
  BY <1>1, <1>2, QueryEffect DEF Around
<1>4. /\ task' \in [Clients -> TaskT] /\ Served(c)
      /\ \A d \in Clients : task'[d].pc # "idle" => task'[d].req \in Requests[d]
      /\ task'[c].by = by /\ task'[c].status = status
  <2>1. AnsweredWith(c, by, status)
    BY <1>1, <1>2, AnswerTyped
  <2> QED
    BY <2>1 DEF AnsweredWith
<1>5. q.conn = conn'
  BY <1>1 DEF Apply
<1>6. Types'
  <2>1. acked' \subseteq AckT
    BY <1>1, <1>2, <1>3, <1>5 DEF Types, Keeps, AckT, ConnT
  <2>2. undone' \subseteq Nat
    BY <1>1, <1>2 DEF Types, ConnT
  <2> QED
    BY <1>2, <1>3, <1>4, <2>1, <2>2 DEF Types, Keeps, Around
<1>7. Moves /\ Locks' /\ sent' = sent
  BY <1>3, <1>4, ServedMoves DEF Keeps, Around
<1>8. /\ conn.open <=> conn.txn # 0
      /\ conn'.open <=> conn'.txn # 0
  BY <1>2, <1>7 DEF Locks
<1> HIDE DEF q, status
<1>9. CASE Quiet /\ (stmt.op = "insert" => ~q.ok)
  <2>1. acked' = acked /\ undone' = undone
    BY <1>1, <1>5, <1>8, <1>9 DEF Quiet
  <2> QED
    BY <1>3, <1>6, <1>7, <1>9, <2>1, QuietKeeps DEF Keeps
<1>10. CASE q.ok /\ stmt.op = "insert" /\ Written(View.log \cup {id})
  <2>1. /\ acked' = acked \cup {[id |-> id, txn |-> conn'.txn, kind |-> "sql"]}
        /\ undone' = undone
    BY <1>1, <1>5, <1>8, <1>10 DEF Written
  <2>2. task'[c].status \notin Failing
    BY <1>4, <1>10 DEF status, Failing
  <2> QED
    BY <1>3, <1>4, <1>6, <1>7, <1>10, <2>1, <2>2, WrittenKeeps DEF Keeps
<1>11. CASE stmt.op = "begin" /\ Begun(id)
  <2>1. acked' = acked /\ undone' = undone
    BY <1>1, <1>5, <1>8, <1>11 DEF Begun
  <2> QED
    BY <1>3, <1>4, <1>6, <1>7, <1>11, <2>1, BegunKeeps DEF Keeps
<1>12. CASE stmt.op = "commit" /\ Committed
  <2>1. acked' = acked /\ undone' = undone
    BY <1>1, <1>12
  <2> QED
    BY <1>3, <1>6, <1>7, <1>12, <2>1, CommittedKeeps DEF Keeps
<1>13. CASE stmt.op = "rollback" /\ RolledBack
  <2>1. acked' = acked /\ undone' = undone \cup {conn.txn}
    BY <1>1, <1>5, <1>8, <1>13 DEF RolledBack
  <2> QED
    BY <1>3, <1>6, <1>7, <1>13, <2>1, RolledBackKeeps DEF Keeps
<1> QED
  BY <1>3, <1>9, <1>10, <1>11, <1>12, <1>13 DEF SqlOutcome

(* What the answer of a route gives its client.                             *)
LEMMA StatusOfAnswer ==
    ASSUME NEW m \in Routes
    PROVE  /\ build_response(m) \in Codes /\ StatusCode(m.status, 200) \in Codes
           /\ m.handler = "insert" => build_response(m) = 204
           /\ \A r \in HostDispatcher_dispatch(m.handler) : r \in Codes
<1>1. 200 \in Codes /\ 204 \in Codes /\ 418 \in Codes /\ 500 \in Codes
  BY DEF Codes
<1>2. StatusCode(m.status, 200) \in Codes
  BY <1>1, StatusTyped
<1>3. StatusCode(418, StatusCode(m.status, 200)) \in Codes
  BY <1>2, StatusTyped
<1> QED
  BY <1>1, <1>2, <1>3 DEF build_response, HostDispatcher_dispatch

OwnOrNone(m, status) ==
    status \notin Failing \/ (m.kind = "blob" /\ status = StatusCode(m.status, 200))

LEMMA RouteKeeps ==
    ASSUME WriteInv, NEW c \in Clients, InFlight(task[c]), Around, NEW m \in Routes,
           NEW out \in execute(m, task[c].id),
           Serve(c, m, m.kind, m.kind \in {"sql", "blob"} /\ m.handler = "insert", out)
    PROVE  WriteInv' /\ conn' \in ConnT
<1> DEFINE id == task[c].id
           told == m.kind \in {"sql", "blob"} /\ m.handler = "insert" /\ out.res.ok
<1>1. /\ Apply(out.res) /\ Answer(c, m, out.status)
      /\ acked' = IF told THEN acked \cup {[id |-> id, txn |-> out.res.conn.txn, kind |-> m.kind]}
                  ELSE acked
      /\ undone' = IF conn.open /\ ~out.res.conn.open /\ task[c].req.stmt.op = "rollback"
                   THEN undone \cup {conn.txn} ELSE undone
  BY DEF Serve
<1>2. Types /\ Locks /\ id \in Nat /\ id # 0
  BY DEF WriteInv, Numbers, InFlight, Types
<1>3. m.kind \in {"sql", "static", "wasm", "blob"} /\ m \in Answers
  BY RoutesTyped
<1>4. /\ Keeps /\ out.status \in Codes
      /\ \/ Quiet /\ (told => m.kind = "blob" /\ conn.txn = 0)
         \/ /\ told /\ Written(View.log \cup {id})
            /\ OwnOrNone(m, out.status)
  <2>1. CASE m.kind = "static"
    <3>0. out = execute_static(m)
      BY <2>1 DEF execute
    <3>1. out.res = Result(TRUE, conn, file) /\ out.status = StatusCode(m.status, 200)
      BY <3>0 DEF execute_static
    <3>2. Keeps /\ Quiet
      BY <1>1, <1>2, <3>1 DEF Apply, Result, Keeps, Quiet, Types, Locks, Around, View
    <3> QED
      BY <2>1, <3>1, <3>2, StatusOfAnswer
  <2>2. CASE m.kind = "wasm"
    <3>0. out \in execute_wasm(m)
      BY <2>2 DEF execute
    <3>1. out.res = Result(TRUE, conn, file) /\ out.status \in HostDispatcher_dispatch(m.handler)
      <4>1. PICK s \in HostDispatcher_dispatch(m.handler) :
                out = [res |-> Result(TRUE, conn, file), status |-> s]
        BY Zenon, <3>0 DEF execute_wasm
      <4> QED
        BY <4>1
    <3>2. Keeps /\ Quiet
      BY <1>1, <1>2, <3>1 DEF Apply, Result, Keeps, Quiet, Types, Locks, Around, View
    <3> QED
      BY <2>2, <3>1, <3>2, StatusOfAnswer
  <2>3. CASE m.kind = "sql"
    <3> DEFINE q == query_named(m.handler, id)
    <3>0. out = execute_sql(m, id)
      BY <2>3 DEF execute
    <3>1. out.res = q /\ out.status = IF q.ok THEN build_response(m) ELSE 500
      BY <3>0 DEF execute_sql
    <3>2. Keeps /\ RouteOutcome(m.handler, id, q.ok, TRUE)
      <4>1. Apply(q) /\ other' = other
        BY <1>1, <3>1 DEF Around
      <4> QED
        BY Zenon, <1>2, <4>1, NamedEffect
    <3>3. out.status \in Codes
      <4>1. 500 \in Codes
        BY DEF Codes
      <4> QED
        BY <3>1, <4>1, StatusOfAnswer
    <3>4. told => out.status = 204
      BY <3>1, StatusOfAnswer
    <3>5. 204 \notin Failing
      BY DEF Failing
    <3> HIDE DEF q
    <3> QED
      BY <2>3, <3>1, <3>2, <3>3, <3>4, <3>5 DEF RouteOutcome, OwnOrNone
  <2>4. CASE m.kind = "blob"
    <3> DEFINE q == query_blob_named(m.handler, id)
    <3>1. /\ out.res = q
          /\ out.status = IF ~q.ok THEN 500
                          ELSE IF m.handler = "none" THEN 404 ELSE StatusCode(m.status, 200)
      <4>1. out = execute_blob(m, id)
        BY <2>4 DEF execute
      <4> QED
        BY <4>1 DEF execute_blob
    <3>2. Keeps /\ RouteOutcome(m.handler, id, q.ok, FALSE)
      <4>1. Apply(q) /\ other' = other
        BY <1>1, <3>1 DEF Around
      <4> QED
        BY Zenon, <1>2, <4>1, BlobEffect
    <3>3. out.status \in Codes
      <4>1. 500 \in Codes /\ 404 \in Codes
        BY DEF Codes
      <4> QED
        BY <3>1, <4>1, StatusOfAnswer
    <3>4. told => out.status = StatusCode(m.status, 200)
      BY <3>1
    <3> HIDE DEF q
    <3> QED
      BY <2>4, <3>1, <3>2, <3>3, <3>4 DEF RouteOutcome, OwnOrNone
  <2> QED
    BY <1>3, <2>1, <2>2, <2>3, <2>4
<1>5. AnsweredWith(c, m, out.status)
  BY <1>1, <1>2, <1>3, <1>4, AnswerTyped
<1>6. /\ out.res.conn = conn' /\ Locks' /\ sent' = sent /\ Served(c)
      /\ task'[c].by = m /\ task'[c].status = out.status
  BY <1>1, <1>4, <1>5 DEF Apply, Keeps, Around, AnsweredWith
<1>7. (conn.open <=> conn.txn # 0) /\ (conn'.open <=> conn'.txn # 0) /\ conn'.txn = conn.txn
  BY <1>2, <1>4, <1>6 DEF Locks, Quiet, Written
<1>8. undone' = undone
  BY <1>1, <1>6, <1>7
<1>9. Types'
  <2>1. acked' \subseteq AckT
    BY <1>1, <1>2, <1>4, <1>6 DEF Types, Keeps, AckT, ConnT
  <2> QED
    BY <1>2, <1>4, <1>5, <1>8, <2>1 DEF Types, Keeps, Around, AnsweredWith
<1>10. Moves
  BY <1>6, ServedMoves
<1>11. CASE Quiet /\ ~told
  <2>1. acked' = acked
    BY <1>1, <1>11
  <2> QED
    BY <1>4, <1>6, <1>8, <1>9, <1>10, <1>11, <2>1, QuietKeeps DEF Keeps
<1>12. CASE Quiet /\ told /\ m.kind = "blob" /\ conn.txn = 0
  <2>1. acked' = acked \cup {[id |-> id, txn |-> conn'.txn, kind |-> "blob"]}
    BY <1>1, <1>6, <1>12
  <2> QED
    BY <1>4, <1>6, <1>8, <1>9, <1>12, <2>1, UnsureKeeps DEF Keeps
<1>13. CASE /\ told /\ Written(View.log \cup {id})
            /\ OwnOrNone(m, out.status)
  <2>1. acked' = acked \cup {[id |-> id, txn |-> conn'.txn, kind |-> m.kind]}
    BY <1>1, <1>6, <1>13
  <2>2. task'[c].status \notin Failing \/ OwnStatus(task'[c])
    BY <1>6, <1>13 DEF OwnStatus, OwnOrNone
  <2> QED
    BY <1>4, <1>6, <1>8, <1>9, <1>13, <2>1, <2>2, WrittenKeeps DEF Keeps
<1> QED
  BY <1>4, <1>11, <1>12, <1>13

-----------------------------------------------------------------------------
(* The transaction is open only while the server serves.                    *)
Startup == server # "serving" => ~conn.open
ServerInv == WriteInv /\ Startup

(* A step of the start-up.                                                  *)
LEMMA StartKeeps ==
    ASSUME ServerInv, NEW r, NEW next \in {"alter", "count", "seed", "serving"},
           server # "serving", StartsWith(r, next), Keeps, Quiet
    PROVE  ServerInv'
<1>1. /\ task' = task /\ sent' = sent /\ acked' = acked /\ undone' = undone /\ other' = other
      /\ server' \in {next, "down"}
  BY DEF StartsWith
<1>2. Types'
  BY <1>1 DEF ServerInv, WriteInv, Types, Keeps
<1>3. WriteInv'
  <2>1. Moves
    BY <1>1 DEF Moves
  <2> QED
    BY <1>1, <1>2, <2>1, QuietKeeps DEF ServerInv, Keeps
<1>4. ~conn'.open
  BY DEF ServerInv, WriteInv, Startup, Locks, Keeps, Quiet
<1> QED
  BY <1>3, <1>4 DEF ServerInv, Startup

LEMMA CreateKeeps == ASSUME ServerInv, init_routes_create PROVE ServerInv'
<1>1. Types /\ Locks
  BY DEF ServerInv, WriteInv
<1>2. server # "serving" /\ other' = other
  BY DEF init_routes_create, StartsWith
<1>3. CASE View.table.schema = "none"
  <2> DEFINE new == [View EXCEPT !.table.schema = "current"]
  <2>1. StartsWith(Changed(new, TRUE), "alter")
    BY <1>3 DEF init_routes_create
  <2>2. new \in FileT /\ new.log = View.log
    BY <1>1, NewTyped
  <2>3. Apply(Changed(new, TRUE))
    BY <2>1 DEF StartsWith
  <2> HIDE DEF new
  <2>4. Keeps /\ Quiet
    BY <1>1, <1>2, <2>2, <2>3, TableEffect
  <2> QED
    BY <1>2, <2>1, <2>4, StartKeeps
<1>4. CASE View.table.schema # "none"
  <2>1. StartsWith(Read, "alter")
    BY <1>4 DEF init_routes_create
  <2>2. Keeps /\ Quiet
    BY <1>1, <1>2, <2>1, ReadEffect DEF StartsWith
  <2> QED
    BY <1>2, <2>1, <2>2, StartKeeps
<1> QED
  BY <1>3, <1>4

(* Whatever the ALTER TABLE says, the start-up goes on.                     *)
LEMMA AlterKeeps == ASSUME ServerInv, init_routes_alter PROVE ServerInv'
<1>1. Types /\ Locks
  BY DEF ServerInv, WriteInv
<1> DEFINE new == [View EXCEPT !.table.schema = "current"]
           q == IF View.table.schema = "legacy" THEN Changed(new, TRUE) ELSE Refused
<1>2. server # "serving" /\ other' = other /\ StartsWith([q EXCEPT !.ok = TRUE], "count")
  BY DEF init_routes_alter, StartsWith
<1>3. new \in FileT /\ new.log = View.log
  BY <1>1, NewTyped
<1> HIDE DEF new
<1>4. [q EXCEPT !.ok = TRUE].conn = q.conn /\ [q EXCEPT !.ok = TRUE].file = q.file
  BY DEF Changed, Refused, Result
<1>5. Apply(q)
  BY <1>2, <1>4 DEF StartsWith, Apply
<1>6. Keeps /\ Quiet
  <2>1. CASE View.table.schema = "legacy"
    BY <1>1, <1>2, <1>3, <1>5, <2>1, TableEffect
  <2>2. CASE View.table.schema # "legacy"
    BY <1>1, <1>2, <1>5, <2>2, RefusedEffect
  <2> QED
    BY <2>1, <2>2
<1> HIDE DEF q
<1> QED
  BY <1>2, <1>6, StartKeeps

LEMMA CountKeeps == ASSUME ServerInv, init_routes_count PROVE ServerInv'
<1> DEFINE next == IF View.table.rows = {} THEN "seed" ELSE "serving"
<1>1. StartsWith(Read, next) /\ server # "serving" /\ next \in {"seed", "serving"}
  BY DEF init_routes_count
<1>2. Keeps /\ Quiet
  BY <1>1, ReadEffect DEF ServerInv, WriteInv, StartsWith
<1> HIDE DEF next
<1> QED
  BY <1>1, <1>2, StartKeeps

LEMMA SeedKeeps == ASSUME ServerInv, init_routes_seed PROVE ServerInv'
<1>1. Types /\ Locks
  BY DEF ServerInv, WriteInv
<1>2. /\ server # "serving" /\ other' = other /\ StartsWith(Changed(WithRow(Hello), TRUE), "serving")
      /\ Apply(Changed(WithRow(Hello), TRUE))
  BY DEF init_routes_seed, StartsWith
<1>3. WithRow(Hello) \in FileT /\ WithRow(Hello).log = View.log
  BY <1>1, NewTyped, HttpdAssumption
<1>4. Keeps /\ Quiet
  BY <1>1, <1>2, <1>3, TableEffect
<1> QED
  BY <1>2, <1>4, StartKeeps

(* The connection is opened.                                                *)
LEMMA OpenKeeps == ASSUME ServerInv, Connection_open PROVE ServerInv'
<1>1. /\ conn' = Closed /\ file' = file /\ other' = other /\ task' = task /\ sent' = sent
      /\ acked' = acked /\ undone' = undone /\ server' = "create" /\ ~conn.open
  BY DEF Connection_open, ServerInv, Startup
<1>2. Types /\ Locks /\ file' \in FileT
  BY <1>1 DEF ServerInv, WriteInv, Types
<1>3. Keeps /\ View' = file' /\ conn'.txn = 0 /\ ~conn'.open
  BY <1>1, <1>2, ClosedLocks
<1>4. Quiet
  BY <1>1, <1>2, <1>3 DEF Quiet, Locks, View
<1>5. Types' /\ Moves
  BY <1>1, <1>2, <1>3 DEF Types, Keeps, Moves
<1> QED
  BY <1>1, <1>3, <1>4, <1>5, QuietKeeps DEF ServerInv, Startup, Keeps

-----------------------------------------------------------------------------
LEMMA IdleTyped == Idle \in TaskT /\ Idle.pc = "idle"
<1>1. [path |-> ""] \in Reqs
  BY DEF Reqs
<1>2. NoRoute \in Matches /\ NoRoute \in Answers /\ 0 \in Statuses /\ "idle" \in Places
  BY BuiltinTyped DEF Matches, Statuses, Places
<1> QED
  BY <1>1, <1>2 DEF Idle, TaskT

(* A step that leaves the database alone.                                   *)
LEMMA SameKeeps ==
    ASSUME WriteInv, conn' = conn, file' = file, other' = other
    PROVE  Keeps /\ Quiet /\ conn' \in ConnT /\ Locks'
  BY DEF WriteInv, Types, Keeps, Quiet, Locks, View

LEMMA SendKeeps ==
    ASSUME ServerInv, NEW c \in Clients, NEW req \in Requests[c], Send(c, req)
    PROVE  ServerInv'
<1>1. /\ server' = server /\ server = "serving" /\ file' = file /\ conn' = conn /\ other' = other
      /\ acked' = acked /\ undone' = undone /\ sent' = sent + 1 /\ sent < MaxRequests
      /\ task' = [task EXCEPT ![c] = [Idle EXCEPT !.pc = "arrived", !.req = req, !.id = sent + 1]]
  BY DEF Send
<1>2. sent \in Nat /\ sent + 1 \in Nat /\ task \in [Clients -> TaskT]
  BY DEF ServerInv, WriteInv, Types
<1>3. /\ [Idle EXCEPT !.pc = "arrived", !.req = req, !.id = sent + 1] \in TaskT
      /\ [Idle EXCEPT !.pc = "arrived", !.req = req, !.id = sent + 1].pc = "arrived"
      /\ [Idle EXCEPT !.pc = "arrived", !.req = req, !.id = sent + 1].req = req
      /\ [Idle EXCEPT !.pc = "arrived", !.req = req, !.id = sent + 1].id = sent + 1
  <2>1. req \in Reqs
    BY Zenon DEF Reqs
  <2>2. "arrived" \in Places
    BY DEF Places
  <2> QED
    BY <1>2, <2>1, <2>2, IdleTyped DEF TaskT
<1>4. /\ task' \in [Clients -> TaskT] /\ task'[c].pc = "arrived" /\ task'[c].id = sent + 1
      /\ task'[c].req = req /\ \A d \in Clients \ {c} : task'[d] = task[d]
  BY <1>1, <1>2, <1>3
<1>5. Keeps /\ Quiet /\ Locks'
  BY <1>1, SameKeeps DEF ServerInv
<1>6. sent' \in 0..MaxRequests
  BY <1>1, <1>2, HttpdAssumption
<1>7. Types'
  BY <1>1, <1>4, <1>5, <1>6 DEF ServerInv, WriteInv, Types, Keeps
<1>8. WriteInv'
  BY <1>1, <1>4, <1>5, <1>7, SentKeeps DEF ServerInv
<1> QED
  BY <1>1, <1>8 DEF ServerInv, Startup

(* The body: it comes, is cut short, or the client is gone.                 *)
LEMMA BodyKeeps ==
    ASSUME ServerInv, NEW c \in Clients, read_body(c)
    PROVE  ServerInv'
<1>1. /\ server' = server /\ server = "serving" /\ file' = file /\ conn' = conn /\ other' = other
      /\ acked' = acked /\ undone' = undone /\ sent' = sent
      /\ task[c].pc = "body"
  BY DEF read_body, Unmoved
<1>2. Types /\ InFlight(task[c]) /\ task \in [Clients -> TaskT] /\ task[c] \in TaskT
  BY <1>1 DEF ServerInv, WriteInv, Types, InFlight
<1>3. Keeps /\ Quiet /\ Locks'
  BY <1>1, SameKeeps DEF ServerInv
<1>4. /\ task' \in [Clients -> TaskT] /\ Moves
      /\ \A d \in Clients : task'[d].pc # "idle" => task'[d].req \in Requests[d]
  <2>1. CASE task' = [task EXCEPT ![c] = [task[c] EXCEPT !.pc = "ready"]]
    <3>1. "ready" \in Places
      BY DEF Places
    <3>2. [task[c] EXCEPT !.pc = "ready"] \in TaskT
      BY <1>2, <3>1 DEF TaskT
    <3>3. task'[c].pc = "ready" /\ task'[c].id = task[c].id /\ task'[c].req = task[c].req
      BY <1>2, <2>1 DEF TaskT
    <3>4. task' \in [Clients -> TaskT] /\ \A d \in Clients \ {c} : task'[d] = task[d]
      BY <1>2, <2>1, <3>2
    <3> QED
      BY <1>1, <1>2, <3>3, <3>4 DEF Types, Moves
  <2>2. CASE Answer(c, NoRoute, 400)
    <3>1. 400 \in Codes /\ NoRoute \in Answers
      BY BuiltinTyped DEF Codes
    <3>2. AnsweredWith(c, NoRoute, 400)
      BY <1>2, <2>2, <3>1, AnswerTyped
    <3> QED
      BY <3>2, ServedMoves DEF AnsweredWith, ServerInv
  <2>3. CASE task' = [task EXCEPT ![c] = Idle]
    <3>1. /\ task' \in [Clients -> TaskT] /\ task'[c].pc = "idle"
          /\ \A d \in Clients \ {c} : task'[d] = task[d]
      BY <1>2, <2>3, IdleTyped
    <3> QED
      BY <1>2, <3>1 DEF Types, Moves
  <2> QED
    BY <2>1, <2>2, <2>3 DEF read_body
<1>5. Types'
  BY <1>1, <1>3, <1>4 DEF ServerInv, WriteInv, Types, Keeps
<1> QED
  BY <1>1, <1>3, <1>4, <1>5, QuietKeeps DEF ServerInv, Startup

LEMMA KillKeeps == ASSUME ServerInv, Kill PROVE ServerInv'
<1>1. /\ server' = "down" /\ conn' = Closed /\ file' = file /\ other' = other /\ sent' = sent
      /\ task' = [c \in Clients |-> Idle] /\ acked' = acked
      /\ undone' = IF conn.open THEN undone \cup {conn.txn} ELSE undone
  BY DEF Kill
<1>2. Types /\ Locks /\ file' \in FileT
  BY <1>1 DEF ServerInv, WriteInv, Types
<1>3. Keeps /\ View' = file' /\ conn'.txn = 0 /\ ~conn'.open
  BY <1>1, <1>2, ClosedLocks
<1>4. task' \in [Clients -> TaskT] /\ \A c \in Clients : task'[c].pc = "idle"
  BY <1>1, IdleTyped
<1>5. Types' /\ Moves
  <2>1. undone' \subseteq Nat
    BY <1>1, <1>2 DEF Types, ConnT
  <2> QED
    BY <1>1, <1>2, <1>3, <1>4, <2>1 DEF Types, Keeps, Moves
<1>6. WriteInv'
  <2>1. CASE conn.open
    <3>1. RolledBack
      BY <1>1, <1>2, <1>3, <2>1 DEF RolledBack, Locks
    <3> QED
      BY <1>1, <1>3, <1>5, <2>1, <3>1, RolledBackKeeps DEF ServerInv, Keeps
  <2>2. CASE ~conn.open
    <3>1. Quiet
      BY <1>1, <1>2, <1>3, <2>2 DEF Quiet, Locks, View
    <3> QED
      BY <1>1, <1>3, <1>5, <2>2, <3>1, QuietKeeps DEF ServerInv, Keeps
  <2> QED
    BY <2>1, <2>2
<1> QED
  BY <1>1, <1>3, <1>6 DEF ServerInv, Startup

(* Another process reads, waits for the file, and writes the routes.        *)
LEMMA OtherKeeps ==
    ASSUME ServerInv, OtherStarts \/ OtherCommits \/ OtherEnds
    PROVE  ServerInv'
<1>1. /\ server' = server /\ conn' = conn /\ task' = task /\ sent' = sent
      /\ acked' = acked /\ undone' = undone
      /\ other' \in {"none", "shared", "reserved", "exclusive"}
  BY DEF OtherStarts, OtherCommits, OtherEnds, OtherSays
<1>2. Types /\ Locks /\ file \in FileT
  BY DEF ServerInv, WriteInv, Types
<1>3. /\ file' \in FileT /\ file'.log = file.log
      /\ file' = file \/ conn.lock = "none"
      /\ conn.lock # "none" => other' # "exclusive"
      /\ conn.lock = "reserved" => other' \notin {"reserved", "exclusive"}
  <2>1. CASE OtherStarts
    BY <1>2, <2>1 DEF OtherStarts, OtherSays
  <2>2. CASE OtherCommits
    BY <1>2, <2>2 DEF OtherCommits, OtherSays
  <2>3. CASE OtherEnds
    <3>1. CASE file' = file /\ other' = "none"
      BY <1>2, <3>1
    <3>2. ASSUME other = "exclusive", NEW r \in file.table.rows,
                 OtherSays("none", [file EXCEPT !.table.rows = @ \ {r}])
          PROVE  file' \in FileT /\ file'.log = file.log /\ conn.lock = "none" /\ other' = "none"
      <4>1. file' \in FileT /\ file'.log = file.log
        BY <1>2, <3>2 DEF OtherSays, FileT
      <4> QED
        BY <1>2, <3>2, <4>1 DEF OtherSays, Locks
    <3> QED
      BY <2>3, <3>1, <3>2 DEF OtherEnds, OtherSays
  <2> QED
    BY <2>1, <2>2, <2>3
<1>4. Locks'
  BY <1>1, <1>2, <1>3 DEF Locks
<1>5. Quiet
  BY <1>1, <1>3 DEF Quiet, View
<1>6. Types' /\ Moves
  BY <1>1, <1>2, <1>3 DEF Types, Moves
<1> QED
  BY <1>1, <1>4, <1>5, <1>6, QuietKeeps DEF ServerInv, Startup

-----------------------------------------------------------------------------
(* What a request may be answered by: a route that is in the table, or none.*)
LEMMA LookupTyped ==
    ASSUME Types, Locks, NEW req, NEW m \in lookup(req)
    PROVE  m \in Matches /\ m \in Answers
<1>1. View.table.rows \subseteq Routes
  BY ViewTyped DEF FileT
<1>2. First(Matching(req, View.table)) \subseteq Routes
  BY <1>1 DEF First, Matching
<1>3. m = NoRoute \/ m \in Routes
  BY <1>2 DEF lookup
<1> QED
  BY <1>3, RoutesTyped, BuiltinTyped DEF Matches

(* An answer, or the wait for a body, that touches no write.                *)
LEMMA AnswerKeeps ==
    ASSUME ServerInv, NEW c \in Clients, InFlight(task[c]), Around, Keeps, Quiet,
           acked' = acked, undone' = undone, server = "serving",
           NEW by \in Answers, NEW status \in Codes, Answer(c, by, status)
    PROVE  ServerInv'
<1>1. AnsweredWith(c, by, status)
  BY AnswerTyped DEF ServerInv, WriteInv
<1>2. Moves
  BY <1>1, ServedMoves DEF AnsweredWith, ServerInv
<1>3. Types'
  BY <1>1 DEF AnsweredWith, Around, Keeps, ServerInv, WriteInv, Types
<1> QED
  BY <1>2, <1>3, QuietKeeps DEF Around, Keeps, ServerInv, Startup

LEMMA AwaitKeeps ==
    ASSUME ServerInv, NEW c \in Clients, InFlight(task[c]), Around, Keeps, Quiet,
           acked' = acked, undone' = undone, server = "serving",
           NEW m \in Matches, Await(c, m)
    PROVE  ServerInv'
<1>1. /\ task' \in [Clients -> TaskT]
      /\ \A d \in Clients : task'[d].pc # "idle" => task'[d].req \in Requests[d]
      /\ task'[c].pc = "body" /\ task'[c].id = task[c].id
      /\ \A d \in Clients \ {c} : task'[d] = task[d]
  BY AwaitTyped DEF ServerInv, WriteInv
<1>2. Moves
  BY <1>1 DEF Moves
<1>3. Types'
  BY <1>1 DEF Around, Keeps, ServerInv, WriteInv, Types
<1> QED
  BY <1>2, <1>3, QuietKeeps DEF Around, Keeps, ServerInv, Startup

LEMMA ServeSqlKeeps ==
    ASSUME ServerInv, NEW c \in Clients, InFlight(task[c]), Around, server = "serving",
           ServeSql(c)
    PROVE  ServerInv'
<1> DEFINE stmt == task[c].req.stmt
<1>1. task[c].req \in Requests[c]
  BY DEF ServerInv, WriteInv, Types, InFlight
<1>2. stmt.op = "add" => stmt.row \in Routes
  BY <1>1, HttpdAssumption
<1>3. PICK b \in BOOLEAN : b = (stmt.op = "insert")
  OBVIOUS
<1>4. Serve(c, Builtin("/sql"), "sql", b, run_sql(stmt, task[c].id))
  BY <1>3 DEF ServeSql
<1>5. Builtin("/sql") \in Answers
  BY BuiltinTyped
<1>6. WriteInv'
  <2>1. PICK st : st = stmt
    OBVIOUS
  <2>2. PICK by \in Answers : by = Builtin("/sql")
    BY <1>5
  <2>3. /\ st.op = "add" => st.row \in Routes
        /\ st = task[c].req.stmt \/ st.op = "select"
        /\ b <=> st.op = "insert"
        /\ Serve(c, by, "sql", b, run_sql(st, task[c].id))
    BY <1>2, <1>3, <1>4, <2>1, <2>2
  <2> QED
    BY <2>3, SqlKeeps DEF ServerInv
<1> QED
  BY <1>6 DEF Around, ServerInv, Startup

LEMMA HandleKeeps ==
    ASSUME ServerInv, NEW c \in Clients, handle(c)
    PROVE  ServerInv'
<1> DEFINE req == task[c].req
<1>1. /\ InFlight(task[c]) /\ Around /\ server = "serving"
  BY DEF handle, Unmoved, Around, InFlight
<1>2. Types /\ Locks /\ {200, 404} \subseteq Codes
  BY DEF ServerInv, WriteInv, Codes
<1>3. CASE /\ IF req.path = "/health" THEN Answer(c, Builtin(req.path), 200) ELSE Answer(c, NoRoute, 404)
           /\ UNCHANGED <<file, conn, acked, undone>>
  <2>1. Keeps /\ Quiet /\ acked' = acked /\ undone' = undone
    BY <1>1, <1>3, SameKeeps DEF ServerInv, Around
  <2>2. CASE req.path = "/health"
    <3>1. Answer(c, Builtin("/health"), 200) /\ Builtin("/health") \in Answers
      BY <1>3, <2>2, BuiltinTyped
    <3> QED
      BY <1>1, <1>2, <2>1, <3>1, AnswerKeeps
  <2>3. CASE req.path # "/health"
    BY <1>1, <1>2, <1>3, <2>1, <2>3, BuiltinTyped, AnswerKeeps
  <2> QED
    BY <2>2, <2>3
<1>4. CASE /\ req.path \in {"/tables", "/schema/t"}
           /\ Serve(c, Builtin(req.path), "sql", FALSE, run_sql([op |-> "select"], task[c].id))
  <2>1. PICK by \in Answers : by = Builtin(req.path)
    BY <1>4, BuiltinTyped
  <2>2. PICK st : st = [op |-> "select"]
    OBVIOUS
  <2>3. /\ st.op = "select" /\ (st.op = "add" => st.row \in Routes)
        /\ Serve(c, by, "sql", FALSE, run_sql(st, task[c].id))
    BY <1>4, <2>1, <2>2
  <2>4. WriteInv'
    BY <1>1, <2>3, SqlKeeps DEF ServerInv
  <2> QED
    BY <1>1, <2>4 DEF Around, ServerInv, Startup
<1>5. CASE ServeSql(c)
  BY <1>1, <1>5, ServeSqlKeeps
<1>6. CASE Await(c, NoRoute) /\ UNCHANGED <<file, conn, acked, undone>>
  <2>1. Keeps /\ Quiet /\ acked' = acked /\ undone' = undone /\ NoRoute \in Matches
    BY <1>1, <1>6, SameKeeps DEF ServerInv, Around, Matches
  <2> QED
    BY <1>1, <1>6, <2>1, AwaitKeeps
<1>7. CASE /\ IF View.table.schema = "none" THEN UNCHANGED <<file, conn>> ELSE Apply(Read)
           /\ \E m \in lookup(req) : IF m = NoRoute THEN Answer(c, NoRoute, 404) ELSE Await(c, m)
           /\ UNCHANGED <<acked, undone>>
  <2>1. Keeps /\ Quiet /\ acked' = acked /\ undone' = undone
    <3>1. CASE View.table.schema = "none"
      BY <1>1, <1>7, <3>1, SameKeeps DEF ServerInv, Around
    <3>2. CASE View.table.schema # "none"
      BY <1>1, <1>2, <1>7, <3>2, ReadEffect DEF Around
    <3> QED
      BY <1>7, <3>1, <3>2
  <2>2. PICK m \in lookup(req) : IF m = NoRoute THEN Answer(c, NoRoute, 404) ELSE Await(c, m)
    BY <1>7
  <2>3. m \in Matches
    BY <1>2, LookupTyped
  <2>4. CASE m = NoRoute
    BY <1>1, <1>2, <2>1, <2>2, <2>4, BuiltinTyped, AnswerKeeps
  <2>5. CASE m # NoRoute
    BY <1>1, <2>1, <2>2, <2>3, <2>5, AwaitKeeps
  <2> QED
    BY <2>4, <2>5
<1> QED
  BY <1>3, <1>4, <1>5, <1>6, <1>7 DEF handle

LEMMA FinishKeeps ==
    ASSUME ServerInv, NEW c \in Clients, finish(c)
    PROVE  ServerInv'
<1>1. InFlight(task[c]) /\ Around /\ server = "serving"
  BY DEF finish, Unmoved, Around, InFlight
<1>2. CASE ServeSql(c)
  BY <1>1, <1>2, ServeSqlKeeps
<1>3. ASSUME NEW m, m = task[c].match, m # NoRoute, NEW out \in execute(m, task[c].id),
             Serve(c, m, m.kind, m.kind \in {"sql", "blob"} /\ m.handler = "insert", out)
      PROVE  ServerInv'
  <2>1. m \in Routes
    BY <1>3 DEF ServerInv, WriteInv, Types, TaskT, Matches
  <2>2. WriteInv'
    BY <1>1, <1>3, <2>1, RouteKeeps DEF ServerInv
  <2> QED
    BY <1>1, <2>2 DEF Around, ServerInv, Startup
<1> QED
  BY <1>2, <1>3 DEF finish

-----------------------------------------------------------------------------
LEMMA ServerInit == ASSUME Init PROVE ServerInv
<1>1. /\ server = "down" /\ conn = Closed /\ other = "none" /\ sent = 0 /\ acked = {} /\ undone = {}
      /\ task = [c \in Clients |-> Idle] /\ file \in [table : FirstTables, log : {{}}]
  BY DEF Init
<1>2. file \in FileT /\ file.log = {}
  BY <1>1, HttpdAssumption DEF FileT
<1>3. task \in [Clients -> TaskT] /\ \A c \in Clients : task[c].pc = "idle"
  BY <1>1, IdleTyped
<1>4. Types
  BY <1>1, <1>2, <1>3, ClosedTyped, HttpdAssumption DEF Types
<1>5. ~conn.open /\ conn.lock = "none" /\ conn.view = Empty /\ conn.txn = 0
  BY <1>1 DEF Closed
<1>6. Locks
  BY <1>5 DEF Locks
<1>7. View.log = {}
  BY <1>2, <1>5 DEF View
<1>8. Numbers
  BY <1>1, <1>3, <1>5, <1>7 DEF Numbers, Used, InFlight
<1>9. Fates /\ FailedLeavesNothing
  BY <1>1, <1>3, <1>5 DEF Fates, FailedLeavesNothing
<1> QED
  BY <1>4, <1>5, <1>6, <1>8, <1>9 DEF ServerInv, WriteInv, Startup

LEMMA ServerStep == ASSUME ServerInv, [Next]_vars PROVE ServerInv'
<1>1. ASSUME NEW c \in Clients, NEW req \in Requests[c], Send(c, req)
      PROVE  ServerInv'
  BY <1>1, SendKeeps
<1>2. ASSUME NEW c \in Clients, handle(c) \/ read_body(c) \/ finish(c)
      PROVE  ServerInv'
  BY <1>2, HandleKeeps, BodyKeeps, FinishKeeps
<1>3. CASE UNCHANGED vars
  <2>1. /\ server' = server /\ file' = file /\ conn' = conn /\ other' = other /\ task' = task
        /\ sent' = sent /\ acked' = acked /\ undone' = undone
    BY <1>3 DEF vars
  <2>2. Keeps /\ Quiet /\ Locks'
    BY <2>1, SameKeeps DEF ServerInv
  <2>3. Types' /\ Moves
    BY <2>1 DEF ServerInv, WriteInv, Types, Moves
  <2> QED
    BY <2>1, <2>2, <2>3, QuietKeeps DEF ServerInv, Startup
<1> QED
  BY <1>1, <1>2, <1>3, OpenKeeps, CreateKeeps, AlterKeeps, CountKeeps, SeedKeeps, KillKeeps, OtherKeeps
     DEF Next

THEOREM ServerInvariant == Spec => []ServerInv
<1>1. Init => ServerInv
  BY ServerInit
<1>2. ServerInv /\ [Next]_vars => ServerInv'
  BY ServerStep
<1> QED
  BY <1>1, <1>2, PTL DEF Spec

(* Every variable keeps to its type; what is logged are requests that were  *)
(* sent (Connection, RouteMatch).                                           *)
THEOREM ServerTypeCorrect == Spec => []TypeOK
<1>1. ServerInv => TypeOK
  <2> SUFFICES ASSUME ServerInv PROVE TypeOK
    OBVIOUS
  <2>1. Types /\ Locks
    BY DEF ServerInv, WriteInv
  <2>2. file.log \subseteq 1..MaxRequests
    <3>1. file.log \subseteq Used
      BY <2>1, ViewTyped DEF Used
    <3>2. Used \subseteq 0..sent /\ sent \in 0..MaxRequests /\ MaxRequests \in Nat
      BY <2>1, HttpdAssumption DEF ServerInv, WriteInv, Numbers, Types
    <3>3. \A n \in file.log : n \in Nat \ {0}
      BY <2>1 DEF Types, FileT
    <3> QED
      BY <3>1, <3>2, <3>3
  <2>3. /\ file.table.schema \in {"none", "legacy", "current"} /\ file.table.rows \subseteq Routes
        /\ conn.lock \in {"none", "shared", "reserved"} /\ (conn.lock # "none" => conn.open)
    BY <2>1 DEF Types, FileT, ConnT, Locks
  <2>4. \A c \in Clients : task[c].pc \in Places /\ task[c].status \in Statuses
    BY <2>1 DEF Types, TaskT
  <2> QED
    BY <2>1, <2>2, <2>3, <2>4 DEF TypeOK, Types, Places, Statuses, Codes
<1> QED
  BY <1>1, ServerInvariant, PTL

(* What a client is told of its write is true: an acknowledged write is in  *)
(* the file, or has the fate of the transaction it fell into, and an error  *)
(* leaves nothing behind (execute_sql, execute_blob, run_sql).              *)
THEOREM AnswersAreTrueHolds == Spec => []AnswersAreTrue
<1>1. ServerInv => AnswersAreTrue
  <2> SUFFICES ASSUME ServerInv, NEW a \in acked
               PROVE  \/ a.id \in file.log
                      \/ a.txn # 0 /\ (a.txn \in undone \/ (conn.txn = a.txn /\ a.id \in conn.view.log))
                      \/ a.txn = 0 /\ a.kind = "blob"
    BY DEF AnswersAreTrue, AckedIsKept, ServerInv, WriteInv
  <2>1. IF a.txn # 0 THEN Waits(a) \/ TakenBack(a) \/ Kept(a)
                     ELSE a.id \in file.log \/ a.kind = "blob"
    BY DEF ServerInv, WriteInv, Fates
  <2>2. Waits(a) => a.id \in conn.view.log /\ conn.txn = a.txn
    BY DEF Waits, View
  <2> QED
    BY <2>1, <2>2 DEF TakenBack, Kept
<1> QED
  BY <1>1, ServerInvariant, PTL

(* All the writes of one transaction are in the file or none is, whichever  *)
(* clients they came from and whoever ends it (SharedConn, run_sql, Kill).  *)
THEOREM AllOrNothingHolds == Spec => []AllOrNothing
<1>1. ServerInv => AllOrNothing
  <2> SUFFICES ASSUME ServerInv, NEW a \in acked, NEW b \in acked, a.txn # 0, a.txn = b.txn
               PROVE  a.id \in file.log <=> b.id \in file.log
    BY DEF AllOrNothing
  <2>1. file.log \subseteq View.log
    BY ViewTyped DEF ServerInv, WriteInv
  <2>2. Waits(a) \/ TakenBack(a) \/ Kept(a)
    BY DEF ServerInv, WriteInv, Fates
  <2>3. Waits(b) \/ TakenBack(b) \/ Kept(b)
    BY DEF ServerInv, WriteInv, Fates
  <2> QED
    BY <2>1, <2>2, <2>3 DEF Waits, TakenBack, Kept
<1> QED
  BY <1>1, ServerInvariant, PTL

-----------------------------------------------------------------------------
(* What a step does to the request of c, as far as its answer goes.         *)
Found(t) == IF t.match = NoRoute THEN Builtin("/sql") ELSE t.match
InTime(c) ==
    \/ task'[c] = task[c]
    \/ task'[c].pc \in {"idle", "arrived"}
    \/ InFlight(task[c]) /\ task'[c].pc \in {"body", "ready"} /\ Found(task'[c]) \in could[c]
    \/ InFlight(task[c]) /\ task'[c].pc = "answered"
         /\ (task'[c].status # 400 => task'[c].by \in could[c])

LEMMA InTimeKeeps ==
    ASSUME AnswerInv, History, \A c \in Clients : InTime(c)
    PROVE  AnswerInv'
<1>1. ASSUME NEW c \in Clients
      PROVE  /\ InFlight(task'[c]) => RightNow(task[c].req)' \subseteq could'[c]
             /\ InFlight(task'[c]) /\ InFlight(task[c]) => could[c] \subseteq could'[c]
             /\ task'[c].pc = "answered" => could'[c] = could[c]
  <2>1. could'[c] = CASE InFlight(task'[c]) ->
                           (IF InFlight(task[c]) THEN could[c] ELSE {}) \cup RightNow(task[c].req)'
                      [] task'[c].pc = "answered" -> could[c]
                      [] OTHER -> {}
    BY DEF History
  <2>2. task'[c].pc = "answered" => ~InFlight(task'[c])
    BY DEF InFlight
  <2> QED
    BY <2>1, <2>2
<1>2. Remembered'
  <2>1. \A c \in Clients : InFlight(task[c])' => InFlight(task'[c])
    BY DEF InFlight
  <2> QED
    BY <1>1, <2>1 DEF Remembered
<1>3. \A c \in Clients : task'[c].pc \in {"body", "ready"} => Found(task'[c]) \in could'[c]
  <2> SUFFICES ASSUME NEW c \in Clients, task'[c].pc \in {"body", "ready"}
               PROVE  Found(task'[c]) \in could'[c]
    OBVIOUS
  <2>1. InFlight(task'[c])
    BY DEF InFlight
  <2>2. CASE task'[c] = task[c]
    <3>1. Found(task[c]) \in could[c]
      BY <2>2 DEF AnswerInv, FoundInTime, Found
    <3> QED
      BY <1>1, <2>1, <2>2, <3>1
  <2>3. CASE InFlight(task[c]) /\ Found(task'[c]) \in could[c]
    BY <1>1, <2>1, <2>3
  <2> QED
    BY <2>2, <2>3 DEF InTime
<1>4. FoundInTime'
  BY <1>3 DEF FoundInTime, Found
<1>5. \A c \in Clients : task'[c].pc = "answered" /\ task'[c].status # 400 => task'[c].by \in could'[c]
  <2> SUFFICES ASSUME NEW c \in Clients, task'[c].pc = "answered", task'[c].status # 400
               PROVE  task'[c].by \in could[c]
    BY <1>1
  <2>1. CASE task'[c] = task[c]
    BY <2>1 DEF AnswerInv, AnsweredInTime
  <2> QED
    BY <2>1 DEF InTime
<1>6. AnsweredInTime'
  BY <1>5 DEF AnsweredInTime
<1> QED
  BY <1>2, <1>4, <1>6 DEF AnswerInv

(* A route that lookup gives is right at that moment: by priority, then by  *)
(* the length of the pattern.                                               *)
LEMMA LookupIsRight ==
    ASSUME Types, Locks, NEW req, ~builtin(req), NEW m \in lookup(req)
    PROVE  m \in RightNow(req)
<1>1. RightNow(req) = ByTable(req)
  BY DEF RightNow, builtin
<1> DEFINE rows == Matching(req, View.table)
           better(s, r) == \/ s.priority > r.priority
                           \/ s.priority = r.priority /\ Length[s.pattern] > Length[r.pattern]
           best == {r \in rows : ~\E s \in rows : better(s, r)}
<1>2. ByTable(req) = best \cup (IF best = {} \/ ~CanRead \/ \E r \in best : r.handler = ""
                                THEN {NoRoute} ELSE {})
  BY DEF ByTable, Matching
<1>3. rows \subseteq Routes
  BY ViewTyped DEF Matching, FileT
<1>4. First(rows) = best
  <2> HIDE DEF rows
  <2>1. \A r \in rows, s \in rows : Before(r, s) <=> ~better(s, r)
    <3> SUFFICES ASSUME NEW r \in rows, NEW s \in rows
                 PROVE  Before(r, s) <=> ~better(s, r)
      OBVIOUS
    <3>1. /\ r.priority \in Int /\ s.priority \in Int
          /\ Length[r.pattern] \in Int /\ Length[s.pattern] \in Int
      BY <1>3, RoutesTyped
    <3> QED
      BY <3>1 DEF Before
  <2> HIDE DEF better
  <2> QED
    BY <2>1 DEF First
<1>5. CanRead <=> Read.ok
  BY DEF Read, Refused, Result
<1> HIDE DEF rows, best
<1>6. CASE ~CanRead
  <2>1. m = NoRoute
    BY <1>5, <1>6 DEF lookup
  <2> QED
    BY <1>1, <1>2, <1>6, <2>1
<1>7. CASE CanRead /\ best = {}
  <2>1. m = NoRoute
    BY <1>4, <1>5, <1>7 DEF lookup, rows
  <2> QED
    BY <1>1, <1>2, <1>7, <2>1
<1>8. CASE CanRead /\ best # {}
  <2>1. PICK r \in best : m = IF r.handler = "" THEN NoRoute ELSE r
    BY <1>4, <1>5, <1>8 DEF lookup, rows
  <2> QED
    BY <1>1, <1>2, <2>1
<1> QED
  BY <1>6, <1>7, <1>8

LEMMA AnswerBy ==
    ASSUME Types, NEW c \in Clients, NEW by, NEW status, Answer(c, by, status)
    PROVE  /\ task'[c].pc = "answered" /\ task'[c].by = by /\ task'[c].status = status
           /\ \A d \in Clients \ {c} : task'[d] = task[d]
<1>1. task \in [Clients -> TaskT] /\ task[c] \in TaskT
  BY DEF Types
<1> QED
  BY <1>1 DEF Answer, TaskT

(* An answer by what was right since the request arrived comes in time.     *)
LEMMA RightAnswer ==
    ASSUME Types, NEW c \in Clients, InFlight(task[c]), NEW by, NEW status, Answer(c, by, status),
           by \in could[c]
    PROVE  \A d \in Clients : InTime(d)
  BY AnswerBy DEF InTime

LEMMA HandleInTime ==
    ASSUME Types, Locks, AnswerInv, NEW c \in Clients, handle(c)
    PROVE  \A d \in Clients : InTime(d)
<1> DEFINE req == task[c].req
<1>1. InFlight(task[c]) /\ RightNow(req) \subseteq could[c]
  BY DEF handle, InFlight, AnswerInv, Remembered
<1>2. CASE /\ builtin(req) /\ (req.path = "/health" \/ (req.path = "/schema/t" /\ req.method # "GET"))
           /\ IF req.path = "/health" THEN Answer(c, Builtin(req.path), 200) ELSE Answer(c, NoRoute, 404)
  <2>1. CASE req.path = "/health"
    <3>1. Answer(c, Builtin("/health"), 200)
      BY <1>2, <2>1
    <3>2. Builtin("/health") \in RightNow(req)
      BY <1>2, <2>1 DEF RightNow, builtin
    <3> QED
      BY <1>1, <3>1, <3>2, RightAnswer
  <2>2. CASE req.path # "/health"
    <3>1. NoRoute \in RightNow(req)
      BY <1>2, <2>2 DEF RightNow
    <3> QED
      BY <1>1, <1>2, <2>2, <3>1, RightAnswer
  <2> QED
    BY <2>1, <2>2
<1>3. CASE /\ builtin(req) /\ req.path \in {"/tables", "/schema/t"} /\ req.method = "GET"
           /\ Serve(c, Builtin(req.path), "sql", FALSE, run_sql([op |-> "select"], task[c].id))
  <2>1. PICK by : by = Builtin(req.path)
    OBVIOUS
  <2>2. PICK status : Answer(c, by, status)
    BY <1>3, <2>1 DEF Serve
  <2>3. by \in RightNow(req)
    BY <1>3, <2>1 DEF RightNow
  <2> QED
    BY <1>1, <2>2, <2>3, RightAnswer
<1>4. CASE builtin(req) /\ req.path = "/sql" /\ req.method = "GET" /\ ServeSql(c)
  <2>1. PICK by : by = Builtin("/sql")
    OBVIOUS
  <2>2. PICK status : Answer(c, by, status)
    BY <1>4, <2>1 DEF ServeSql, Serve
  <2>3. by \in RightNow(req)
    BY <1>4, <2>1 DEF RightNow
  <2> QED
    BY <1>1, <2>2, <2>3, RightAnswer
<1>5. CASE builtin(req) /\ req.path = "/sql" /\ req.method = "POST" /\ Await(c, NoRoute)
  <2>1. /\ task'[c].pc = "body" /\ task'[c].match = NoRoute
        /\ \A d \in Clients \ {c} : task'[d] = task[d]
    BY <1>1, <1>5, AwaitTyped DEF Matches
  <2>2. Builtin("/sql") \in could[c]
    BY <1>1, <1>5 DEF RightNow
  <2> QED
    BY <1>1, <2>1, <2>2 DEF InTime, Found
<1>6. CASE /\ ~builtin(req)
           /\ \E m \in lookup(req) : IF m = NoRoute THEN Answer(c, NoRoute, 404) ELSE Await(c, m)
  <2>1. PICK m \in lookup(req) : IF m = NoRoute THEN Answer(c, NoRoute, 404) ELSE Await(c, m)
    BY <1>6
  <2>2. m \in could[c] /\ m \in Matches
    BY <1>1, <1>6, LookupIsRight, LookupTyped
  <2>3. CASE m = NoRoute
    BY <1>1, <2>1, <2>2, <2>3, RightAnswer
  <2>4. CASE m # NoRoute
    <3>1. /\ task'[c].pc = "body" /\ task'[c].match = m
          /\ \A d \in Clients \ {c} : task'[d] = task[d]
      BY <1>1, <2>1, <2>2, <2>4, AwaitTyped
    <3> QED
      BY <1>1, <2>2, <2>4, <3>1 DEF InTime, Found
  <2> QED
    BY <2>3, <2>4
<1> QED
  BY <1>2, <1>3, <1>4, <1>5, <1>6 DEF handle

LEMMA BodyInTime ==
    ASSUME Types, AnswerInv, NEW c \in Clients, read_body(c)
    PROVE  \A d \in Clients : InTime(d)
<1>1. /\ task[c].pc = "body" /\ InFlight(task[c])
      /\ task \in [Clients -> TaskT] /\ task[c] \in TaskT
  BY DEF read_body, InFlight, Types
<1>2. CASE task' = [task EXCEPT ![c] = [task[c] EXCEPT !.pc = "ready"]]
  <2>1. /\ task'[c].pc = "ready" /\ task'[c].match = task[c].match
        /\ \A d \in Clients \ {c} : task'[d] = task[d]
    BY <1>1, <1>2 DEF TaskT
  <2>2. Found(task'[c]) \in could[c]
    BY <1>1, <2>1 DEF AnswerInv, FoundInTime, Found
  <2> QED
    BY <1>1, <2>1, <2>2 DEF InTime
<1>3. CASE Answer(c, NoRoute, 400)
  BY <1>1, <1>3, AnswerBy DEF InTime
<1>4. CASE task' = [task EXCEPT ![c] = Idle]
  BY <1>1, <1>4, IdleTyped DEF InTime
<1> QED
  BY <1>2, <1>3, <1>4 DEF read_body

LEMMA FinishInTime ==
    ASSUME Types, AnswerInv, NEW c \in Clients, finish(c)
    PROVE  \A d \in Clients : InTime(d)
<1>1. InFlight(task[c]) /\ Found(task[c]) \in could[c]
  BY DEF finish, InFlight, AnswerInv, FoundInTime, Found
<1>2. CASE task[c].match = NoRoute /\ ServeSql(c)
  <2>1. PICK by : by = Builtin("/sql")
    OBVIOUS
  <2>2. PICK status : Answer(c, by, status)
    BY <1>2, <2>1 DEF ServeSql, Serve
  <2> QED
    BY <1>1, <1>2, <2>1, <2>2, RightAnswer DEF Found
<1>3. ASSUME NEW m, m = task[c].match, m # NoRoute, NEW out \in execute(m, task[c].id),
             Serve(c, m, m.kind, m.kind \in {"sql", "blob"} /\ m.handler = "insert", out)
      PROVE  \A d \in Clients : InTime(d)
  <2>1. PICK status : Answer(c, m, status)
    BY <1>3 DEF Serve
  <2> QED
    BY <1>1, <1>3, <2>1, RightAnswer DEF Found
<1> QED
  BY <1>2, <1>3 DEF finish

LEMMA AnswerStep == ASSUME ServerInv, AnswerInv, [Next]_vars PROVE AnswerInv'
<1>1. Types /\ Locks /\ task \in [Clients -> TaskT]
  BY DEF ServerInv, WriteInv, Types
<1>2. CASE UNCHANGED vars
  <2>1. task' = task /\ could' = could /\ conn' = conn /\ file' = file /\ other' = other
    BY <1>2 DEF vars
  <2>2. Remembered'
    <3>1. View' = View /\ (CanRead' <=> CanRead)
      BY <2>1 DEF View, CanRead
    <3>2. ASSUME NEW c \in Clients
          PROVE  RightNow(task[c].req)' = RightNow(task[c].req)
      <4> DEFINE req == task[c].req
                 rows == {r \in View.table.rows : r.method \in {req.method, "*"}
                                                  /\ req.path \in Covers[r.pattern]}
                 better(s, r) == \/ s.priority > r.priority
                                 \/ s.priority = r.priority /\ Length[s.pattern] > Length[r.pattern]
                 best == {r \in rows : ~\E s \in rows : better(s, r)}
                 all == best \cup (IF best = {} \/ ~CanRead \/ \E r \in best : r.handler = ""
                                  THEN {NoRoute} ELSE {})
      <4>0. ByTable(task[c].req) = all /\ ByTable(task[c].req)' = all'
        BY Zenon DEF ByTable
      <4>1. ByTable(task[c].req)' = ByTable(task[c].req)
        <5>1. rows' = rows
          BY <2>1, <3>1
        <5> HIDE DEF rows
        <5>2. best' = best
          BY <5>1
        <5> HIDE DEF best
        <5>3. all' = all
          BY <3>1, <5>2
        <5> QED
          BY <4>0, <5>3
      <4> QED
        BY <2>1, <4>1 DEF RightNow
    <3> QED
      BY <2>1, <3>2 DEF AnswerInv, Remembered, InFlight
  <2> QED
    BY <2>1, <2>2 DEF AnswerInv, FoundInTime, AnsweredInTime
<1>3. CASE Next
  <2>1. History
    BY <1>3 DEF Next
  <2>2. \A d \in Clients : InTime(d)
    <3>1. CASE task' = task
      BY <3>1 DEF InTime
    <3>2. CASE \E c \in Clients : handle(c) \/ read_body(c) \/ finish(c)
      BY <1>1, <3>2, HandleInTime, BodyInTime, FinishInTime
    <3>3. ASSUME NEW c \in Clients, NEW req \in Requests[c], Send(c, req)
          PROVE  \A d \in Clients : InTime(d)
      <4>1. /\ [Idle EXCEPT !.pc = "arrived", !.req = req, !.id = sent + 1].pc = "arrived"
            /\ task' = [task EXCEPT ![c] = [Idle EXCEPT !.pc = "arrived", !.req = req, !.id = sent + 1]]
        BY <3>3, IdleTyped DEF Send, TaskT
      <4> QED
        BY <1>1, <4>1 DEF InTime
    <3>4. CASE Kill
      BY <3>4, IdleTyped DEF Kill, InTime
    <3> QED
      BY <1>3, <3>1, <3>2, <3>3, <3>4
         DEF Next, Connection_open, init_routes_create, init_routes_alter, init_routes_count,
             init_routes_seed, StartsWith, OtherStarts, OtherCommits, OtherEnds, OtherSays
  <2> QED
    BY <2>1, <2>2, InTimeKeeps
<1> QED
  BY <1>2, <1>3

(* An answer comes from a route that was the best for its request at some   *)
(* moment between arrival and answer, whatever happened to the routes       *)
(* while the body was awaited (handle, lookup).                             *)
THEOREM AnsweredInTimeHolds == Spec => []AnsweredInTime
<1>1. Init => AnswerInv
  <2> SUFFICES ASSUME Init PROVE AnswerInv
    OBVIOUS
  <2>1. \A c \in Clients : task[c].pc = "idle"
    BY IdleTyped DEF Init
  <2> QED
    BY <2>1 DEF AnswerInv, Remembered, FoundInTime, AnsweredInTime, InFlight
<1>2. ServerInv /\ AnswerInv /\ [Next]_vars => AnswerInv'
  BY AnswerStep
<1>3. AnswerInv => AnsweredInTime
  BY DEF AnswerInv
<1> QED
  BY <1>1, <1>2, <1>3, ServerInvariant, PTL DEF Spec
=============================================================================
