----------------------------- MODULE SqliteConn -----------------------------
(***************************************************************************)
(* The part of SQLite that the content-addressed cache is built on: several *)
(* sqlink processes, each with one connection, share one database file in  *)
(* WAL mode.  SQLite itself is not part of the repository; this module says *)
(* what sqlite-cas-cache relies on when it calls it.                       *)
(*                                                                         *)
(* Every SQL statement the crate runs outside BEGIN ... COMMIT is a         *)
(* transaction of its own, and so one atomic step.  What makes the model    *)
(* more than "one step per statement" is SqliteCasStore::with_stmt: it      *)
(* keeps prepared statements and resets them BEFORE the next use, never     *)
(* after the current one.  A SELECT that stepped to a row therefore stays   *)
(* open, and an open SELECT pins the connection's read snapshot:            *)
(*   - every later read of that connection is answered from the snapshot;   *)
(*   - a write of that connection is refused ("database is locked", without *)
(*     the busy handler being called) once another connection has committed *)
(*     since the snapshot was taken.                                        *)
(* An explicit BEGIN that was never committed or rolled back pins it too.   *)
(***************************************************************************)
EXTENDS FiniteSets

CONSTANTS
    Procs,                    \* the processes that have the file open
    NoSnap                    \* "reads see the committed contents"

VARIABLES
    db,     \* the committed contents of the database file
    snap,   \* snap[p]: the older contents p's pinned snapshot shows, or NoSnap
    pins,   \* pins[p]: the cached SELECTs of p left standing on a row
    txn     \* the processes with a BEGIN that nobody ended

connVars == <<db, snap, pins, txn>>

(* Another connection has committed since p's snapshot was pinned. *)
Stale(p) == snap[p] # NoSnap

(* What a read of p sees. *)
View(p) == IF Stale(p) THEN snap[p] ELSE db

(* p's connection stays inside a read transaction between its statements. *)
Holding(p) == pins[p] # {} \/ p \in txn

(***************************************************************************)
(* A write of p that commits contents d.  `wrote' is false for an UPDATE or *)
(* DELETE that matched no row: it takes the write lock but leaves the file  *)
(* as it was, so nobody's snapshot ages.                                    *)
(***************************************************************************)
Commit(p, d, wrote) ==
    /\ ~Stale(p)
    /\ db' = d
    /\ snap' = [q \in Procs |->
                   IF wrote /\ q # p /\ ~Stale(q) /\ Holding(q)
                   THEN db ELSE snap[q]]
    /\ UNCHANGED <<pins, txn>>

(* A write of p that SQLite refuses: the snapshot it would build on is old. *)
Refused(p) == Stale(p) /\ UNCHANGED connVars

(* BEGIN succeeded, then a later statement of the same batch was refused:  *)
(* execute_batch stops there and the transaction stays open.               *)
RefusedBatch(p) ==
    /\ Stale(p)
    /\ txn' = txn \cup {p}
    /\ UNCHANGED <<db, snap, pins>>

(* with_stmt resets the cached SELECT c before it runs it again.  When c    *)
(* was all that held the snapshot, the read starts from a fresh one.        *)
Released(p, c) == pins[p] \ {c} = {} /\ p \notin txn

ViewAfterReset(p, c) == IF Released(p, c) THEN db ELSE View(p)

(* MUTANT of ReadCached: with_stmt resets the statement after its use, too. *)
ReadCached_then_reset(p, c, found) ==
    /\ pins' = [pins EXCEPT ![p] = @ \ {c}]
    /\ snap' = IF Released(p, c) THEN [snap EXCEPT ![p] = NoSnap] ELSE snap
    /\ UNCHANGED <<db, txn>>

(* The cached SELECT c of p runs and stops on a row (found) or at the end.  *)
ReadCached(p, c, found) ==
    /\ pins' = [pins EXCEPT ![p] = (@ \ {c}) \cup IF found THEN {c} ELSE {}]
    /\ snap' = IF Released(p, c) THEN [snap EXCEPT ![p] = NoSnap] ELSE snap
    /\ UNCHANGED <<db, txn>>

(* A connection goes away with its process, and its open cursors and        *)
(* unfinished transaction go with it.                                       *)
Disconnect(p) ==
    /\ pins' = [pins EXCEPT ![p] = {}]
    /\ txn' = txn \ {p}
    /\ snap' = [snap EXCEPT ![p] = NoSnap]
    /\ UNCHANGED db
=============================================================================
