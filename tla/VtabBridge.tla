----------------------------- MODULE VtabBridge -----------------------------
(***************************************************************************)
(* Virtual tables of a loaded extension: the callbacks SQLite makes          *)
(* (host/src/vtab.rs), the registry of instance and cursor ids and the row   *)
(* blocks they keep, and the dispatch of every callback to a WebAssembly     *)
(* store (dispatch_vtab_create and its siblings in host/src/lib.rs).         *)
(*                                                                           *)
(* Abstractions.  One extension; its stores are numbered as they are made,   *)
(* 0 is no store.  A row is a number, and stands for a rowid and its         *)
(* columns; the arguments of xBestIndex and xFilter are left out, so every   *)
(* scan is of the whole table.  The component (external) keeps its tables in *)
(* its own memory, answers each cursor from the rows there were at xFilter,  *)
(* refuses ids it was never given, and may fail or trap at any call, at most *)
(* MaxFaults times; a store that trapped refuses every later call.  SQLite   *)
(* (external) makes callbacks in the order its virtual machine does.  Two    *)
(* dispatches of one callback are one step: what a load between them can do  *)
(* to the second, a fault does as well.  xShadowName and xIntegrity are left *)
(* out: SQLite never calls them on a module of version 2.                    *)
(***************************************************************************)
EXTENDS Naturals, Sequences, FiniteSets

CONSTANTS
    Tables, Cursors,    \* virtual tables; cursor slots of running statements
    Module,             \* Module[t]: [batched, mutable, eponymous] of t's module
    Kinds,              \* what may be loaded: see Load
    StoredRows,         \* StoredRows[t]: the rows a fresh store has
    BATCH_SIZE,         \* rows asked for at a time
    MaxStores,          \* bound: stores ever made
    MaxInstances,       \* bound: instance ids
    MaxCursors,         \* bound: cursor ids
    MaxUpdates,         \* bound: rows ever inserted
    MaxFaults           \* bound: failures of the component

ASSUME VtabAssumption ==
    /\ Tables # {}
    /\ Module \in [Tables -> [batched : BOOLEAN, mutable : BOOLEAN, eponymous : BOOLEAN]]
    /\ Kinds \subseteq {"provider", "bridge", "mutating"}
    /\ StoredRows \in [Tables -> Seq(Nat)]
    /\ BATCH_SIZE \in Nat \ {0}
    /\ {MaxStores, MaxInstances, MaxCursors, MaxUpdates, MaxFaults} \subseteq Nat

VARIABLES
    backing, dynlink, mutating, \* the store of the provider and of each bridge map
    registered,     \* the modules are registered with SQLite
    store,          \* store[s]: the memory of each store ever made
    registry,       \* instances, cursors, next_instance, next_cursor
    batch,          \* batch_cache: cursor id -> [rows, idx, eof_seen]
    made,           \* tables of the schema
    vtab,           \* vtab[t]: the instance id behind t, 0 when not connected
    home,           \* home[t]: the store that connected vtab[t]
    view,           \* view[t]: t's contents, as its writers were told
    cursor,         \* cursor[c]: SQLite's side of a cursor
    txn,            \* none, open, sync, commit or undo
    part, todo,     \* tables in the transaction; those its present phase has not called
    points,         \* tables with an open savepoint
    faults, updates

hostVars == <<backing, dynlink, mutating, registered>>
schemaVars == <<made, vtab, home>>
txnVars == <<txn, part, todo, points, updates>>
vars == <<hostVars, store, registry, batch, schemaVars, view, cursor, txnVars, faults>>

(* The contents of a table: its rows, and those at xBegin and xSavepoint.   *)
Contents(r) == [rows |-> r, saved |-> <<>>, point |-> <<>>]
Fresh == [t \in Tables |-> Contents(StoredRows[t])]
FreshStore == [trapped |-> FALSE, inst |-> {}, cur |-> <<>>, tab |-> Fresh, synced |-> {}]

NoCursor == [phase |-> "idle", id |-> 0, tab |-> CHOOSE t \in Tables : TRUE,
             want |-> <<>>, got |-> <<>>, hurt |-> FALSE]

Put(f, k, v) == [x \in DOMAIN f \cup {k} |-> IF x = k THEN v ELSE f[x]]
Drop(f, k) == [x \in DOMAIN f \ {k} |-> f[x]]

(* A module without xCreate: its table needs no CREATE VIRTUAL TABLE.       *)
IsEponymous(t) == Module[t].eponymous /\ ~Module[t].mutable

Init ==
    /\ backing = 0 /\ dynlink = 0 /\ mutating = 0
    /\ registered = FALSE
    /\ store = <<>>
    /\ registry = [instances |-> {}, cursors |-> {}, next_instance |-> 1, next_cursor |-> 1]
    /\ batch = <<>>
    /\ made \in SUBSET {t \in Tables : ~IsEponymous(t)}
    /\ vtab = [t \in Tables |-> 0]
    /\ home = [t \in Tables |-> 0]
    /\ view = Fresh
    /\ cursor = [c \in Cursors |-> NoCursor]
    /\ txn = "none" /\ part = {} /\ todo = {} /\ points = {}
    /\ faults = 0 /\ updates = 0
-----------------------------------------------------------------------------
(* Which store answers.  A reading call goes to the mutating instance when  *)
(* there is one, else to the bridge, else to the resident provider.         *)
Either(s, other) == IF s # 0 THEN s ELSE other

resident_provider_handle == backing
try_bridge_vtab_connect == Either(mutating, dynlink)
try_bridge_vtab_disconnect == Either(mutating, dynlink)
try_bridge_vtab_best_index == Either(mutating, dynlink)
try_bridge_vtab_open == Either(mutating, dynlink)
try_bridge_vtab_close == Either(mutating, dynlink)
try_bridge_vtab_filter == Either(mutating, dynlink)
try_bridge_vtab_fetch_batch == Either(mutating, dynlink)
try_bridge_vtab_next == Either(mutating, dynlink)
try_bridge_vtab_column == Either(mutating, dynlink)
try_bridge_vtab_update == mutating
try_bridge_vtab_savepoint == mutating

(* xCreate and xDestroy have no bridge path.                                *)
dispatch_vtab_create == resident_provider_handle
dispatch_vtab_destroy == resident_provider_handle
dispatch_vtab_connect == Either(try_bridge_vtab_connect, resident_provider_handle)
dispatch_vtab_disconnect == Either(try_bridge_vtab_disconnect, resident_provider_handle)
dispatch_vtab_best_index == Either(try_bridge_vtab_best_index, resident_provider_handle)
dispatch_vtab_open == Either(try_bridge_vtab_open, resident_provider_handle)
dispatch_vtab_close == Either(try_bridge_vtab_close, resident_provider_handle)
dispatch_vtab_filter == Either(try_bridge_vtab_filter, resident_provider_handle)
dispatch_vtab_next == Either(try_bridge_vtab_next, resident_provider_handle)
dispatch_vtab_column == Either(try_bridge_vtab_column, resident_provider_handle)
dispatch_vtab_fetch_batch == Either(try_bridge_vtab_fetch_batch, resident_provider_handle)
dispatch_vtab_update == Either(try_bridge_vtab_update, resident_provider_handle)
dispatch_vtab_savepoint == Either(try_bridge_vtab_savepoint, resident_provider_handle)

Replies == {"ok", "error", "trap", "refused"}

(* What store s may answer in memory st to a call about something it knows  *)
(* or does not know, and its memory afterwards when ok makes it new.        *)
Answers(st, s, known) ==
    IF s = 0 THEN {"refused"}
    ELSE IF st[s].trapped \/ ~known THEN {"refused"}
    ELSE {"ok"} \cup (IF faults < MaxFaults THEN {"error", "trap"} ELSE {})

Heard(st, s, a, new) ==
    CASE a = "ok" -> [st EXCEPT ![s] = new]
      [] a = "trap" -> [st EXCEPT ![s] = [FreshStore EXCEPT !.trapped = TRUE]]
      [] OTHER -> st

Cost(a) == IF a \in {"error", "trap"} THEN 1 ELSE 0

(* One dispatched call to s that changes nothing but its memory.            *)
Call(s, known, a, new) ==
    /\ a \in Answers(store, s, known)
    /\ store' = Heard(store, s, a, new)
    /\ faults' = faults + Cost(a)
-----------------------------------------------------------------------------
(* Loading and unloading.  A provider is one store.  A component that is a  *)
(* bridge is instantiated once, and a second time when it exports           *)
(* vtab-update; unloading never takes a bridge out of its map.              *)
NewStore(n) == [s \in 1..(Len(store) + n) |-> IF s <= Len(store) THEN store[s] ELSE FreshStore]

Load(kind) ==
    LET n == IF kind = "mutating" THEN 2 ELSE 1 IN
    /\ kind \in Kinds /\ Len(store) + n <= MaxStores
    /\ store' = NewStore(n)
    /\ backing' = IF kind = "provider" THEN Len(store) + 1 ELSE backing
    /\ dynlink' = IF kind # "provider" THEN Len(store) + 1 ELSE dynlink
    /\ mutating' = IF kind = "mutating" THEN Len(store) + 2 ELSE mutating
    /\ registered' = TRUE
    /\ UNCHANGED <<registry, batch, schemaVars, view, cursor, txnVars, faults>>

Unload ==
    /\ backing # 0
    /\ backing' = 0 /\ registered' = FALSE
    /\ UNCHANGED <<dynlink, mutating, store, registry, batch, schemaVars, view, cursor, txnVars, faults>>
-----------------------------------------------------------------------------
(* The registry.                                                            *)
alloc_instance_id(id) ==
    [registry EXCEPT !.next_instance = id + 1, !.instances = @ \cup {id}]

alloc_cursor_id(id) == [registry EXCEPT !.next_cursor = id + 1, !.cursors = @ \cup {id}]

(* MUTANT of drop_instance: the id stays registered.                        *)
drop_instance_kept(reg, id) == reg
drop_instance(reg, id) == [reg EXCEPT !.instances = @ \ {id}]

drop_cursor(reg, id) == [reg EXCEPT !.cursors = @ \ {id}]
drop_batch_cache(id) == Drop(batch, id)

(* An instance that the component refuses, or whose schema SQLite refuses,  *)
(* is dropped; the component is not told of the latter.                     *)
create_or_connect(t, is_connect) ==
    LET id == registry.next_instance
        s == IF is_connect \/ Module[t].eponymous THEN dispatch_vtab_connect ELSE dispatch_vtab_create
    IN  /\ registered /\ vtab[t] = 0 /\ id <= MaxInstances
        /\ \E a \in Replies, declared \in BOOLEAN :
              /\ Call(s, TRUE, a, [store[s] EXCEPT !.inst = @ \cup {id}])
              /\ IF a = "ok" /\ declared
                 THEN /\ registry' = alloc_instance_id(id)
                      /\ vtab' = [vtab EXCEPT ![t] = id]
                      /\ home' = [home EXCEPT ![t] = s]
                      /\ view' = [view EXCEPT ![t] = store[s].tab[t]]
                      /\ made' = IF is_connect THEN made ELSE made \cup {t}
                 ELSE /\ registry' = drop_instance(alloc_instance_id(id), id)
                      /\ UNCHANGED <<schemaVars, view>>
        /\ UNCHANGED <<hostVars, batch, cursor, txnVars>>

x_create(t) == t \notin made /\ ~IsEponymous(t) /\ create_or_connect(t, FALSE)
x_connect(t) == (t \in made \/ IsEponymous(t)) /\ create_or_connect(t, TRUE)

Unused(t) == t \notin part /\ \A c \in Cursors : cursor[c].tab = t => cursor[c].id = 0

(* The component's answer is ignored: the instance is gone either way.      *)
Release(t, s) ==
    LET id == vtab[t] IN
    /\ id # 0 /\ Unused(t)
    /\ \E a \in Replies :
          Call(s, id \in store[s].inst, a, [store[s] EXCEPT !.inst = @ \ {id}])
    /\ registry' = drop_instance(registry, id)
    /\ vtab' = [vtab EXCEPT ![t] = 0]
    /\ home' = [home EXCEPT ![t] = 0]
    /\ view' = [view EXCEPT ![t] = Contents(StoredRows[t])]
    /\ UNCHANGED <<hostVars, batch, cursor, txnVars>>

x_disconnect(t) == Release(t, dispatch_vtab_disconnect) /\ UNCHANGED made
x_destroy(t) == t \in made /\ Release(t, dispatch_vtab_destroy) /\ made' = made \ {t}
-----------------------------------------------------------------------------
(* A statement is planned (xBestIndex), opens its cursor, and runs it.      *)
cursorFrame == <<hostVars, schemaVars, view, txnVars>>

x_best_index(c, t) ==
    /\ cursor[c].phase = "idle" /\ vtab[t] # 0
    /\ IsEponymous(t) => registered
    /\ \E a \in Replies :
          /\ Call(dispatch_vtab_best_index, vtab[t] \in store[dispatch_vtab_best_index].inst,
                  a, store[dispatch_vtab_best_index])
          /\ cursor' = IF a = "ok"
                       THEN [cursor EXCEPT ![c].phase = "planned", ![c].tab = t] ELSE cursor
    /\ UNCHANGED <<cursorFrame, registry, batch>>

x_open(c) ==
    LET id == registry.next_cursor
        inst == vtab[cursor[c].tab]
        s == dispatch_vtab_open
    IN  /\ cursor[c].phase = "planned" /\ inst \in registry.instances /\ id <= MaxCursors
        /\ \E a \in Replies :
              /\ Call(s, inst \in store[s].inst, a, [store[s] EXCEPT !.cur = Put(@, id, <<>>)])
              /\ registry' = IF a = "ok" THEN alloc_cursor_id(id) ELSE drop_cursor(alloc_cursor_id(id), id)
              /\ cursor' = IF a = "ok" THEN [cursor EXCEPT ![c].phase = "open", ![c].id = id]
                           ELSE [cursor EXCEPT ![c] = NoCursor]
        /\ UNCHANGED <<cursorFrame, batch>>

x_close(c) ==
    LET id == cursor[c].id
        s == dispatch_vtab_close
    IN  /\ id # 0
        /\ \E a \in Replies :
              Call(s, id \in DOMAIN store[s].cur, a, [store[s] EXCEPT !.cur = Drop(@, id)])
        /\ batch' = drop_batch_cache(id)
        /\ registry' = drop_cursor(registry, id)
        /\ cursor' = [cursor EXCEPT ![c] = NoCursor]
        /\ UNCHANGED cursorFrame

(* A block of rows, of any length up to BATCH_SIZE and empty only at the    *)
(* end; an error is taken for the end.                                      *)
Blocks(rest) ==
    {n \in 0..BATCH_SIZE : n <= Len(rest) /\ (n = 0 => rest = <<>>)}

Filled(entry, block) ==
    [rows |-> block, idx |-> 0, eof_seen |-> entry.eof_seen \/ block = <<>>]

refill_batch(st, id, entry) ==
    LET s == dispatch_vtab_fetch_batch
        rest == st[s].cur[id]
        known == s # 0 /\ id \in DOMAIN st[s].cur
    IN  {[st |-> Heard(st, s, a, st[s]), entry |-> [entry EXCEPT !.eof_seen = TRUE],
          hurt |-> TRUE, cost |-> Cost(a)] : a \in Answers(st, s, known) \ {"ok"}}
        \cup
        {[st |-> [st EXCEPT ![s].cur[id] = SubSeq(rest, n + 1, Len(rest))],
          entry |-> Filled(entry, SubSeq(rest, 1, n)),
          hurt |-> FALSE, cost |-> 0]
            : n \in IF "ok" \in Answers(st, s, known) THEN Blocks(rest) ELSE {}}

(* MUTANT of Reset: what an earlier scan of the cursor saw is kept.         *)
Reset_kept(id) ==
    IF id \in DOMAIN batch THEN batch[id] ELSE [rows |-> <<>>, idx |-> 0, eof_seen |-> FALSE]
Reset(id) == [rows |-> <<>>, idx |-> 0, eof_seen |-> FALSE]

x_filter(c) ==
    LET id == cursor[c].id
        t == cursor[c].tab
        s == dispatch_vtab_filter
        known == s # 0 /\ id \in DOMAIN store[s].cur
        begun == [cursor[c] EXCEPT !.phase = "at", !.want = view[t].rows, !.got = <<>>, !.hurt = FALSE]
    IN  /\ cursor[c].phase \in {"open", "read", "done"}
        /\ \E a \in Answers(store, s, known) :
              LET st == Heard(store, s, a, [store[s] EXCEPT !.cur[id] = store[s].tab[t].rows]) IN
              \/ /\ a # "ok"
                 /\ store' = st /\ faults' = faults + Cost(a)
                 /\ cursor' = [cursor EXCEPT ![c].phase = "failed"]
                 /\ UNCHANGED batch
              \/ /\ a = "ok" /\ ~Module[t].batched
                 /\ store' = st
                 /\ cursor' = [cursor EXCEPT ![c] = begun]
                 /\ UNCHANGED <<batch, faults>>
              \/ /\ a = "ok" /\ Module[t].batched
                 /\ \E o \in refill_batch(st, id, Reset(id)) :
                       /\ store' = o.st
                       /\ batch' = Put(batch, id, o.entry)
                       /\ faults' = faults + o.cost
                       /\ cursor' = [cursor EXCEPT ![c] = [begun EXCEPT !.hurt = o.hurt]]
        /\ UNCHANGED <<cursorFrame, registry>>

(* The rows a statement was given, kept to one more than it was promised.   *)
Given(cur, v) == IF Len(cur.got) > Len(cur.want) THEN cur.got ELSE Append(cur.got, v)

(* xEof: a call that fails is taken for the end.                            *)
x_eof(c) ==
    LET id == cursor[c].id
        s == dispatch_vtab_next
        b == batch[id]
        move(eof, hurt) == cursor' = [cursor EXCEPT
            ![c].phase = IF eof THEN "done" ELSE "row", ![c].hurt = @ \/ hurt]
    IN  /\ cursor[c].phase = "at"
        /\ IF Module[cursor[c].tab].batched
           THEN /\ move(id \notin DOMAIN batch \/ (b.idx >= Len(b.rows) /\ b.eof_seen), FALSE)
                /\ UNCHANGED <<store, faults>>
           ELSE \E a \in Replies :
                   /\ Call(s, s # 0 /\ id \in DOMAIN store[s].cur, a, store[s])
                   /\ move(a # "ok" \/ store[s].cur[id] = <<>>, a # "ok")
        /\ UNCHANGED <<cursorFrame, registry, batch>>

(* xRowid and xColumn read the row the cursor is at.                        *)
x_column(c) ==
    LET id == cursor[c].id
        s == dispatch_vtab_column
        b == batch[id]
        read(v) == cursor' = [cursor EXCEPT ![c].phase = "read", ![c].got = Given(cursor[c], v)]
        fail == cursor' = [cursor EXCEPT ![c].phase = "failed"]
    IN  /\ cursor[c].phase = "row"
        /\ IF Module[cursor[c].tab].batched
           THEN /\ IF id \in DOMAIN batch /\ b.idx < Len(b.rows) THEN read(b.rows[b.idx + 1]) ELSE fail
                /\ UNCHANGED <<store, faults>>
           ELSE \E a \in Replies :
                   /\ Call(s, s # 0 /\ id \in DOMAIN store[s].cur, a, store[s])
                   /\ IF a = "ok" THEN read(Head(store[s].cur[id])) ELSE fail
        /\ UNCHANGED <<cursorFrame, registry, batch>>

(* MUTANT of Advance: the position stays.                                   *)
Advance_not(entry) == entry
Advance(entry) == [entry EXCEPT !.idx = @ + 1]

x_next(c) ==
    LET id == cursor[c].id
        s == dispatch_vtab_next
        moved == Advance(batch[id])
    IN  /\ cursor[c].phase = "read"
        /\ IF Module[cursor[c].tab].batched
           THEN \E o \in IF moved.idx >= Len(moved.rows) /\ ~moved.eof_seen
                          THEN refill_batch(store, id, moved)
                          ELSE {[st |-> store, entry |-> moved, hurt |-> FALSE, cost |-> 0]} :
                   /\ store' = o.st /\ faults' = faults + o.cost
                   /\ batch' = [batch EXCEPT ![id] = o.entry]
                   /\ cursor' = [cursor EXCEPT ![c].phase = "at", ![c].hurt = @ \/ o.hurt]
           ELSE /\ UNCHANGED batch
                /\ \E a \in Replies :
                      /\ Call(s, s # 0 /\ id \in DOMAIN store[s].cur, a,
                              [store[s] EXCEPT !.cur[id] = Tail(@)])
                      /\ cursor' = [cursor EXCEPT ![c].phase = IF a = "ok" THEN "at" ELSE "failed"]
        /\ UNCHANGED <<cursorFrame, registry>>

(* A prepared statement is finalized without being run.                     *)
Forget(c) ==
    /\ cursor[c].phase = "planned"
    /\ cursor' = [cursor EXCEPT ![c] = NoCursor]
    /\ UNCHANGED <<cursorFrame, store, registry, batch, faults>>
-----------------------------------------------------------------------------
(* Writing.  SQLite calls xBegin before the first write to a table in a     *)
(* transaction; to end it, xSync of every table, and when none failed       *)
(* xCommit of every table, whose result it ignores, else xRollback.         *)
Becomes(op, x) ==
    CASE op = "begin"       -> [x EXCEPT !.saved = x.rows]
      [] op = "update"      -> [x EXCEPT !.rows = Append(@, 100 + updates)]
      [] op = "savepoint"   -> [x EXCEPT !.point = x.rows]
      [] op = "rollback_to" -> [x EXCEPT !.rows = x.point]
      [] op = "release"     -> [x EXCEPT !.point = <<>>]
      [] op = "rollback"    -> Contents(x.saved)
      [] op = "commit"      -> Contents(x.rows)
      [] op \in {"sync", "rename"} -> x

txnFrame == <<hostVars, schemaVars, registry, batch, cursor>>

(* Store s is told of op on table t.                                        *)
Write(t, s, a, op, synced) ==
    /\ vtab[t] \in registry.instances
    /\ Call(s, vtab[t] \in store[s].inst, a,
            [store[s] EXCEPT !.tab[t] = Becomes(op, @), !.synced = synced])
    /\ view' = IF a = "ok" THEN [view EXCEPT ![t] = Becomes(op, @)] ELSE view
    /\ UNCHANGED txnFrame

x_begin(t) ==
    /\ Module[t].mutable /\ txn \in {"none", "open"} /\ t \notin part
    /\ \E a \in Replies :
          /\ Write(t, dispatch_vtab_update, a, "begin", store[dispatch_vtab_update].synced \ {t})
          /\ part' = IF a = "ok" THEN part \cup {t} ELSE part
          /\ txn' = IF a = "ok" THEN "open" ELSE txn
    /\ UNCHANGED <<todo, points, updates>>

x_update(t) ==
    /\ txn = "open" /\ t \in part /\ updates < MaxUpdates
    /\ \E a \in Replies :
          Write(t, dispatch_vtab_update, a, "update", store[dispatch_vtab_update].synced \ {t})
    /\ updates' = updates + 1
    /\ UNCHANGED <<txn, part, todo, points>>

x_savepoint(t) ==
    /\ txn = "open" /\ t \in part \ points
    /\ \E a \in Replies :
          /\ Write(t, dispatch_vtab_savepoint, a, "savepoint", store[dispatch_vtab_savepoint].synced)
          /\ points' = IF a = "ok" THEN points \cup {t} ELSE points
    /\ UNCHANGED <<txn, part, todo, updates>>

x_release(t) ==
    /\ txn = "open" /\ t \in points
    /\ \E a \in Replies :
          Write(t, dispatch_vtab_savepoint, a, "release", store[dispatch_vtab_savepoint].synced)
    /\ points' = points \ {t}
    /\ UNCHANGED <<txn, part, todo, updates>>

x_rollback_to(t) ==
    /\ txn = "open" /\ t \in points
    /\ \E a \in Replies :
          Write(t, dispatch_vtab_savepoint, a, "rollback_to", store[dispatch_vtab_savepoint].synced \ {t})
    /\ UNCHANGED <<txn, part, todo, points, updates>>

x_rename(t) ==
    /\ Module[t].mutable /\ t \in made
    /\ \E a \in Replies :
          Write(t, dispatch_vtab_savepoint, a, "rename", store[dispatch_vtab_savepoint].synced)
    /\ UNCHANGED txnVars

(* COMMIT and ROLLBACK.                                                     *)
EndTxn(how) ==
    /\ txn = "open"
    /\ txn' = how /\ todo' = part /\ points' = {}
    /\ UNCHANGED <<txnFrame, store, view, part, updates, faults>>

(* MUTANT of x_sync: a failed sync is not reported.                         *)
x_sync_lenient(t) ==
    /\ txn = "sync" /\ t \in todo
    /\ \E a \in Replies :
          Write(t, dispatch_vtab_update, a, "sync", store[dispatch_vtab_update].synced \cup {t})
    /\ todo' = todo \ {t}
    /\ UNCHANGED <<txn, part, points, updates>>

x_sync(t) ==
    /\ txn = "sync" /\ t \in todo
    /\ \E a \in Replies :
          /\ Write(t, dispatch_vtab_update, a, "sync", store[dispatch_vtab_update].synced \cup {t})
          /\ IF a = "ok" THEN todo' = todo \ {t} /\ UNCHANGED txn
             ELSE txn' = "undo" /\ todo' = part
    /\ UNCHANGED <<part, points, updates>>

Synced ==
    /\ txn = "sync" /\ todo = {}
    /\ txn' = "commit" /\ todo' = part
    /\ UNCHANGED <<txnFrame, store, view, part, points, updates, faults>>

x_commit(t) ==
    /\ txn = "commit" /\ t \in todo
    /\ \E a \in Replies :
          Write(t, dispatch_vtab_update, a, "commit", store[dispatch_vtab_update].synced \ {t})
    /\ todo' = todo \ {t}
    /\ UNCHANGED <<txn, part, points, updates>>

x_rollback(t) ==
    /\ txn = "undo" /\ t \in todo
    /\ \E a \in Replies :
          Write(t, dispatch_vtab_update, a, "rollback", store[dispatch_vtab_update].synced \ {t})
    /\ todo' = todo \ {t}
    /\ UNCHANGED <<txn, part, points, updates>>

Ended ==
    /\ txn \in {"commit", "undo"} /\ todo = {}
    /\ txn' = "none" /\ part' = {}
    /\ UNCHANGED <<txnFrame, store, view, todo, points, updates, faults>>
-----------------------------------------------------------------------------
Step(c) == x_open(c) \/ x_filter(c) \/ x_eof(c) \/ x_column(c) \/ x_next(c) \/ x_close(c)

Next ==
    \/ \E k \in Kinds : Load(k)
    \/ Unload
    \/ \E t \in Tables :
          \/ x_create(t) \/ x_connect(t) \/ x_disconnect(t) \/ x_destroy(t)
          \/ x_begin(t) \/ x_update(t) \/ x_savepoint(t) \/ x_release(t) \/ x_rollback_to(t)
          \/ x_rename(t) \/ x_sync(t) \/ x_commit(t) \/ x_rollback(t)
    \/ EndTxn("sync") \/ EndTxn("undo") \/ Synced \/ Ended
    \/ \E c \in Cursors :
          (\E t \in Tables : x_best_index(c, t)) \/ Forget(c) \/ Step(c)

Spec == Init /\ [][Next]_vars
-----------------------------------------------------------------------------
Phases == {"idle", "planned", "open", "at", "row", "read", "done", "failed"}
Ids == 1..MaxCursors

TypeOK ==
    /\ {backing, dynlink, mutating} \subseteq 0..Len(store)
    /\ registered \in BOOLEAN
    /\ \A s \in DOMAIN store :
          /\ store[s].trapped \in BOOLEAN /\ store[s].synced \subseteq Tables
          /\ store[s].inst \subseteq 1..MaxInstances /\ DOMAIN store[s].cur \subseteq Ids
    /\ registry.instances \subseteq 1..MaxInstances
    /\ registry.cursors \subseteq Ids /\ registry.next_cursor \in 1..(MaxCursors + 1)
    /\ made \subseteq Tables /\ vtab \in [Tables -> 0..MaxInstances]
    /\ home \in [Tables -> 0..Len(store)]
    /\ \A c \in Cursors : cursor[c].phase \in Phases /\ cursor[c].tab \in Tables
    /\ txn \in {"none", "open", "sync", "commit", "undo"}
    /\ part \subseteq Tables /\ todo \subseteq part /\ points \subseteq part
    /\ faults \in 0..MaxFaults /\ updates \in 0..MaxUpdates

(* A cursor, served row by row or from blocks, keeps the promise of         *)
(* VtabScan: the rows its table has when it is filtered, inserts of the     *)
(* same transaction included, once each and in order; rows are missing      *)
(* without an error only when a fetch or xEof call failed in that scan.     *)
TableRows == [t \in Tables |-> view[t].rows]
ScanOf(k) ==
    IF k.phase \in {"at", "row", "read", "done"}
    THEN [on |-> TRUE, over |-> k.phase = "done", want |-> k.want, got |-> k.got, hurt |-> k.hurt]
    ELSE [on |-> FALSE, over |-> FALSE, want |-> <<>>, got |-> <<>>, hurt |-> FALSE]
Scans == [c \in Cursors |-> ScanOf(cursor[c])]

Scan == INSTANCE VtabScan WITH table <- TableRows, scan <- Scans

ScanRefines == Scan!ScanSpec

(* While a block-served cursor is in use its block has a row or the end was *)
(* seen: the not-the-end answer x_eof gives otherwise is never given.       *)
BlockReady ==
    \A c \in Cursors :
        /\ cursor[c].phase \in {"at", "row", "read"} /\ Module[cursor[c].tab].batched
        => /\ cursor[c].id \in DOMAIN batch
           /\ LET b == batch[cursor[c].id] IN b.idx < Len(b.rows) \/ b.eof_seen

(* The id tables hold what SQLite holds and nothing else, whichever calls   *)
(* of the component failed.                                                 *)
NoIdLeaks ==
    /\ registry.instances = {vtab[t] : t \in Tables} \ {0}
    /\ registry.cursors = {cursor[c].id : c \in Cursors} \ {0}
    /\ DOMAIN batch \subseteq registry.cursors

(* Every table in use is known to the store that connected it, and two      *)
(* tables or cursors never share an id in it.                               *)
StoreKnows ==
    /\ \A t \in Tables : vtab[t] # 0 => store[home[t]].trapped \/ vtab[t] \in store[home[t]].inst
    /\ \A t, u \in Tables : vtab[t] # 0 /\ vtab[t] = vtab[u] => t = u
    /\ \A c, d \in Cursors : cursor[c].id # 0 /\ cursor[c].id = cursor[d].id => c = d

(* The bookkeeping of the bridge stays in step with SQLite and with the     *)
(* stores, on every path on which a call of the component fails or traps:   *)
(* no id is leaked or shared, no block is stale or empty (vtab.rs registry  *)
(* and batch_cache).                                                        *)
TablesInStep == NoIdLeaks /\ StoreKnows /\ BlockReady

(* SQLite commits only when, for every table of the transaction, the store  *)
(* that holds its rows has synced exactly what the writers were told, even  *)
(* if the extension was unloaded or loaded again meanwhile.                 *)
CommitIsSynced ==
    [][txn = "sync" /\ txn' = "commit" =>
         \A t \in part :
            \/ store[home[t]].trapped
            \/ /\ t \in store[home[t]].synced
               /\ store[home[t]].tab[t].rows = view[t].rows]_vars

(* Under a virtual machine that runs its statements on, every scan ends or  *)
(* is started again: no sequence of blocks and failures keeps it going.     *)
Fairness == \A c \in Cursors : WF_vars(x_eof(c) \/ x_column(c) \/ x_next(c))
FairSpec == Spec /\ Fairness

ScanEnds ==
    \A c \in Cursors :
        []<>(cursor[c].phase \notin {"at", "row", "read"} \/ cursor[c].got = <<>>)
=============================================================================
