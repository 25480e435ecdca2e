------------------------- MODULE LoadableExtension -------------------------
(***************************************************************************)
(* The loadable extension for stock sqlite3 (sqlink-extension/src): several  *)
(* connections of one process attach it, load extensions through the one     *)
(* Host they share, and call the functions and virtual tables that were      *)
(* registered on them.                                                       *)
(*                                                                           *)
(* Abstractions.  Every extension has one set of scalars, one aggregate and  *)
(* one module.  A guest is the code loaded by one load_extension: its        *)
(* accumulators, instances and cursors, keyed by the ids the trampolines     *)
(* make up.  A callback is one step: the guest answers one call at a time    *)
(* (the lock of its store, see Residents).  A cell and a value are the kind  *)
(* that the conversions tell apart.  A row of an aggregate is its statement, *)
(* slot and number; a row of a table is a number.  sqlite3 (external) makes  *)
(* any sequence of callbacks its contract allows, within the slots and rows  *)
(* its statement gives; MaxFaults bounds what fails.                         *)
(***************************************************************************)
EXTENDS Naturals, Sequences, FiniteSets

CONSTANTS
    Conns,          \* connections; also the Host each of them may build
    Exts,           \* extensions
    Bridged,        \* the ones that are dynlink bridges, not providers
    Files,          \* Files[e][p]: kinds of artifact of e found at place p
    Eager,          \* SQLINK_EXTENSION_LOAD
    Initial,        \* Initial[c]: rows of the table connection c declares
    Programs,       \* statements of every connection, one choice of them
    MaxFaults,
    None

Slots == {1, 2}
Cells == {"null", "int", "real", "text", "badtext", "empty", "blob", "frame"}

(* What a connection may be asked to do.                                    *)
Statements ==
    [op : {"attach"}, ext : Exts]
    \cup [op : {"load"}, ext : Exts, arg : {"none", "text", "null", "blob"}]
    \cup [op : {"scalar"}, ext : Exts, fn : {"echo", "make", "nan"}, cell : Cells]
    \cup [op : {"group", "window", "scan", "write", "drop"}, ext : Exts,
          slots : {0} \cup Slots, rows : Nat]

ASSUME ExtensionAssumption ==
    /\ Bridged \subseteq Exts
    /\ Eager \in Seq(Exts)
    /\ Initial \in [Conns -> Seq(Nat)]
    /\ MaxFaults \in Nat
    /\ None \notin Conns
    \* sqlite3 loads the library, and once, before anything is asked of it
    /\ Programs \subseteq [Conns -> Seq(Statements)]
    /\ \A p \in Programs, c \in Conns : \A i \in DOMAIN p[c] : p[c][i].op = "attach" <=> i = 1

VARIABLES
    HOST,       \* state.rs: the Host singleton
    GLOBALS,    \* vtab.rs: the Host of every table callback
    loaded,     \* loaded[h][e]: the guest behind e in Host h, 0 before
    guests,     \* every guest ever loaded
    next,       \* NEXT_INSTANCE_ID and NEXT_CURSOR_ID
    db,         \* db[c]: what is registered and connected on c
    task,       \* task[c]: statements left, and how far the first one is
    grp,        \* grp[c][s]: the aggregate_context of slot s, with history
    cur,        \* cur[c][s]: the LoaderCursor of slot s, with history
    faults,
    \* history
    seen        \* seen[c]: what the last answered call gave and should give

vars == <<HOST, GLOBALS, loaded, guests, next, db, task, grp, cur, faults, seen>>

Places == <<"path", "dir", "root", "cwd">>

Put(f, k, v) == [x \in DOMAIN f \cup {k} |-> IF x = k THEN v ELSE f[x]]
Drop(f, k) == [x \in DOMAIN f \ {k} |-> f[x]]
At(f, k, d) == IF k \in DOMAIN f THEN f[k] ELSE d

NoGuest == [acc |-> <<>>, inst |-> <<>>, cur |-> <<>>, dead |-> FALSE]
NoInst == [rows |-> <<>>, saved |-> <<>>]
NoAgg == [host |-> None, next_id |-> 0]
NoVtab == [inst |-> 0, gen |-> 0, view |-> <<>>, saved |-> <<>>]
NoDb == [host |-> None, scalar |-> [e \in Exts |-> None], agg |-> [e \in Exts |-> NoAgg],
         module |-> {}, vtab |-> [e \in Exts |-> NoVtab], open |-> {}]
NoGroup == [id |-> 0, gen |-> 0, n |-> 0, rows |-> <<>>, hurt |-> FALSE, done |-> FALSE]
NoCursor == [pc |-> "closed", id |-> 0, want |-> <<>>, got |-> <<>>, hurt |-> FALSE, again |-> FALSE]
Unseen == [kind |-> "none", sent |-> <<>>, got |-> <<>>, hurt |-> FALSE]

Init ==
    /\ HOST = None /\ GLOBALS = None
    /\ loaded = [h \in Conns |-> [e \in Exts |-> 0]]
    /\ guests = <<>>
    /\ next = [inst |-> 1, cur |-> 1]
    /\ db = [c \in Conns |-> NoDb]
    /\ \E p \in Programs :
          task = [c \in Conns |-> [todo |-> p[c], pc |-> "idle", err |-> FALSE]]
    /\ grp = [c \in Conns |-> [s \in Slots |-> NoGroup]]
    /\ cur = [c \in Conns |-> [s \in Slots |-> NoCursor]]
    /\ faults = 0
    /\ seen = [c \in Conns |-> Unseen]
-----------------------------------------------------------------------------
(* Statements.                                                              *)
Stmt(c) == Head(task[c].todo)
Busy(c, op, pc) == task[c].todo # <<>> /\ Stmt(c).op = op /\ task[c].pc = pc
Doing(c, ops, pc) == task[c].todo # <<>> /\ Stmt(c).op \in ops /\ task[c].pc = pc
Goto(c, pc) == task' = [task EXCEPT ![c].pc = pc]
Fail(c) == task' = [task EXCEPT ![c].err = TRUE]
EndWith(c, rest) == task' = [task EXCEPT ![c] = [todo |-> rest, pc |-> "idle", err |-> FALSE]]
End(c) == EndWith(c, Tail(task[c].todo))

MayFail == faults < MaxFaults /\ faults' = faults + 1
Fine == UNCHANGED faults

(* A call into the guest behind e in Host h.  It fails when nothing is      *)
(* loaded there, when its store is dead after a trap, or when the guest     *)
(* answers with an error or traps now.                                      *)
Guest(h, e) == IF h = None THEN 0 ELSE loaded[h][e]
Alive(g) == g # 0 /\ ~guests[g].dead
Answers(g) == Alive(g) /\ Fine
Refuses(g) ==
    \/ ~Alive(g) /\ Fine /\ UNCHANGED guests
    \/ Alive(g) /\ MayFail /\ guests' \in {guests, [guests EXCEPT ![g].dead = TRUE]}
-----------------------------------------------------------------------------
(* Attaching the library: init_inner.  The Host is looked up, built outside *)
(* any lock when there is none, and offered to the OnceLock.                *)
Attach(c) ==
    /\ Busy(c, "attach", "idle")
    /\ IF HOST # None
       THEN db' = [db EXCEPT ![c].host = HOST] /\ Goto(c, "register")
       ELSE Goto(c, "new") /\ UNCHANGED db
    /\ UNCHANGED <<HOST, GLOBALS, loaded, guests, next, grp, cur, faults, seen>>

HostNew(c) ==
    /\ Busy(c, "attach", "new")
    /\ \/ Goto(c, "set") /\ Fine
       \/ EndWith(c, <<>>) /\ MayFail
    /\ UNCHANGED <<HOST, GLOBALS, loaded, guests, next, db, grp, cur, seen>>

host_own(c) == c
host(c) == IF HOST = None THEN c ELSE HOST

HostSet(c) ==
    /\ Busy(c, "attach", "set")
    /\ HOST' = IF HOST = None THEN c ELSE HOST
    /\ db' = [db EXCEPT ![c].host = host(c)]
    /\ Goto(c, "register")
    /\ UNCHANGED <<GLOBALS, loaded, guests, next, grp, cur, faults, seen>>

(* sqlink_load_ext is registered; then the eager loads, whose failures are  *)
(* only logged.                                                             *)
register_sqlink_load_ext(c) ==
    /\ Busy(c, "attach", "register")
    /\ \/ /\ EndWith(c, [i \in DOMAIN Eager |-> [op |-> "load", ext |-> Eager[i], arg |-> "none"]]
                           \o Tail(task[c].todo))
          /\ Fine
       \/ EndWith(c, <<>>) /\ MayFail
    /\ UNCHANGED <<HOST, GLOBALS, loaded, guests, next, db, grp, cur, seen>>
-----------------------------------------------------------------------------
(* Loading: the arguments, the file, the Host's load, the trampolines.      *)
GoodArg(arg) == arg \in {"none", "text", "null"}

(* The first place with any artifact decides; a provider is preferred there.*)
(* The Host refuses what is neither a provider nor a bridge.                *)
resolve_extension_path(e) ==
    LET found == {i \in DOMAIN Places : Files[e][Places[i]] # {}}
        first == CHOOSE i \in found : \A j \in found : i <= j
        kinds == Files[e][Places[first]] IN
    IF found = {} THEN "missing"
    ELSE IF "provider" \in kinds THEN "provider" ELSE CHOOSE k \in kinds : TRUE

(* A load always makes a new guest, whatever is loaded under the name.      *)
load_extension(h, e) == [loaded EXCEPT ![h][e] = Len(guests) + 1]

sqlink_load_ext_xfunc(c) ==
    /\ Busy(c, "load", "idle")
    /\ LET e == Stmt(c).ext IN
       \/ /\ ~GoodArg(Stmt(c).arg) \/ resolve_extension_path(e) \notin {"provider", "bridge"}
          /\ End(c) /\ Fine
          /\ UNCHANGED <<guests, loaded>>
       \/ /\ GoodArg(Stmt(c).arg) /\ resolve_extension_path(e) \in {"provider", "bridge"}
          /\ \/ /\ guests' = Append(guests, NoGuest)
                /\ loaded' = load_extension(db[c].host, e)
                /\ Goto(c, "install") /\ Fine
             \/ End(c) /\ MayFail /\ UNCHANGED <<guests, loaded>>
    /\ UNCHANGED <<HOST, GLOBALS, next, db, grp, cur, seen>>

(* sqlite3 refuses to replace a function while a statement runs, and the    *)
(* SELECT that calls sqlink_load_ext is one: a function that is there stays *)
(* as it was registered.  A refusal is logged and the next one is tried.    *)
Taken(c, e, tier) ==
    CASE tier = "scalar" -> db[c].scalar[e] # None
      [] tier = "agg"    -> db[c].agg[e] # NoAgg
      [] OTHER           -> FALSE

register_aggregate(h) == [host |-> h, next_id |-> 1]

load_and_install(c) ==
    /\ Busy(c, "load", "install")
    /\ \E bad \in SUBSET {"scalar", "agg", "module"} :
        LET e == Stmt(c).ext
            h == db[c].host
            new(tier) == tier \notin bad /\ ~Taken(c, e, tier) IN
        /\ faults + Cardinality(bad) <= MaxFaults
        /\ faults' = faults + Cardinality(bad)
        /\ GLOBALS' = IF GLOBALS = None THEN h ELSE GLOBALS
        /\ db' = [db EXCEPT ![c].scalar[e] = IF new("scalar") THEN h ELSE @,
                            ![c].agg[e] = IF new("agg") THEN register_aggregate(h) ELSE @,
                            ![c].module = IF new("module") THEN @ \cup {e} ELSE @]
    /\ End(c)
    /\ UNCHANGED <<HOST, loaded, guests, next, grp, cur, seen>>

(* A statement that names what is not registered fails when it is prepared. *)
Registered(c) ==
    LET e == Stmt(c).ext IN
    CASE Stmt(c).op = "scalar" -> db[c].scalar[e] # None
      [] Stmt(c).op \in {"group", "window"} -> db[c].agg[e] # NoAgg
      [] Stmt(c).op \in {"scan", "write", "drop"} -> e \in db[c].module
      [] OTHER -> TRUE

NoSuchName(c) ==
    /\ task[c].todo # <<>> /\ task[c].pc = "idle" /\ ~Registered(c)
    /\ End(c)
    /\ UNCHANGED <<HOST, GLOBALS, loaded, guests, next, db, grp, cur, faults, seen>>
-----------------------------------------------------------------------------
(* Values.  A cell becomes a value on the way in and a cell on the way out. *)
(* Text that is not UTF-8 is repaired, and is other text from then on.      *)
read_value(x) == IF x = "badtext" THEN "lossy" ELSE x

(* A framed blob is a typed value again when its type id is registered; no  *)
(* load fills the registry (lib.rs:4510).                                   *)
typed_values == {}
read_value_lifted(x) ==
    IF read_value(x) = "frame" /\ x \in typed_values THEN "wit" ELSE read_value(x)

(* sqlite3 has no NaN and no typed cell.                                    *)
write_result(v) ==
    CASE v = "nan" -> "null"
      [] v = "wit" -> "frame"
      [] OTHER     -> v

(* The envelope of a provider.  A guest may write a blob as bytes or as an  *)
(* array of integers; only one direction knows typed values.                *)
Blobs == {"empty", "blob", "frame"}
sqlval_to_cbor(v) == [tag |-> IF v \in Blobs THEN "blob" ELSE v, form |-> "bytes", val |-> v]
cbor_to_sqlval_bytes(x) ==
    CASE x.tag = "wit" -> "error"
      [] x.tag = "blob" /\ x.form = "array" -> "empty"
      [] OTHER -> x.val
cbor_to_sqlval(x) == IF x.tag = "wit" THEN "error" ELSE x.val

(* external: what the guest's functions return, and how it is encoded.      *)
Returns(fn, v) == CASE fn = "echo" -> v [] fn = "make" -> "wit" [] fn = "nan" -> "nan"
Encoded(v) == {[sqlval_to_cbor(v) EXCEPT !.form = f] : f \in {"bytes", "array"}}

Carried(e, fn, x) ==
    LET v == read_value_lifted(x) IN
    IF e \in Bridged THEN {write_result(Returns(fn, v))}
    ELSE {LET r == cbor_to_sqlval(y) IN IF r = "error" THEN r ELSE write_result(r) :
             y \in Encoded(Returns(fn, sqlval_to_cbor(v).val))}

scalar_xfunc(c) ==
    /\ Busy(c, "scalar", "idle") /\ Registered(c)
    /\ LET st == Stmt(c)
           g == Guest(db[c].scalar[st.ext], st.ext) IN
       \/ /\ Answers(g) /\ UNCHANGED guests
          /\ \E x \in Carried(st.ext, st.fn, st.cell) :
                seen' = [seen EXCEPT ![c] =
                            [kind |-> st.fn, sent |-> <<st.cell>>, got |-> <<x>>, hurt |-> FALSE]]
       \/ /\ Refuses(g)
          /\ seen' = [seen EXCEPT ![c] =
                         [kind |-> st.fn, sent |-> <<st.cell>>, got |-> <<"error">>, hurt |-> TRUE]]
    /\ End(c)
    /\ UNCHANGED <<HOST, GLOBALS, loaded, next, db, grp, cur>>
-----------------------------------------------------------------------------
(* Aggregates.  The groups of a statement are stepped in any order; a       *)
(* window's rows also leave its frame, oldest first.  An aggregate of a     *)
(* bridge has no dispatch.                                                  *)
AggGuest(c) == LET e == Stmt(c).ext IN IF e \in Bridged THEN 0 ELSE Guest(db[c].agg[e].host, e)

Group(c) ==
    /\ Doing(c, {"group", "window"}, "idle") /\ Registered(c)
    /\ Goto(c, "group")
    /\ grp' = [grp EXCEPT ![c] = [s \in Slots |-> NoGroup]]
    /\ UNCHANGED <<HOST, GLOBALS, loaded, guests, next, db, cur, faults, seen>>

InGroup(c, s) == Doing(c, {"group", "window"}, "group") /\ s <= Stmt(c).slots /\ ~grp[c][s].done
Running(c) == ~task[c].err

(* open (history): groups that were stepped and not finalized, be they under *)
(* way or left behind by an xFinal that failed.                             *)
Tag(c, s) == <<c, Len(task[c].todo), s>>
Others(c) == UNION {db[d].open : d \in Conns \ {c}}

(* The context id: kept in sqlite3's buffer, taken from the counter of this *)
(* registration on the first step.                                          *)
agg_state_again(c, s) == db[c].agg[Stmt(c).ext].next_id
agg_state(c, s) == IF grp[c][s].id # 0 THEN grp[c][s].id ELSE db[c].agg[Stmt(c).ext].next_id

agg_xstep(c, s) ==
    LET e == Stmt(c).ext
        g == AggGuest(c)
        id == agg_state(c, s)
        row == <<c, Len(task[c].todo), s, grp[c][s].n + 1>>
        stepped == [grp[c][s] EXCEPT !.id = id, !.n = @ + 1, !.rows = Append(@, row),
                        !.gen = IF grp[c][s].id = 0 THEN g ELSE @,
                        !.hurt = @ \/ Others(c) # {}] IN
    /\ InGroup(c, s) /\ Running(c) /\ grp[c][s].n < Stmt(c).rows
    /\ db' = [db EXCEPT ![c].agg[e].next_id = IF grp[c][s].id = 0 THEN @ + 1 ELSE @,
                        ![c].open = @ \cup {Tag(c, s)}]
    /\ grp' = [d \in Conns |-> [t \in Slots |->
                  IF d = c /\ t = s THEN stepped
                  ELSE [grp[d][t] EXCEPT !.hurt = @ \/ (d # c /\ grp[d][t].id # 0)]]]
    /\ \/ /\ Answers(g)
          /\ guests' = [guests EXCEPT ![g].acc = Put(@, id, Append(At(@, id, <<>>), row))]
          /\ UNCHANGED task
       \/ Refuses(g) /\ Fail(c)
    /\ UNCHANGED <<HOST, GLOBALS, loaded, next, cur, seen>>

(* aggregate_context gives no memory: the step fails before anything else.  *)
agg_out_of_memory(c, s) ==
    /\ InGroup(c, s) /\ Running(c) /\ grp[c][s].id = 0
    /\ MayFail /\ Fail(c)
    /\ UNCHANGED <<HOST, GLOBALS, loaded, guests, next, db, grp, cur, seen>>

(* What the guest has for the group (external: nothing for an id it does    *)
(* not know, 0 among them) beside the rows that are in its frame.           *)
Answer(c, s, g) ==
    seen' = [seen EXCEPT ![c] =
                [kind |-> "group", sent |-> grp[c][s].rows,
                 got |-> At(guests[g].acc, grp[c][s].id, <<>>),
                 hurt |-> grp[c][s].hurt \/ (grp[c][s].id # 0 /\ grp[c][s].gen # g)]]

agg_xvalue(c, s) ==
    LET g == AggGuest(c) IN
    /\ InGroup(c, s) /\ Running(c) /\ Stmt(c).op = "window"
    /\ \/ Answers(g) /\ Answer(c, s, g) /\ UNCHANGED <<guests, task>>
       \/ Refuses(g) /\ Fail(c) /\ UNCHANGED seen
    /\ UNCHANGED <<HOST, GLOBALS, loaded, next, db, grp, cur>>

agg_xinverse(c, s) ==
    LET g == AggGuest(c)
        id == grp[c][s].id
        rows == At(guests[g].acc, id, <<>>) IN
    /\ InGroup(c, s) /\ Running(c) /\ Stmt(c).op = "window" /\ grp[c][s].rows # <<>>
    /\ grp' = [grp EXCEPT ![c][s].rows = Tail(@)]
    /\ \/ /\ Answers(g)
          /\ guests' = [guests EXCEPT ![g].acc =
                           Put(@, id, IF rows = <<>> THEN rows ELSE Tail(rows))]
          /\ UNCHANGED task
       \/ Refuses(g) /\ Fail(c)
    /\ UNCHANGED <<HOST, GLOBALS, loaded, next, db, cur, seen>>

(* The end of a group: of a statement that failed too, if it was stepped,   *)
(* when the answer goes nowhere.                                            *)
agg_xfinal(c, s) ==
    LET g == AggGuest(c) IN
    /\ InGroup(c, s)
    /\ grp' = [grp EXCEPT ![c][s].done = TRUE]
    /\ IF task[c].err /\ grp[c][s].id = 0
       THEN Fine /\ UNCHANGED <<guests, db, task, seen>>
       ELSE \/ /\ Answers(g)
               /\ guests' = [guests EXCEPT ![g].acc = Drop(@, grp[c][s].id)]
               /\ db' = [db EXCEPT ![c].open = @ \ {Tag(c, s)}]
               /\ IF task[c].err THEN UNCHANGED seen ELSE Answer(c, s, g)
               /\ UNCHANGED task
            \/ Refuses(g) /\ Fail(c) /\ UNCHANGED <<db, seen>>
    /\ UNCHANGED <<HOST, GLOBALS, loaded, next, cur>>

GroupEnd(c) ==
    /\ Doing(c, {"group", "window"}, "group") /\ \A s \in Slots : s <= Stmt(c).slots => grp[c][s].done
    /\ End(c)
    /\ grp' = [grp EXCEPT ![c] = [s \in Slots |-> NoGroup]]
    /\ UNCHANGED <<HOST, GLOBALS, loaded, guests, next, db, cur, faults, seen>>
-----------------------------------------------------------------------------
(* Virtual tables.  Instances and cursors are numbered for the process; the *)
(* calls go to the Host in GLOBALS.                                         *)
TableGuest(c) == Guest(GLOBALS, Stmt(c).ext)
Vtab(c) == db[c].vtab[Stmt(c).ext]
SetVtab(c, v) == db' = [db EXCEPT ![c].vtab[Stmt(c).ext] = v]

alloc_instance_id_own(c) == Cardinality({e \in Exts : db[c].vtab[e] # NoVtab}) + 1
alloc_instance_id(c) == next.inst
alloc_cursor_id_own(c, s) == s
alloc_cursor_id(c, s) == next.cur

(* The guest's instance is made first; when sqlite3 then refuses the schema *)
(* nothing tells the guest.                                                 *)
create_or_connect(c) ==
    LET g == TableGuest(c)
        id == alloc_instance_id(c)
        made == [guests EXCEPT ![g].inst = Put(@, id, [NoInst EXCEPT !.rows = Initial[c]])] IN
    /\ Doing(c, {"scan", "write"}, "idle") /\ Registered(c) /\ Vtab(c) = NoVtab
    /\ next' = [next EXCEPT !.inst = @ + 1]
    /\ \/ /\ Answers(g) /\ guests' = made
          /\ SetVtab(c, [NoVtab EXCEPT !.inst = id, !.gen = g, !.view = Initial[c]])
          /\ UNCHANGED task
       \/ Alive(g) /\ MayFail /\ guests' = made /\ End(c) /\ UNCHANGED db
       \/ Refuses(g) /\ End(c) /\ UNCHANGED db
    /\ UNCHANGED <<HOST, GLOBALS, loaded, grp, cur, seen>>

(* x_disconnect and x_destroy: the guest's errors are ignored.              *)
x_disconnect(c) ==
    LET g == TableGuest(c) IN
    /\ Busy(c, "drop", "idle") /\ Registered(c)
    /\ IF Vtab(c) = NoVtab THEN Fine /\ UNCHANGED <<guests, db>>
       ELSE /\ SetVtab(c, NoVtab)
            /\ \/ Answers(g) /\ guests' = [guests EXCEPT ![g].inst = Drop(@, Vtab(c).inst)]
               \/ Refuses(g)
    /\ End(c)
    /\ UNCHANGED <<HOST, GLOBALS, loaded, next, grp, cur, seen>>

Connected(c) == Registered(c) /\ Vtab(c) # NoVtab
Knows(g, c) == Alive(g) /\ Vtab(c).inst \in DOMAIN guests[g].inst

(* external: a guest answers an id it does not have with an error.          *)
InstAnswers(g, c) == Knows(g, c) /\ Fine
InstRefuses(g, c) == Refuses(g) \/ (Alive(g) /\ ~Knows(g, c) /\ Fine /\ UNCHANGED guests)

x_best_index(c) ==
    LET g == TableGuest(c) IN
    /\ Busy(c, "scan", "idle") /\ Connected(c)
    /\ \/ InstAnswers(g, c) /\ Goto(c, "scan") /\ UNCHANGED guests
       \/ InstRefuses(g, c) /\ End(c)
    /\ UNCHANGED <<HOST, GLOBALS, loaded, next, db, grp, cur, seen>>

Cur(c, s) == cur[c][s]
SetCur(c, s, v) == cur' = [cur EXCEPT ![c][s] = v]
Scanning(c, s, pcs) == Busy(c, "scan", "scan") /\ Cur(c, s).pc \in pcs /\ Running(c)

x_open(c, s) ==
    LET g == TableGuest(c)
        id == alloc_cursor_id(c, s) IN
    /\ Scanning(c, s, {"closed"}) /\ s <= Stmt(c).slots /\ (s = 1 \/ Cur(c, 1).pc # "closed")
    /\ next' = [next EXCEPT !.cur = @ + 1]
    /\ \/ /\ InstAnswers(g, c)
          /\ guests' = [guests EXCEPT ![g].cur = Put(@, id, [inst |-> Vtab(c).inst, left |-> <<>>])]
          /\ SetCur(c, s, [NoCursor EXCEPT !.pc = "open", !.id = id])
          /\ UNCHANGED task
       \/ InstRefuses(g, c) /\ Fail(c) /\ UNCHANGED cur
    /\ UNCHANGED <<HOST, GLOBALS, loaded, db, grp, seen>>

Has(g, c, s) == Alive(g) /\ Cur(c, s).id \in DOMAIN guests[g].cur
CurAnswers(g, c, s) == Has(g, c, s) /\ Fine
CurRefuses(g, c, s) == Refuses(g) \/ (Alive(g) /\ ~Has(g, c, s) /\ Fine /\ UNCHANGED guests)
Left(g, c, s) == guests[g].cur[Cur(c, s).id].left

(* An inner cursor is filtered again for the next row of an outer one.      *)
x_filter(c, s) ==
    LET g == TableGuest(c) IN
    /\ Scanning(c, s, {"open", "over"}) /\ ~Cur(c, s).again
    /\ \/ /\ CurAnswers(g, c, s)
          /\ LET k == guests[g].cur[Cur(c, s).id] IN
             guests' = [guests EXCEPT ![g].cur[Cur(c, s).id].left = At(guests[g].inst, k.inst, NoInst).rows]
          /\ SetCur(c, s, [NoCursor EXCEPT !.pc = "at", !.id = Cur(c, s).id,
                             !.want = Vtab(c).view,
                             !.again = Cur(c, s).pc = "over"])
          /\ UNCHANGED task
       \/ CurRefuses(g, c, s) /\ Fail(c) /\ SetCur(c, s, [Cur(c, s) EXCEPT !.pc = "failed"])
    /\ UNCHANGED <<HOST, GLOBALS, loaded, next, db, grp, seen>>

(* xEof cannot fail: an answer that does not come is the end of the table.  *)
x_eof(c, s) ==
    LET g == TableGuest(c) IN
    /\ Scanning(c, s, {"at"})
    /\ \/ /\ CurAnswers(g, c, s) /\ UNCHANGED guests
          /\ SetCur(c, s, [Cur(c, s) EXCEPT !.pc = IF Left(g, c, s) = <<>> THEN "over" ELSE "row"])
       \/ CurRefuses(g, c, s) /\ SetCur(c, s, [Cur(c, s) EXCEPT !.pc = "over", !.hurt = TRUE])
    /\ UNCHANGED <<HOST, GLOBALS, loaded, next, db, task, grp, seen>>

(* xColumn; xRowid asks the same cursor in the same way.                    *)
x_column(c, s) ==
    LET g == TableGuest(c) IN
    /\ Scanning(c, s, {"row"})
    /\ \/ /\ CurAnswers(g, c, s) /\ UNCHANGED <<guests, task>>
          /\ SetCur(c, s, [Cur(c, s) EXCEPT !.pc = "read", !.got = Append(@, Head(Left(g, c, s)))])
       \/ CurRefuses(g, c, s) /\ Fail(c) /\ SetCur(c, s, [Cur(c, s) EXCEPT !.pc = "failed"])
    /\ UNCHANGED <<HOST, GLOBALS, loaded, next, db, grp, seen>>

x_next(c, s) ==
    LET g == TableGuest(c) IN
    /\ Scanning(c, s, {"read"})
    /\ \/ /\ CurAnswers(g, c, s) /\ UNCHANGED task
          /\ guests' = [guests EXCEPT ![g].cur[Cur(c, s).id].left = Tail(@)]
          /\ SetCur(c, s, [Cur(c, s) EXCEPT !.pc = "at"])
       \/ CurRefuses(g, c, s) /\ Fail(c) /\ SetCur(c, s, [Cur(c, s) EXCEPT !.pc = "failed"])
    /\ UNCHANGED <<HOST, GLOBALS, loaded, next, db, grp, seen>>

x_close(c, s) ==
    LET g == TableGuest(c) IN
    /\ Busy(c, "scan", "scan")
    /\ Cur(c, s).pc \in {"over", "failed"} \/ (task[c].err /\ Cur(c, s).pc \notin {"closed", "done"})
    /\ SetCur(c, s, [NoCursor EXCEPT !.pc = "done"])
    /\ \/ CurAnswers(g, c, s) /\ guests' = [guests EXCEPT ![g].cur = Drop(@, Cur(c, s).id)]
       \/ CurRefuses(g, c, s)
    /\ UNCHANGED <<HOST, GLOBALS, loaded, next, db, task, grp, seen>>

(* A statement may use the first cursor alone.                              *)
ScanEnd(c) ==
    /\ Busy(c, "scan", "scan") /\ \A s \in Slots : Cur(c, s).pc \in {"closed", "done"}
    /\ End(c)
    /\ cur' = [cur EXCEPT ![c] = [s \in Slots |-> NoCursor]]
    /\ UNCHANGED <<HOST, GLOBALS, loaded, guests, next, db, grp, faults, seen>>
-----------------------------------------------------------------------------
(* Writing: xBegin, then updates and savepoints, then xSync and xCommit, or *)
(* xRollback.  view is what the answers tell the writer the table has,      *)
(* saved its rows at xBegin and at the savepoints that are open.  What the  *)
(* guest (external) does to an instance has the name of its callback.       *)
Inst(g, c) == guests[g].inst[Vtab(c).inst]
SetInst(g, c, i) == guests' = [guests EXCEPT ![g].inst[Vtab(c).inst] = i]
begin(i) == [i EXCEPT !.saved = <<i.rows>>]
savepoint(i) == [i EXCEPT !.saved = Append(@, i.rows)]

Told(g, c, i, v) == InstAnswers(g, c) /\ SetInst(g, c, i) /\ SetVtab(c, v)
NotTold(g, c) == InstRefuses(g, c) /\ UNCHANGED db
Depth(c) == Len(Vtab(c).saved)
Cut(saved, n) == SubSeq(saved, 1, n)

x_begin(c) ==
    LET g == TableGuest(c) IN
    /\ Busy(c, "write", "idle") /\ Connected(c)
    /\ \/ Told(g, c, begin(Inst(g, c)), [Vtab(c) EXCEPT !.saved = <<Vtab(c).view>>]) /\ Goto(c, "write")
       \/ NotTold(g, c) /\ End(c)
    /\ UNCHANGED <<HOST, GLOBALS, loaded, next, grp, cur, seen>>

Writing(c) == Busy(c, "write", "write") /\ Running(c)

x_update(c) ==
    LET g == TableGuest(c)
        row == 100 + Len(Vtab(c).view) IN
    /\ Writing(c) /\ Len(Vtab(c).view) < Len(Initial[c]) + Stmt(c).rows
    /\ \/ /\ Told(g, c, [Inst(g, c) EXCEPT !.rows = Append(@, row)], [Vtab(c) EXCEPT !.view = Append(@, row)])
          /\ UNCHANGED task
       \/ NotTold(g, c) /\ Fail(c)
    /\ UNCHANGED <<HOST, GLOBALS, loaded, next, grp, cur, seen>>

x_savepoint(c) ==
    LET g == TableGuest(c) IN
    /\ Writing(c) /\ Depth(c) <= Stmt(c).rows
    /\ \/ /\ Told(g, c, savepoint(Inst(g, c)), [Vtab(c) EXCEPT !.saved = Append(@, Vtab(c).view)])
          /\ UNCHANGED task
       \/ NotTold(g, c) /\ Fail(c)
    /\ UNCHANGED <<HOST, GLOBALS, loaded, next, grp, cur, seen>>

(* A savepoint is given to the guest by its number.                         *)
release(i, n) == [i EXCEPT !.saved = Cut(@, n - 1)]
rollback_to(i, n) == [i EXCEPT !.saved = Cut(@, n), !.rows = i.saved[n]]

x_release(c) ==
    LET g == TableGuest(c) IN
    /\ Writing(c)
    /\ \E n \in 2..Depth(c) :
          \/ /\ Told(g, c, release(Inst(g, c), n), [Vtab(c) EXCEPT !.saved = Cut(@, n - 1)])
             /\ UNCHANGED task
          \/ NotTold(g, c) /\ Fail(c)
    /\ UNCHANGED <<HOST, GLOBALS, loaded, next, grp, cur, seen>>

x_rollback_to(c) ==
    LET g == TableGuest(c) IN
    /\ Writing(c)
    /\ \E n \in 2..Depth(c) :
          \/ /\ Told(g, c, rollback_to(Inst(g, c), n),
                     [Vtab(c) EXCEPT !.saved = Cut(@, n), !.view = Vtab(c).saved[n]])
             /\ UNCHANGED task
          \/ NotTold(g, c) /\ Fail(c)
    /\ UNCHANGED <<HOST, GLOBALS, loaded, next, grp, cur, seen>>

x_sync(c) ==
    LET g == TableGuest(c) IN
    /\ Writing(c)
    /\ \/ InstAnswers(g, c) /\ Goto(c, "commit") /\ UNCHANGED guests
       \/ InstRefuses(g, c) /\ Fail(c)
    /\ UNCHANGED <<HOST, GLOBALS, loaded, next, db, grp, cur, seen>>

(* sqlite3 does not look at what xCommit answers.                           *)
x_commit(c) ==
    LET g == TableGuest(c) IN
    /\ Busy(c, "write", "commit")
    /\ \/ Told(g, c, [Inst(g, c) EXCEPT !.saved = <<>>], [Vtab(c) EXCEPT !.saved = <<>>])
       \/ InstRefuses(g, c) /\ SetVtab(c, [Vtab(c) EXCEPT !.saved = <<>>])
    /\ End(c)
    /\ UNCHANGED <<HOST, GLOBALS, loaded, next, grp, cur, seen>>

(* xRollback is told a success whatever the guest answers.                  *)
rollback(i) == [i EXCEPT !.rows = i.saved[1], !.saved = <<>>]

x_rollback(c) ==
    LET g == TableGuest(c) IN
    /\ Busy(c, "write", "write")
    /\ \/ Told(g, c, rollback(Inst(g, c)), [Vtab(c) EXCEPT !.view = Vtab(c).saved[1], !.saved = <<>>])
       \/ InstRefuses(g, c) /\ SetVtab(c, [Vtab(c) EXCEPT !.saved = <<>>])
    /\ End(c)
    /\ UNCHANGED <<HOST, GLOBALS, loaded, next, grp, cur, seen>>
-----------------------------------------------------------------------------
Finished == (\A c \in Conns : task[c].todo = <<>>) /\ UNCHANGED vars

Next ==
    \/ \E c \in Conns :
          \/ Attach(c) \/ HostNew(c) \/ HostSet(c) \/ register_sqlink_load_ext(c)
          \/ sqlink_load_ext_xfunc(c) \/ load_and_install(c) \/ NoSuchName(c)
          \/ scalar_xfunc(c) \/ Group(c) \/ GroupEnd(c)
          \/ create_or_connect(c) \/ x_disconnect(c) \/ x_best_index(c) \/ ScanEnd(c)
          \/ x_begin(c) \/ x_update(c) \/ x_savepoint(c) \/ x_release(c) \/ x_rollback_to(c)
          \/ x_sync(c) \/ x_commit(c) \/ x_rollback(c)
    \/ \E c \in Conns, s \in Slots :
          \/ agg_xstep(c, s) \/ agg_out_of_memory(c, s) \/ agg_xvalue(c, s)
          \/ agg_xinverse(c, s) \/ agg_xfinal(c, s)
          \/ x_open(c, s) \/ x_filter(c, s) \/ x_eof(c, s) \/ x_column(c, s)
          \/ x_next(c, s) \/ x_close(c, s)
    \/ Finished

Spec == Init /\ [][Next]_vars
-----------------------------------------------------------------------------
(* Type correctness of the statics, the registrations and the tasks.        *)
TypeOK ==
    /\ {HOST, GLOBALS} \subseteq Conns \cup {None}
    /\ loaded \in [Conns -> [Exts -> 0..Len(guests)]]
    /\ next \in [inst : Nat, cur : Nat]
    /\ \A c \in Conns :
          /\ db[c].host \in Conns \cup {None}
          /\ db[c].scalar \in [Exts -> Conns \cup {None}]
          /\ db[c].agg \in [Exts -> [host : Conns \cup {None}, next_id : Nat]]
          /\ db[c].module \subseteq Exts
          /\ task[c].pc \in {"idle", "new", "set", "register", "install", "group", "scan", "write", "commit"}
          /\ \A s \in Slots : cur[c][s].pc \in {"closed", "open", "at", "row", "read", "over", "failed", "done"}
    /\ faults \in 0..MaxFaults

(* Whatever is registered on a connection is loaded in the Host its calls   *)
(* go to, however the connections raced to build that Host: functions carry *)
(* theirs (register.rs ScalarCtx, AggCtx), tables use the first one given   *)
(* to init_globals (vtab.rs:79).                                            *)
RegisteredIsLoaded ==
    \A c \in Conns, e \in Exts :
        /\ db[c].scalar[e] # None => loaded[db[c].scalar[e]][e] # 0
        /\ db[c].agg[e] # NoAgg => loaded[db[c].agg[e].host][e] # 0
        /\ e \in db[c].module => Guest(GLOBALS, e) # 0

(* The rows an aggregate answers with (xValue, xFinal) are those stepped    *)
(* into its frame and not yet inverted, when no other connection had groups *)
(* under way or left over meanwhile and the extension was not loaded again; *)
(* they are never rows of another group of the same connection (register.rs *)
(* agg_state).                                                              *)
GroupsApart ==
    \A c \in Conns : seen[c].kind = "group" =>
        /\ ~seen[c].hurt => seen[c].got = seen[c].sent
        /\ \A i \in DOMAIN seen[c].got, j \in DOMAIN seen[c].sent :
              seen[c].got[i][1] = c => /\ seen[c].got[i][2] = seen[c].sent[j][2]
                                       /\ seen[c].got[i][3] = seen[c].sent[j][3]

(* Contexts are unique, as the comment on AggCtx::next_id has it: the rows  *)
(* an aggregate answers with were all stepped by its own connection.        *)
OwnRowsOnly ==
    \A c \in Conns : seen[c].kind = "group" => \A i \in DOMAIN seen[c].got : seen[c].got[i][1] = c

(* A cell that goes through a function and back is the cell it was, but for *)
(* text that was not UTF-8 (value.rs, lib.rs provider_envelope): blobs in   *)
(* both encodings, the empty one, and framed values keep their bytes.       *)
CellsSurvive ==
    \A c \in Conns : seen[c].kind = "echo" /\ ~seen[c].hurt =>
        seen[c].got[1] = IF seen[c].sent[1] = "badtext" THEN "lossy" ELSE seen[c].sent[1]

(* The table of a connection has the rows that the answers to its writes    *)
(* add up to, through savepoints and rollbacks, whatever other connections  *)
(* do to theirs in the same guest (vtab.rs instance ids, x_update .. ).  A   *)
(* rollback that the guest refuses is reported as done and leaves the rows  *)
(* where they are (vtab.rs:772): there the answer is not counted.           *)
TableAsTold ==
    \A c \in Conns, e \in Exts :
        LET v == db[c].vtab[e]
            g == Guest(GLOBALS, e) IN
        v # NoVtab /\ v.gen = g =>
            v.inst \in DOMAIN guests[g].inst /\ guests[g].inst[v.inst].rows = v.view

(* Cursors keep the promise of VtabScan: each delivers the rows of its own  *)
(* table in order, each once, or the statement fails; rows are missing      *)
(* without an error only when xEof got no answer (vtab.rs:587).             *)
Scans == INSTANCE VtabScan WITH
    Cursors <- Conns \X Slots, Tables <- Conns \X Exts,
    table <- [t \in Conns \X Exts |-> db[t[1]].vtab[t[2]].view],
    scan <- [p \in Conns \X Slots |->
        LET k == cur[p[1]][p[2]] IN
        IF k.pc \in {"closed", "open", "failed", "done"}
        THEN [on |-> FALSE, over |-> FALSE, want |-> <<>>, got |-> <<>>, hurt |-> FALSE]
        ELSE [on |-> TRUE, over |-> k.pc = "over", want |-> k.want, got |-> k.got, hurt |-> k.hurt]]
ScansAsPromised == Scans!ScanSpec
=============================================================================
