-------------------------- MODULE VtabBridgeProofs ---------------------------
(***************************************************************************)
(* Proofs about the virtual-table bridge, for any tables, cursors and rows  *)
(* and any number of loads, unloads, updates, traps and refused calls: its  *)
(* registry and its blocks are those of the tables and cursors SQLite has,  *)
(* a transaction commits what was synced, and a cursor keeps the promise    *)
(* of VtabScan.                                                             *)
(*                                                                          *)
(* BridgeInv follows a row from the table to the statement.  An id names    *)
(* one table or cursor and no store knows one that was not handed out       *)
(* (TableIds, CursorIds, Memories).  The store of a connected table has in  *)
(* it what its writers were told of, or has trapped (Homes).  What a store  *)
(* has left for a cursor, the rows of its block and those the statement has *)
(* got are adjoining segments of the rows there were at xFilter (Reading).  *)
(* Most actions disturb one store or one cursor, so the lemmas say first    *)
(* what a call can do to a store, then what each part of the invariant      *)
(* needs to survive it.                                                     *)
(***************************************************************************)
EXTENDS VtabBridge, SequenceTheorems, TLAPS

Partial(T) == UNION {[D -> T] : D \in SUBSET Nat}
ContentT == [rows : Seq(Nat), saved : Seq(Nat), point : Seq(Nat)]
StoreT == [trapped : BOOLEAN, inst : SUBSET Nat, cur : Partial(Seq(Nat)),
           tab : [Tables -> ContentT], synced : SUBSET Tables]
BlockT == [rows : Seq(Nat), idx : Nat, eof_seen : BOOLEAN]
CursorT == [phase : Phases, id : Nat, tab : Tables, want : Seq(Nat), got : Seq(Nat),
            hurt : BOOLEAN]
RegistryT == [instances : SUBSET Nat, cursors : SUBSET Nat, next_instance : Nat,
              next_cursor : Nat]

VtabTypes ==
    /\ backing \in 0..Len(store) /\ dynlink \in 0..Len(store) /\ mutating \in 0..Len(store)
    /\ registered \in BOOLEAN
    /\ store \in Seq(StoreT)
    /\ registry \in RegistryT
    /\ batch \in Partial(BlockT)
    /\ made \subseteq Tables
    /\ vtab \in [Tables -> Nat]
    /\ home \in [Tables -> 0..Len(store)]
    /\ view \in [Tables -> ContentT]
    /\ cursor \in [Cursors -> CursorT]
    /\ faults \in 0..MaxFaults /\ updates \in 0..MaxUpdates

(* A store knows ids that were handed out; of those in use, the instances   *)
(* connected to it and their cursors.  A trapped one knows none.            *)
KnownTables(s) ==
    /\ \A i \in store[s].inst : 0 < i /\ i < registry.next_instance
    /\ store[s].trapped => store[s].inst = {}
    /\ \A t \in Tables : vtab[t] \in store[s].inst => home[t] = s
KnownCursors(s) ==
    /\ \A i \in DOMAIN store[s].cur : 0 < i /\ i < registry.next_cursor
    /\ store[s].trapped => DOMAIN store[s].cur = {}
    /\ \A c \in Cursors : cursor[c].id \in DOMAIN store[s].cur => home[cursor[c].tab] = s

(* A connected table has in its store what its writers were told.           *)
InHome(t) ==
    vtab[t] # 0 =>
        /\ home[t] # 0
        /\ \/ store[home[t]].trapped
           \/ vtab[t] \in store[home[t]].inst /\ store[home[t]].tab[t] = view[t]

InUse(c) ==
    /\ cursor[c].phase \in {"idle", "planned"} <=> cursor[c].id = 0
    /\ cursor[c].id # 0 => vtab[cursor[c].tab] # 0

(* What a store has left for the cursor begins after row q of the scan.     *)
Left(c, q) ==
    \A s \in DOMAIN store : cursor[c].id \in DOMAIN store[s].cur =>
        store[s].cur[cursor[c].id] = SubSeq(cursor[c].want, q + 1, Len(cursor[c].want))

Prefix(c) ==
    /\ Len(cursor[c].got) <= Len(cursor[c].want)
    /\ \A i \in 1..Len(cursor[c].got) : cursor[c].got[i] = cursor[c].want[i]

RowByRow(c) ==
    LET k == cursor[c]
        n == Len(k.got) IN
    k.phase \in {"at", "row", "read"} /\ ~Module[k.tab].batched =>
        /\ ~k.hurt /\ Prefix(c)
        /\ k.phase = "at" => Left(c, n)
        /\ k.phase = "row" => n < Len(k.want) /\ Left(c, n)
        /\ k.phase = "read" => n > 0 /\ Left(c, n - 1)

(* The n rows after row i of a block are those after row m of the scan.      *)
Follows(rows, i, w, m, n) ==
    i + n = Len(rows) /\ m + n <= Len(w) /\ \A j \in 1..n : rows[i + j] = w[m + j]

Buffered(c, i, m, n) ==
    LET k == cursor[c]
        b == batch[k.id] IN
    /\ i = (IF k.phase = "read" THEN b.idx + 1 ELSE b.idx) /\ m = Len(k.got)
    /\ Follows(b.rows, i, k.want, m, n) /\ Left(c, m + n)
    /\ b.eof_seen => m + n = Len(k.want)
    /\ k.phase = "row" => n > 0

BlockByBlock(c) ==
    LET k == cursor[c]
        b == batch[k.id] IN
    k.phase \in {"at", "row", "read"} /\ Module[k.tab].batched =>
        IF k.hurt THEN k.phase = "at" /\ b.eof_seen /\ b.idx >= Len(b.rows)
        ELSE Prefix(c) /\ \E i, m, n \in Nat : Buffered(c, i, m, n)

Phased ==
    /\ txn \in {"none", "open", "sync", "commit", "undo"}
    /\ part \subseteq Tables /\ todo \subseteq part /\ points \subseteq part
    /\ txn # "open" => points = {}
    /\ \A t \in part : vtab[t] # 0
    /\ txn = "sync" =>
          \A t \in part \ todo : store[home[t]].trapped \/ t \in store[home[t]].synced

TableIds ==
    /\ registry.next_instance \in 1..(MaxInstances + 1)
    /\ registry.instances = {vtab[t] : t \in Tables} \ {0}
    /\ \A t \in Tables : vtab[t] < registry.next_instance
    /\ \A t, u \in Tables : vtab[t] # 0 /\ vtab[t] = vtab[u] => t = u
CursorIds ==
    /\ registry.next_cursor \in 1..(MaxCursors + 1)
    /\ registry.cursors = {cursor[c].id : c \in Cursors} \ {0}
    /\ DOMAIN batch \subseteq registry.cursors
    /\ \A c \in Cursors : cursor[c].id < registry.next_cursor
    /\ \A c, d \in Cursors : cursor[c].id # 0 /\ cursor[c].id = cursor[d].id => c = d
Memories == \A s \in DOMAIN store : KnownTables(s) /\ KnownCursors(s)
Homes == \A t \in Tables : InHome(t)
Reading == \A c \in Cursors : InUse(c) /\ RowByRow(c) /\ BlockByBlock(c)

BridgeInv ==
    /\ VtabTypes /\ TableIds /\ CursorIds /\ Memories /\ Homes /\ Reading
    /\ BlockReady /\ Phased
-----------------------------------------------------------------------------
Dead == [FreshStore EXCEPT !.trapped = TRUE]

(* Functions whose domain is any set of numbers.                            *)
LEMMA PutType ==
    ASSUME NEW T, NEW f \in Partial(T), NEW k \in Nat, NEW v \in T
    PROVE  Put(f, k, v) \in Partial(T)
<1>1. PICK D \in SUBSET Nat : f \in [D -> T]
  BY DEF Partial
<1>2. Put(f, k, v) \in [D \cup {k} -> T] /\ D \cup {k} \in SUBSET Nat
  BY <1>1 DEF Put
<1> QED
  BY <1>2 DEF Partial

LEMMA DropType ==
    ASSUME NEW T, NEW f \in Partial(T), NEW k
    PROVE  Drop(f, k) \in Partial(T)
<1>1. PICK D \in SUBSET Nat : f \in [D -> T]
  BY DEF Partial
<1>2. Drop(f, k) \in [D \ {k} -> T] /\ D \ {k} \in SUBSET Nat
  BY <1>1 DEF Drop
<1> QED
  BY <1>2 DEF Partial

LEMMA ReplaceType ==
    ASSUME NEW T, NEW f \in Partial(T), NEW k, NEW v \in T
    PROVE  [f EXCEPT ![k] = v] \in Partial(T)
<1>1. PICK D \in SUBSET Nat : f \in [D -> T]
  BY DEF Partial
<1>2. [f EXCEPT ![k] = v] \in [D -> T]
  BY Zenon, <1>1
<1> QED
  BY <1>2 DEF Partial

LEMMA ReadType ==
    ASSUME NEW T, NEW f \in Partial(T), NEW k \in DOMAIN f
    PROVE  f[k] \in T /\ k \in Nat
BY Zenon DEF Partial

LEMMA PutReads ==
    ASSUME NEW f, NEW k, NEW v
    PROVE  /\ DOMAIN Put(f, k, v) = DOMAIN f \cup {k} /\ Put(f, k, v)[k] = v
           /\ \A x \in DOMAIN f : x # k => Put(f, k, v)[x] = f[x]
BY DEF Put

LEMMA DropReads ==
    ASSUME NEW f, NEW k
    PROVE  /\ DOMAIN Drop(f, k) = DOMAIN f \ {k}
           /\ \A x \in DOMAIN f \ {k} : Drop(f, k)[x] = f[x]
BY DEF Drop

LEMMA SeqReplace ==
    ASSUME NEW T, NEW q \in Seq(T), NEW g \in DOMAIN q, NEW v \in T
    PROVE  /\ [q EXCEPT ![g] = v] \in Seq(T) /\ Len([q EXCEPT ![g] = v]) = Len(q)
           /\ [q EXCEPT ![g] = v][g] = v
           /\ \A i \in DOMAIN q : i # g => [q EXCEPT ![g] = v][i] = q[i]
OBVIOUS
-----------------------------------------------------------------------------
(* The memory of a store.                                                   *)
LEMMA ContentsTyped == ASSUME NEW r \in Seq(Nat) PROVE Contents(r) \in ContentT
BY DEF Contents, ContentT

LEMMA FreshTyped ==
    /\ Fresh \in [Tables -> ContentT]
    /\ FreshStore \in StoreT /\ FreshStore.inst = {} /\ DOMAIN FreshStore.cur = {}
    /\ Dead \in StoreT /\ Dead.trapped /\ Dead.inst = {} /\ DOMAIN Dead.cur = {}
<1>1. Fresh \in [Tables -> ContentT]
  BY ContentsTyped, VtabAssumption DEF Fresh
<1>2. << >> \in Partial(Seq(Nat)) /\ DOMAIN << >> = {}
  <2>1. << >> \in [{} -> Seq(Nat)] /\ {} \in SUBSET Nat
    OBVIOUS
  <2> QED
    BY <2>1 DEF Partial
<1> QED
  BY <1>1, <1>2 DEF FreshStore, Dead, StoreT

LEMMA StoreOf ==
    ASSUME VtabTypes, NEW s \in DOMAIN store PROVE store[s] \in StoreT
BY DEF VtabTypes

LEMMA SetInst ==
    ASSUME NEW st \in StoreT, NEW I \in SUBSET Nat
    PROVE  LET v == [st EXCEPT !.inst = I] IN
           /\ v \in StoreT /\ v.inst = I /\ v.trapped = st.trapped /\ v.cur = st.cur
           /\ v.tab = st.tab /\ v.synced = st.synced
BY DEF StoreT

LEMMA SetCur ==
    ASSUME NEW st \in StoreT, NEW f \in Partial(Seq(Nat))
    PROVE  LET v == [st EXCEPT !.cur = f] IN
           /\ v \in StoreT /\ v.cur = f /\ v.trapped = st.trapped /\ v.inst = st.inst
           /\ v.tab = st.tab /\ v.synced = st.synced
BY DEF StoreT

Rewritten(st, t, x, S) == [st EXCEPT !.tab[t] = x, !.synced = S]

LEMMA SetTab ==
    ASSUME NEW st \in StoreT, NEW t \in Tables, NEW x \in ContentT, NEW S \in SUBSET Tables
    PROVE  LET v == Rewritten(st, t, x, S) IN
           /\ v \in StoreT /\ v.tab = [st.tab EXCEPT ![t] = x] /\ v.synced = S
           /\ v.trapped = st.trapped /\ v.inst = st.inst /\ v.cur = st.cur
<1>1. [st.tab EXCEPT ![t] = x] \in [Tables -> ContentT]
  BY DEF StoreT
<1> QED
  BY <1>1 DEF StoreT, Rewritten

(* What a call tells store s and what becomes of the stores.                *)
Told(s, a, new) ==
    /\ a \in Replies /\ faults' \in 0..MaxFaults
    /\ store' \in Seq(StoreT) /\ Len(store') = Len(store)
    /\ a = "ok" => s \in DOMAIN store /\ ~store[s].trapped /\ store'[s] = new
    /\ \A u \in DOMAIN store :
          u # s \/ a # "ok" => store'[u] = store[u] \/ store'[u] = Dead

LEMMA KnownCallEffect ==
    ASSUME VtabTypes, NEW s \in 0..Len(store), NEW known, NEW a \in Replies, NEW new,
           s # 0 /\ known => new \in StoreT, Call(s, known, a, new)
    PROVE  Told(s, a, new) /\ (a = "ok" => known)
<1> USE DEF VtabTypes
<1>1. a \in Answers(store, s, known) /\ store' = Heard(store, s, a, new)
      /\ faults' = faults + Cost(a)
  BY DEF Call
<1>2. a = "ok" => s # 0 /\ known /\ ~store[s].trapped
  BY <1>1 DEF Answers
<1>3. faults' \in 0..MaxFaults
  BY <1>1, VtabAssumption DEF Answers, Cost
<1>4. a = "trap" => s # 0
  BY <1>1 DEF Answers
<1>5. CASE a = "ok"
  <2>1. s \in DOMAIN store /\ new \in StoreT /\ store' = [store EXCEPT ![s] = new]
    BY <1>1, <1>2, <1>5 DEF Heard
  <2> QED
    BY <1>2, <1>3, <1>5, <2>1, SeqReplace DEF Told
<1>6. CASE a = "trap"
  <2>1. s \in DOMAIN store /\ Dead \in StoreT /\ store' = [store EXCEPT ![s] = Dead]
    BY <1>1, <1>4, <1>6, FreshTyped DEF Heard, Dead
  <2> QED
    BY <1>3, <1>6, <2>1, SeqReplace DEF Told
<1>7. CASE a \notin {"ok", "trap"}
  <2>1. store' = store
    BY <1>1, <1>7 DEF Heard
  <2> QED
    BY <1>3, <1>7, <2>1 DEF Told
<1> QED
  BY <1>5, <1>6, <1>7

LEMMA CallEffect ==
    ASSUME VtabTypes, NEW s \in 0..Len(store), NEW i, NEW S, NEW a \in Replies, NEW new,
           s # 0 /\ i \in S => new \in StoreT,
           Call(s, i \in S, a, new) \/ Call(s, s # 0 /\ i \in S, a, new)
    PROVE  Told(s, a, new) /\ (a = "ok" => i \in S)
<1>1. CASE i \in S
  <2>1. Call(s, TRUE, a, new)
    BY <1>1 DEF Call, Answers
  <2> QED
    BY <1>1, <2>1, KnownCallEffect
<1>2. CASE i \notin S
  <2>1. Call(s, FALSE, a, new)
    BY <1>2 DEF Call, Answers
  <2> QED
    BY <2>1, KnownCallEffect
<1> QED
  BY <1>1, <1>2

(* What a step leaves of the memories: a store keeps a part of its memory,  *)
(* or it is new or trapped and that part is empty.                          *)
InstKept == \A s \in DOMAIN store' :
    \/ store'[s].inst = {}
    \/ /\ s \in DOMAIN store /\ store'[s].inst = store[s].inst
       /\ store'[s].trapped = store[s].trapped
CurKept == \A s \in DOMAIN store' :
    \/ DOMAIN store'[s].cur = {}
    \/ /\ s \in DOMAIN store /\ store'[s].cur = store[s].cur
       /\ store'[s].trapped = store[s].trapped
CurShrunk == \A s \in DOMAIN store' :
    \/ DOMAIN store'[s].cur = {}
    \/ /\ s \in DOMAIN store /\ DOMAIN store'[s].cur \subseteq DOMAIN store[s].cur
       /\ store'[s].trapped = store[s].trapped
InstGrown == \A s \in DOMAIN store :
    store'[s].trapped \/ store[s].inst \subseteq store'[s].inst
TabKept == \A s \in DOMAIN store :
    /\ s \in DOMAIN store'
    /\ \/ store'[s].trapped
       \/ /\ store'[s].trapped = store[s].trapped
          /\ store'[s].tab = store[s].tab /\ store'[s].synced = store[s].synced

LEMMA KnownTablesKept ==
    ASSUME Memories, InstKept, UNCHANGED <<vtab, home>>,
           registry.next_instance \in Nat, registry'.next_instance \in Nat,
           registry'.next_instance >= registry.next_instance,
           NEW s \in DOMAIN store', \A i \in store'[s].inst : i \in Nat
    PROVE  KnownTables(s)'
<1>1. CASE store'[s].inst = {}
  BY <1>1 DEF KnownTables
<1>2. CASE /\ s \in DOMAIN store /\ store'[s].inst = store[s].inst
           /\ store'[s].trapped = store[s].trapped
  BY <1>2 DEF KnownTables, Memories
<1> QED
  BY <1>1, <1>2 DEF InstKept

LEMMA KnownCursorsKept ==
    ASSUME Memories, CurShrunk, UNCHANGED home,
           registry.next_cursor \in Nat, registry'.next_cursor \in Nat,
           registry'.next_cursor >= registry.next_cursor,
           \A c \in Cursors : \/ cursor'[c].id = 0
                              \/ cursor'[c].id = cursor[c].id /\ cursor'[c].tab = cursor[c].tab
                              \/ cursor'[c].id >= registry.next_cursor,
           NEW s \in DOMAIN store', \A i \in DOMAIN store'[s].cur : i \in Nat
    PROVE  KnownCursors(s)'
<1>1. CASE DOMAIN store'[s].cur = {}
  BY <1>1 DEF KnownCursors
<1>2. CASE /\ s \in DOMAIN store /\ DOMAIN store'[s].cur \subseteq DOMAIN store[s].cur
           /\ store'[s].trapped = store[s].trapped
  BY <1>2 DEF KnownCursors, Memories
<1> QED
  BY <1>1, <1>2 DEF CurShrunk

LEMMA HomesKept ==
    ASSUME VtabTypes, Homes, InstGrown, TabKept, UNCHANGED <<vtab, home, view>>
    PROVE  Homes'
<1> SUFFICES ASSUME NEW t \in Tables PROVE InHome(t)'
  BY DEF Homes
<1>1. InHome(t) /\ (home[t] # 0 => home[t] \in DOMAIN store)
  BY DEF Homes, VtabTypes
<1> QED
  BY <1>1 DEF InHome, InstGrown, TabKept

LEMMA PhasedKept ==
    ASSUME VtabTypes, Homes, Phased, TabKept,
           UNCHANGED <<txn, part, todo, points>>,
           \A t \in part : vtab'[t] = vtab[t] /\ home'[t] = home[t]
    PROVE  Phased'
<1>1. \A t \in part : t \in Tables /\ home[t] \in DOMAIN store
  <2>1. SUFFICES ASSUME NEW t \in part PROVE t \in Tables /\ home[t] \in DOMAIN store
    OBVIOUS
  <2>2. t \in Tables /\ InHome(t) /\ vtab[t] # 0
    BY DEF Phased, Homes
  <2> QED
    BY <2>2 DEF VtabTypes, InHome
<1>2. \A t \in part : store[home[t]].trapped \/ t \in store[home[t]].synced =>
          store'[home[t]].trapped \/ t \in store'[home[t]].synced
  BY <1>1 DEF TabKept
<1> QED
  BY <1>2 DEF Phased

(* A cursor the step does not touch, whose block and stores keep what they  *)
(* have for it.                                                             *)
Untouched(c) ==
    /\ cursor'[c] = cursor[c]
    /\ cursor[c].phase \in {"at", "row", "read"} /\ Module[cursor[c].tab].batched =>
          cursor[c].id \in DOMAIN batch' /\ batch'[cursor[c].id] = batch[cursor[c].id]
    /\ \A s \in DOMAIN store' : cursor[c].id \in DOMAIN store'[s].cur =>
          /\ s \in DOMAIN store /\ cursor[c].id \in DOMAIN store[s].cur
          /\ store'[s].cur[cursor[c].id] = store[s].cur[cursor[c].id]

LEMMA ReadsKept ==
    ASSUME NEW c \in Cursors, Untouched(c), RowByRow(c), BlockByBlock(c)
    PROVE  RowByRow(c)' /\ BlockByBlock(c)'
<1>1. cursor'[c] = cursor[c]
  BY DEF Untouched
<1>2. Prefix(c) => Prefix(c)'
  BY <1>1 DEF Prefix
<1>3. RowByRow(c)'
  BY <1>1, <1>2 DEF RowByRow, Left, Untouched
<1>4. BlockByBlock(c)'
  <2> SUFFICES ASSUME cursor[c].phase \in {"at", "row", "read"}, Module[cursor[c].tab].batched
               PROVE  BlockByBlock(c)'
    BY <1>1 DEF BlockByBlock
  <2>1. batch'[cursor[c].id] = batch[cursor[c].id]
    BY DEF Untouched
  <2> QED
    BY <1>1, <1>2, <2>1 DEF BlockByBlock, Buffered, Left, Untouched
<1> QED
  BY <1>3, <1>4

LEMMA StoreParts ==
    ASSUME NEW st \in StoreT
    PROVE  /\ st.trapped \in BOOLEAN /\ st.inst \subseteq Nat /\ st.cur \in Partial(Seq(Nat))
           /\ DOMAIN st.cur \subseteq Nat /\ st.tab \in [Tables -> ContentT]
           /\ st.synced \subseteq Tables
<1>1. st.cur \in Partial(Seq(Nat))
  BY DEF StoreT
<1>2. DOMAIN st.cur \subseteq Nat
  BY <1>1, ReadType
<1> QED
  BY <1>1, <1>2 DEF StoreT

(* A call leaves what its answer does not change.                           *)
LEMMA CallKeeps ==
    ASSUME VtabTypes, NEW s, NEW a, NEW new, Told(s, a, new)
    PROVE  /\ (a = "ok" => new.inst = store[s].inst /\ new.trapped = store[s].trapped) => InstKept
           /\ (a = "ok" => new.cur = store[s].cur /\ new.trapped = store[s].trapped) => CurKept
           /\ (a = "ok" => store[s].inst \subseteq new.inst) => InstGrown
           /\ (a = "ok" => /\ new.trapped = store[s].trapped
                           /\ new.tab = store[s].tab /\ new.synced = store[s].synced) => TabKept
<1>1. /\ Dead.trapped /\ Dead.inst = {} /\ DOMAIN Dead.cur = {}
  BY FreshTyped
<1>2. DOMAIN store' = DOMAIN store
  BY DEF Told, VtabTypes
<1>3. \A u \in DOMAIN store :
          store'[u] = store[u] \/ store'[u] = Dead \/ (u = s /\ a = "ok" /\ store'[u] = new)
  BY DEF Told
<1> QED
  BY <1>1, <1>2, <1>3 DEF InstKept, CurKept, InstGrown, TabKept

LEMMA SameStores ==
    ASSUME store' = store PROVE InstKept /\ CurKept /\ InstGrown /\ TabKept
BY DEF InstKept, CurKept, InstGrown, TabKept

(* A step that leaves the tables alone.                                     *)
LEMMA TablesStay ==
    ASSUME BridgeInv, store' \in Seq(StoreT), InstKept, InstGrown, TabKept,
           UNCHANGED <<vtab, home, view>>,
           registry'.instances = registry.instances,
           registry'.next_instance = registry.next_instance
    PROVE  TableIds' /\ Homes' /\ \A s \in DOMAIN store' : KnownTables(s)'
<1>1. TableIds'
  BY DEF BridgeInv, TableIds
<1>2. Homes'
  BY HomesKept DEF BridgeInv
<1>3. registry.next_instance \in Nat
  BY DEF BridgeInv, TableIds
<1>4. ASSUME NEW s \in DOMAIN store' PROVE KnownTables(s)'
  <2>1. store'[s] \in StoreT
    OBVIOUS
  <2>2. \A i \in store'[s].inst : i \in Nat
    BY <2>1, StoreParts
  <2> QED
    BY <1>3, <2>2, KnownTablesKept DEF BridgeInv
<1> QED
  BY <1>1, <1>2, <1>4

(* A step that leaves the cursors alone.                                    *)
LEMMA CursorsStay ==
    ASSUME BridgeInv, store' \in Seq(StoreT), CurKept, UNCHANGED <<cursor, batch>>,
           \A c \in Cursors : cursor[c].id # 0 =>
               /\ vtab'[cursor[c].tab] = vtab[cursor[c].tab]
               /\ home'[cursor[c].tab] = home[cursor[c].tab],
           registry'.cursors = registry.cursors,
           registry'.next_cursor = registry.next_cursor
    PROVE  CursorIds' /\ Reading' /\ BlockReady' /\ \A s \in DOMAIN store' : KnownCursors(s)'
<1>1. CursorIds'
  BY DEF BridgeInv, CursorIds
<1>2. BlockReady'
  BY DEF BridgeInv, BlockReady
<1>3. ASSUME NEW c \in Cursors PROVE InUse(c)' /\ RowByRow(c)' /\ BlockByBlock(c)'
  <2>1. InUse(c) /\ RowByRow(c) /\ BlockByBlock(c)
    BY DEF BridgeInv, Reading
  <2>2. InUse(c)'
    BY <2>1 DEF InUse
  <2>3. Untouched(c)
    <3>1. cursor[c].phase \in {"at", "row", "read"} /\ Module[cursor[c].tab].batched =>
              cursor[c].id \in DOMAIN batch
      BY DEF BridgeInv, BlockReady
    <3> QED
      BY <3>1 DEF Untouched, CurKept
  <2> QED
    BY <2>1, <2>2, <2>3, ReadsKept
<1>4. registry.next_cursor \in Nat
  BY DEF BridgeInv, CursorIds
<1>5. ASSUME NEW s \in DOMAIN store' PROVE KnownCursors(s)'
  <2>1. store'[s] \in StoreT
    OBVIOUS
  <2>2. \A i \in DOMAIN store'[s].cur : i \in Nat
    BY <2>1, StoreParts
  <2>3. CASE DOMAIN store'[s].cur = {}
    BY <2>3 DEF KnownCursors
  <2>4. CASE /\ s \in DOMAIN store /\ store'[s].cur = store[s].cur
             /\ store'[s].trapped = store[s].trapped
    <3>1. KnownCursors(s)
      BY <2>4 DEF BridgeInv, Memories
    <3> QED
      BY <2>4, <3>1 DEF KnownCursors
  <2> QED
    BY <2>3, <2>4 DEF CurKept
<1> QED
  BY <1>1, <1>2, <1>3, <1>5 DEF Reading
-----------------------------------------------------------------------------
(* Loading and unloading.                                                   *)
LEMMA LoadStep == ASSUME BridgeInv, NEW k \in Kinds, Load(k) PROVE BridgeInv'
<1> DEFINE n == IF k = "mutating" THEN 2 ELSE 1
<1>1. /\ n \in {1, 2} /\ store' = NewStore(n) /\ registered' = TRUE
      /\ backing' \in {backing, Len(store) + 1} /\ dynlink' \in {dynlink, Len(store) + 1}
      /\ mutating' = mutating \/ (mutating' = Len(store) + 2 /\ n = 2)
      /\ UNCHANGED <<registry, batch, made, vtab, home, view, cursor, txn, part, todo, points,
                     updates, faults>>
  BY DEF Load, schemaVars, txnVars
<1> HIDE DEF n
<1>2. VtabTypes
  BY DEF BridgeInv
<1>3. /\ store' \in Seq(StoreT) /\ Len(store') = Len(store) + n
      /\ \A s \in DOMAIN store' : (s \in DOMAIN store /\ store'[s] = store[s]) \/ store'[s] = FreshStore
      /\ \A s \in DOMAIN store : s \in DOMAIN store' /\ store'[s] = store[s]
  <2>1. FreshStore \in StoreT
    BY FreshTyped
  <2> QED
    BY <1>1, <1>2, <2>1 DEF NewStore, VtabTypes
<1>4. InstKept /\ CurKept /\ InstGrown /\ TabKept
  BY <1>3, FreshTyped DEF InstKept, CurKept, InstGrown, TabKept
<1>5. VtabTypes'
  BY <1>1, <1>2, <1>3 DEF VtabTypes
<1>6. /\ TableIds' /\ Homes' /\ CursorIds' /\ Reading' /\ BlockReady'
      /\ \A s \in DOMAIN store' : KnownTables(s)' /\ KnownCursors(s)'
  BY <1>1, <1>3, <1>4, TablesStay, CursorsStay
<1>7. Phased'
  BY <1>1, <1>4, PhasedKept DEF BridgeInv
<1> QED
  BY <1>5, <1>6, <1>7 DEF BridgeInv, Memories

(* Steps that tell no store anything, and touch no table or cursor.         *)
LEMMA QuietStep ==
    ASSUME BridgeInv, VtabTypes', Phased',
           UNCHANGED <<store, registry, batch, vtab, home, view, cursor>>
    PROVE  BridgeInv'
<1>1. store' \in Seq(StoreT)
  BY DEF BridgeInv, VtabTypes
<1>2. InstKept /\ CurKept /\ InstGrown /\ TabKept
  BY SameStores
<1>3. /\ TableIds' /\ Homes' /\ CursorIds' /\ Reading' /\ BlockReady'
      /\ \A s \in DOMAIN store' : KnownTables(s)' /\ KnownCursors(s)'
  BY <1>1, <1>2, TablesStay, CursorsStay
<1> QED
  BY <1>3 DEF BridgeInv, Memories

LEMMA UnloadStep == ASSUME BridgeInv, Unload PROVE BridgeInv'
<1>1. VtabTypes'
  <2>1. /\ backing' = 0 /\ registered' = FALSE
        /\ UNCHANGED <<dynlink, mutating, store, registry, batch, made, vtab, home, view, cursor,
                       updates, faults>>
    BY DEF Unload, schemaVars, txnVars
  <2>2. VtabTypes
    BY DEF BridgeInv
  <2>3. Len(store) \in Nat
    BY <2>2 DEF VtabTypes
  <2>4. backing' \in 0..Len(store')
    BY <2>1, <2>3
  <2>5. registered' \in BOOLEAN
    BY <2>1
  <2>6. home' \in [Tables -> 0..Len(store')] /\ dynlink' \in 0..Len(store') /\ mutating' \in 0..Len(store')
    BY <2>1, <2>2 DEF VtabTypes
  <2>7. UNCHANGED <<store, registry, batch, made, vtab, view, cursor, updates, faults>>
    BY <2>1
  <2> QED
    BY <2>2, <2>4, <2>5, <2>6, <2>7 DEF VtabTypes
<1>2. Phased'
  BY DEF BridgeInv, Phased, Unload, schemaVars, txnVars
<1> QED
  BY <1>1, <1>2, QuietStep DEF Unload, schemaVars, txnVars

-----------------------------------------------------------------------------
(* Every call goes to a store there is, or to none.                         *)
LEMMA Dispatched ==
    ASSUME VtabTypes
    PROVE  /\ {dispatch_vtab_create, dispatch_vtab_destroy, dispatch_vtab_connect,
               dispatch_vtab_disconnect, dispatch_vtab_best_index, dispatch_vtab_open,
               dispatch_vtab_close} \subseteq 0..Len(store)
           /\ {dispatch_vtab_filter, dispatch_vtab_next, dispatch_vtab_column,
               dispatch_vtab_fetch_batch} \subseteq 0..Len(store)
           /\ {dispatch_vtab_update, dispatch_vtab_savepoint} \subseteq 0..Len(store)
<1>1. backing \in 0..Len(store) /\ dynlink \in 0..Len(store) /\ mutating \in 0..Len(store)
  BY DEF VtabTypes
<1>2. \A x, y \in 0..Len(store) : Either(x, y) \in 0..Len(store)
  BY DEF Either
<1> USE <1>1, <1>2 DEF resident_provider_handle
<1>3. {dispatch_vtab_create, dispatch_vtab_destroy, dispatch_vtab_connect,
       dispatch_vtab_disconnect, dispatch_vtab_best_index, dispatch_vtab_open,
       dispatch_vtab_close} \subseteq 0..Len(store)
  BY Zenon DEF dispatch_vtab_create, dispatch_vtab_destroy, dispatch_vtab_connect,
     dispatch_vtab_disconnect, dispatch_vtab_best_index, dispatch_vtab_open,
     dispatch_vtab_close, try_bridge_vtab_connect, try_bridge_vtab_disconnect,
     try_bridge_vtab_best_index, try_bridge_vtab_open, try_bridge_vtab_close
<1>4. {dispatch_vtab_filter, dispatch_vtab_next, dispatch_vtab_column,
       dispatch_vtab_fetch_batch} \subseteq 0..Len(store)
  BY Zenon DEF dispatch_vtab_filter, dispatch_vtab_next, dispatch_vtab_column,
     dispatch_vtab_fetch_batch, try_bridge_vtab_filter, try_bridge_vtab_next,
     try_bridge_vtab_column, try_bridge_vtab_fetch_batch
<1>5. {dispatch_vtab_update, dispatch_vtab_savepoint} \subseteq 0..Len(store)
  BY Zenon DEF dispatch_vtab_update, dispatch_vtab_savepoint, try_bridge_vtab_update,
     try_bridge_vtab_savepoint
<1> QED
  BY <1>3, <1>4, <1>5

(* The registry after an id was drawn, and after one was dropped.           *)
LEMMA RegistryAfter ==
    ASSUME VtabTypes, NEW id \in Nat
    PROVE  /\ alloc_instance_id(id) \in RegistryT
           /\ alloc_instance_id(id).instances = registry.instances \cup {id}
           /\ alloc_instance_id(id).next_instance = id + 1
           /\ alloc_instance_id(id).cursors = registry.cursors
           /\ alloc_instance_id(id).next_cursor = registry.next_cursor
           /\ alloc_cursor_id(id) \in RegistryT
           /\ alloc_cursor_id(id).cursors = registry.cursors \cup {id}
           /\ alloc_cursor_id(id).next_cursor = id + 1
           /\ alloc_cursor_id(id).instances = registry.instances
           /\ alloc_cursor_id(id).next_instance = registry.next_instance
<1>1. registry \in RegistryT
  BY DEF VtabTypes
<1>2. registry.instances \cup {id} \in SUBSET Nat /\ registry.cursors \cup {id} \in SUBSET Nat
      /\ id + 1 \in Nat
  BY <1>1 DEF RegistryT
<1>3. /\ alloc_instance_id(id) \in RegistryT
      /\ alloc_instance_id(id).instances = registry.instances \cup {id}
      /\ alloc_instance_id(id).next_instance = id + 1
      /\ alloc_instance_id(id).cursors = registry.cursors
      /\ alloc_instance_id(id).next_cursor = registry.next_cursor
  BY <1>1, <1>2 DEF RegistryT, alloc_instance_id
<1>4. /\ alloc_cursor_id(id) \in RegistryT
      /\ alloc_cursor_id(id).cursors = registry.cursors \cup {id}
      /\ alloc_cursor_id(id).next_cursor = id + 1
      /\ alloc_cursor_id(id).instances = registry.instances
      /\ alloc_cursor_id(id).next_instance = registry.next_instance
  BY <1>1, <1>2 DEF RegistryT, alloc_cursor_id
<1> QED
  BY <1>3, <1>4

LEMMA RegistryDrops ==
    ASSUME NEW reg \in RegistryT, NEW id
    PROVE  /\ drop_instance(reg, id) \in RegistryT
           /\ drop_instance(reg, id).instances = reg.instances \ {id}
           /\ drop_instance(reg, id).next_instance = reg.next_instance
           /\ drop_instance(reg, id).cursors = reg.cursors
           /\ drop_instance(reg, id).next_cursor = reg.next_cursor
           /\ drop_cursor(reg, id) \in RegistryT
           /\ drop_cursor(reg, id).cursors = reg.cursors \ {id}
           /\ drop_cursor(reg, id).next_cursor = reg.next_cursor
           /\ drop_cursor(reg, id).instances = reg.instances
           /\ drop_cursor(reg, id).next_instance = reg.next_instance
BY DEF RegistryT, drop_instance, drop_cursor

(* A table is connected, or the attempt fails after its id was drawn.       *)
Connects(t, s, a) ==
    /\ a = "ok" /\ registry' = alloc_instance_id(registry.next_instance)
    /\ vtab' = [vtab EXCEPT ![t] = registry.next_instance]
    /\ home' = [home EXCEPT ![t] = s]
    /\ view' = [view EXCEPT ![t] = store[s].tab[t]]
    /\ made' \subseteq Tables
ConnectFails ==
    /\ registry' = drop_instance(alloc_instance_id(registry.next_instance), registry.next_instance)
    /\ UNCHANGED <<vtab, home, view, made>>

LEMMA ConnectStep ==
    ASSUME BridgeInv, NEW t \in Tables, NEW s \in 0..Len(store), NEW a \in Replies,
           vtab[t] = 0, registry.next_instance <= MaxInstances,
           Call(s, TRUE, a, [store[s] EXCEPT !.inst = @ \cup {registry.next_instance}]),
           Connects(t, s, a) \/ ConnectFails,
           UNCHANGED <<backing, dynlink, mutating, registered, batch, cursor, txn, part, todo,
                       points, updates>>
    PROVE  BridgeInv'
<1> DEFINE id == registry.next_instance
           new == [store[s] EXCEPT !.inst = @ \cup {id}]
<1>1. VtabTypes /\ id \in Nat /\ id # 0 /\ registry \in RegistryT /\ MaxInstances \in Nat
  <2>1. VtabTypes /\ id \in 1..(MaxInstances + 1)
    BY DEF BridgeInv, TableIds
  <2>2. MaxInstances \in Nat
    BY VtabAssumption
  <2> QED
    BY <2>1, <2>2 DEF VtabTypes
<1>2. s # 0 => /\ s \in DOMAIN store /\ new \in StoreT /\ new.inst = store[s].inst \cup {id}
               /\ new.trapped = store[s].trapped /\ new.cur = store[s].cur
               /\ new.tab = store[s].tab /\ new.synced = store[s].synced
  <2>1. SUFFICES ASSUME s # 0
                 PROVE  /\ s \in DOMAIN store /\ new \in StoreT /\ new.inst = store[s].inst \cup {id}
                        /\ new.trapped = store[s].trapped /\ new.cur = store[s].cur
                        /\ new.tab = store[s].tab /\ new.synced = store[s].synced
    OBVIOUS
  <2>2. s \in DOMAIN store /\ store[s] \in StoreT
    BY <1>1, <2>1 DEF VtabTypes
  <2>3. PICK I \in SUBSET Nat : I = store[s].inst \cup {id}
    BY <1>1, <2>2, StoreParts
  <2>4. new = [store[s] EXCEPT !.inst = I]
    BY <2>3
  <2> HIDE DEF new
  <2> QED
    BY <2>2, <2>3, <2>4, SetInst
<1> HIDE DEF new
<1>3. Told(s, a, new)
  BY <1>1, <1>2, KnownCallEffect DEF new
<1>4. a = "ok" => s \in DOMAIN store /\ s # 0
  BY <1>1, <1>3 DEF Told, VtabTypes
<1>5. CurKept /\ InstGrown /\ TabKept
  BY <1>1, <1>2, <1>3, <1>4, CallKeeps
<1>6. /\ registry' \in RegistryT /\ registry'.next_instance = id + 1
      /\ registry'.cursors = registry.cursors /\ registry'.next_cursor = registry.next_cursor
      /\ ConnectFails => registry'.instances = (registry.instances \cup {id}) \ {id}
      /\ Connects(t, s, a) => registry'.instances = registry.instances \cup {id}
  <2>1. CASE Connects(t, s, a)
    <3>1. registry' = alloc_instance_id(id) /\ (ConnectFails => registry' = drop_instance(alloc_instance_id(id), id))
      BY <2>1 DEF Connects, ConnectFails
    <3> QED
      BY <1>1, <3>1, RegistryAfter, RegistryDrops
  <2>2. CASE ConnectFails
    <3>1. registry' = drop_instance(alloc_instance_id(id), id) /\ (Connects(t, s, a) => registry' = alloc_instance_id(id))
      BY <2>2 DEF Connects, ConnectFails
    <3> QED
      BY <1>1, <3>1, RegistryAfter, RegistryDrops
  <2> QED
    BY <2>1, <2>2
<1>7. \A u \in Tables : u # t => vtab'[u] = vtab[u] /\ home'[u] = home[u] /\ view'[u] = view[u]
  BY <1>1 DEF Connects, ConnectFails, VtabTypes
<1>8. VtabTypes'
  <2>1. store' \in Seq(StoreT) /\ Len(store') = Len(store) /\ faults' \in 0..MaxFaults
    BY <1>3 DEF Told
  <2>2. vtab' \in [Tables -> Nat] /\ home' \in [Tables -> 0..Len(store')]
        /\ view' \in [Tables -> ContentT] /\ made' \subseteq Tables
    <3>1. CASE Connects(t, s, a)
      <4>1. store[s].tab[t] \in ContentT
        BY <1>1, <1>4, <3>1, StoreOf, StoreParts DEF Connects
      <4> QED
        BY <1>1, <2>1, <3>1, <4>1 DEF Connects, VtabTypes
    <3>2. CASE ConnectFails
      BY <1>1, <2>1, <3>2 DEF ConnectFails, VtabTypes
    <3> QED
      BY <3>1, <3>2
  <2> QED
    BY <1>1, <1>6, <2>1, <2>2 DEF VtabTypes
<1>9. TableIds'
  <2>1. TableIds
    BY DEF BridgeInv
  <2>2. \A u \in Tables : vtab[u] \in Nat /\ vtab[u] < id
    BY <1>1, <2>1 DEF TableIds, VtabTypes
  <2>3. CASE Connects(t, s, a)
    <3>1. vtab'[t] = id
      BY <1>1, <2>3 DEF Connects, VtabTypes
    <3> QED
      BY <1>1, <1>6, <1>7, <2>1, <2>2, <2>3, <3>1 DEF TableIds
  <2>4. CASE ConnectFails
    <3>1. vtab' = vtab
      BY <2>4 DEF ConnectFails
    <3> QED
      BY <1>1, <1>6, <2>1, <2>2, <2>4, <3>1 DEF TableIds
  <2> QED
    BY <2>3, <2>4
<1>10. Homes'
  <2>1. Homes /\ \A u \in Tables : home[u] \in 0..Len(store)
    BY <1>1 DEF BridgeInv, VtabTypes
  <2>2. ASSUME NEW u \in Tables, u # t \/ ConnectFails PROVE InHome(u)'
    <3>1. InHome(u) /\ (home[u] # 0 => home[u] \in DOMAIN store)
      BY <1>1, <2>1 DEF Homes, VtabTypes
    <3>2. vtab'[u] = vtab[u] /\ home'[u] = home[u] /\ view'[u] = view[u]
      BY <1>7, <2>2 DEF ConnectFails
    <3> QED
      BY <1>5, <3>1, <3>2 DEF InHome, InstGrown, TabKept
  <2>3. ASSUME Connects(t, s, a) PROVE InHome(t)'
    <3>1. home'[t] = s /\ view'[t] = store[s].tab[t] /\ vtab'[t] = id /\ s # 0
      BY <1>1, <1>4, <2>3 DEF Connects, VtabTypes
    <3>2. store'[s].tab = store[s].tab /\ id \in store'[s].inst
      BY <1>2, <1>3, <3>1, <2>3 DEF Told, Connects
    <3> QED
      BY <3>1, <3>2 DEF InHome
  <2> QED
    BY <2>2, <2>3 DEF Homes
<1>11. ASSUME NEW u \in DOMAIN store' PROVE KnownTables(u)'
  <2>1. u \in DOMAIN store /\ KnownTables(u) /\ store[u] \in StoreT /\ store'[u] \in StoreT
    BY <1>1, <1>3 DEF Told, VtabTypes, BridgeInv, Memories
  <2>2. \A w \in Tables : vtab[w] \in Nat /\ vtab[w] < id
    BY <1>1 DEF BridgeInv, TableIds, VtabTypes
  <2>3. store[u].inst \subseteq Nat /\ \A i \in store[u].inst : i < id
    BY <2>1, StoreParts DEF KnownTables
  <2>4. \A w \in Tables :
            \/ vtab'[w] = vtab[w] /\ home'[w] = home[w]
            \/ w = t /\ vtab'[w] = id /\ home'[w] = s /\ a = "ok"
    BY <1>1, <1>7 DEF Connects, ConnectFails, VtabTypes
  <2>5. \/ store'[u] = store[u] /\ (u # s \/ a # "ok")
        \/ store'[u].trapped /\ store'[u].inst = {}
        \/ u = s /\ a = "ok" /\ store'[u].inst = store[u].inst \cup {id} /\ ~store'[u].trapped
    BY <1>2, <1>3, <1>4, <2>1, FreshTyped DEF Told
  <2>6. /\ \A i \in store'[u].inst : 0 < i /\ i < id + 1
        /\ store'[u].trapped => store'[u].inst = {}
    BY <1>1, <2>1, <2>3, <2>5 DEF KnownTables
  <2>7. \A w \in Tables : vtab'[w] \in store'[u].inst => home'[w] = u
    BY <1>1, <2>1, <2>2, <2>3, <2>4, <2>5 DEF KnownTables
  <2> QED
    BY <1>6, <2>6, <2>7 DEF KnownTables
<1>12. CursorIds' /\ Reading' /\ BlockReady' /\ \A u \in DOMAIN store' : KnownCursors(u)'
  <2>1. \A c \in Cursors : cursor[c].id # 0 =>
            /\ vtab'[cursor[c].tab] = vtab[cursor[c].tab]
            /\ home'[cursor[c].tab] = home[cursor[c].tab]
    <3>1. \A c \in Cursors : cursor[c].id # 0 => cursor[c].tab \in Tables \ {t}
      BY <1>1 DEF BridgeInv, Reading, InUse, VtabTypes, CursorT
    <3> QED
      BY <1>7, <3>1
  <2>2. store' \in Seq(StoreT)
    BY <1>3 DEF Told
  <2> QED
    BY <1>5, <1>6, <2>1, <2>2, CursorsStay
<1>13. Phased'
  <2>1. \A u \in part : vtab'[u] = vtab[u] /\ home'[u] = home[u]
    BY <1>7 DEF BridgeInv, Phased
  <2> QED
    BY <1>1, <1>5, <2>1, PhasedKept DEF BridgeInv
<1> QED
  BY <1>8, <1>9, <1>10, <1>11, <1>12, <1>13 DEF BridgeInv, Memories

LEMMA CreateOrConnectStep ==
    ASSUME BridgeInv, NEW t \in Tables, NEW is_connect, create_or_connect(t, is_connect)
    PROVE  BridgeInv'
<1> DEFINE s == IF is_connect \/ Module[t].eponymous THEN dispatch_vtab_connect ELSE dispatch_vtab_create
<1>1. VtabTypes
  BY DEF BridgeInv
<1>2. s \in 0..Len(store)
  BY <1>1, Dispatched
<1>3. PICK a \in Replies, declared \in BOOLEAN :
          /\ Call(s, TRUE, a, [store[s] EXCEPT !.inst = @ \cup {registry.next_instance}])
          /\ IF a = "ok" /\ declared
             THEN /\ registry' = alloc_instance_id(registry.next_instance)
                  /\ vtab' = [vtab EXCEPT ![t] = registry.next_instance]
                  /\ home' = [home EXCEPT ![t] = s]
                  /\ view' = [view EXCEPT ![t] = store[s].tab[t]]
                  /\ made' = IF is_connect THEN made ELSE made \cup {t}
             ELSE /\ registry' = drop_instance(alloc_instance_id(registry.next_instance), registry.next_instance)
                  /\ UNCHANGED <<schemaVars, view>>
  BY Zenon DEF create_or_connect
<1>4. /\ vtab[t] = 0 /\ registry.next_instance <= MaxInstances
      /\ UNCHANGED <<backing, dynlink, mutating, registered, batch, cursor, txn, part, todo,
                     points, updates>>
  BY DEF create_or_connect, hostVars, txnVars
<1> HIDE DEF s
<1>5. Connects(t, s, a) \/ ConnectFails
  <2>1. CASE a = "ok" /\ declared
    <3>1. made' \subseteq Tables
      BY <1>1, <1>3, <2>1 DEF VtabTypes
    <3> QED
      BY <1>3, <2>1, <3>1 DEF Connects
  <2>2. CASE ~(a = "ok" /\ declared)
    BY <1>3, <2>2 DEF ConnectFails, schemaVars
  <2> QED
    BY <2>1, <2>2
<1> QED
  BY <1>2, <1>3, <1>4, <1>5, ConnectStep

(* A table is released.  Its id is in no other store, and no other table's. *)
LEMMA ReleaseStep ==
    ASSUME BridgeInv, NEW t \in Tables, NEW s \in 0..Len(store), Release(t, s),
           made' \subseteq Tables
    PROVE  BridgeInv'
<1> DEFINE id == vtab[t]
           new == [store[s] EXCEPT !.inst = @ \ {id}]
<1>1. VtabTypes /\ id \in Nat /\ id # 0
  BY DEF BridgeInv, VtabTypes, Release
<1>2. PICK a \in Replies : Call(s, id \in store[s].inst, a, new)
  BY Zenon DEF Release
<1>3. /\ Unused(t) /\ registry' = drop_instance(registry, id)
      /\ vtab' = [vtab EXCEPT ![t] = 0] /\ home' = [home EXCEPT ![t] = 0]
      /\ view' = [view EXCEPT ![t] = Contents(StoredRows[t])]
      /\ UNCHANGED <<backing, dynlink, mutating, registered, batch, cursor, txn, part, todo,
                     points, updates>>
  BY DEF Release, hostVars, txnVars
<1>4. s # 0 => /\ s \in DOMAIN store /\ new \in StoreT /\ new.inst = store[s].inst \ {id}
               /\ new.trapped = store[s].trapped /\ new.cur = store[s].cur
               /\ new.tab = store[s].tab /\ new.synced = store[s].synced
  <2>1. SUFFICES ASSUME s # 0
                 PROVE  /\ s \in DOMAIN store /\ new \in StoreT /\ new.inst = store[s].inst \ {id}
                        /\ new.trapped = store[s].trapped /\ new.cur = store[s].cur
                        /\ new.tab = store[s].tab /\ new.synced = store[s].synced
    OBVIOUS
  <2>2. s \in DOMAIN store /\ store[s] \in StoreT
    BY <1>1, <2>1 DEF VtabTypes
  <2>3. PICK I \in SUBSET Nat : I = store[s].inst \ {id}
    BY <2>2, StoreParts
  <2>4. new = [store[s] EXCEPT !.inst = I]
    BY <2>3
  <2> HIDE DEF new
  <2> QED
    BY <2>2, <2>3, <2>4, SetInst
<1> HIDE DEF new
<1>5. Told(s, a, new)
  BY <1>1, <1>2, <1>4, CallEffect
<1>6. a = "ok" => s \in DOMAIN store /\ s # 0
  BY <1>1, <1>5 DEF Told, VtabTypes
<1>7. CurKept /\ TabKept
  BY <1>1, <1>4, <1>5, <1>6, CallKeeps
<1>8. /\ registry' \in RegistryT /\ registry'.instances = registry.instances \ {id}
      /\ registry'.next_instance = registry.next_instance
      /\ registry'.cursors = registry.cursors /\ registry'.next_cursor = registry.next_cursor
  <2>1. registry \in RegistryT
    BY <1>1 DEF VtabTypes
  <2> QED
    BY <1>3, <2>1, RegistryDrops
<1>9. /\ vtab'[t] = 0 /\ home'[t] = 0
      /\ \A u \in Tables : u # t => vtab'[u] = vtab[u] /\ home'[u] = home[u] /\ view'[u] = view[u]
  BY <1>1, <1>3 DEF VtabTypes
<1>10. VtabTypes'
  <2>1. store' \in Seq(StoreT) /\ Len(store') = Len(store) /\ faults' \in 0..MaxFaults
    BY <1>5 DEF Told
  <2>2. Contents(StoredRows[t]) \in ContentT
    BY ContentsTyped, VtabAssumption
  <2>3. vtab' \in [Tables -> Nat] /\ home' \in [Tables -> 0..Len(store')]
        /\ view' \in [Tables -> ContentT]
    BY <1>1, <1>3, <2>1, <2>2 DEF VtabTypes
  <2> QED
    BY <1>1, <1>3, <1>8, <2>1, <2>3 DEF VtabTypes
<1>11. TableIds'
  <2>1. TableIds /\ \A u \in Tables : vtab[u] \in Nat
    BY <1>1 DEF BridgeInv, VtabTypes
  <2>2. \A u \in Tables : u # t => vtab[u] # id
    BY <1>1, <2>1 DEF TableIds
  <2>3. registry'.next_instance \in 1..(MaxInstances + 1)
    BY <1>8, <2>1 DEF TableIds
  <2>4. registry'.instances = {vtab'[u] : u \in Tables} \ {0}
    BY <1>8, <1>9, <2>1, <2>2 DEF TableIds
  <2>5. \A u \in Tables : vtab'[u] < registry'.next_instance
    BY <1>8, <1>9, <2>1, <2>3 DEF TableIds
  <2>6. \A u, w \in Tables : vtab'[u] # 0 /\ vtab'[u] = vtab'[w] => u = w
    BY <1>9, <2>1 DEF TableIds
  <2> QED
    BY <2>3, <2>4, <2>5, <2>6 DEF TableIds
<1>12. \A u \in DOMAIN store :
          \/ store'[u] = store[u]
          \/ store'[u].trapped /\ store'[u].inst = {}
          \/ store'[u].inst = store[u].inst \ {id} /\ store'[u].trapped = store[u].trapped
  BY <1>4, <1>5, <1>6, FreshTyped DEF Told
<1>13. Homes'
  <2>1. SUFFICES ASSUME NEW u \in Tables, u # t PROVE InHome(u)'
    BY <1>9 DEF Homes, InHome
  <2>2. InHome(u) /\ (home[u] # 0 => home[u] \in DOMAIN store)
    BY <1>1 DEF BridgeInv, Homes, VtabTypes
  <2>3. vtab[u] # 0 => vtab[u] # id
    BY <1>1, <2>1 DEF BridgeInv, TableIds
  <2> QED
    BY <1>7, <1>9, <1>12, <2>1, <2>2, <2>3 DEF InHome, TabKept
<1>14. ASSUME NEW u \in DOMAIN store' PROVE KnownTables(u)'
  <2>1. u \in DOMAIN store /\ KnownTables(u)
    BY <1>1, <1>5 DEF Told, VtabTypes, BridgeInv, Memories
  <2>2. 0 \notin store[u].inst
    BY <2>1 DEF KnownTables
  <2>3. /\ store'[u].inst \subseteq store[u].inst
        /\ store'[u].trapped => store'[u].inst = {}
    BY <1>12, <2>1 DEF KnownTables
  <2>4. \A i \in store'[u].inst : 0 < i /\ i < registry'.next_instance
    BY <1>8, <2>1, <2>3 DEF KnownTables
  <2>5. \A w \in Tables : vtab'[w] \in store'[u].inst => home'[w] = u
    BY <1>9, <2>1, <2>2, <2>3 DEF KnownTables
  <2> QED
    BY <2>3, <2>4, <2>5 DEF KnownTables
<1>15. CursorIds' /\ Reading' /\ BlockReady' /\ \A u \in DOMAIN store' : KnownCursors(u)'
  <2>1. \A c \in Cursors : cursor[c].id # 0 =>
            /\ vtab'[cursor[c].tab] = vtab[cursor[c].tab]
            /\ home'[cursor[c].tab] = home[cursor[c].tab]
    <3>1. \A c \in Cursors : cursor[c].id # 0 => cursor[c].tab \in Tables \ {t}
      BY <1>1, <1>3 DEF Unused, VtabTypes, CursorT
    <3> QED
      BY <1>9, <3>1
  <2>2. store' \in Seq(StoreT)
    BY <1>5 DEF Told
  <2>3. UNCHANGED <<cursor, batch>>
    BY <1>3
  <2> QED
    BY <1>7, <1>8, <2>1, <2>2, <2>3, CursorsStay
<1>16. Phased'
  <2>1. \A u \in part : vtab'[u] = vtab[u] /\ home'[u] = home[u]
    BY <1>3, <1>9 DEF BridgeInv, Phased, Unused
  <2>2. UNCHANGED <<txn, part, todo, points>>
    BY <1>3
  <2> QED
    BY <1>1, <1>7, <2>1, <2>2, PhasedKept DEF BridgeInv
<1> QED
  BY <1>10, <1>11, <1>13, <1>14, <1>15, <1>16 DEF BridgeInv, Memories

LEMMA TableStep ==
    ASSUME BridgeInv, NEW t \in Tables,
           x_create(t) \/ x_connect(t) \/ x_disconnect(t) \/ x_destroy(t)
    PROVE  BridgeInv'
<1>1. VtabTypes
  BY DEF BridgeInv
<1>2. dispatch_vtab_disconnect \in 0..Len(store) /\ dispatch_vtab_destroy \in 0..Len(store)
  BY <1>1, Dispatched
<1>3. CASE x_create(t) \/ x_connect(t)
  BY <1>3, CreateOrConnectStep DEF x_create, x_connect
<1>4. CASE x_disconnect(t)
  <2>1. made' \subseteq Tables /\ Release(t, dispatch_vtab_disconnect)
    BY <1>1, <1>4 DEF x_disconnect, VtabTypes
  <2> QED
    BY <1>2, <2>1, ReleaseStep
<1>5. CASE x_destroy(t)
  <2>1. made' \subseteq Tables /\ Release(t, dispatch_vtab_destroy)
    BY <1>1, <1>5 DEF x_destroy, VtabTypes
  <2> QED
    BY <1>2, <2>1, ReleaseStep
<1> QED
  BY <1>3, <1>4, <1>5

-----------------------------------------------------------------------------
(* Writing.  What SQLite's writers and the store are told is the same.      *)
Ops == {"begin", "update", "savepoint", "rollback_to", "release", "rollback", "commit",
        "sync", "rename"}

LEMMA BecomesTyped ==
    ASSUME NEW op \in Ops, NEW x \in ContentT, updates \in Nat
    PROVE  Becomes(op, x) \in ContentT
<1>1. x.rows \in Seq(Nat) /\ x.saved \in Seq(Nat) /\ x.point \in Seq(Nat)
  BY DEF ContentT
<1>2. Append(x.rows, 100 + updates) \in Seq(Nat) /\ << >> \in Seq(Nat)
  BY <1>1
<1>3. Contents(x.saved) \in ContentT /\ Contents(x.rows) \in ContentT
  BY <1>1, ContentsTyped
<1>4. \A r \in Seq(Nat) : /\ [x EXCEPT !.rows = r] \in ContentT
                          /\ [x EXCEPT !.saved = r] \in ContentT
                          /\ [x EXCEPT !.point = r] \in ContentT
  BY DEF ContentT
<1>5. CASE op = "begin"
  BY <1>1, <1>4, <1>5 DEF Becomes
<1>6. CASE op = "update"
  BY <1>2, <1>4, <1>6 DEF Becomes
<1>7. CASE op = "savepoint"
  BY <1>1, <1>4, <1>7 DEF Becomes
<1>8. CASE op = "rollback_to"
  BY <1>1, <1>4, <1>8 DEF Becomes
<1>9. CASE op = "release"
  BY <1>2, <1>4, <1>9 DEF Becomes
<1>10. CASE op \in {"rollback", "commit", "sync", "rename"}
  BY <1>3, <1>10 DEF Becomes
<1> QED
  BY <1>5, <1>6, <1>7, <1>8, <1>9, <1>10 DEF Ops

(* Everything but the transaction, after a write.                           *)
WriteInv ==
    /\ VtabTypes /\ TableIds /\ CursorIds /\ Memories /\ Homes /\ Reading /\ BlockReady

(* What a write on t makes of the records of what was synced.               *)
Syncs(t, a, synced) ==
    /\ UNCHANGED <<vtab, home>>
    /\ \A r \in DOMAIN store :
          \/ store'[r].trapped
          \/ store'[r].trapped = store[r].trapped /\ store'[r].synced = store[r].synced
             /\ (a = "ok" => r # home[t])
          \/ r = home[t] /\ a = "ok" /\ ~store[r].trapped /\ store'[r].synced = synced

LEMMA WriteStep ==
    ASSUME BridgeInv, NEW t \in Tables, NEW s \in 0..Len(store), NEW a \in Replies,
           NEW op \in Ops, NEW synced, s # 0 => synced \in SUBSET Tables,
           Write(t, s, a, op, synced), updates' \in 0..MaxUpdates
    PROVE  /\ WriteInv' /\ Syncs(t, a, synced) /\ vtab[t] # 0
           /\ a = "ok" => s = home[t] /\ s \in DOMAIN store
<1> DEFINE new == [store[s] EXCEPT !.tab[t] = Becomes(op, @), !.synced = synced]
<1>1. VtabTypes /\ updates \in Nat
  BY DEF BridgeInv, VtabTypes
<1>2. /\ vtab[t] \in registry.instances
      /\ Call(s, vtab[t] \in store[s].inst, a, new)
      /\ view' = IF a = "ok" THEN [view EXCEPT ![t] = Becomes(op, @)] ELSE view
      /\ UNCHANGED <<backing, dynlink, mutating, registered, made, vtab, home, registry, batch,
                     cursor>>
  BY DEF Write, txnFrame, hostVars, schemaVars
<1>3. vtab[t] # 0
  BY <1>2 DEF BridgeInv, TableIds
<1>4. s # 0 => /\ s \in DOMAIN store /\ new \in StoreT /\ new.inst = store[s].inst
               /\ new.trapped = store[s].trapped /\ new.cur = store[s].cur
               /\ new.tab = [store[s].tab EXCEPT ![t] = Becomes(op, store[s].tab[t])]
               /\ new.synced = synced /\ store[s].tab \in [Tables -> ContentT]
  <2>1. SUFFICES ASSUME s # 0
                 PROVE  /\ s \in DOMAIN store /\ new \in StoreT /\ new.inst = store[s].inst
                        /\ new.trapped = store[s].trapped /\ new.cur = store[s].cur
                        /\ new.tab = [store[s].tab EXCEPT ![t] = Becomes(op, store[s].tab[t])]
                        /\ new.synced = synced /\ store[s].tab \in [Tables -> ContentT]
    OBVIOUS
  <2>2. s \in DOMAIN store /\ store[s] \in StoreT /\ store[s].tab \in [Tables -> ContentT]
    BY <1>1, <2>1, StoreParts DEF VtabTypes
  <2>3. PICK x \in ContentT : x = Becomes(op, store[s].tab[t])
    BY <1>1, <2>2, BecomesTyped
  <2>4. new = [store[s] EXCEPT !.tab[t] = x, !.synced = synced]
    BY <2>3
  <2>5. PICK S \in SUBSET Tables : S = synced
    BY <2>1
  <2>6. PICK st \in StoreT : st = store[s]
    BY <2>2
  <2>7. new = Rewritten(st, t, x, S)
    BY <2>4, <2>5, <2>6 DEF Rewritten
  <2> HIDE DEF new
  <2>8. /\ new \in StoreT /\ new.tab = [st.tab EXCEPT ![t] = x] /\ new.synced = S
        /\ new.trapped = st.trapped /\ new.inst = st.inst /\ new.cur = st.cur
    BY <2>7, SetTab
  <2> QED
    BY <2>2, <2>3, <2>5, <2>6, <2>8
<1> HIDE DEF new
<1>5. Told(s, a, new) /\ (a = "ok" => vtab[t] \in store[s].inst)
  BY <1>1, <1>2, <1>4, CallEffect
<1>6. a = "ok" => s \in DOMAIN store /\ s # 0 /\ s = home[t]
  BY <1>1, <1>5 DEF Told, VtabTypes, BridgeInv, Memories, KnownTables
<1>7. InstKept /\ CurKept /\ InstGrown
  BY <1>1, <1>4, <1>5, <1>6, CallKeeps
<1>8. store' \in Seq(StoreT) /\ Len(store') = Len(store) /\ faults' \in 0..MaxFaults
      /\ DOMAIN store' = DOMAIN store
  BY <1>1, <1>5 DEF Told, VtabTypes
<1>9. VtabTypes'
  <2>1. view' \in [Tables -> ContentT]
    <3>1. view[t] \in ContentT
      BY <1>1 DEF VtabTypes
    <3>2. Becomes(op, view[t]) \in ContentT
      BY <1>1, <3>1, BecomesTyped
    <3> QED
      BY <1>1, <1>2, <3>2 DEF VtabTypes
  <2> QED
    BY <1>1, <1>2, <1>8, <2>1 DEF VtabTypes
<1>10. TableIds'
  BY <1>2 DEF BridgeInv, TableIds
<1>11. ASSUME NEW u \in DOMAIN store' PROVE KnownTables(u)'
  <2>1. store'[u] \in StoreT /\ registry.next_instance \in Nat
    BY <1>8 DEF BridgeInv, TableIds
  <2>2. \A i \in store'[u].inst : i \in Nat
    BY <2>1, StoreParts
  <2> QED
    BY <1>2, <1>7, <2>1, <2>2, KnownTablesKept DEF BridgeInv
<1>12. CursorIds' /\ Reading' /\ BlockReady' /\ \A u \in DOMAIN store' : KnownCursors(u)'
  BY <1>2, <1>7, <1>8, CursorsStay
<1>13. \A r \in DOMAIN store :
          \/ store'[r].trapped
          \/ store'[r] = store[r] /\ (a = "ok" => r # s)
          \/ r = s /\ a = "ok" /\ ~store[r].trapped /\ store'[r] = new
  BY <1>5, FreshTyped DEF Told
<1>14. Syncs(t, a, synced)
  BY <1>2, <1>4, <1>6, <1>13 DEF Syncs
<1>15. Homes'
  <2>1. SUFFICES ASSUME NEW u \in Tables PROVE InHome(u)'
    BY DEF Homes
  <2>2. InHome(u) /\ (home[u] # 0 => home[u] \in DOMAIN store)
    BY <1>1 DEF BridgeInv, Homes, VtabTypes
  <2>3. vtab'[u] = vtab[u] /\ home'[u] = home[u]
    BY <1>2
  <2>4. CASE a = "ok" /\ u = t
    <3>1. vtab[t] \in store[s].inst /\ home[u] = s /\ s \in DOMAIN store
      BY <1>5, <1>6, <2>4
    <3>2. ~store[s].trapped
      BY <1>5, <2>4 DEF Told
    <3>3. store'[s] = new
      BY <1>5, <2>4 DEF Told
    <3>4. view'[t] = Becomes(op, view[t]) /\ new.tab[t] = Becomes(op, store[s].tab[t])
          /\ new.inst = store[s].inst
      BY <1>1, <1>2, <1>4, <1>6, <2>4 DEF VtabTypes
    <3> QED
      BY <1>3, <2>2, <2>3, <2>4, <3>1, <3>2, <3>3, <3>4 DEF InHome
  <2>5. CASE ~(a = "ok" /\ u = t)
    <3>1. view'[u] = view[u]
      BY <1>1, <1>2, <2>5 DEF VtabTypes
    <3>2. ASSUME vtab[u] # 0
          PROVE  \/ store'[home[u]].trapped
                 \/ /\ store'[home[u]].inst = store[home[u]].inst
                    /\ store'[home[u]].tab[u] = store[home[u]].tab[u]
                    /\ store'[home[u]].trapped = store[home[u]].trapped
      <4>1. home[u] \in DOMAIN store
        BY <2>2, <3>2 DEF InHome
      <4>2. u # t /\ a = "ok" => new.tab[u] = store[s].tab[u]
        BY <1>4, <1>6
      <4> QED
        BY <1>4, <1>6, <1>13, <2>5, <4>1, <4>2
    <3> QED
      BY <2>2, <2>3, <3>1, <3>2 DEF InHome
  <2> QED
    BY <2>4, <2>5
<1> QED
  BY <1>3, <1>6, <1>9, <1>10, <1>11, <1>12, <1>14, <1>15 DEF WriteInv, Memories

(* The steps of a transaction that tell a store something.                   *)
LEMMA TxnStep ==
    ASSUME BridgeInv, NEW t \in Tables,
           x_begin(t) \/ x_update(t) \/ x_savepoint(t) \/ x_release(t) \/ x_rollback_to(t)
           \/ x_commit(t) \/ x_rollback(t)
    PROVE  BridgeInv'
<1>1. VtabTypes /\ updates \in Nat /\ MaxUpdates \in Nat
  <2>1. VtabTypes
    BY DEF BridgeInv
  <2>2. MaxUpdates \in Nat
    BY VtabAssumption
  <2> QED
    BY <2>1, <2>2 DEF VtabTypes
<1>2. Phased
  BY DEF BridgeInv
<1>3. /\ dispatch_vtab_update \in 0..Len(store) /\ dispatch_vtab_savepoint \in 0..Len(store)
      /\ {"begin", "update", "savepoint", "release", "rollback_to", "commit", "rollback"} \subseteq Ops
      /\ dispatch_vtab_update # 0 =>
            /\ store[dispatch_vtab_update].synced \cup {t} \in SUBSET Tables
            /\ store[dispatch_vtab_update].synced \ {t} \in SUBSET Tables
      /\ dispatch_vtab_savepoint # 0 =>
            /\ store[dispatch_vtab_savepoint].synced \in SUBSET Tables
            /\ store[dispatch_vtab_savepoint].synced \ {t} \in SUBSET Tables
  <2>1. dispatch_vtab_update \in 0..Len(store) /\ dispatch_vtab_savepoint \in 0..Len(store)
    BY <1>1, Dispatched
  <2>2. \A s \in 0..Len(store) : s # 0 => store[s].synced \subseteq Tables
    <3>1. SUFFICES ASSUME NEW s \in DOMAIN store PROVE store[s].synced \subseteq Tables
      BY <1>1 DEF VtabTypes
    <3> QED
      BY <1>1, StoreOf, StoreParts
  <2> QED
    BY <2>1, <2>2 DEF Ops
<1>4. CASE x_begin(t)
  <2>1. PICK a \in Replies : /\ Write(t, dispatch_vtab_update, a, "begin", store[dispatch_vtab_update].synced \ {t})
                             /\ part' = (IF a = "ok" THEN part \cup {t} ELSE part)
                             /\ txn' = (IF a = "ok" THEN "open" ELSE txn)
    BY Zenon, <1>4 DEF x_begin
  <2>2. txn \in {"none", "open"} /\ UNCHANGED <<todo, points, updates>>
    BY <1>4 DEF x_begin
  <2>3. updates' \in 0..MaxUpdates
    BY <1>1, <2>2 DEF VtabTypes
  <2>4. WriteInv' /\ Syncs(t, a, store[dispatch_vtab_update].synced \ {t}) /\ vtab[t] # 0
    BY <1>3, <2>1, <2>3, WriteStep
  <2>5. Phased'
    BY <1>2, <2>1, <2>2, <2>4 DEF Phased, Syncs
  <2> QED
    BY <2>4, <2>5 DEF WriteInv, BridgeInv
<1>5. CASE x_update(t)
  <2>1. PICK a \in Replies : /\ Write(t, dispatch_vtab_update, a, "update", store[dispatch_vtab_update].synced \ {t})
    BY Zenon, <1>5 DEF x_update
  <2>2. /\ txn = "open" /\ updates < MaxUpdates /\ updates' = updates + 1
        /\ UNCHANGED <<txn, part, todo, points>>
    BY <1>5 DEF x_update
  <2>3. updates' \in 0..MaxUpdates
    BY <1>1, <2>2 DEF VtabTypes
  <2>4. WriteInv' /\ Syncs(t, a, store[dispatch_vtab_update].synced \ {t}) /\ vtab[t] # 0
    BY <1>3, <2>1, <2>3, WriteStep
  <2>5. Phased'
    BY <1>2, <2>1, <2>2, <2>4 DEF Phased, Syncs
  <2> QED
    BY <2>4, <2>5 DEF WriteInv, BridgeInv
<1>6. CASE x_savepoint(t)
  <2>1. PICK a \in Replies : /\ Write(t, dispatch_vtab_savepoint, a, "savepoint", store[dispatch_vtab_savepoint].synced)
                             /\ points' = (IF a = "ok" THEN points \cup {t} ELSE points)
    BY Zenon, <1>6 DEF x_savepoint
  <2>2. txn = "open" /\ t \in part /\ UNCHANGED <<txn, part, todo, updates>>
    BY <1>6 DEF x_savepoint
  <2>3. updates' \in 0..MaxUpdates
    BY <1>1, <2>2 DEF VtabTypes
  <2>4. WriteInv' /\ Syncs(t, a, store[dispatch_vtab_savepoint].synced) /\ vtab[t] # 0
    BY <1>3, <2>1, <2>3, WriteStep
  <2>5. Phased'
    BY <1>2, <2>1, <2>2, <2>4 DEF Phased, Syncs
  <2> QED
    BY <2>4, <2>5 DEF WriteInv, BridgeInv
<1>7. CASE x_release(t)
  <2>1. PICK a \in Replies : /\ Write(t, dispatch_vtab_savepoint, a, "release", store[dispatch_vtab_savepoint].synced)
    BY Zenon, <1>7 DEF x_release
  <2>2. txn = "open" /\ points' = points \ {t} /\ UNCHANGED <<txn, part, todo, updates>>
    BY <1>7 DEF x_release
  <2>3. updates' \in 0..MaxUpdates
    BY <1>1, <2>2 DEF VtabTypes
  <2>4. WriteInv' /\ Syncs(t, a, store[dispatch_vtab_savepoint].synced) /\ vtab[t] # 0
    BY <1>3, <2>1, <2>3, WriteStep
  <2>5. Phased'
    BY <1>2, <2>1, <2>2, <2>4 DEF Phased, Syncs
  <2> QED
    BY <2>4, <2>5 DEF WriteInv, BridgeInv
<1>8. CASE x_rollback_to(t)
  <2>1. PICK a \in Replies : /\ Write(t, dispatch_vtab_savepoint, a, "rollback_to", store[dispatch_vtab_savepoint].synced \ {t})
    BY Zenon, <1>8 DEF x_rollback_to
  <2>2. txn = "open" /\ UNCHANGED <<txn, part, todo, points, updates>>
    BY <1>8 DEF x_rollback_to
  <2>3. updates' \in 0..MaxUpdates
    BY <1>1, <2>2 DEF VtabTypes
  <2>4. WriteInv' /\ Syncs(t, a, store[dispatch_vtab_savepoint].synced \ {t}) /\ vtab[t] # 0
    BY <1>3, <2>1, <2>3, WriteStep
  <2>5. Phased'
    BY <1>2, <2>1, <2>2, <2>4 DEF Phased, Syncs
  <2> QED
    BY <2>4, <2>5 DEF WriteInv, BridgeInv
<1>9. CASE x_commit(t)
  <2>1. PICK a \in Replies : /\ Write(t, dispatch_vtab_update, a, "commit", store[dispatch_vtab_update].synced \ {t})
    BY Zenon, <1>9 DEF x_commit
  <2>2. txn = "commit" /\ todo' = todo \ {t} /\ UNCHANGED <<txn, part, points, updates>>
    BY <1>9 DEF x_commit
  <2>3. updates' \in 0..MaxUpdates
    BY <1>1, <2>2 DEF VtabTypes
  <2>4. WriteInv' /\ Syncs(t, a, store[dispatch_vtab_update].synced \ {t}) /\ vtab[t] # 0
    BY <1>3, <2>1, <2>3, WriteStep
  <2>5. Phased'
    BY <1>2, <2>1, <2>2, <2>4 DEF Phased, Syncs
  <2> QED
    BY <2>4, <2>5 DEF WriteInv, BridgeInv
<1>10. CASE x_rollback(t)
  <2>1. PICK a \in Replies : /\ Write(t, dispatch_vtab_update, a, "rollback", store[dispatch_vtab_update].synced \ {t})
    BY Zenon, <1>10 DEF x_rollback
  <2>2. txn = "undo" /\ todo' = todo \ {t} /\ UNCHANGED <<txn, part, points, updates>>
    BY <1>10 DEF x_rollback
  <2>3. updates' \in 0..MaxUpdates
    BY <1>1, <2>2 DEF VtabTypes
  <2>4. WriteInv' /\ Syncs(t, a, store[dispatch_vtab_update].synced \ {t}) /\ vtab[t] # 0
    BY <1>3, <2>1, <2>3, WriteStep
  <2>5. Phased'
    BY <1>2, <2>1, <2>2, <2>4 DEF Phased, Syncs
  <2> QED
    BY <2>4, <2>5 DEF WriteInv, BridgeInv
<1> QED
  BY <1>4, <1>5, <1>6, <1>7, <1>8, <1>9, <1>10

(* The store of a table of the transaction that another call finds alive    *)
(* has it synced still.                                                     *)
LEMMA StillSynced ==
    ASSUME BridgeInv, txn = "sync", NEW t \in Tables, NEW a, NEW synced, Syncs(t, a, synced),
           \/ a = "ok" => store[home[t]].synced \cup {t} = synced
           \/ a = "ok" => store[home[t]].synced = synced,
           NEW u \in part \ todo
    PROVE  store'[home'[u]].trapped \/ u \in store'[home'[u]].synced
<1>1. u \in Tables /\ vtab[u] # 0
  BY DEF BridgeInv, Phased
<1>2. home[u] \in DOMAIN store
  BY <1>1 DEF BridgeInv, Homes, InHome, VtabTypes
<1>3. store[home[u]].trapped \/ u \in store[home[u]].synced
  BY DEF BridgeInv, Phased
<1>4. home'[u] = home[u]
  BY DEF Syncs
<1> QED
  BY <1>2, <1>3, <1>4 DEF Syncs

(* xSync, and xRename, which SQLite may call at any time.                    *)
LEMMA SyncStep ==
    ASSUME BridgeInv, NEW t \in Tables, x_sync(t) \/ x_rename(t)
    PROVE  BridgeInv'
<1>1. VtabTypes /\ updates \in 0..MaxUpdates
  BY DEF BridgeInv, VtabTypes
<1>2. Phased
  BY DEF BridgeInv
<1>3. /\ dispatch_vtab_update \in 0..Len(store) /\ dispatch_vtab_savepoint \in 0..Len(store)
      /\ {"sync", "rename"} \subseteq Ops
      /\ dispatch_vtab_update # 0 =>
            store[dispatch_vtab_update].synced \cup {t} \in SUBSET Tables
      /\ dispatch_vtab_savepoint # 0 =>
            store[dispatch_vtab_savepoint].synced \in SUBSET Tables
  <2>1. dispatch_vtab_update \in 0..Len(store) /\ dispatch_vtab_savepoint \in 0..Len(store)
    BY <1>1, Dispatched
  <2>2. \A s \in 0..Len(store) : s # 0 => store[s].synced \subseteq Tables
    <3>1. SUFFICES ASSUME NEW s \in DOMAIN store PROVE store[s].synced \subseteq Tables
      BY <1>1 DEF VtabTypes
    <3> QED
      BY <1>1, StoreOf, StoreParts
  <2> QED
    BY <2>1, <2>2 DEF Ops
<1>4. CASE x_sync(t)
  <2> DEFINE synced == store[dispatch_vtab_update].synced \cup {t}
  <2>1. PICK a \in Replies :
            /\ Write(t, dispatch_vtab_update, a, "sync", synced)
            /\ IF a = "ok" THEN todo' = todo \ {t} /\ UNCHANGED txn
               ELSE txn' = "undo" /\ todo' = part
    BY Zenon, <1>4 DEF x_sync
  <2>2. txn = "sync" /\ t \in todo /\ UNCHANGED <<part, points, updates>>
    BY <1>4 DEF x_sync
  <2>3. /\ WriteInv' /\ Syncs(t, a, synced) /\ vtab[t] # 0
        /\ a = "ok" => dispatch_vtab_update = home[t] /\ dispatch_vtab_update \in DOMAIN store
    BY <1>1, <1>3, <2>1, <2>2, WriteStep
  <2>4. ASSUME a = "ok", NEW u \in part \ todo'
        PROVE  store'[home'[u]].trapped \/ u \in store'[home'[u]].synced
    <3>1. store[home[t]].synced \cup {t} = synced
      BY <2>3, <2>4
    <3> HIDE DEF synced
    <3>2. CASE u = t
      <4>1. home[t] \in DOMAIN store /\ home'[t] = home[t]
        BY <2>3, <2>4 DEF Syncs
      <4> QED
        BY <2>3, <2>4, <3>1, <3>2, <4>1 DEF Syncs
    <3>3. CASE u # t
      <4>1. u \in part \ todo
        BY <2>1, <2>4, <3>3
      <4> QED
        BY <2>2, <2>3, <3>1, <4>1, StillSynced
    <3> QED
      BY <3>2, <3>3
  <2> HIDE DEF synced
  <2>5. Phased'
    <3>1. CASE a = "ok"
      BY <1>2, <2>1, <2>2, <2>3, <2>4, <3>1 DEF Phased, Syncs
    <3>2. CASE a # "ok"
      BY <1>2, <2>1, <2>2, <2>3, <3>2 DEF Phased, Syncs
    <3> QED
      BY <3>1, <3>2
  <2> QED
    BY <2>3, <2>5 DEF WriteInv, BridgeInv
<1>5. CASE x_rename(t)
  <2> DEFINE synced == store[dispatch_vtab_savepoint].synced
  <2>1. PICK a \in Replies : Write(t, dispatch_vtab_savepoint, a, "rename", synced)
    BY Zenon, <1>5 DEF x_rename
  <2>2. UNCHANGED <<txn, part, todo, points, updates>>
    BY <1>5 DEF x_rename, txnVars
  <2>3. /\ WriteInv' /\ Syncs(t, a, synced) /\ vtab[t] # 0
        /\ a = "ok" => dispatch_vtab_savepoint = home[t] /\ dispatch_vtab_savepoint \in DOMAIN store
    BY <1>1, <1>3, <2>1, <2>2, WriteStep
  <2>4. a = "ok" => store[home[t]].synced = synced
    BY <2>3
  <2> HIDE DEF synced
  <2>5. ASSUME txn = "sync", NEW u \in part \ todo
        PROVE  store'[home'[u]].trapped \/ u \in store'[home'[u]].synced
    BY <2>3, <2>4, <2>5, StillSynced
  <2>6. Phased'
    BY <1>2, <2>2, <2>3, <2>5 DEF Phased, Syncs
  <2> QED
    BY <2>3, <2>6 DEF WriteInv, BridgeInv
<1> QED
  BY <1>4, <1>5

(* COMMIT, ROLLBACK and the end of their phases.                            *)
LEMMA PhaseStep ==
    ASSUME BridgeInv, EndTxn("sync") \/ EndTxn("undo") \/ Synced \/ Ended
    PROVE  BridgeInv'
<1>1. UNCHANGED <<backing, dynlink, mutating, registered, made, vtab, home, registry, batch,
                  cursor, store, view, updates, faults>>
  BY DEF EndTxn, Synced, Ended, txnFrame, hostVars, schemaVars
<1>2. VtabTypes'
  BY <1>1 DEF BridgeInv, VtabTypes
<1>3. Phased'
  BY <1>1 DEF BridgeInv, Phased, EndTxn, Synced, Ended
<1> QED
  BY <1>1, <1>2, <1>3, QuietStep

-----------------------------------------------------------------------------
(* Cursors.  A step of one cursor touches no other: ids are not shared.     *)
Ready(c) ==
    cursor[c].phase \in {"at", "row", "read"} /\ Module[cursor[c].tab].batched
    => /\ cursor[c].id \in DOMAIN batch
       /\ LET b == batch[cursor[c].id] IN b.idx < Len(b.rows) \/ b.eof_seen

CurElsewhere(id) ==
    \A s \in DOMAIN store' : \A i \in DOMAIN store'[s].cur : i # id =>
        s \in DOMAIN store /\ i \in DOMAIN store[s].cur /\ store'[s].cur[i] = store[s].cur[i]
BatchElsewhere(id) ==
    \A i \in DOMAIN batch : i # id => i \in DOMAIN batch' /\ batch'[i] = batch[i]

LEMMA CursorStep ==
    ASSUME BridgeInv, VtabTypes', InstKept, InstGrown, TabKept,
           UNCHANGED <<vtab, home, view, txn, part, todo, points>>,
           registry'.instances = registry.instances,
           registry'.next_instance = registry.next_instance,
           CursorIds', \A s \in DOMAIN store' : KnownCursors(s)',
           NEW c \in Cursors, NEW id, CurElsewhere(id), BatchElsewhere(id),
           \A d \in Cursors : d # c => cursor'[d] = cursor[d] /\ cursor[d].id # id,
           InUse(c)', Ready(c)', RowByRow(c)', BlockByBlock(c)'
    PROVE  BridgeInv'
<1>1. VtabTypes
  BY DEF BridgeInv
<1>2. TableIds' /\ Homes' /\ \A s \in DOMAIN store' : KnownTables(s)'
  <2>1. store' \in Seq(StoreT)
    BY DEF VtabTypes
  <2> QED
    BY <2>1, TablesStay
<1>3. Phased'
  BY <1>1, PhasedKept DEF BridgeInv
<1>4. ASSUME NEW d \in Cursors, d # c
      PROVE  InUse(d)' /\ Ready(d)' /\ RowByRow(d)' /\ BlockByBlock(d)'
  <2>1. InUse(d) /\ Ready(d) /\ RowByRow(d) /\ BlockByBlock(d)
    BY DEF BridgeInv, Reading, BlockReady, Ready
  <2>2. cursor'[d] = cursor[d] /\ cursor[d].id # id
    BY <1>4
  <2>3. Untouched(d)
    BY <2>1, <2>2 DEF Untouched, Ready, CurElsewhere, BatchElsewhere
  <2>4. InUse(d)'
    BY <2>1, <2>2 DEF InUse
  <2>5. Ready(d)'
    BY <2>1, <2>2, <2>3 DEF Ready, Untouched
  <2> QED
    BY <2>1, <2>3, <2>4, <2>5, ReadsKept
<1>5. Reading' /\ BlockReady'
  BY <1>4 DEF Reading, BlockReady, Ready
<1> QED
  BY <1>2, <1>3, <1>5 DEF BridgeInv, Memories

LEMMA CallElsewhere ==
    ASSUME VtabTypes, NEW s, NEW a, NEW new, Told(s, a, new), NEW id,
           a = "ok" => \A i \in DOMAIN new.cur : i # id =>
                           i \in DOMAIN store[s].cur /\ new.cur[i] = store[s].cur[i]
    PROVE  CurElsewhere(id)
<1>1. DOMAIN Dead.cur = {}
  BY FreshTyped
<1>2. DOMAIN store' = DOMAIN store
  BY DEF Told, VtabTypes
<1>3. \A u \in DOMAIN store :
          store'[u] = store[u] \/ store'[u] = Dead \/ (u = s /\ a = "ok" /\ store'[u] = new)
  BY DEF Told
<1> QED
  BY <1>1, <1>2, <1>3 DEF CurElsewhere

LEMMA KeptElsewhere == ASSUME CurKept PROVE \A id : CurElsewhere(id)
BY DEF CurKept, CurElsewhere

LEMMA KeptShrinks == ASSUME CurKept PROVE CurShrunk
BY DEF CurKept, CurShrunk

LEMMA CallShrinks ==
    ASSUME VtabTypes, NEW s, NEW a, NEW new, Told(s, a, new),
           a = "ok" => new.trapped = store[s].trapped /\ DOMAIN new.cur \subseteq DOMAIN store[s].cur
    PROVE  CurShrunk
<1>1. DOMAIN Dead.cur = {}
  BY FreshTyped
<1>2. DOMAIN store' = DOMAIN store
  BY DEF Told, VtabTypes
<1>3. \A u \in DOMAIN store :
          store'[u] = store[u] \/ store'[u] = Dead \/ (u = s /\ a = "ok" /\ store'[u] = new)
  BY DEF Told
<1> QED
  BY <1>1, <1>2, <1>3 DEF CurShrunk

(* What a step makes of cursor c, and of no other.                          *)
Moved(c, p, g, h) ==
    /\ cursor' \in [Cursors -> CursorT]
    /\ cursor'[c].phase = p /\ cursor'[c].got = g /\ cursor'[c].hurt = h
    /\ cursor'[c].id = cursor[c].id /\ cursor'[c].tab = cursor[c].tab
    /\ cursor'[c].want = cursor[c].want
    /\ \A d \in Cursors : d # c => cursor'[d] = cursor[d]

LEMMA CursorSet ==
    ASSUME VtabTypes, NEW c \in Cursors, NEW k \in CursorT,
           cursor' = [cursor EXCEPT ![c] = k]
    PROVE  /\ cursor' \in [Cursors -> CursorT] /\ cursor'[c] = k
           /\ \A d \in Cursors : d # c => cursor'[d] = cursor[d]
BY DEF VtabTypes

LEMMA CursorSets ==
    ASSUME VtabTypes, NEW c \in Cursors, NEW p \in Phases, NEW g \in Seq(Nat), NEW h \in BOOLEAN,
           cursor' = [cursor EXCEPT ![c] = [@ EXCEPT !.phase = p, !.got = g, !.hurt = h]]
    PROVE  Moved(c, p, g, h)
<1> DEFINE k == [cursor[c] EXCEPT !.phase = p, !.got = g, !.hurt = h]
<1>1. cursor[c] \in CursorT
  BY DEF VtabTypes
<1>2. /\ k \in CursorT /\ k.phase = p /\ k.got = g /\ k.hurt = h /\ k.id = cursor[c].id
      /\ k.tab = cursor[c].tab /\ k.want = cursor[c].want
  BY <1>1 DEF CursorT
<1>3. cursor' = [cursor EXCEPT ![c] = k]
  OBVIOUS
<1> HIDE DEF k
<1> QED
  BY <1>2, <1>3, CursorSet DEF Moved

LEMMA NoCursorTyped ==
    /\ NoCursor \in CursorT /\ NoCursor.phase = "idle" /\ NoCursor.id = 0
    /\ NoCursor.tab \in Tables
<1>1. (CHOOSE t \in Tables : TRUE) \in Tables
  BY VtabAssumption
<1> QED
  BY <1>1 DEF NoCursor, CursorT, Phases

(* A cursor runs on: its id and its table stay.                             *)
RunsOn(c) ==
    /\ cursor' \in [Cursors -> CursorT]
    /\ cursor'[c].id = cursor[c].id /\ cursor'[c].tab = cursor[c].tab
    /\ cursor'[c].phase \notin {"idle", "planned"}
    /\ \A d \in Cursors : d # c => cursor'[d] = cursor[d]

LEMMA ScanStep ==
    ASSUME BridgeInv, NEW c \in Cursors, cursor[c].id # 0, RunsOn(c),
           UNCHANGED <<cursorFrame, registry>>,
           store' \in Seq(StoreT), Len(store') = Len(store), faults' \in 0..MaxFaults,
           batch' \in Partial(BlockT), DOMAIN batch' \subseteq DOMAIN batch \cup {cursor[c].id},
           InstKept, InstGrown, TabKept, CurShrunk,
           CurElsewhere(cursor[c].id), BatchElsewhere(cursor[c].id),
           Ready(c)', RowByRow(c)', BlockByBlock(c)'
    PROVE  BridgeInv'
<1>1. VtabTypes
  BY DEF BridgeInv
<1>2. UNCHANGED <<backing, dynlink, mutating, registered, made, vtab, home, view, txn, part, todo,
                  points, updates, registry>>
  BY DEF cursorFrame, hostVars, schemaVars, txnVars
<1>3. VtabTypes'
  BY <1>1, <1>2 DEF VtabTypes, RunsOn
<1>4. \A d \in Cursors : cursor'[d].id = cursor[d].id /\ cursor'[d].tab = cursor[d].tab
  BY DEF RunsOn
<1>5. CursorIds'
  <2>1. CursorIds
    BY DEF BridgeInv
  <2>2. DOMAIN batch' \subseteq registry'.cursors
    BY <1>2, <2>1 DEF CursorIds
  <2>3. {cursor'[d].id : d \in Cursors} = {cursor[d].id : d \in Cursors}
    BY <1>4
  <2> QED
    BY <1>2, <1>4, <2>1, <2>2, <2>3 DEF CursorIds
<1>6. \A s \in DOMAIN store' : KnownCursors(s)'
  <2>1. registry.next_cursor \in Nat /\ Memories
    BY DEF BridgeInv, CursorIds
  <2> SUFFICES ASSUME NEW s \in DOMAIN store' PROVE KnownCursors(s)'
    OBVIOUS
  <2>2. \A i \in DOMAIN store'[s].cur : i \in Nat
    <3>1. store'[s] \in StoreT
      OBVIOUS
    <3> QED
      BY <3>1, StoreParts
  <2> QED
    BY <1>2, <1>4, <2>1, <2>2, KnownCursorsKept
<1>7. \A d \in Cursors : d # c => cursor'[d] = cursor[d] /\ cursor[d].id # cursor[c].id
  BY DEF BridgeInv, CursorIds, RunsOn
<1>8. InUse(c)'
  <2>1. InUse(c)
    BY DEF BridgeInv, Reading
  <2> QED
    BY <1>2, <2>1 DEF InUse, RunsOn
<1> QED
  BY <1>2, <1>3, <1>5, <1>6, <1>7, <1>8, CursorStep

(* A step that only moves cursors tells no store to change.                 *)
LEMMA PlainCall ==
    ASSUME VtabTypes, NEW s, NEW a, Told(s, a, store[s])
    PROVE  InstKept /\ CurKept /\ CurShrunk /\ InstGrown /\ TabKept /\ \A id : CurElsewhere(id)
<1>1. InstKept /\ CurKept /\ InstGrown /\ TabKept
  BY CallKeeps
<1> QED
  BY <1>1, KeptElsewhere, KeptShrinks

LEMMA PhaseSet ==
    ASSUME VtabTypes, NEW c \in Cursors, NEW p \in Phases,
           cursor' = [cursor EXCEPT ![c].phase = p]
    PROVE  Moved(c, p, cursor[c].got, cursor[c].hurt)
<1> DEFINE k == [cursor[c] EXCEPT !.phase = p]
<1>1. cursor[c] \in CursorT
  BY DEF VtabTypes
<1>2. /\ k \in CursorT /\ k.phase = p /\ k.got = cursor[c].got /\ k.hurt = cursor[c].hurt
      /\ k.id = cursor[c].id /\ k.tab = cursor[c].tab /\ k.want = cursor[c].want
  BY <1>1 DEF CursorT
<1>3. cursor' = [cursor EXCEPT ![c] = k]
  OBVIOUS
<1> HIDE DEF k
<1> QED
  BY <1>2, <1>3, CursorSet DEF Moved

LEMMA PhaseHurtSet ==
    ASSUME VtabTypes, NEW c \in Cursors, NEW p \in Phases, NEW h \in BOOLEAN,
           cursor' = [cursor EXCEPT ![c].phase = p, ![c].hurt = @ \/ h]
    PROVE  Moved(c, p, cursor[c].got, cursor[c].hurt \/ h)
<1> DEFINE g == cursor[c].hurt \/ h
           k == [cursor[c] EXCEPT !.phase = p, !.hurt = g]
<1>1. cursor[c] \in CursorT /\ g \in BOOLEAN
  BY DEF VtabTypes
<1>2. cursor' = [cursor EXCEPT ![c] = k]
  OBVIOUS
<1> HIDE DEF g
<1>3. /\ k \in CursorT /\ k.phase = p /\ k.got = cursor[c].got /\ k.hurt = g
      /\ k.id = cursor[c].id /\ k.tab = cursor[c].tab /\ k.want = cursor[c].want
  BY <1>1 DEF CursorT
<1> HIDE DEF k
<1>4. Moved(c, p, cursor[c].got, g)
  BY <1>2, <1>3, CursorSet DEF Moved
<1> QED
  BY <1>4 DEF g

LEMMA PhaseGotSet ==
    ASSUME VtabTypes, NEW c \in Cursors, NEW p \in Phases, NEW g \in Seq(Nat),
           cursor' = [cursor EXCEPT ![c].phase = p, ![c].got = g]
    PROVE  Moved(c, p, g, cursor[c].hurt)
<1> DEFINE k == [cursor[c] EXCEPT !.phase = p, !.got = g]
<1>1. cursor[c] \in CursorT
  BY DEF VtabTypes
<1>2. /\ k \in CursorT /\ k.phase = p /\ k.got = g /\ k.hurt = cursor[c].hurt
      /\ k.id = cursor[c].id /\ k.tab = cursor[c].tab /\ k.want = cursor[c].want
  BY <1>1 DEF CursorT
<1>3. cursor' = [cursor EXCEPT ![c] = k]
  OBVIOUS
<1> HIDE DEF k
<1> QED
  BY <1>2, <1>3, CursorSet DEF Moved

LEMMA MovedRuns ==
    ASSUME NEW c, NEW p, p \notin {"idle", "planned"}, NEW g, NEW h, Moved(c, p, g, h)
    PROVE  RunsOn(c)
BY DEF Moved, RunsOn

(* What the stores have left for a cursor that keeps its id stays.          *)
LEMMA LeftKept ==
    ASSUME NEW c, NEW q, Left(c, q), CurKept,
           cursor'[c].id = cursor[c].id, cursor'[c].want = cursor[c].want
    PROVE  Left(c, q)'
BY DEF Left, CurKept

LEMMA PrefixKept ==
    ASSUME NEW c, Prefix(c), cursor'[c].got = cursor[c].got, cursor'[c].want = cursor[c].want
    PROVE  Prefix(c)'
BY DEF Prefix

(* A scan that ends unhurt has given every row.                             *)
EndsWhole(c) ==
    cursor'[c].phase = "done" /\ ~cursor'[c].hurt =>
        Prefix(c) /\ Len(cursor[c].got) = Len(cursor[c].want)

(* xEof of a table served in blocks asks no store.                          *)
LEMMA BlockEofStep ==
    ASSUME BridgeInv, NEW c \in Cursors, x_eof(c), Module[cursor[c].tab].batched
    PROVE  BridgeInv' /\ EndsWhole(c)
<1> DEFINE id == cursor[c].id
           b == batch[id]
           eof == id \notin DOMAIN batch \/ (b.idx >= Len(b.rows) /\ b.eof_seen)
           p == IF eof THEN "done" ELSE "row"
           h == cursor[c].hurt \/ FALSE
<1>1. VtabTypes /\ InUse(c) /\ Ready(c) /\ BlockByBlock(c)
  BY DEF BridgeInv, Reading, BlockReady, Ready
<1>2. /\ cursor[c].phase = "at" /\ UNCHANGED <<store, faults, cursorFrame, registry, batch>>
      /\ cursor' = [cursor EXCEPT ![c].phase = p, ![c].hurt = @ \/ FALSE]
  BY DEF x_eof
<1> HIDE DEF eof
<1>3. id # 0 /\ p \in Phases /\ p \in {"done", "row"}
  BY <1>1, <1>2 DEF InUse, Phases
<1> HIDE DEF p
<1>4. Moved(c, p, cursor[c].got, h)
  BY <1>1, <1>2, <1>3, PhaseHurtSet
<1>5. RunsOn(c)
  BY <1>3, <1>4, MovedRuns
<1>6. InstKept /\ CurKept /\ InstGrown /\ TabKept /\ CurShrunk /\ CurElsewhere(id)
  BY <1>2, SameStores, KeptElsewhere, KeptShrinks
<1>7. BatchElsewhere(id)
  BY <1>2 DEF BatchElsewhere
<1>8. id \in DOMAIN batch /\ (b.idx < Len(b.rows) \/ b.eof_seen)
  BY <1>1, <1>2 DEF Ready
<1>9. b \in BlockT /\ cursor[c] \in CursorT
  BY <1>1, <1>8, ReadType DEF VtabTypes
<1>10. cursor'[c].phase = p /\ cursor'[c].got = cursor[c].got /\ cursor'[c].want = cursor[c].want
       /\ cursor'[c].id = id /\ cursor'[c].tab = cursor[c].tab
       /\ (cursor'[c].hurt <=> cursor[c].hurt)
  BY <1>4 DEF Moved
<1>11. Ready(c)' /\ RowByRow(c)'
  BY <1>2, <1>8, <1>10 DEF Ready, RowByRow
<1>12. BlockByBlock(c)'
  <2>1. CASE p = "done"
    BY <1>10, <2>1 DEF BlockByBlock
  <2>2. CASE p = "row"
    <3>1. b.idx < Len(b.rows) /\ b.idx \in Nat /\ b.rows \in Seq(Nat)
      BY <1>8, <1>9, <2>2 DEF p, eof, BlockT
    <3>2. ~cursor[c].hurt
      BY <1>1, <1>2, <3>1 DEF BlockByBlock
    <3>3. Prefix(c)
      BY <1>1, <1>2, <3>2 DEF BlockByBlock
    <3>4. PICK i \in Nat, m \in Nat, n \in Nat : Buffered(c, i, m, n)
      BY <1>1, <1>2, <3>2 DEF BlockByBlock
    <3>5. Prefix(c)' /\ Left(c, m + n)'
      BY <1>6, <1>10, <3>3, <3>4, PrefixKept, LeftKept DEF Buffered
    <3>6. i = b.idx /\ i + n = Len(b.rows) /\ n > 0
      <4>1. i = b.idx /\ i + n = Len(b.rows)
        BY <1>2, <3>4 DEF Buffered, Follows
      <4> QED
        BY <3>1, <4>1
    <3>7. batch' = batch /\ store' = store /\ cursor'[c].phase = "row" /\ cursor'[c].id = id
          /\ ~cursor'[c].hurt /\ cursor'[c].phase # "read"
          /\ cursor'[c].got = cursor[c].got /\ cursor'[c].want = cursor[c].want
      BY <1>2, <1>10, <2>2, <3>2
    <3>8. Buffered(c, i, m, n)'
      BY <1>2, <3>4, <3>5, <3>6, <3>7 DEF Buffered
    <3> QED
      BY <3>5, <3>7, <3>8 DEF BlockByBlock
  <2> QED
    BY <1>3, <2>1, <2>2
<1>13. EndsWhole(c)
  <2> SUFFICES ASSUME p = "done", ~cursor[c].hurt
               PROVE  Prefix(c) /\ Len(cursor[c].got) = Len(cursor[c].want)
    BY <1>10 DEF EndsWhole
  <2>1. b.idx >= Len(b.rows) /\ b.eof_seen /\ b.idx \in Nat /\ b.rows \in Seq(Nat)
    BY <1>8, <1>9 DEF p, eof, BlockT
  <2>2. Prefix(c)
    BY <1>1, <1>2 DEF BlockByBlock
  <2>3. PICK i \in Nat, m \in Nat, n \in Nat : Buffered(c, i, m, n)
    BY <1>1, <1>2 DEF BlockByBlock
  <2>4. i = b.idx /\ i + n = Len(b.rows) /\ m = Len(cursor[c].got) /\ m + n = Len(cursor[c].want)
    BY <1>2, <2>1, <2>3 DEF Buffered, Follows
  <2>5. n = 0
    BY <2>1, <2>4
  <2> QED
    BY <2>2, <2>4, <2>5
<1>14. BridgeInv'
  BY <1>1, <1>2, <1>3, <1>5, <1>6, <1>7, <1>11, <1>12, ScanStep DEF VtabTypes
<1> QED
  BY <1>13, <1>14

(* A row-by-row cursor whose store answers has the rest of its scan there.  *)
LEMMA RestOf ==
    ASSUME NEW c, NEW s \in DOMAIN store, cursor[c].id \in DOMAIN store[s].cur, NEW q, Left(c, q)
    PROVE  store[s].cur[cursor[c].id] = SubSeq(cursor[c].want, q + 1, Len(cursor[c].want))
BY DEF Left

(* The rows of w after row a and up to row b.                               *)
LEMMA SliceSeq ==
    ASSUME NEW w \in Seq(Nat), NEW a \in Nat, NEW b \in Nat, a <= b, b <= Len(w)
    PROVE  LET r == SubSeq(w, a + 1, b) IN
           /\ r \in Seq(Nat) /\ Len(r) = b - a
           /\ \A i \in 1..(b - a) : r[i] = w[a + i]
<1> DEFINE r == SubSeq(w, a + 1, b)
           low == a + 1
<1>1. low \in Int /\ b \in Int /\ \A i \in low..b : w[i] \in Nat
  OBVIOUS
<1> HIDE DEF low
<1>2. /\ SubSeq(w, low, b) \in Seq(Nat)
      /\ Len(SubSeq(w, low, b)) = IF low <= b THEN b - low + 1 ELSE 0
      /\ \A i \in 1..(b - low + 1) : SubSeq(w, low, b)[i] = w[low + i - 1]
  BY <1>1, SubSeqProperties
<1> USE DEF low
<1>3. /\ r \in Seq(Nat)
      /\ Len(r) = IF a + 1 <= b THEN b - (a + 1) + 1 ELSE 0
      /\ \A i \in 1..(b - (a + 1) + 1) : r[i] = w[(a + 1) + i - 1]
  BY Zenon, <1>2
<1> HIDE DEF r
<1>4. Len(r) = b - a
  BY <1>3
<1>5. ASSUME NEW i \in 1..(b - a) PROVE r[i] = w[a + i]
  <2>1. i \in 1..(b - (a + 1) + 1) /\ (a + 1) + i - 1 = a + i
    OBVIOUS
  <2> QED
    BY <1>3, <2>1
<1> QED
  BY <1>3, <1>4, <1>5 DEF r

LEMMA RestOfSeq ==
    ASSUME NEW w \in Seq(Nat), NEW q \in Nat, q <= Len(w)
    PROVE  LET r == SubSeq(w, q + 1, Len(w)) IN
           /\ r \in Seq(Nat) /\ Len(r) = Len(w) - q
           /\ \A i \in 1..Len(r) : r[i] = w[q + i]
           /\ r = <<>> <=> q = Len(w)
           /\ q < Len(w) => Head(r) = w[q + 1] /\ Tail(r) = SubSeq(w, (q + 1) + 1, Len(w))
<1> DEFINE r == SubSeq(w, q + 1, Len(w))
           t == SubSeq(w, (q + 1) + 1, Len(w))
<1>1. /\ r \in Seq(Nat) /\ Len(r) = Len(w) - q
      /\ \A i \in 1..(Len(w) - q) : r[i] = w[q + i]
  <2>1. Len(w) \in Nat /\ q <= Len(w) /\ Len(w) <= Len(w)
    OBVIOUS
  <2> QED
    BY ONLY Zenon, <2>1, SliceSeq, w \in Seq(Nat), q \in Nat DEF r
<1>2. q < Len(w) => /\ t \in Seq(Nat) /\ Len(t) = Len(w) - (q + 1)
                    /\ \A i \in 1..(Len(w) - (q + 1)) : t[i] = w[(q + 1) + i]
  BY SliceSeq
<1> HIDE DEF r, t
<1>3. r = <<>> <=> q = Len(w)
  BY <1>1, EmptySeq
<1>4. ASSUME q < Len(w) PROVE Head(r) = w[q + 1] /\ Tail(r) = t
  <2>1. /\ Tail(r) \in Seq(Nat) /\ Len(Tail(r)) = Len(r) - 1
        /\ \A i \in 1..Len(Tail(r)) : Tail(r)[i] = r[i + 1]
    BY <1>1, <1>3, <1>4, HeadTailProperties
  <2>2. Head(r) = r[1]
    BY <1>1, <1>4 DEF Head
  <2>3. ASSUME NEW i \in 1..Len(Tail(r)) PROVE Tail(r)[i] = t[i]
    <3>1. /\ i + 1 \in 1..(Len(w) - q) /\ i \in 1..(Len(w) - (q + 1))
          /\ q + (i + 1) = (q + 1) + i
      BY <1>1, <1>4, <2>1
    <3>2. Tail(r)[i] = r[i + 1] /\ r[i + 1] = w[q + (i + 1)]
      BY <1>1, <2>1, <3>1
    <3>3. t[i] = w[(q + 1) + i]
      BY <1>2, <1>4, <3>1
    <3> QED
      BY <3>1, <3>2, <3>3
  <2>4. Tail(r) = t
    <3>1. Tail(r) \in Seq(Nat) /\ t \in Seq(Nat) /\ Len(Tail(r)) = Len(t)
      BY <1>1, <1>2, <1>4, <2>1
    <3> QED
      BY ONLY <2>3, <3>1, SeqEqual
  <2>5. 1 \in 1..(Len(w) - q)
    BY <1>4
  <2>6. r[1] = w[q + 1]
    BY <1>1, <2>5
  <2> QED
    BY <2>2, <2>4, <2>6
<1>5. \A i \in 1..Len(r) : r[i] = w[q + i]
  BY <1>1
<1> QED
  BY <1>1, <1>3, <1>4, <1>5 DEF r, t

LEMMA RowEofStep ==
    ASSUME BridgeInv, NEW c \in Cursors, x_eof(c), ~Module[cursor[c].tab].batched
    PROVE  BridgeInv' /\ EndsWhole(c)
<1> DEFINE id == cursor[c].id
           s == dispatch_vtab_next
           w == cursor[c].want
           m == Len(cursor[c].got)
<1>1. VtabTypes /\ InUse(c) /\ RowByRow(c)
  BY DEF BridgeInv, Reading
<1>2. PICK a \in Replies :
          /\ cursor[c].phase = "at" /\ UNCHANGED <<cursorFrame, registry, batch>>
          /\ Call(s, s # 0 /\ id \in DOMAIN store[s].cur, a, store[s])
          /\ cursor' = [cursor EXCEPT
                ![c].phase = IF a # "ok" \/ store[s].cur[id] = <<>> THEN "done" ELSE "row",
                ![c].hurt = @ \/ a # "ok"]
  BY DEF x_eof
<1> DEFINE p == IF a # "ok" \/ store[s].cur[id] = <<>> THEN "done" ELSE "row"
           h == cursor[c].hurt \/ a # "ok"
<1>3. id # 0 /\ p \in Phases /\ p \in {"done", "row"}
  BY <1>1, <1>2 DEF InUse, Phases
<1>4. Moved(c, p, cursor[c].got, h)
  BY <1>1, <1>2, <1>3, PhaseHurtSet
<1>5. p = "row" => a = "ok" /\ store[s].cur[id] # <<>>
  OBVIOUS
<1>15. p = "done" /\ ~h => a = "ok" /\ store[s].cur[id] = <<>>
  OBVIOUS
<1> HIDE DEF p
<1>6. RunsOn(c)
  BY <1>3, <1>4, MovedRuns
<1>7. s \in 0..Len(store) /\ (s # 0 => s \in DOMAIN store)
  <2>1. s \in 0..Len(store)
    BY <1>1, Dispatched
  <2> QED
    BY <1>1, <2>1 DEF VtabTypes
<1> HIDE DEF s
<1>8. Told(s, a, store[s]) /\ (a = "ok" => id \in DOMAIN store[s].cur)
  <2>1. s # 0 => store[s] \in StoreT
    BY <1>1, <1>7, StoreOf
  <2> QED
    BY <1>1, <1>2, <1>7, <2>1, CallEffect
<1>9. InstKept /\ CurKept /\ InstGrown /\ TabKept /\ CurShrunk /\ CurElsewhere(id)
  BY <1>1, <1>8, PlainCall
<1>10. BatchElsewhere(id)
  BY <1>2 DEF BatchElsewhere
<1>11. cursor'[c].phase = p /\ cursor'[c].got = cursor[c].got /\ cursor'[c].want = w
       /\ cursor'[c].id = id /\ cursor'[c].tab = cursor[c].tab
       /\ (cursor'[c].hurt <=> h)
  BY <1>4 DEF Moved
<1>12. Ready(c)' /\ BlockByBlock(c)'
  BY <1>11 DEF Ready, BlockByBlock
<1>13. RowByRow(c)'
  <2>1. CASE p = "done"
    BY <1>11, <2>1 DEF RowByRow
  <2>2. CASE p = "row"
    <3>1. ~cursor[c].hurt /\ Prefix(c) /\ Left(c, m)
      BY <1>1, <1>2 DEF RowByRow
    <3>2. w \in Seq(Nat) /\ m \in Nat /\ m <= Len(w)
      BY <1>1, <3>1 DEF VtabTypes, CursorT, Prefix
    <3>3. store[s].cur[id] = SubSeq(w, m + 1, Len(w))
      BY <1>5, <1>7, <1>8, <2>2, <3>1, RestOf DEF Told
    <3>4. m < Len(w)
      <4>1. SubSeq(w, m + 1, Len(w)) # <<>>
        BY <1>5, <2>2, <3>3
      <4>2. m # Len(w)
        BY <3>2, <4>1, RestOfSeq
      <4> QED
        BY <3>2, <4>2
    <3>5. Prefix(c)' /\ (Left(c, m) => \A u \in DOMAIN store' :
              id \in DOMAIN store'[u].cur =>
                  store'[u].cur[id] = SubSeq(w, m + 1, Len(w)))
      BY <1>9, <1>11, <3>1, PrefixKept DEF Left, CurKept
    <3> QED
      BY <1>5, <1>11, <2>2, <3>1, <3>4, <3>5 DEF RowByRow, Left
  <2> QED
    BY <1>3, <2>1, <2>2
<1>14. /\ store' \in Seq(StoreT) /\ Len(store') = Len(store) /\ faults' \in 0..MaxFaults
       /\ batch' \in Partial(BlockT) /\ DOMAIN batch' \subseteq DOMAIN batch \cup {id}
  BY <1>1, <1>2, <1>8 DEF Told, VtabTypes
<1>16. EndsWhole(c)
  <2> SUFFICES ASSUME p = "done", ~h
               PROVE  Prefix(c) /\ m = Len(w)
    BY <1>11 DEF EndsWhole
  <2>1. Prefix(c) /\ Left(c, m)
    BY <1>1, <1>2 DEF RowByRow
  <2>2. w \in Seq(Nat) /\ m \in Nat /\ m <= Len(w)
    BY <1>1, <2>1 DEF VtabTypes, CursorT, Prefix
  <2>3. SubSeq(w, m + 1, Len(w)) = <<>>
    BY <1>7, <1>8, <1>15, <2>2, <2>1, RestOf DEF Told
  <2>4. m = Len(w)
    BY <2>2, <2>3, RestOfSeq
  <2> QED
    BY <2>1, <2>4
<1>17. BridgeInv'
  BY <1>2, <1>3, <1>6, <1>9, <1>10, <1>12, <1>13, <1>14, ScanStep
<1> QED
  BY <1>16, <1>17

(* The row that is due is given.                                            *)
LEMMA GrownPrefix ==
    ASSUME NEW w \in Seq(Nat), NEW g \in Seq(Nat), NEW n \in Nat, n = Len(g), n < Len(w),
           \A i \in 1..n : g[i] = w[i]
    PROVE  /\ Append(g, w[n + 1]) \in Seq(Nat) /\ Len(Append(g, w[n + 1])) = n + 1
           /\ \A i \in 1..(n + 1) : Append(g, w[n + 1])[i] = w[i]
<1> DEFINE v == w[n + 1]
           x == Append(g, v)
<1>1. v \in Nat
  OBVIOUS
<1> HIDE DEF v
<1>2. /\ x \in Seq(Nat) /\ Len(x) = n + 1 /\ x[n + 1] = v
      /\ \A i \in 1..n : x[i] = g[i]
  BY <1>1, AppendProperties
<1> HIDE DEF x
<1>3. ASSUME NEW i \in 1..(n + 1) PROVE x[i] = w[i]
  <2>1. CASE i = n + 1
    BY <1>2, <2>1 DEF v
  <2>2. CASE i # n + 1
    <3>1. i \in 1..n
      BY <2>2
    <3> QED
      BY <1>2, <3>1
  <2> QED
    BY <2>1, <2>2
<1> QED
  BY <1>2, <1>3 DEF x, v

LEMMA PrefixGrows ==
    ASSUME NEW c, cursor[c] \in CursorT, Prefix(c), NEW m \in Nat, m = Len(cursor[c].got),
           m < Len(cursor[c].want), NEW v, v = cursor[c].want[m + 1]
    PROVE  /\ Given(cursor[c], v) \in Seq(Nat) /\ Len(Given(cursor[c], v)) = m + 1
           /\ cursor'[c].got = Given(cursor[c], v) /\ cursor'[c].want = cursor[c].want
              => Prefix(c)'
<1>1. PICK w \in Seq(Nat), g \in Seq(Nat) : w = cursor[c].want /\ g = cursor[c].got
  BY DEF CursorT
<1>2. m = Len(g) /\ m < Len(w) /\ v = w[m + 1] /\ \A i \in 1..m : g[i] = w[i]
  BY <1>1 DEF Prefix
<1> DEFINE x == Append(g, v)
<1>3. /\ x \in Seq(Nat) /\ Len(x) = m + 1
      /\ \A i \in 1..(m + 1) : x[i] = w[i]
  BY <1>2, GrownPrefix
<1>4. Given(cursor[c], v) = x
  <2>1. ~(Len(g) > Len(w))
    BY <1>2
  <2> QED
    BY <1>1, <2>1 DEF Given
<1> HIDE DEF x
<1>5. ASSUME cursor'[c].got = x, cursor'[c].want = w PROVE Prefix(c)'
  <2>1. m + 1 <= Len(w)
    BY <1>2
  <2> QED
    BY <1>3, <1>5, <2>1 DEF Prefix
<1> QED
  BY <1>1, <1>3, <1>4, <1>5

LEMMA BlockColumnStep ==
    ASSUME BridgeInv, NEW c \in Cursors, x_column(c), Module[cursor[c].tab].batched
    PROVE  BridgeInv'
<1> DEFINE id == cursor[c].id
           b == batch[id]
           v == b.rows[b.idx + 1]
           g == Given(cursor[c], v)
<1>1. VtabTypes /\ InUse(c) /\ Ready(c) /\ BlockByBlock(c)
  BY DEF BridgeInv, Reading, BlockReady, Ready
<1>2. cursor[c].phase = "row" /\ UNCHANGED <<store, faults, cursorFrame, registry, batch>>
  BY DEF x_column
<1>3. id # 0 /\ id \in DOMAIN batch
  BY <1>1, <1>2 DEF InUse, Ready
<1>4. b \in BlockT /\ cursor[c] \in CursorT
  BY <1>1, <1>3, ReadType DEF VtabTypes
<1>5. PICK rows \in Seq(Nat), w \in Seq(Nat) : rows = b.rows /\ w = cursor[c].want
  BY <1>4 DEF BlockT, CursorT
<1>6. ~cursor[c].hurt /\ Prefix(c)
  BY <1>1, <1>2 DEF BlockByBlock
<1>7. PICK i \in Nat, m \in Nat, n \in Nat : Buffered(c, i, m, n)
  BY <1>1, <1>2, <1>6 DEF BlockByBlock
<1>8. /\ i = b.idx /\ m = Len(cursor[c].got) /\ Follows(rows, i, w, m, n) /\ Left(c, m + n)
      /\ b.eof_seen => m + n = Len(w)
      /\ n > 0
  BY <1>2, <1>5, <1>7 DEF Buffered
<1>9. PICK q \in Nat, k \in Nat, l \in Nat : q = i + 1 /\ k = m + 1 /\ n = l + 1
  <2>1. n - 1 \in Nat
    BY <1>8
  <2> QED
    BY <2>1
<1>20. /\ i < Len(rows) /\ m < Len(w) /\ rows[q] = w[k]
       /\ k + l = m + n /\ Follows(rows, q, w, k, l)
  <2>1. i + n = Len(rows) /\ m + n <= Len(w)
    BY <1>8 DEF Follows
  <2>2. ASSUME NEW j \in 1..n PROVE rows[i + j] = w[m + j]
    BY <1>8 DEF Follows
  <2>3. 1 \in 1..n /\ i < Len(rows) /\ m < Len(w) /\ q + l = Len(rows) /\ k + l <= Len(w)
        /\ k + l = m + n
    BY <1>9, <2>1
  <2>4. rows[q] = w[k]
    BY <1>9, <2>2, <2>3
  <2>5. ASSUME NEW j \in 1..l PROVE rows[q + j] = w[k + j]
    <3>1. PICK x \in 1..n : x = j + 1
      BY <1>9
    <3>2. rows[i + x] = w[m + x]
      BY <2>2
    <3>3. i + x = q + j /\ m + x = k + j
      BY <1>9, <3>1
    <3> QED
      BY <3>2, <3>3
  <2> QED
    BY <2>3, <2>4, <2>5 DEF Follows
<1>10. v = w[m + 1] /\ b.idx < Len(b.rows)
  BY <1>5, <1>8, <1>9, <1>20
<1>11. cursor' = [cursor EXCEPT ![c].phase = "read", ![c].got = g]
  BY <1>3, <1>10 DEF x_column
<1> HIDE DEF v
<1>12. /\ g \in Seq(Nat) /\ Len(g) = m + 1
       /\ cursor'[c].got = g /\ cursor'[c].want = cursor[c].want => Prefix(c)'
  BY <1>4, <1>5, <1>6, <1>8, <1>20, <1>10, PrefixGrows
<1> HIDE DEF g
<1>13. Moved(c, "read", g, cursor[c].hurt)
  <2>1. "read" \in Phases
    BY DEF Phases
  <2> QED
    BY <1>1, <1>11, <1>12, <2>1, PhaseGotSet
<1>14. RunsOn(c)
  BY <1>13, MovedRuns
<1>15. InstKept /\ CurKept /\ InstGrown /\ TabKept /\ CurShrunk /\ CurElsewhere(id)
  BY <1>2, SameStores, KeptElsewhere, KeptShrinks
<1>16. BatchElsewhere(id)
  BY <1>2 DEF BatchElsewhere
<1>17. /\ cursor'[c].phase = "read" /\ cursor'[c].got = g /\ cursor'[c].want = cursor[c].want
       /\ cursor'[c].id = id /\ cursor'[c].tab = cursor[c].tab /\ ~cursor'[c].hurt
       /\ batch' = batch /\ store' = store
  BY <1>2, <1>6, <1>13 DEF Moved
<1>18. Ready(c)' /\ RowByRow(c)'
  BY <1>1, <1>2, <1>17 DEF Ready, RowByRow
<1>19. BlockByBlock(c)'
  <2>2. k + l = m + n /\ Follows(rows, q, w, k, l) /\ Len(g) = k
    BY <1>9, <1>12, <1>20
  <2>3. Left(c, k + l)'
    <3>1. Left(c, k + l)
      BY <1>8, <2>2
    <3> QED
      BY <1>15, <1>17, <3>1, LeftKept
  <2>4. q = b.idx + 1 /\ (b.eof_seen => k + l = Len(w))
    BY <1>8, <1>9, <2>2
  <2>5. Buffered(c, q, k, l)'
    BY <1>5, <1>17, <2>2, <2>3, <2>4 DEF Buffered
  <2> QED
    BY <1>12, <1>17, <2>5 DEF BlockByBlock
<1> QED
  BY <1>1, <1>2, <1>3, <1>14, <1>15, <1>16, <1>18, <1>19, ScanStep DEF VtabTypes

LEMMA RowColumnStep ==
    ASSUME BridgeInv, NEW c \in Cursors, x_column(c), ~Module[cursor[c].tab].batched
    PROVE  BridgeInv'
<1> DEFINE id == cursor[c].id
           s == dispatch_vtab_column
           v == Head(store[s].cur[id])
<1>1. VtabTypes /\ InUse(c) /\ RowByRow(c)
  BY DEF BridgeInv, Reading
<1>2. PICK a \in Replies :
          /\ cursor[c].phase = "row" /\ UNCHANGED <<cursorFrame, registry, batch>>
          /\ Call(s, s # 0 /\ id \in DOMAIN store[s].cur, a, store[s])
          /\ cursor' = IF a = "ok"
                       THEN [cursor EXCEPT ![c].phase = "read", ![c].got = Given(cursor[c], v)]
                       ELSE [cursor EXCEPT ![c].phase = "failed"]
  BY DEF x_column
<1>3. id # 0 /\ "read" \in Phases /\ "failed" \in Phases
  BY <1>1, <1>2 DEF InUse, Phases
<1>4. cursor[c] \in CursorT
  BY <1>1 DEF VtabTypes
<1>5. PICK w \in Seq(Nat), m \in Nat : w = cursor[c].want /\ m = Len(cursor[c].got)
  BY <1>4 DEF CursorT
<1>6. ~cursor[c].hurt /\ Prefix(c) /\ Left(c, m) /\ m < Len(w)
  BY <1>1, <1>2, <1>5 DEF RowByRow
<1>7. s \in 0..Len(store) /\ (s # 0 => s \in DOMAIN store)
  <2>1. s \in 0..Len(store)
    BY <1>1, Dispatched
  <2> QED
    BY <1>1, <2>1 DEF VtabTypes
<1> HIDE DEF s
<1>8. Told(s, a, store[s]) /\ (a = "ok" => id \in DOMAIN store[s].cur)
  <2>1. s # 0 => store[s] \in StoreT
    BY <1>1, <1>7, StoreOf
  <2> QED
    BY <1>1, <1>2, <1>7, <2>1, CallEffect
<1>9. InstKept /\ CurKept /\ InstGrown /\ TabKept /\ CurShrunk /\ CurElsewhere(id)
  BY <1>1, <1>8, PlainCall
<1>10. BatchElsewhere(id)
  BY <1>2 DEF BatchElsewhere
<1>11. a = "ok" => v = w[m + 1]
  <2> SUFFICES ASSUME a = "ok" PROVE v = w[m + 1]
    OBVIOUS
  <2>1. store[s].cur[id] = SubSeq(w, m + 1, Len(w))
    BY <1>5, <1>6, <1>7, <1>8, RestOf DEF Told
  <2>2. m <= Len(w)
    BY <1>6
  <2>3. Head(SubSeq(w, m + 1, Len(w))) = w[m + 1]
    BY <1>6, <2>2, RestOfSeq
  <2> QED
    BY <2>1, <2>3
<1> HIDE DEF v
<1>12. a = "ok" => /\ Given(cursor[c], v) \in Seq(Nat) /\ Len(Given(cursor[c], v)) = m + 1
                   /\ cursor'[c].got = Given(cursor[c], v) /\ cursor'[c].want = cursor[c].want
                      => Prefix(c)'
  BY <1>4, <1>5, <1>6, <1>11, PrefixGrows
<1>13. \/ a = "ok" /\ Moved(c, "read", Given(cursor[c], v), cursor[c].hurt)
       \/ Moved(c, "failed", cursor[c].got, cursor[c].hurt)
  BY <1>1, <1>2, <1>3, <1>12, PhaseGotSet, PhaseSet
<1>14. RunsOn(c)
  BY <1>13, MovedRuns
<1>15. Ready(c)' /\ BlockByBlock(c)'
  BY <1>13 DEF Moved, Ready, BlockByBlock
<1>16. RowByRow(c)'
  <2>1. CASE Moved(c, "failed", cursor[c].got, cursor[c].hurt)
    BY <2>1 DEF Moved, RowByRow
  <2>2. CASE a = "ok" /\ Moved(c, "read", Given(cursor[c], v), cursor[c].hurt)
    <3>1. /\ cursor'[c].phase = "read" /\ cursor'[c].got = Given(cursor[c], v)
          /\ cursor'[c].want = cursor[c].want /\ cursor'[c].id = id /\ ~cursor'[c].hurt
      BY <1>6, <2>2 DEF Moved
    <3>2. Prefix(c)' /\ Left(c, m)'
      BY <1>6, <1>9, <1>12, <2>2, <3>1, LeftKept
    <3>3. Len(cursor'[c].got) = m + 1 /\ m + 1 > 0 /\ (m + 1) - 1 = m
      BY <1>12, <2>2, <3>1
    <3> QED
      BY <3>1, <3>2, <3>3 DEF RowByRow
  <2> QED
    BY <1>13, <2>1, <2>2
<1>17. /\ store' \in Seq(StoreT) /\ Len(store') = Len(store) /\ faults' \in 0..MaxFaults
       /\ batch' \in Partial(BlockT) /\ DOMAIN batch' \subseteq DOMAIN batch \cup {id}
  BY <1>1, <1>2, <1>8 DEF Told, VtabTypes
<1> QED
  BY <1>2, <1>3, <1>14, <1>9, <1>10, <1>15, <1>16, <1>17, ScanStep

(* A cursor's rows are replaced in the memory of its store.                 *)
Resumed(st, id, r) == [st EXCEPT !.cur[id] = r]

LEMMA ResumedIs ==
    ASSUME NEW st \in StoreT, NEW id \in DOMAIN st.cur, NEW r \in Seq(Nat)
    PROVE  LET v == Resumed(st, id, r) IN
           /\ v \in StoreT /\ v.trapped = st.trapped /\ v.inst = st.inst
           /\ v.tab = st.tab /\ v.synced = st.synced
           /\ DOMAIN v.cur = DOMAIN st.cur /\ v.cur[id] = r
           /\ \A x \in DOMAIN st.cur : x # id => v.cur[x] = st.cur[x]
<1> DEFINE f == [st.cur EXCEPT ![id] = r]
<1>1. st.cur \in Partial(Seq(Nat))
  BY StoreParts
<1>2. f \in Partial(Seq(Nat))
  BY <1>1, ReplaceType
<1>3. DOMAIN f = DOMAIN st.cur /\ f[id] = r /\ \A x \in DOMAIN st.cur : x # id => f[x] = st.cur[x]
  OBVIOUS
<1>4. Resumed(st, id, r) = [st EXCEPT !.cur = f]
  BY DEF Resumed
<1> HIDE DEF f
<1> QED
  BY <1>2, <1>3, <1>4, SetCur

(* No memory changes but the rows store s has for one cursor.               *)
Touched(s, id) ==
    /\ store' \in Seq(StoreT) /\ Len(store') = Len(store)
    /\ \A u \in DOMAIN store :
          \/ store'[u] = store[u] \/ store'[u] = Dead
          \/ /\ u = s /\ id \in DOMAIN store[u].cur /\ store'[u].trapped = store[u].trapped
             /\ store'[u].inst = store[u].inst /\ store'[u].tab = store[u].tab
             /\ store'[u].synced = store[u].synced
             /\ DOMAIN store'[u].cur = DOMAIN store[u].cur
             /\ \A x \in DOMAIN store[u].cur : x # id => store'[u].cur[x] = store[u].cur[x]

LEMMA TouchedKeeps ==
    ASSUME VtabTypes, NEW s, NEW id, Touched(s, id)
    PROVE  InstKept /\ InstGrown /\ TabKept /\ CurShrunk /\ CurElsewhere(id)
<1>1. /\ Dead.trapped /\ Dead.inst = {} /\ DOMAIN Dead.cur = {}
  BY FreshTyped
<1>2. DOMAIN store' = DOMAIN store
  BY DEF Touched, VtabTypes
<1>3. InstKept /\ InstGrown
  BY <1>1, <1>2 DEF Touched, InstKept, InstGrown
<1>4. TabKept
  BY <1>1, <1>2 DEF Touched, TabKept
<1>5. CurShrunk
  BY <1>1, <1>2 DEF Touched, CurShrunk
<1>6. CurElsewhere(id)
  BY <1>1, <1>2 DEF Touched, CurElsewhere
<1> QED
  BY <1>3, <1>4, <1>5, <1>6

LEMMA CallTouches ==
    ASSUME VtabTypes, NEW s \in DOMAIN store, NEW id \in DOMAIN store[s].cur, NEW r \in Seq(Nat),
           NEW a, Told(s, a, Resumed(store[s], id, r))
    PROVE  Touched(s, id) /\ (a = "ok" => store'[s].cur[id] = r)
<1>1. store[s] \in StoreT
  BY StoreOf
<1> DEFINE v == Resumed(store[s], id, r)
<1>2. /\ v.trapped = store[s].trapped /\ v.inst = store[s].inst /\ v.tab = store[s].tab
      /\ v.synced = store[s].synced /\ DOMAIN v.cur = DOMAIN store[s].cur /\ v.cur[id] = r
      /\ \A x \in DOMAIN store[s].cur : x # id => v.cur[x] = store[s].cur[x]
  BY <1>1, ResumedIs
<1> HIDE DEF v
<1>3. \A u \in DOMAIN store :
          store'[u] = store[u] \/ store'[u] = Dead \/ (u = s /\ a = "ok" /\ store'[u] = v)
  BY DEF Told, v
<1>4. Touched(s, id)
  BY <1>2, <1>3 DEF Told, Touched
<1> QED
  BY <1>2, <1>4 DEF Told, v

(* Only the store that opened the cursor knows it.                          *)
LEMMA OneKnows ==
    ASSUME BridgeInv, NEW c \in Cursors, NEW s \in DOMAIN store, NEW u \in DOMAIN store,
           cursor[c].id \in DOMAIN store[s].cur, cursor[c].id \in DOMAIN store[u].cur
    PROVE  u = s
BY DEF BridgeInv, Memories, KnownCursors

LEMMA LeftAfter ==
    ASSUME BridgeInv, NEW c \in Cursors, NEW s \in DOMAIN store,
           cursor[c].id \in DOMAIN store[s].cur, Touched(s, cursor[c].id),
           cursor'[c].id = cursor[c].id, NEW q,
           store'[s].cur[cursor[c].id] = SubSeq(cursor'[c].want, q + 1, Len(cursor'[c].want))
    PROVE  Left(c, q)'
<1>1. DOMAIN Dead.cur = {} /\ VtabTypes
  BY FreshTyped DEF BridgeInv
<1>2. DOMAIN store' = DOMAIN store
  BY <1>1 DEF Touched, VtabTypes
<1>3. ASSUME NEW u \in DOMAIN store', cursor[c].id \in DOMAIN store'[u].cur PROVE u = s
  <2>1. u \in DOMAIN store /\ cursor[c].id \in DOMAIN store[u].cur
    BY <1>1, <1>2, <1>3 DEF Touched
  <2> QED
    BY <2>1, OneKnows
<1> QED
  BY <1>3 DEF Left

LEMMA RowNextStep ==
    ASSUME BridgeInv, NEW c \in Cursors, x_next(c), ~Module[cursor[c].tab].batched
    PROVE  BridgeInv'
<1> DEFINE id == cursor[c].id
           s == dispatch_vtab_next
           rest == store[s].cur[id]
           new == Resumed(store[s], id, Tail(rest))
<1>1. VtabTypes /\ InUse(c) /\ RowByRow(c)
  BY DEF BridgeInv, Reading
<1>2. PICK a \in Replies :
          /\ cursor[c].phase = "read" /\ UNCHANGED <<cursorFrame, registry, batch>>
          /\ Call(s, s # 0 /\ id \in DOMAIN store[s].cur, a,
                  [store[s] EXCEPT !.cur[id] = Tail(@)])
          /\ cursor' = [cursor EXCEPT ![c].phase = IF a = "ok" THEN "at" ELSE "failed"]
  BY DEF x_next
<1> DEFINE p == IF a = "ok" THEN "at" ELSE "failed"
<1>3. id # 0 /\ p \in Phases /\ p \in {"at", "failed"} /\ (p = "at" <=> a = "ok")
  BY <1>1, <1>2 DEF InUse, Phases
<1>4. Moved(c, p, cursor[c].got, cursor[c].hurt)
  BY <1>1, <1>2, <1>3, PhaseSet
<1> HIDE DEF p
<1>5. RunsOn(c)
  BY <1>3, <1>4, MovedRuns
<1>6. cursor[c] \in CursorT
  BY <1>1 DEF VtabTypes
<1>7. PICK w \in Seq(Nat), n \in Nat : w = cursor[c].want /\ n = Len(cursor[c].got)
  BY <1>6 DEF CursorT
<1>8. ~cursor[c].hurt /\ Prefix(c) /\ n > 0 /\ Left(c, n - 1) /\ n <= Len(w)
  BY <1>1, <1>2, <1>7 DEF RowByRow, Prefix
<1>9. PICK q \in Nat : n = q + 1 /\ q = n - 1 /\ q < Len(w) /\ q <= Len(w)
  <2>1. n - 1 \in Nat /\ n - 1 < Len(w) /\ n - 1 <= Len(w)
    BY <1>8
  <2> QED
    BY <2>1
<1>10. s \in 0..Len(store) /\ (s # 0 => s \in DOMAIN store)
  <2>1. s \in 0..Len(store)
    BY <1>1, Dispatched
  <2> QED
    BY <1>1, <2>1 DEF VtabTypes
<1>11. Call(s, s # 0 /\ id \in DOMAIN store[s].cur, a, new)
  BY <1>2 DEF Resumed
<1> HIDE DEF s
<1>12. s # 0 /\ id \in DOMAIN store[s].cur =>
          /\ store[s] \in StoreT /\ Tail(rest) \in Seq(Nat)
          /\ Tail(rest) = SubSeq(w, n + 1, Len(w))
  <2> SUFFICES ASSUME s # 0, id \in DOMAIN store[s].cur
               PROVE  /\ store[s] \in StoreT /\ Tail(rest) \in Seq(Nat)
                      /\ Tail(rest) = SubSeq(w, n + 1, Len(w))
    OBVIOUS
  <2>1. store[s] \in StoreT /\ s \in DOMAIN store
    BY <1>1, <1>10, StoreOf
  <2>2. Left(c, q)
    BY <1>8, <1>9
  <2>3. rest = SubSeq(w, q + 1, Len(w))
    BY <1>7, <2>1, <2>2, RestOf
  <2>4. Tail(SubSeq(w, q + 1, Len(w))) = SubSeq(w, (q + 1) + 1, Len(w))
    BY <1>9, RestOfSeq
  <2>5. SubSeq(w, n + 1, Len(w)) \in Seq(Nat)
    BY <1>8, RestOfSeq
  <2> QED
    BY <1>9, <2>1, <2>3, <2>4, <2>5
<1> HIDE DEF rest
<1>13. s # 0 /\ id \in DOMAIN store[s].cur => new \in StoreT
  BY <1>12, ResumedIs
<1> HIDE DEF new
<1>14. Told(s, a, new) /\ (a = "ok" => id \in DOMAIN store[s].cur)
  BY <1>1, <1>10, <1>11, <1>13, CallEffect
<1>15. /\ InstKept /\ InstGrown /\ TabKept /\ CurShrunk /\ CurElsewhere(id)
       /\ a = "ok" => s \in DOMAIN store /\ Touched(s, id) /\ store'[s].cur[id] = Tail(rest)
  <2>1. CASE a = "ok"
    <3>1. s \in DOMAIN store /\ s # 0 /\ id \in DOMAIN store[s].cur
      BY <1>1, <1>10, <1>14, <2>1 DEF Told, VtabTypes
    <3>2. Touched(s, id) /\ store'[s].cur[id] = Tail(rest)
      BY <1>1, <1>12, <1>14, <2>1, <3>1, CallTouches DEF new
    <3> QED
      BY <1>1, <3>1, <3>2, TouchedKeeps
  <2>2. CASE a # "ok"
    <3>1. InstKept /\ CurKept /\ InstGrown /\ TabKept
      BY <1>1, <1>14, <2>2, CallKeeps
    <3> QED
      BY <2>2, <3>1, KeptElsewhere, KeptShrinks
  <2> QED
    BY <2>1, <2>2
<1>16. BatchElsewhere(id)
  BY <1>2 DEF BatchElsewhere
<1>17. cursor'[c].phase = p /\ cursor'[c].got = cursor[c].got /\ cursor'[c].want = cursor[c].want
       /\ cursor'[c].id = id /\ cursor'[c].tab = cursor[c].tab
       /\ (cursor'[c].hurt <=> cursor[c].hurt)
  BY <1>4 DEF Moved
<1>18. Ready(c)' /\ BlockByBlock(c)'
  BY <1>17 DEF Ready, BlockByBlock
<1>19. RowByRow(c)'
  <2>1. CASE a = "ok"
    <3>1. Left(c, n)'
      <4>1. s \in DOMAIN store /\ id \in DOMAIN store[s].cur /\ Touched(s, id) /\ s # 0
        BY <1>1, <1>14, <1>15, <2>1 DEF VtabTypes
      <4>2. store'[s].cur[id] = SubSeq(cursor'[c].want, n + 1, Len(cursor'[c].want))
        BY <1>7, <1>12, <1>15, <1>17, <2>1, <4>1
      <4> QED
        BY <1>17, <4>1, <4>2, LeftAfter
    <3>2. Prefix(c)'
      BY <1>8, <1>17, PrefixKept
    <3>3. cursor'[c].phase = "at" /\ ~cursor'[c].hurt /\ Len(cursor'[c].got) = n
      BY <1>3, <1>7, <1>8, <1>17, <2>1
    <3> QED
      BY <3>1, <3>2, <3>3 DEF RowByRow
  <2>2. CASE a # "ok"
    BY <1>3, <1>17, <2>2 DEF RowByRow
  <2> QED
    BY <2>1, <2>2
<1>20. /\ store' \in Seq(StoreT) /\ Len(store') = Len(store) /\ faults' \in 0..MaxFaults
       /\ batch' \in Partial(BlockT) /\ DOMAIN batch' \subseteq DOMAIN batch \cup {id}
  BY <1>1, <1>2, <1>14 DEF Told, VtabTypes
<1> QED
  BY <1>2, <1>3, <1>5, <1>15, <1>16, <1>18, <1>19, <1>20, ScanStep

(* A slice of what is left of w after row m is a slice of w.                *)
LEMMA SliceOfRest ==
    ASSUME NEW w \in Seq(Nat), NEW m \in Nat, m <= Len(w), NEW r \in Seq(Nat),
           r = SubSeq(w, m + 1, Len(w)), NEW a \in Nat, NEW b \in Nat, a <= b, b <= Len(r)
    PROVE  SubSeq(r, a + 1, b) = SubSeq(w, (m + a) + 1, m + b) /\ Len(r) = Len(w) - m
<1>1. Len(r) = Len(w) - m /\ \A i \in 1..Len(r) : r[i] = w[m + i]
  BY RestOfSeq
<1> DEFINE x == SubSeq(r, a + 1, b)
           y == SubSeq(w, (m + a) + 1, m + b)
<1>2. x \in Seq(Nat) /\ Len(x) = b - a /\ \A i \in 1..(b - a) : x[i] = r[a + i]
  BY SliceSeq
<1>3. PICK e \in Nat, f \in Nat : e = m + a /\ f = m + b
  OBVIOUS
<1>4. e <= f /\ f <= Len(w) /\ f - e = b - a
  BY <1>1, <1>3
<1>5. y \in Seq(Nat) /\ Len(y) = b - a /\ \A i \in 1..(b - a) : y[i] = w[e + i]
  BY <1>3, <1>4, SliceSeq
<1> HIDE DEF x, y
<1>6. ASSUME NEW i \in 1..Len(x) PROVE x[i] = y[i]
  <2>1. i \in 1..(b - a)
    BY <1>2, <1>6
  <2>2. PICK j \in 1..Len(r) : j = a + i
    BY <2>1
  <2>3. x[i] = r[j] /\ r[j] = w[m + j] /\ y[i] = w[e + i]
    BY <1>1, <1>2, <1>5, <2>1, <2>2
  <2>4. m + j = e + i
    BY <1>3, <2>1, <2>2
  <2> QED
    BY <2>3, <2>4
<1>7. x = y
  <2>1. x \in Seq(Nat) /\ y \in Seq(Nat) /\ Len(x) = Len(y)
    BY <1>2, <1>5
  <2> QED
    BY ONLY <1>6, <2>1, SeqEqual
<1> QED
  BY <1>1, <1>7 DEF x, y

(* What a refill does, when the store has the scan's rows after row m.      *)
Blank(st, o) == o.hurt /\ \A u \in DOMAIN st : o.st[u] = st[u] \/ o.st[u] = Dead
Block(st, s, id, entry, w, m, n, o) ==
    /\ ~o.hurt /\ s \in DOMAIN st /\ id \in DOMAIN st[s].cur
    /\ m + n <= Len(w) /\ (n = 0 => m = Len(w))
    /\ o.st = [st EXCEPT ![s] = Resumed(st[s], id, SubSeq(w, (m + n) + 1, Len(w)))]
    /\ o.entry = Filled(entry, SubSeq(w, m + 1, m + n))

LEMMA RefillOutcome ==
    ASSUME VtabTypes, NEW st \in Seq(StoreT), Len(st) = Len(store), NEW id,
           NEW entry, NEW w \in Seq(Nat), NEW m \in Nat, m <= Len(w),
           LET s == dispatch_vtab_fetch_batch IN
               s # 0 /\ id \in DOMAIN st[s].cur => st[s].cur[id] = SubSeq(w, m + 1, Len(w)),
           NEW o \in refill_batch(st, id, entry)
    PROVE  /\ o.st \in Seq(StoreT) /\ Len(o.st) = Len(store)
           /\ faults + o.cost \in 0..MaxFaults /\ o.hurt \in BOOLEAN
           /\ \/ Blank(st, o) /\ o.entry = [entry EXCEPT !.eof_seen = TRUE]
              \/ \E n \in Nat : Block(st, dispatch_vtab_fetch_batch, id, entry, w, m, n, o)
<1> DEFINE s == dispatch_vtab_fetch_batch
           rest == st[s].cur[id]
           known == s # 0 /\ id \in DOMAIN st[s].cur
<1>1. s \in 0..Len(st) /\ faults \in 0..MaxFaults /\ MaxFaults \in Nat
      /\ (s # 0 => s \in DOMAIN st)
  <2>1. s \in 0..Len(store)
    BY Dispatched
  <2>2. MaxFaults \in Nat
    BY VtabAssumption
  <2> QED
    BY <2>1, <2>2 DEF VtabTypes
<1>2. known => rest = SubSeq(w, m + 1, Len(w))
  OBVIOUS
<1>3. \/ \E a \in Answers(st, s, known) \ {"ok"} :
            o = [st |-> Heard(st, s, a, st[s]), entry |-> [entry EXCEPT !.eof_seen = TRUE],
                 hurt |-> TRUE, cost |-> Cost(a)]
      \/ /\ "ok" \in Answers(st, s, known)
         /\ \E n \in Blocks(rest) :
               o = [st |-> [st EXCEPT ![s].cur[id] = SubSeq(rest, n + 1, Len(rest))],
                    entry |-> Filled(entry, SubSeq(rest, 1, n)), hurt |-> FALSE, cost |-> 0]
  BY DEF refill_batch
<1> HIDE DEF s
<1>4. CASE \E a \in Answers(st, s, known) \ {"ok"} :
             o = [st |-> Heard(st, s, a, st[s]), entry |-> [entry EXCEPT !.eof_seen = TRUE],
                  hurt |-> TRUE, cost |-> Cost(a)]
  <2>1. PICK a \in Answers(st, s, known) \ {"ok"} :
             o = [st |-> Heard(st, s, a, st[s]), entry |-> [entry EXCEPT !.eof_seen = TRUE],
                  hurt |-> TRUE, cost |-> Cost(a)]
    BY <1>4
  <2>2. faults + Cost(a) \in 0..MaxFaults /\ (a = "trap" => s # 0)
    BY <1>1 DEF Answers, Cost
  <2>3. Heard(st, s, a, st[s]) = st \/ (s # 0 /\ Heard(st, s, a, st[s]) = [st EXCEPT ![s] = Dead])
    BY <2>2 DEF Heard, Dead
  <2>4. /\ Heard(st, s, a, st[s]) \in Seq(StoreT) /\ Len(Heard(st, s, a, st[s])) = Len(st)
        /\ \A u \in DOMAIN st : Heard(st, s, a, st[s])[u] = st[u] \/ Heard(st, s, a, st[s])[u] = Dead
    <3>1. CASE Heard(st, s, a, st[s]) = st
      BY <3>1
    <3>2. CASE s # 0 /\ Heard(st, s, a, st[s]) = [st EXCEPT ![s] = Dead]
      BY <1>1, <3>2, FreshTyped, SeqReplace
    <3> QED
      BY <2>3, <3>1, <3>2
  <2> QED
    BY <2>1, <2>2, <2>4 DEF Blank
<1>5. CASE /\ "ok" \in Answers(st, s, known)
           /\ \E n \in Blocks(rest) :
               o = [st |-> [st EXCEPT ![s].cur[id] = SubSeq(rest, n + 1, Len(rest))],
                    entry |-> Filled(entry, SubSeq(rest, 1, n)), hurt |-> FALSE, cost |-> 0]
  <2>1. known
    BY <1>5 DEF Answers
  <2>2. PICK n \in Blocks(rest) :
               o = [st |-> [st EXCEPT ![s].cur[id] = SubSeq(rest, n + 1, Len(rest))],
                    entry |-> Filled(entry, SubSeq(rest, 1, n)), hurt |-> FALSE, cost |-> 0]
    BY <1>5
  <2>3. s \in DOMAIN st /\ st[s] \in StoreT /\ id \in DOMAIN st[s].cur
    BY <1>1, <2>1
  <2>4. PICK r \in Seq(Nat) : r = rest /\ r = SubSeq(w, m + 1, Len(w))
    BY <1>2, <2>1, RestOfSeq
  <2>5. n \in Nat /\ n <= Len(r) /\ (n = 0 => r = <<>>)
    BY <2>4, VtabAssumption DEF Blocks
  <2>6. SubSeq(r, n + 1, Len(r)) = SubSeq(w, (m + n) + 1, Len(w)) /\ Len(r) = Len(w) - m
    <3>1. Len(r) \in Nat /\ n <= Len(r) /\ Len(r) <= Len(r)
      BY <2>5
    <3>2. SubSeq(r, n + 1, Len(r)) = SubSeq(w, (m + n) + 1, m + Len(r)) /\ Len(r) = Len(w) - m
      BY <2>4, <2>5, <3>1, SliceOfRest
    <3>3. m + Len(r) = Len(w)
      BY <3>2
    <3> QED
      BY <3>2, <3>3
  <2>7. SubSeq(r, 1, n) = SubSeq(w, m + 1, m + n)
    <3>1. SubSeq(r, 0 + 1, n) = SubSeq(w, (m + 0) + 1, m + n)
      BY <2>4, <2>5, SliceOfRest
    <3>2. 0 + 1 = 1 /\ m + 0 = m
      OBVIOUS
    <3> QED
      BY Zenon, <3>1, <3>2
  <2>8. m + n <= Len(w) /\ (n = 0 => m = Len(w)) /\ m + n \in Nat
    BY <2>5, <2>6
  <2>9. SubSeq(w, (m + n) + 1, Len(w)) \in Seq(Nat)
    BY <2>8, RestOfSeq
  <2> DEFINE v == Resumed(st[s], id, SubSeq(w, (m + n) + 1, Len(w)))
  <2>10. v \in StoreT
    BY <2>3, <2>9, ResumedIs
  <2>11. o.st = [st EXCEPT ![s] = v]
    BY <2>2, <2>4, <2>6 DEF Resumed
  <2>12. Block(st, s, id, entry, w, m, n, o)
    BY <2>2, <2>3, <2>4, <2>7, <2>8, <2>11 DEF Block
  <2> HIDE DEF v
  <2>13. o.st \in Seq(StoreT) /\ Len(o.st) = Len(st)
    BY <2>3, <2>10, <2>11, SeqReplace
  <2>14. faults + o.cost \in 0..MaxFaults /\ o.hurt \in BOOLEAN
    BY <1>1, <2>2
  <2> QED
    BY <2>5, <2>12, <2>13, <2>14 DEF s
<1> QED
  BY <1>3, <1>4, <1>5

LEMMA FilledIs ==
    ASSUME NEW entry, entry.eof_seen = FALSE, NEW r \in Seq(Nat)
    PROVE  /\ Filled(entry, r) \in BlockT /\ Filled(entry, r).rows = r
           /\ Filled(entry, r).idx = 0 /\ (Filled(entry, r).eof_seen <=> r = <<>>)
BY DEF Filled, BlockT

(* A block of the rows that are due was put before the cursor.              *)
LEMMA BlockLands ==
    ASSUME BridgeInv, NEW c \in Cursors, NEW s \in DOMAIN store,
           cursor[c].id \in DOMAIN store[s].cur, Touched(s, cursor[c].id),
           cursor'[c].id = cursor[c].id, cursor'[c].phase = "at", ~cursor'[c].hurt, Prefix(c)',
           NEW w \in Seq(Nat), cursor'[c].want = w,
           NEW m \in Nat, Len(cursor'[c].got) = m, NEW n \in Nat,
           m + n <= Len(w), n = 0 => m = Len(w),
           store'[s].cur[cursor[c].id] = SubSeq(w, (m + n) + 1, Len(w)),
           NEW entry, entry.eof_seen = FALSE, cursor[c].id \in DOMAIN batch',
           batch'[cursor[c].id] = Filled(entry, SubSeq(w, m + 1, m + n))
    PROVE  Ready(c)' /\ BlockByBlock(c)'
<1> DEFINE r == SubSeq(w, m + 1, m + n)
<1>1. r \in Seq(Nat) /\ Len(r) = n /\ \A i \in 1..n : r[i] = w[m + i]
  <2>1. PICK e \in Nat : e = m + n /\ m <= e /\ e <= Len(w) /\ e - m = n
    OBVIOUS
  <2>2. SubSeq(w, m + 1, e) \in Seq(Nat) /\ Len(SubSeq(w, m + 1, e)) = e - m
        /\ \A i \in 1..(e - m) : SubSeq(w, m + 1, e)[i] = w[m + i]
    BY <2>1, SliceSeq
  <2> QED
    BY <2>1, <2>2
<1> HIDE DEF r
<1>2. r = <<>> <=> n = 0
  BY <1>1, EmptySeq
<1> DEFINE b == batch'[cursor[c].id]
<1>3. b.rows = r /\ b.idx = 0 /\ (b.eof_seen <=> n = 0)
  <2>1. b = Filled(entry, r)
    BY DEF r
  <2>2. /\ Filled(entry, r).rows = r /\ Filled(entry, r).idx = 0
        /\ (Filled(entry, r).eof_seen <=> r = <<>>)
    BY Zenon, <1>1, FilledIs
  <2> QED
    BY Zenon, <1>2, <2>1, <2>2
<1> HIDE DEF b
<1>4. Left(c, m + n)'
  BY LeftAfter
<1>5. Follows(r, 0, w, m, n)
  <2>1. 0 + n = Len(r)
    BY <1>1
  <2>2. ASSUME NEW j \in 1..n PROVE r[0 + j] = w[m + j]
    <3>1. 0 + j = j
      OBVIOUS
    <3> QED
      BY <1>1, <3>1
  <2> QED
    BY <2>1, <2>2 DEF Follows
<1>6. n = 0 => m + n = Len(w)
  OBVIOUS
<1>7. Buffered(c, 0, m, n)'
  BY <1>3, <1>4, <1>5, <1>6 DEF Buffered, b
<1>8. BlockByBlock(c)'
  BY <1>7 DEF BlockByBlock
<1>9. 0 < Len(r) \/ n = 0
  BY <1>1
<1>10. Ready(c)'
  BY <1>3, <1>9 DEF Ready, b
<1> QED
  BY <1>8, <1>10

LEMMA BlankTouches ==
    ASSUME VtabTypes, NEW o, Blank(store, o), store' = o.st, store' \in Seq(StoreT),
           Len(store') = Len(store), NEW s, NEW id
    PROVE  Touched(s, id)
BY DEF Blank, Touched

LEMMA BlockTouches ==
    ASSUME VtabTypes, NEW s, NEW id, NEW entry, NEW w \in Seq(Nat), NEW m \in Nat, NEW n \in Nat,
           NEW o, Block(store, s, id, entry, w, m, n, o), store' = o.st, store' \in Seq(StoreT),
           Len(store') = Len(store)
    PROVE  Touched(s, id) /\ store'[s].cur[id] = SubSeq(w, (m + n) + 1, Len(w))
<1>1. s \in DOMAIN store /\ id \in DOMAIN store[s].cur /\ m + n <= Len(w) /\ m + n \in Nat
  BY DEF Block
<1>2. store[s] \in StoreT
  BY <1>1, StoreOf
<1> DEFINE r == SubSeq(w, (m + n) + 1, Len(w))
           v == Resumed(store[s], id, r)
<1>3. r \in Seq(Nat)
  BY <1>1, RestOfSeq
<1>4. store' = [store EXCEPT ![s] = v]
  BY DEF Block
<1> HIDE DEF r
<1>5. /\ v.trapped = store[s].trapped /\ v.inst = store[s].inst
      /\ v.tab = store[s].tab /\ v.synced = store[s].synced
      /\ DOMAIN v.cur = DOMAIN store[s].cur /\ v.cur[id] = r
      /\ \A x \in DOMAIN store[s].cur : x # id => v.cur[x] = store[s].cur[x]
  BY <1>1, <1>2, <1>3, ResumedIs
<1> HIDE DEF v
<1>6. store'[s] = v /\ \A u \in DOMAIN store : u # s => store'[u] = store[u]
  BY <1>1, <1>4 DEF VtabTypes
<1> QED
  BY <1>1, <1>5, <1>6 DEF Touched, r

LEMMA AdvanceIs ==
    ASSUME NEW b \in BlockT
    PROVE  /\ Advance(b) \in BlockT /\ Advance(b).rows = b.rows /\ Advance(b).idx = b.idx + 1
           /\ Advance(b).eof_seen = b.eof_seen
           /\ LET e == [Advance(b) EXCEPT !.eof_seen = TRUE] IN
              e \in BlockT /\ e.rows = b.rows /\ e.idx = b.idx + 1 /\ e.eof_seen
<1>1. \A v \in BlockT, n \in Nat :
          /\ [v EXCEPT !.idx = n] \in BlockT /\ [v EXCEPT !.idx = n].rows = v.rows
          /\ [v EXCEPT !.idx = n].idx = n /\ [v EXCEPT !.idx = n].eof_seen = v.eof_seen
  BY DEF BlockT
<1>2. \A v \in BlockT :
          /\ [v EXCEPT !.eof_seen = TRUE] \in BlockT /\ [v EXCEPT !.eof_seen = TRUE].rows = v.rows
          /\ [v EXCEPT !.eof_seen = TRUE].idx = v.idx /\ [v EXCEPT !.eof_seen = TRUE].eof_seen
  BY DEF BlockT
<1>3. b.idx + 1 \in Nat
  BY DEF BlockT
<1>4. Advance(b) = [b EXCEPT !.idx = b.idx + 1]
  BY DEF Advance
<1>5. /\ Advance(b) \in BlockT /\ Advance(b).rows = b.rows /\ Advance(b).idx = b.idx + 1
      /\ Advance(b).eof_seen = b.eof_seen
  BY <1>1, <1>3, <1>4
<1> QED
  BY <1>2, <1>5

LEMMA BlockNextStep ==
    ASSUME BridgeInv, NEW c \in Cursors, x_next(c), Module[cursor[c].tab].batched
    PROVE  BridgeInv'
<1> DEFINE id == cursor[c].id
           b == batch[id]
           moved == Advance(b)
           dry == moved.idx >= Len(moved.rows) /\ ~moved.eof_seen
           plain == [st |-> store, entry |-> moved, hurt |-> FALSE, cost |-> 0]
<1>1. VtabTypes /\ InUse(c) /\ Ready(c) /\ BlockByBlock(c)
  BY DEF BridgeInv, Reading, BlockReady, Ready
<1>2. PICK o \in IF dry THEN refill_batch(store, id, moved) ELSE {plain} :
          /\ store' = o.st /\ faults' = faults + o.cost
          /\ batch' = [batch EXCEPT ![id] = o.entry]
          /\ cursor' = [cursor EXCEPT ![c].phase = "at", ![c].hurt = @ \/ o.hurt]
  BY DEF x_next
<1>3. cursor[c].phase = "read" /\ UNCHANGED <<cursorFrame, registry>>
  BY DEF x_next
<1>4. id # 0 /\ id \in DOMAIN batch
  BY <1>1, <1>3 DEF InUse, Ready
<1>5. b \in BlockT /\ cursor[c] \in CursorT /\ "at" \in Phases
  BY <1>1, <1>4, ReadType DEF VtabTypes, Phases
<1>6. PICK rows \in Seq(Nat), w \in Seq(Nat) : rows = b.rows /\ w = cursor[c].want
  BY <1>5 DEF BlockT, CursorT
<1>7. ~cursor[c].hurt /\ Prefix(c)
  BY <1>1, <1>3 DEF BlockByBlock
<1>8. PICK i \in Nat, m \in Nat, n \in Nat : Buffered(c, i, m, n)
  BY <1>1, <1>3, <1>7 DEF BlockByBlock
<1>9. /\ i = b.idx + 1 /\ m = Len(cursor[c].got) /\ Follows(rows, i, w, m, n) /\ Left(c, m + n)
      /\ b.eof_seen => m + n = Len(w)
  BY <1>3, <1>6, <1>8 DEF Buffered
<1>10. /\ moved \in BlockT /\ moved.rows = rows /\ moved.idx = i /\ moved.eof_seen = b.eof_seen
       /\ LET e == [moved EXCEPT !.eof_seen = TRUE] IN
          e \in BlockT /\ e.rows = rows /\ e.idx = i /\ e.eof_seen
  BY <1>5, <1>6, <1>9, AdvanceIs
<1>11. i + n = Len(rows) /\ m + n <= Len(w) /\ m <= Len(w) /\ Len(rows) \in Nat
  BY <1>9 DEF Follows
<1> HIDE DEF moved
<1> DEFINE s == dispatch_vtab_fetch_batch
<1>12. ASSUME dry
       PROVE  /\ o.st \in Seq(StoreT) /\ Len(o.st) = Len(store)
              /\ faults + o.cost \in 0..MaxFaults /\ o.hurt \in BOOLEAN
              /\ \/ Blank(store, o) /\ o.entry = [moved EXCEPT !.eof_seen = TRUE]
                 \/ \E k \in Nat : Block(store, s, id, moved, w, m, k, o)
  <2>1. n = 0 /\ m + n = m
    BY <1>10, <1>11, <1>12
  <2>2. s # 0 => s \in DOMAIN store
    <3>1. s \in 0..Len(store)
      BY <1>1, Dispatched
    <3> QED
      BY <1>1, <3>1 DEF VtabTypes
  <2> HIDE DEF s
  <2>3. s # 0 /\ id \in DOMAIN store[s].cur => store[s].cur[id] = SubSeq(w, m + 1, Len(w))
    BY <1>6, <1>9, <2>1, <2>2, RestOf
  <2>4. o \in refill_batch(store, id, moved)
    BY <1>2, <1>12
  <2>5. store \in Seq(StoreT)
    BY <1>1 DEF VtabTypes
  <2> QED
    BY <1>1, <1>11, <2>3, <2>4, <2>5, RefillOutcome DEF s
<1>13. ~dry => o = plain
  BY <1>2
<1>14. /\ store' \in Seq(StoreT) /\ Len(store') = Len(store) /\ faults' \in 0..MaxFaults
       /\ o.hurt \in BOOLEAN
  <2>1. CASE dry
    BY <1>2, <1>12, <2>1
  <2>2. CASE ~dry
    <3>1. o.st = store /\ o.cost = 0 /\ o.hurt = FALSE
      BY <1>13, <2>2
    <3>2. faults + 0 \in 0..MaxFaults
      BY <1>1 DEF VtabTypes
    <3> QED
      BY <1>1, <1>2, <3>1, <3>2 DEF VtabTypes
  <2> QED
    BY <2>1, <2>2
<1>15. Moved(c, "at", cursor[c].got, cursor[c].hurt \/ o.hurt)
  BY <1>1, <1>2, <1>5, <1>14, PhaseHurtSet
<1>16. RunsOn(c)
  BY <1>15, MovedRuns
<1>17. cursor'[c].phase = "at" /\ cursor'[c].got = cursor[c].got /\ cursor'[c].want = w
       /\ cursor'[c].id = id /\ cursor'[c].tab = cursor[c].tab
       /\ (cursor'[c].hurt <=> o.hurt)
  BY <1>6, <1>7, <1>15 DEF Moved
<1>18. Prefix(c)' /\ Len(cursor'[c].got) = m
  BY <1>6, <1>7, <1>9, <1>17, PrefixKept
<1>19. batch'[id] = o.entry /\ id \in DOMAIN batch' /\ DOMAIN batch' = DOMAIN batch
       /\ BatchElsewhere(id)
  BY <1>2, <1>4 DEF BatchElsewhere
<1>20. RowByRow(c)'
  BY <1>17 DEF RowByRow
<1>21. CASE ~dry
  <2>1. o.st = store /\ o.entry = moved /\ ~o.hurt
    BY <1>13, <1>21
  <2>2. InstKept /\ CurKept /\ InstGrown /\ TabKept /\ CurShrunk /\ CurElsewhere(id)
    BY <1>2, <2>1, SameStores, KeptElsewhere, KeptShrinks
  <2>3. batch' \in Partial(BlockT)
    BY <1>1, <1>2, <1>10, <2>1, ReplaceType DEF VtabTypes
  <2>4. Ready(c)'
    BY <1>10, <1>17, <1>19, <1>21, <2>1 DEF Ready, BlockT
  <2>5. Left(c, m + n)'
    BY <1>6, <1>9, <1>17, <2>2, LeftKept
  <2>6. Buffered(c, i, m, n)'
    BY <1>9, <1>10, <1>17, <1>18, <1>19, <2>1, <2>5 DEF Buffered
  <2>7. BlockByBlock(c)'
    BY <1>17, <1>18, <2>1, <2>6 DEF BlockByBlock
  <2> QED
    BY <1>3, <1>4, <1>14, <1>16, <1>19, <1>20, <2>2, <2>3, <2>4, <2>7, ScanStep
<1>22. CASE dry /\ Blank(store, o) /\ o.entry = [moved EXCEPT !.eof_seen = TRUE]
  <2>1. InstKept /\ InstGrown /\ TabKept /\ CurShrunk /\ CurElsewhere(id)
    BY <1>1, <1>2, <1>14, <1>22, BlankTouches, TouchedKeeps
  <2>2. /\ o.entry \in BlockT /\ o.entry.rows = rows /\ o.entry.idx = i /\ o.entry.eof_seen
        /\ o.hurt
    BY <1>10, <1>22 DEF Blank
  <2>3. batch' \in Partial(BlockT)
    BY <1>1, <1>2, <2>2, ReplaceType DEF VtabTypes
  <2>4. i >= Len(rows)
    BY <1>10, <1>22
  <2>5. Ready(c)' /\ BlockByBlock(c)'
    BY <1>17, <1>19, <2>2, <2>4 DEF Ready, BlockByBlock
  <2> QED
    BY <1>3, <1>4, <1>14, <1>16, <1>19, <1>20, <2>1, <2>3, <2>5, ScanStep
<1>23. CASE dry /\ \E k \in Nat : Block(store, s, id, moved, w, m, k, o)
  <2>1. PICK k \in Nat : Block(store, s, id, moved, w, m, k, o)
    BY <1>23
  <2>2. /\ s \in DOMAIN store /\ id \in DOMAIN store[s].cur /\ ~o.hurt
        /\ m + k <= Len(w) /\ (k = 0 => m = Len(w))
        /\ o.entry = Filled(moved, SubSeq(w, m + 1, m + k))
    BY <2>1 DEF Block
  <2> HIDE DEF s
  <2>3. Touched(s, id) /\ store'[s].cur[id] = SubSeq(w, (m + k) + 1, Len(w))
    <3>1. store' = o.st /\ store' \in Seq(StoreT) /\ Len(store') = Len(store) /\ VtabTypes
      BY <1>1, <1>2, <1>14
    <3> QED
      BY Zenon, <2>1, <3>1, BlockTouches
  <2>4. InstKept /\ InstGrown /\ TabKept /\ CurShrunk /\ CurElsewhere(id)
    BY <1>1, <2>3, TouchedKeeps
  <2>5. moved.eof_seen = FALSE
    BY <1>10, <1>23 DEF BlockT
  <2>6. o.entry \in BlockT
    <3>1. PICK e \in Nat : e = m + k /\ m <= e /\ e <= Len(w)
      BY <2>2
    <3>2. SubSeq(w, m + 1, e) \in Seq(Nat)
      BY <3>1, SliceSeq
    <3> QED
      BY <2>2, <2>5, <3>1, <3>2, FilledIs
  <2>7. batch' \in Partial(BlockT)
    BY <1>1, <1>2, <2>6, ReplaceType DEF VtabTypes
  <2>8. Ready(c)' /\ BlockByBlock(c)'
    BY <1>17, <1>18, <1>19, <2>2, <2>3, <2>5, BlockLands
  <2> QED
    BY <1>3, <1>4, <1>14, <1>16, <1>19, <1>20, <2>4, <2>7, <2>8, ScanStep
<1> QED
  BY <1>12, <1>21, <1>22, <1>23

(* xFilter: the scan starts over on the rows the table has.                 *)
Begun(c, v, h) ==
    /\ cursor' \in [Cursors -> CursorT]
    /\ cursor'[c].phase = "at" /\ cursor'[c].want = v /\ cursor'[c].got = <<>>
    /\ (cursor'[c].hurt <=> h)
    /\ cursor'[c].id = cursor[c].id /\ cursor'[c].tab = cursor[c].tab
    /\ \A d \in Cursors : d # c => cursor'[d] = cursor[d]

LEMMA BegunIs ==
    ASSUME VtabTypes, NEW c \in Cursors, NEW v \in Seq(Nat), NEW h \in BOOLEAN
    PROVE  LET k == [cursor[c] EXCEPT !.phase = "at", !.want = v, !.got = <<>>, !.hurt = FALSE] IN
           /\ cursor' = [cursor EXCEPT ![c] = k] => Begun(c, v, FALSE)
           /\ cursor' = [cursor EXCEPT ![c] = [k EXCEPT !.hurt = h]] => Begun(c, v, h)
<1> DEFINE k == [cursor[c] EXCEPT !.phase = "at", !.want = v, !.got = <<>>, !.hurt = FALSE]
           e == [k EXCEPT !.hurt = h]
<1>1. cursor[c] \in CursorT /\ "at" \in Phases /\ <<>> \in Seq(Nat)
  BY DEF VtabTypes, Phases
<1>2. /\ k \in CursorT /\ k.phase = "at" /\ k.want = v /\ k.got = <<>> /\ k.hurt = FALSE
      /\ k.id = cursor[c].id /\ k.tab = cursor[c].tab
  BY <1>1 DEF CursorT
<1> HIDE DEF k
<1>3. /\ e \in CursorT /\ e.phase = "at" /\ e.want = v /\ e.got = <<>> /\ e.hurt = h
      /\ e.id = cursor[c].id /\ e.tab = cursor[c].tab
  BY <1>2 DEF CursorT
<1> HIDE DEF e
<1>4. ASSUME cursor' = [cursor EXCEPT ![c] = k] PROVE Begun(c, v, FALSE)
  BY <1>2, <1>4, CursorSet DEF Begun
<1>5. ASSUME cursor' = [cursor EXCEPT ![c] = e] PROVE Begun(c, v, h)
  BY <1>3, <1>5, CursorSet DEF Begun
<1> QED
  BY <1>4, <1>5 DEF k, e

LEMMA BegunRuns ==
    ASSUME NEW c, NEW v, NEW h, Begun(c, v, h) PROVE RunsOn(c) /\ Prefix(c)'
<1>1. RunsOn(c)
  BY DEF Begun, RunsOn
<1>2. Len(cursor'[c].got) = 0
  BY DEF Begun
<1>3. Prefix(c)'
  BY <1>2 DEF Begun, Prefix
<1> QED
  BY <1>1, <1>3

LEMMA WholeSeq == ASSUME NEW w \in Seq(Nat) PROVE SubSeq(w, 0 + 1, Len(w)) = w
<1>1. PICK x \in Seq(Nat) : x = SubSeq(w, 0 + 1, Len(w)) /\ Len(x) = Len(w) - 0
                            /\ \A i \in 1..(Len(w) - 0) : x[i] = w[0 + i]
  BY SliceSeq
<1>2. Len(x) = Len(w) /\ \A i \in 1..Len(x) : x[i] = w[i]
  BY <1>1
<1> QED
  BY <1>1, <1>2, SeqEqual

(* A store that knows the cursor has the contents its writers were told.    *)
LEMMA ToldContents ==
    ASSUME BridgeInv, NEW c \in Cursors, cursor[c].id # 0, NEW s \in DOMAIN store,
           cursor[c].id \in DOMAIN store[s].cur, ~store[s].trapped
    PROVE  store[s].tab[cursor[c].tab] = view[cursor[c].tab]
<1>1. cursor[c].tab \in Tables
  BY DEF BridgeInv, VtabTypes, CursorT
<1>2. home[cursor[c].tab] = s /\ vtab[cursor[c].tab] # 0
  BY DEF BridgeInv, Memories, KnownCursors, Reading, InUse
<1> QED
  BY <1>1, <1>2 DEF BridgeInv, Homes, InHome

(* The component is told to start, whatever it answers.                     *)
LEMMA FilterStep == ASSUME BridgeInv, NEW c \in Cursors, x_filter(c) PROVE BridgeInv'
<1> DEFINE id == cursor[c].id
           t == cursor[c].tab
           s == dispatch_vtab_filter
           known == s # 0 /\ id \in DOMAIN store[s].cur
           new == Resumed(store[s], id, store[s].tab[t].rows)
           k == [cursor[c] EXCEPT !.phase = "at", !.want = view[t].rows, !.got = <<>>, !.hurt = FALSE]
<1>1. VtabTypes /\ InUse(c)
  BY DEF BridgeInv, Reading
<1>2. cursor[c].phase \in {"open", "read", "done"} /\ UNCHANGED <<cursorFrame, registry>>
  BY DEF x_filter
<1>3. PICK a \in Answers(store, s, known) :
        LET st == Heard(store, s, a, new) IN
        \/ /\ a # "ok"
           /\ store' = st /\ faults' = faults + Cost(a)
           /\ cursor' = [cursor EXCEPT ![c].phase = "failed"]
           /\ UNCHANGED batch
        \/ /\ a = "ok" /\ ~Module[t].batched
           /\ store' = st
           /\ cursor' = [cursor EXCEPT ![c] = k]
           /\ UNCHANGED <<batch, faults>>
        \/ /\ a = "ok" /\ Module[t].batched
           /\ \E o \in refill_batch(st, id, Reset(id)) :
                 /\ store' = o.st
                 /\ batch' = Put(batch, id, o.entry)
                 /\ faults' = faults + o.cost
                 /\ cursor' = [cursor EXCEPT ![c] = [k EXCEPT !.hurt = o.hurt]]
  BY DEF x_filter, Resumed
<1> HIDE DEF k
<1>4. id # 0 /\ cursor[c] \in CursorT /\ t \in Tables /\ id \in Nat /\ "failed" \in Phases
  BY <1>1, <1>2 DEF InUse, VtabTypes, CursorT, Phases
<1>5. s \in 0..Len(store) /\ (s # 0 => s \in DOMAIN store) /\ s = dispatch_vtab_fetch_batch
  <2>1. s \in 0..Len(store)
    BY <1>1, Dispatched
  <2>2. s = dispatch_vtab_fetch_batch
    BY DEF dispatch_vtab_filter, dispatch_vtab_fetch_batch, try_bridge_vtab_filter,
           try_bridge_vtab_fetch_batch
  <2> QED
    BY <1>1, <2>1, <2>2 DEF VtabTypes
<1> HIDE DEF s
<1>6. PICK w \in Seq(Nat) : w = view[t].rows
  BY <1>1, <1>4 DEF VtabTypes, ContentT
<1>7. known => /\ s \in DOMAIN store /\ store[s] \in StoreT /\ new \in StoreT
               /\ store[s].tab[t].rows \in Seq(Nat)
  <2> SUFFICES ASSUME known
               PROVE  /\ s \in DOMAIN store /\ store[s] \in StoreT /\ new \in StoreT
                      /\ store[s].tab[t].rows \in Seq(Nat)
    OBVIOUS
  <2>1. s \in DOMAIN store /\ store[s] \in StoreT
    BY <1>1, <1>5, StoreOf
  <2>2. store[s].tab[t].rows \in Seq(Nat)
    BY <1>4, <2>1, StoreParts DEF ContentT
  <2> QED
    BY <2>1, <2>2, ResumedIs
<1>8. a \in Replies /\ (a = "ok" => known /\ ~store[s].trapped)
  BY <1>3 DEF Answers, Replies
<1>9. a = "ok" => store[s].tab[t].rows = w
  BY <1>4, <1>6, <1>7, <1>8, ToldContents
<1> HIDE DEF new
<1>10. CASE /\ a # "ok" /\ store' = Heard(store, s, a, new) /\ faults' = faults + Cost(a)
            /\ cursor' = [cursor EXCEPT ![c].phase = "failed"] /\ UNCHANGED batch
  <2>1. Call(s, s # 0 /\ id \in DOMAIN store[s].cur, a, new)
    BY <1>3, <1>10 DEF Call
  <2>2. Told(s, a, new)
    BY <1>1, <1>5, <1>7, <1>8, <2>1, CallEffect
  <2>3. InstKept /\ CurKept /\ InstGrown /\ TabKept
    BY <1>1, <1>10, <2>2, CallKeeps
  <2>4. CurShrunk /\ CurElsewhere(id)
    BY <2>3, KeptElsewhere, KeptShrinks
  <2>5. Moved(c, "failed", cursor[c].got, cursor[c].hurt)
    BY <1>1, <1>4, <1>10, PhaseSet
  <2>6. RunsOn(c)
    BY <2>5, MovedRuns
  <2>7. Ready(c)' /\ RowByRow(c)' /\ BlockByBlock(c)'
    BY <2>5 DEF Moved, Ready, RowByRow, BlockByBlock
  <2>8. BatchElsewhere(id)
    BY <1>10 DEF BatchElsewhere
  <2>9. /\ store' \in Seq(StoreT) /\ Len(store') = Len(store) /\ faults' \in 0..MaxFaults
        /\ batch' \in Partial(BlockT) /\ DOMAIN batch' \subseteq DOMAIN batch \cup {id}
    BY <1>1, <1>10, <2>2 DEF Told, VtabTypes
  <2> QED
    BY <1>2, <1>4, <2>3, <2>4, <2>6, <2>7, <2>8, <2>9, ScanStep
<1>11. CASE /\ a = "ok" /\ ~Module[t].batched /\ store' = Heard(store, s, a, new)
            /\ cursor' = [cursor EXCEPT ![c] = k] /\ UNCHANGED <<batch, faults>>
  <2>1. Call(s, s # 0 /\ id \in DOMAIN store[s].cur, a, new)
    <3>1. faults' = faults + Cost(a)
      BY <1>1, <1>11 DEF Cost, VtabTypes
    <3> QED
      BY <1>3, <1>11, <3>1 DEF Call
  <2>2. Told(s, a, new)
    BY <1>1, <1>5, <1>7, <1>8, <2>1, CallEffect
  <2>3. s \in DOMAIN store /\ id \in DOMAIN store[s].cur
    BY <1>7, <1>8, <1>11
  <2>4. Touched(s, id) /\ store'[s].cur[id] = w
    BY <1>1, <1>7, <1>8, <1>9, <1>11, <2>2, <2>3, CallTouches DEF new
  <2>5. InstKept /\ InstGrown /\ TabKept /\ CurShrunk /\ CurElsewhere(id)
    BY <1>1, <2>4, TouchedKeeps
  <2>6. Begun(c, w, FALSE)
    BY <1>1, <1>6, <1>11, BegunIs DEF k
  <2>7. RunsOn(c) /\ Prefix(c)'
    BY <2>6, BegunRuns
  <2>8. Ready(c)' /\ BlockByBlock(c)'
    BY <1>11, <2>6 DEF Begun, Ready, BlockByBlock
  <2>9. RowByRow(c)'
    <3>1. store'[s].cur[id] = SubSeq(w, 0 + 1, Len(w))
      BY <2>4, WholeSeq
    <3>2. Left(c, 0)'
      BY <2>3, <2>4, <2>6, <3>1, LeftAfter DEF Begun
    <3>3. Len(cursor'[c].got) = 0 /\ ~cursor'[c].hurt /\ cursor'[c].phase = "at"
      BY <2>6 DEF Begun
    <3> QED
      BY <2>7, <3>2, <3>3 DEF RowByRow
  <2>10. BatchElsewhere(id)
    BY <1>11 DEF BatchElsewhere
  <2>11. /\ store' \in Seq(StoreT) /\ Len(store') = Len(store) /\ faults' \in 0..MaxFaults
         /\ batch' \in Partial(BlockT) /\ DOMAIN batch' \subseteq DOMAIN batch \cup {id}
    BY <1>1, <1>11, <2>2 DEF Told, VtabTypes
  <2> QED
    BY <1>2, <1>4, <2>5, <2>7, <2>8, <2>9, <2>10, <2>11, ScanStep
<1>12. CASE /\ a = "ok" /\ Module[t].batched
            /\ \E o \in refill_batch(Heard(store, s, a, new), id, Reset(id)) :
                 /\ store' = o.st
                 /\ batch' = Put(batch, id, o.entry)
                 /\ faults' = faults + o.cost
                 /\ cursor' = [cursor EXCEPT ![c] = [k EXCEPT !.hurt = o.hurt]]
  <2> DEFINE st == [store EXCEPT ![s] = new]
             e == Reset(id)
  <2>1. Heard(store, s, a, new) = st
    BY <1>12 DEF Heard
  <2>2. PICK o \in refill_batch(st, id, e) :
                 /\ store' = o.st
                 /\ batch' = Put(batch, id, o.entry)
                 /\ faults' = faults + o.cost
                 /\ cursor' = [cursor EXCEPT ![c] = [k EXCEPT !.hurt = o.hurt]]
    BY <1>12, <2>1
  <2>3. s \in DOMAIN store /\ id \in DOMAIN store[s].cur /\ s # 0 /\ store[s] \in StoreT /\ w = store[s].tab[t].rows
    BY <1>7, <1>8, <1>9, <1>12
  <2>4. /\ new \in StoreT /\ new.trapped = store[s].trapped /\ new.inst = store[s].inst
        /\ new.tab = store[s].tab /\ new.synced = store[s].synced
        /\ DOMAIN new.cur = DOMAIN store[s].cur /\ new.cur[id] = w
        /\ \A x \in DOMAIN store[s].cur : x # id => new.cur[x] = store[s].cur[x]
    BY <2>3, ResumedIs DEF new
  <2>5. /\ st \in Seq(StoreT) /\ Len(st) = Len(store) /\ st[s] = new
        /\ DOMAIN st = DOMAIN store
        /\ \A u \in DOMAIN store : u # s => st[u] = store[u]
    BY <1>1, <2>3, <2>4, SeqReplace DEF VtabTypes
  <2> HIDE DEF st
  <2>6. /\ e.eof_seen = FALSE /\ e \in BlockT /\ e.idx = 0 /\ e.rows = <<>>
    BY DEF Reset, BlockT
  <2> HIDE DEF e
  <2>7. /\ o.st \in Seq(StoreT) /\ Len(o.st) = Len(store)
        /\ faults + o.cost \in 0..MaxFaults /\ o.hurt \in BOOLEAN
        /\ \/ Blank(st, o) /\ o.entry = [e EXCEPT !.eof_seen = TRUE]
           \/ \E n \in Nat : Block(st, s, id, e, w, 0, n, o)
    <3>1. st[s].cur[id] = SubSeq(w, 0 + 1, Len(w))
      BY <2>4, <2>5, WholeSeq
    <3>2. 0 <= Len(w) /\ 0 \in Nat
      OBVIOUS
    <3>3. LET u == dispatch_vtab_fetch_batch IN
              u # 0 /\ id \in DOMAIN st[u].cur => st[u].cur[id] = SubSeq(w, 0 + 1, Len(w))
      BY <1>5, <3>1
    <3>4. st \in Seq(StoreT) /\ Len(st) = Len(store) /\ o \in refill_batch(st, id, e)
      BY <2>2, <2>5
    <3>5. /\ o.st \in Seq(StoreT) /\ Len(o.st) = Len(store)
          /\ faults + o.cost \in 0..MaxFaults /\ o.hurt \in BOOLEAN
          /\ \/ Blank(st, o) /\ o.entry = [e EXCEPT !.eof_seen = TRUE]
             \/ \E n \in Nat : Block(st, dispatch_vtab_fetch_batch, id, e, w, 0, n, o)
      BY Zenon, <1>1, <1>6, <3>2, <3>3, <3>4, RefillOutcome
    <3> QED
      BY <1>5, <3>5
  <2>8. Begun(c, w, o.hurt)
    BY <1>1, <1>6, <2>2, <2>7, BegunIs DEF k
  <2>9. RunsOn(c) /\ Prefix(c)'
    BY <2>8, BegunRuns
  <2>10. RowByRow(c)'
    BY <1>12, <2>8 DEF Begun, RowByRow
  <2>11. /\ Touched(s, id) /\ o.entry \in BlockT
         /\ id \in DOMAIN batch' /\ batch'[id] = o.entry => Ready(c)' /\ BlockByBlock(c)'
    <3>1. CASE Blank(st, o) /\ o.entry = [e EXCEPT !.eof_seen = TRUE]
      <4>1. \A u \in DOMAIN store : o.st[u] = st[u] \/ o.st[u] = Dead
        BY <2>5, <3>1 DEF Blank
      <4>2. Touched(s, id)
        BY <2>2, <2>3, <2>4, <2>5, <2>7, <4>1 DEF Touched
      <4>3. o.entry \in BlockT /\ o.entry.eof_seen /\ o.entry.rows = <<>> /\ o.entry.idx = 0 /\ o.hurt
        BY <2>6, <3>1 DEF BlockT, Blank
      <4> QED
        BY <2>8, <4>2, <4>3 DEF Begun, Ready, BlockByBlock
    <3>2. CASE \E n \in Nat : Block(st, s, id, e, w, 0, n, o)
      <4>1. PICK n \in Nat : Block(st, s, id, e, w, 0, n, o)
        BY <3>2
      <4> DEFINE r == SubSeq(w, (0 + n) + 1, Len(w))
                 v == Resumed(new, id, r)
      <4>2. /\ ~o.hurt /\ 0 + n <= Len(w) /\ (n = 0 => 0 = Len(w))
            /\ o.st = [st EXCEPT ![s] = v]
            /\ o.entry = Filled(e, SubSeq(w, 0 + 1, 0 + n))
        BY <2>5, <4>1 DEF Block
      <4>3. r \in Seq(Nat) /\ 0 + n \in Nat
        BY <4>2, RestOfSeq
      <4> HIDE DEF r
      <4>4. /\ v.trapped = new.trapped /\ v.inst = new.inst /\ v.tab = new.tab
            /\ v.synced = new.synced
            /\ DOMAIN v.cur = DOMAIN new.cur /\ v.cur[id] = r
            /\ \A x \in DOMAIN new.cur : x # id => v.cur[x] = new.cur[x]
        BY <2>3, <2>4, <4>3, ResumedIs
      <4> HIDE DEF v
      <4>5. store'[s] = v /\ \A u \in DOMAIN store : u # s => store'[u] = store[u]
        BY <2>2, <2>3, <2>5, <4>2
      <4>6. Touched(s, id)
        BY <2>2, <2>3, <2>4, <2>7, <4>4, <4>5 DEF Touched
      <4>7. o.entry \in BlockT
        <5>1. SubSeq(w, 0 + 1, 0 + n) \in Seq(Nat)
          BY <4>2, <4>3, SliceSeq
        <5> QED
          BY <2>6, <4>2, <5>1, FilledIs
      <4>8. ASSUME id \in DOMAIN batch', batch'[id] = o.entry PROVE Ready(c)' /\ BlockByBlock(c)'
        <5>1. store'[s].cur[id] = SubSeq(w, (0 + n) + 1, Len(w))
          BY <4>4, <4>5 DEF r
        <5>2. /\ cursor'[c].id = id /\ cursor'[c].phase = "at" /\ ~cursor'[c].hurt
              /\ cursor'[c].want = w /\ Len(cursor'[c].got) = 0
          BY <2>8, <4>2 DEF Begun
        <5>3. 0 \in Nat
          OBVIOUS
        <5> QED
          <6>1. s \in DOMAIN store /\ cursor[c].id \in DOMAIN store[s].cur
            BY <2>3
          <6>2. Touched(s, cursor[c].id) /\ Prefix(c)' /\ e.eof_seen = FALSE
            BY <2>6, <2>9, <4>6
          <6>3. /\ cursor'[c].id = cursor[c].id /\ cursor'[c].phase = "at" /\ ~cursor'[c].hurt
                /\ cursor'[c].want = w /\ Len(cursor'[c].got) = 0
            BY <5>2
          <6>4. /\ 0 + n <= Len(w) /\ (n = 0 => 0 = Len(w))
                /\ store'[s].cur[cursor[c].id] = SubSeq(w, (0 + n) + 1, Len(w))
            BY <4>2, <5>1
          <6>5. /\ cursor[c].id \in DOMAIN batch'
                /\ batch'[cursor[c].id] = Filled(e, SubSeq(w, 0 + 1, 0 + n))
            BY <4>2, <4>8
          <6>6. BridgeInv /\ c \in Cursors /\ w \in Seq(Nat) /\ n \in Nat /\ 0 \in Nat
            OBVIOUS
          <6> QED
            BY ONLY Zenon, <6>1, <6>2, <6>3, <6>4, <6>5, <6>6, BlockLands
      <4> QED
        BY <4>6, <4>7, <4>8
    <3> QED
      BY <2>7, <3>1, <3>2
  <2>12. /\ id \in DOMAIN batch' /\ batch'[id] = o.entry /\ BatchElsewhere(id)
         /\ DOMAIN batch' \subseteq DOMAIN batch \cup {id}
    <3>1. /\ DOMAIN batch' = DOMAIN batch \cup {id} /\ batch'[id] = o.entry
          /\ \A x \in DOMAIN batch : x # id => batch'[x] = batch[x]
      BY <2>2 DEF Put
    <3> QED
      BY Zenon, <3>1 DEF BatchElsewhere
  <2>13. batch' \in Partial(BlockT)
    BY <1>1, <1>4, <2>2, <2>11, PutType DEF VtabTypes
  <2>14. InstKept /\ InstGrown /\ TabKept /\ CurShrunk /\ CurElsewhere(id)
    BY <1>1, <2>11, TouchedKeeps
  <2>15. store' \in Seq(StoreT) /\ Len(store') = Len(store) /\ faults' \in 0..MaxFaults
    BY <2>2, <2>7
  <2> QED
    BY <1>2, <1>4, <2>9, <2>10, <2>11, <2>12, <2>13, <2>14, <2>15, ScanStep
<1> QED
  BY <1>3, <1>10, <1>11, <1>12

(* A cursor that runs no scan after the step.                               *)
LEMMA RestStep ==
    ASSUME BridgeInv, NEW c \in Cursors, NEW k \in CursorT, cursor' = [cursor EXCEPT ![c] = k],
           k.phase \notin {"at", "row", "read"}, InUse(c)',
           UNCHANGED cursorFrame, registry' \in RegistryT,
           registry'.instances = registry.instances,
           registry'.next_instance = registry.next_instance,
           store' \in Seq(StoreT), Len(store') = Len(store), faults' \in 0..MaxFaults,
           batch' \in Partial(BlockT), InstKept, InstGrown, TabKept,
           CursorIds', \A s \in DOMAIN store' : KnownCursors(s)',
           NEW id, CurElsewhere(id), BatchElsewhere(id),
           \A d \in Cursors : d # c => cursor[d].id # id
    PROVE  BridgeInv'
<1>1. VtabTypes
  BY DEF BridgeInv
<1>2. UNCHANGED <<backing, dynlink, mutating, registered, made, vtab, home, view, txn, part, todo,
                  points, updates>>
  BY DEF cursorFrame, hostVars, schemaVars, txnVars
<1>3. /\ cursor' \in [Cursors -> CursorT] /\ cursor'[c] = k
      /\ \A d \in Cursors : d # c => cursor'[d] = cursor[d]
  BY <1>1, CursorSet
<1>4. VtabTypes'
  BY <1>1, <1>2, <1>3 DEF VtabTypes
<1>5. Ready(c)' /\ RowByRow(c)' /\ BlockByBlock(c)'
  BY <1>3 DEF Ready, RowByRow, BlockByBlock
<1> QED
  BY <1>2, <1>3, <1>4, <1>5, CursorStep

(* What a cursor that is given up, or not begun, leaves of the ids.         *)
LEMMA IdsWithout ==
    ASSUME BridgeInv, NEW c \in Cursors, NEW k \in CursorT, cursor' = [cursor EXCEPT ![c] = k],
           k.id = 0, registry' \in RegistryT,
           registry'.cursors = registry.cursors \ {cursor[c].id},
           registry'.next_cursor \in registry.next_cursor..(MaxCursors + 1),
           DOMAIN batch' \subseteq DOMAIN batch \ {cursor[c].id}
    PROVE  CursorIds'
<1>1. CursorIds /\ VtabTypes
  BY DEF BridgeInv
<1>2. /\ cursor'[c] = k
      /\ \A d \in Cursors : d # c => cursor'[d] = cursor[d]
  BY <1>1, CursorSet
<1>3. \A d \in Cursors : cursor[d].id \in Nat
  BY <1>1 DEF VtabTypes, CursorT
<1>4. registry'.cursors = {cursor'[d].id : d \in Cursors} \ {0}
  <2>1. ASSUME NEW x, x \in registry'.cursors PROVE x \in {cursor'[d].id : d \in Cursors} \ {0}
    <3>1. PICK d \in Cursors : x = cursor[d].id /\ x # 0 /\ x # cursor[c].id
      BY <1>1, <2>1 DEF CursorIds
    <3> QED
      BY <1>2, <3>1
  <2>2. ASSUME NEW x, x \in {cursor'[d].id : d \in Cursors} \ {0} PROVE x \in registry'.cursors
    <3>1. PICK d \in Cursors : x = cursor'[d].id /\ x # 0
      BY <2>2
    <3>2. d # c /\ x = cursor[d].id
      BY <1>2, <3>1
    <3>3. x # cursor[c].id
      BY <1>1, <3>1, <3>2 DEF CursorIds
    <3> QED
      BY <1>1, <3>1, <3>2, <3>3 DEF CursorIds
  <2> QED
    BY <2>1, <2>2
<1>5. /\ registry'.next_cursor \in 1..(MaxCursors + 1)
      /\ registry'.next_cursor >= registry.next_cursor
      /\ registry.next_cursor > 0 /\ registry.next_cursor \in Nat /\ registry'.next_cursor \in Nat
  <2>1. MaxCursors \in Nat
    BY VtabAssumption
  <2>2. registry.next_cursor \in 1..(MaxCursors + 1)
    BY <1>1 DEF CursorIds
  <2> QED
    BY <2>1, <2>2
<1>6. \A d \in Cursors : cursor'[d].id < registry'.next_cursor
  BY <1>1, <1>2, <1>3, <1>5 DEF CursorIds
<1>7. \A d, e \in Cursors : cursor'[d].id # 0 /\ cursor'[d].id = cursor'[e].id => d = e
  BY <1>1, <1>2 DEF CursorIds
<1>8. DOMAIN batch' \subseteq registry'.cursors
  BY <1>1 DEF CursorIds
<1> QED
  BY <1>4, <1>5, <1>6, <1>7, <1>8 DEF CursorIds

(* No store is told of a cursor it did not know.                            *)
LEMMA CursorsKnown ==
    ASSUME BridgeInv, NEW c \in Cursors, NEW k \in CursorT, cursor' = [cursor EXCEPT ![c] = k],
           k.id = 0, home' = home, store' \in Seq(StoreT), CurShrunk, CursorIds',
           registry'.next_cursor \in registry.next_cursor..(MaxCursors + 1)
    PROVE  \A s \in DOMAIN store' : KnownCursors(s)'
<1>1. CursorIds /\ VtabTypes /\ Memories
  BY DEF BridgeInv
<1>2. /\ cursor'[c] = k
      /\ \A d \in Cursors : d # c => cursor'[d] = cursor[d]
  BY <1>1, CursorSet
<1>3. registry.next_cursor \in Nat /\ registry'.next_cursor \in Nat
      /\ registry'.next_cursor >= registry.next_cursor
  <2>1. MaxCursors \in Nat
    BY VtabAssumption
  <2>2. registry.next_cursor \in 1..(MaxCursors + 1)
    BY <1>1 DEF CursorIds
  <2> QED
    BY <2>1, <2>2
<1> SUFFICES ASSUME NEW s \in DOMAIN store' PROVE KnownCursors(s)'
  OBVIOUS
<1>4. \A i \in DOMAIN store'[s].cur : i \in Nat
  <2>1. store'[s] \in StoreT
    OBVIOUS
  <2> QED
    BY <2>1, StoreParts
<1>5. \A d \in Cursors : \/ cursor'[d].id = 0
                         \/ cursor'[d].id = cursor[d].id /\ cursor'[d].tab = cursor[d].tab
  BY <1>2
<1> QED
  BY <1>1, <1>3, <1>4, <1>5, KnownCursorsKept

(* A cursor is planned, or its plan is given up: no id is drawn.            *)
LEMMA PlanStep ==
    ASSUME BridgeInv, NEW c \in Cursors, cursor[c].id = 0, NEW k \in CursorT,
           cursor' = [cursor EXCEPT ![c] = k], k.id = 0, k.phase \in {"idle", "planned"},
           UNCHANGED <<cursorFrame, registry, batch>>,
           store' \in Seq(StoreT), Len(store') = Len(store), faults' \in 0..MaxFaults,
           InstKept, InstGrown, TabKept, CurKept
    PROVE  BridgeInv'
<1> DEFINE id == registry.next_cursor
<1>1. VtabTypes /\ CursorIds
  BY DEF BridgeInv
<1>2. registry' = registry /\ batch' = batch /\ home' = home /\ vtab' = vtab
  BY DEF cursorFrame, schemaVars
<1>3. registry \in RegistryT /\ registry.next_cursor \in registry.next_cursor..(MaxCursors + 1)
      /\ 0 \notin registry.cursors
  <2>1. MaxCursors \in Nat
    BY VtabAssumption
  <2>2. registry.next_cursor \in 1..(MaxCursors + 1)
    BY <1>1 DEF CursorIds
  <2> QED
    BY <1>1, <2>1, <2>2 DEF VtabTypes, CursorIds
<1>4. CursorIds'
  <2>1. /\ registry'.cursors = registry.cursors \ {cursor[c].id}
        /\ DOMAIN batch' \subseteq DOMAIN batch \ {cursor[c].id}
    BY <1>1, <1>2, <1>3 DEF CursorIds
  <2> QED
    BY <1>2, <1>3, <2>1, IdsWithout
<1>5. CurShrunk /\ CurElsewhere(id)
  BY KeptElsewhere, KeptShrinks
<1>6. \A s \in DOMAIN store' : KnownCursors(s)'
  BY <1>2, <1>3, <1>4, <1>5, CursorsKnown
<1>7. InUse(c)'
  <2>1. cursor'[c] = k
    BY <1>1, CursorSet
  <2> QED
    BY <2>1 DEF InUse
<1>8. BatchElsewhere(id) /\ \A d \in Cursors : d # c => cursor[d].id # id
  <2>1. \A d \in Cursors : cursor[d].id < id /\ cursor[d].id \in Nat /\ id \in Nat
    BY <1>1, <1>3 DEF CursorIds, RegistryT, VtabTypes, CursorT
  <2> QED
    BY <1>2, <2>1 DEF BatchElsewhere
<1>9. batch' \in Partial(BlockT) /\ k.phase \notin {"at", "row", "read"}
  BY <1>1, <1>2 DEF VtabTypes
<1>10. /\ UNCHANGED cursorFrame /\ registry' \in RegistryT
       /\ registry'.instances = registry.instances
       /\ registry'.next_instance = registry.next_instance
  BY <1>2, <1>3
<1> HIDE DEF id
<1> QED
  BY Zenon, <1>4, <1>5, <1>6, <1>7, <1>8, <1>9, <1>10, RestStep

LEMMA ForgetStep == ASSUME BridgeInv, NEW c \in Cursors, Forget(c) PROVE BridgeInv'
<1>1. VtabTypes /\ InUse(c)
  BY DEF BridgeInv, Reading
<1>2. /\ cursor[c].phase = "planned" /\ cursor' = [cursor EXCEPT ![c] = NoCursor]
      /\ UNCHANGED <<cursorFrame, store, registry, batch, faults>>
  BY DEF Forget
<1>3. cursor[c].id = 0
  BY <1>1, <1>2 DEF InUse
<1>4. InstKept /\ CurKept /\ InstGrown /\ TabKept
  BY <1>2, SameStores
<1>5. store' \in Seq(StoreT) /\ Len(store') = Len(store) /\ faults' \in 0..MaxFaults
  BY <1>1, <1>2 DEF VtabTypes
<1> QED
  BY <1>2, <1>3, <1>4, <1>5, NoCursorTyped, PlanStep

LEMMA BestIndexStep ==
    ASSUME BridgeInv, NEW c \in Cursors, NEW t \in Tables, x_best_index(c, t) PROVE BridgeInv'
<1> DEFINE s == dispatch_vtab_best_index
           k == [cursor[c] EXCEPT !.phase = "planned", !.tab = t]
<1>1. VtabTypes /\ InUse(c)
  BY DEF BridgeInv, Reading
<1>2. cursor[c].phase = "idle" /\ UNCHANGED <<cursorFrame, registry, batch>>
  BY DEF x_best_index
<1>3. PICK a \in Replies :
          /\ Call(s, vtab[t] \in store[s].inst, a, store[s])
          /\ cursor' = IF a = "ok" THEN [cursor EXCEPT ![c] = k] ELSE cursor
  BY DEF x_best_index
<1>4. s \in 0..Len(store)
  BY <1>1, Dispatched
<1> HIDE DEF s
<1>5. cursor[c] \in CursorT /\ cursor[c].id = 0
  BY <1>1, <1>2 DEF VtabTypes, InUse
<1>6. k \in CursorT /\ k.id = 0 /\ k.phase = "planned"
  BY <1>5 DEF CursorT, Phases
<1> HIDE DEF k
<1>7. Told(s, a, store[s])
  <2>1. s # 0 /\ vtab[t] \in store[s].inst => store[s] \in StoreT
    BY <1>1, <1>4, StoreOf DEF VtabTypes
  <2> QED
    BY <1>1, <1>3, <1>4, <2>1, CallEffect
<1>8. InstKept /\ CurKept /\ InstGrown /\ TabKept
  BY <1>1, <1>7, PlainCall
<1>9. store' \in Seq(StoreT) /\ Len(store') = Len(store) /\ faults' \in 0..MaxFaults
  BY <1>7 DEF Told
<1>10. CASE a = "ok"
  <2>1. cursor' = [cursor EXCEPT ![c] = k]
    BY <1>3, <1>10
  <2> QED
    BY <1>2, <1>5, <1>6, <1>8, <1>9, <2>1, PlanStep
<1>11. CASE a # "ok"
  <2>1. cursor' = [cursor EXCEPT ![c] = cursor[c]]
    BY <1>1, <1>3, <1>11 DEF VtabTypes
  <2> QED
    BY <1>2, <1>5, <1>8, <1>9, <2>1, PlanStep
<1> QED
  BY <1>10, <1>11

(* A cursor is closed, whatever the component answers.                      *)
LEMMA CloseStep == ASSUME BridgeInv, NEW c \in Cursors, x_close(c) PROVE BridgeInv'
<1> DEFINE id == cursor[c].id
           s == dispatch_vtab_close
           new == [store[s] EXCEPT !.cur = Drop(@, id)]
<1>1. VtabTypes /\ CursorIds
  BY DEF BridgeInv
<1>2. /\ id # 0 /\ batch' = Drop(batch, id) /\ registry' = drop_cursor(registry, id)
      /\ cursor' = [cursor EXCEPT ![c] = NoCursor] /\ UNCHANGED cursorFrame
  BY DEF x_close, drop_batch_cache
<1>3. PICK a \in Replies : Call(s, id \in DOMAIN store[s].cur, a, new)
  BY DEF x_close
<1>4. s \in 0..Len(store)
  BY <1>1, Dispatched
<1> HIDE DEF s
<1>5. s # 0 => /\ s \in DOMAIN store /\ new \in StoreT /\ new.trapped = store[s].trapped
               /\ new.inst = store[s].inst /\ new.tab = store[s].tab
               /\ new.synced = store[s].synced /\ new.cur = Drop(store[s].cur, id)
  <2> SUFFICES ASSUME s # 0
               PROVE  /\ s \in DOMAIN store /\ new \in StoreT /\ new.trapped = store[s].trapped
                      /\ new.inst = store[s].inst /\ new.tab = store[s].tab
                      /\ new.synced = store[s].synced /\ new.cur = Drop(store[s].cur, id)
    OBVIOUS
  <2>1. s \in DOMAIN store /\ store[s] \in StoreT
    BY <1>1, <1>4, StoreOf DEF VtabTypes
  <2>2. Drop(store[s].cur, id) \in Partial(Seq(Nat))
    BY <2>1, StoreParts, DropType
  <2> QED
    BY <2>1, <2>2, SetCur
<1> HIDE DEF new
<1>6. Told(s, a, new) /\ (a = "ok" => s # 0)
  <2>1. s # 0 /\ id \in DOMAIN store[s].cur => new \in StoreT
    BY <1>5
  <2>2. a = "ok" => s # 0
    BY <1>3 DEF Call, Answers
  <2> QED
    BY <1>1, <1>3, <1>4, <2>1, <2>2, CallEffect
<1>7. InstKept /\ InstGrown /\ TabKept
  BY <1>1, <1>5, <1>6, CallKeeps
<1>8. CurShrunk /\ CurElsewhere(id)
  <2>1. a = "ok" => /\ DOMAIN new.cur = DOMAIN store[s].cur \ {id}
                    /\ \A i \in DOMAIN store[s].cur \ {id} : new.cur[i] = store[s].cur[i]
    BY <1>5, <1>6 DEF Drop
  <2>2. a = "ok" => new.trapped = store[s].trapped /\ DOMAIN new.cur \subseteq DOMAIN store[s].cur
    BY <1>5, <1>6, <2>1
  <2>3. a = "ok" => \A i \in DOMAIN new.cur : i # id =>
                       i \in DOMAIN store[s].cur /\ new.cur[i] = store[s].cur[i]
    BY <2>1
  <2> QED
    BY <1>1, <1>6, <2>2, <2>3, CallShrinks, CallElsewhere
<1>9. /\ DOMAIN batch' = DOMAIN batch \ {id} /\ BatchElsewhere(id)
      /\ batch' \in Partial(BlockT)
  <2>1. /\ DOMAIN batch' = DOMAIN batch \ {id}
        /\ \A i \in DOMAIN batch \ {id} : batch'[i] = batch[i]
    BY <1>2, DropReads
  <2> QED
    BY <1>1, <1>2, <2>1, DropType DEF VtabTypes, BatchElsewhere
<1>10. /\ registry' \in RegistryT /\ registry'.cursors = registry.cursors \ {id}
       /\ registry'.next_cursor = registry.next_cursor
       /\ registry'.instances = registry.instances
       /\ registry'.next_instance = registry.next_instance
  BY <1>1, <1>2, RegistryDrops DEF VtabTypes
<1>11. registry'.next_cursor \in registry.next_cursor..(MaxCursors + 1)
  <2>1. MaxCursors \in Nat
    BY VtabAssumption
  <2>2. registry.next_cursor \in 1..(MaxCursors + 1)
    BY <1>1 DEF CursorIds
  <2> QED
    BY <1>10, <2>1, <2>2
<1>12. CursorIds'
  BY <1>2, <1>9, <1>10, <1>11, NoCursorTyped, IdsWithout
<1>13. store' \in Seq(StoreT) /\ Len(store') = Len(store) /\ faults' \in 0..MaxFaults
  BY <1>6 DEF Told
<1>14. \A u \in DOMAIN store' : KnownCursors(u)'
  <2>1. home' = home
    BY <1>2 DEF cursorFrame, schemaVars
  <2> QED
    BY <1>2, <1>8, <1>11, <1>12, <1>13, <2>1, NoCursorTyped, CursorsKnown
<1>15. InUse(c)'
  <2>1. cursor'[c] = NoCursor
    BY <1>1, <1>2, NoCursorTyped, CursorSet
  <2> QED
    BY <2>1, NoCursorTyped DEF InUse
<1>16. \A d \in Cursors : d # c => cursor[d].id # id
  BY <1>1, <1>2 DEF CursorIds
<1>17. NoCursor \in CursorT /\ NoCursor.phase \notin {"at", "row", "read"}
  BY NoCursorTyped
<1> QED
  BY <1>2, <1>7, <1>8, <1>9, <1>10, <1>12, <1>13, <1>14, <1>15, <1>16, <1>17, RestStep

(* A cursor is opened in the store that knows its table, or it fails.       *)
LEMMA OpenStep == ASSUME BridgeInv, NEW c \in Cursors, x_open(c) PROVE BridgeInv'
<1> DEFINE id == registry.next_cursor
           t == cursor[c].tab
           s == dispatch_vtab_open
           new == [store[s] EXCEPT !.cur = Put(@, id, <<>>)]
           k == [cursor[c] EXCEPT !.phase = "open", !.id = id]
<1>1. VtabTypes /\ CursorIds /\ TableIds /\ Memories /\ InUse(c)
  BY DEF BridgeInv, Reading
<1>2. /\ cursor[c].phase = "planned" /\ vtab[t] \in registry.instances /\ id <= MaxCursors
      /\ UNCHANGED <<cursorFrame, batch>>
  BY DEF x_open
<1>3. PICK a \in Replies :
        /\ Call(s, vtab[t] \in store[s].inst, a, new)
        /\ registry' = IF a = "ok" THEN alloc_cursor_id(id)
                       ELSE drop_cursor(alloc_cursor_id(id), id)
        /\ cursor' = IF a = "ok" THEN [cursor EXCEPT ![c] = k]
                     ELSE [cursor EXCEPT ![c] = NoCursor]
  BY DEF x_open
<1>4. s \in 0..Len(store)
  BY <1>1, Dispatched
<1> HIDE DEF s
<1>5. /\ id \in Nat /\ id > 0 /\ id # 0 /\ id + 1 \in id..(MaxCursors + 1) /\ id + 1 > id
      /\ id + 1 \in 1..(MaxCursors + 1)
  <2>1. MaxCursors \in Nat
    BY VtabAssumption
  <2>2. registry.next_cursor \in 1..(MaxCursors + 1)
    BY <1>1 DEF CursorIds
  <2> QED
    BY <1>2, <2>1, <2>2
<1>6. cursor[c] \in CursorT /\ cursor[c].id = 0 /\ t \in Tables /\ vtab[t] # 0
  BY <1>1, <1>2 DEF VtabTypes, CursorT, InUse, TableIds
<1>7. k \in CursorT /\ k.id = id /\ k.tab = t /\ k.phase = "open"
  BY <1>5, <1>6 DEF CursorT, Phases
<1> HIDE DEF k
<1>8. s # 0 => /\ s \in DOMAIN store /\ store[s] \in StoreT /\ new \in StoreT
               /\ new.trapped = store[s].trapped
               /\ new.inst = store[s].inst /\ new.tab = store[s].tab
               /\ new.synced = store[s].synced /\ DOMAIN new.cur = DOMAIN store[s].cur \cup {id}
               /\ \A i \in DOMAIN store[s].cur : i # id => new.cur[i] = store[s].cur[i]
  <2> SUFFICES ASSUME s # 0
               PROVE  /\ s \in DOMAIN store /\ store[s] \in StoreT /\ new \in StoreT
                      /\ new.trapped = store[s].trapped
                      /\ new.inst = store[s].inst /\ new.tab = store[s].tab
                      /\ new.synced = store[s].synced /\ DOMAIN new.cur = DOMAIN store[s].cur \cup {id}
                      /\ \A i \in DOMAIN store[s].cur : i # id => new.cur[i] = store[s].cur[i]
    OBVIOUS
  <2>1. s \in DOMAIN store /\ store[s] \in StoreT
    BY <1>1, <1>4, StoreOf DEF VtabTypes
  <2> DEFINE f == Put(store[s].cur, id, <<>>)
  <2>2. f \in Partial(Seq(Nat))
    <3>1. << >> \in Seq(Nat) /\ store[s].cur \in Partial(Seq(Nat))
      BY <2>1, StoreParts
    <3> QED
      BY <1>5, <3>1, PutType
  <2>3. DOMAIN f = DOMAIN store[s].cur \cup {id}
        /\ \A i \in DOMAIN store[s].cur : i # id => f[i] = store[s].cur[i]
    BY DEF Put
  <2> HIDE DEF f
  <2>4. new = [store[s] EXCEPT !.cur = f]
    BY DEF f
  <2>5. LET v == [store[s] EXCEPT !.cur = f] IN
        /\ v \in StoreT /\ v.cur = f /\ v.trapped = store[s].trapped
        /\ v.inst = store[s].inst /\ v.tab = store[s].tab /\ v.synced = store[s].synced
    BY <2>1, <2>2, SetCur
  <2> HIDE DEF new
  <2> QED
    BY <2>1, <2>3, <2>4, <2>5
<1> HIDE DEF new
<1>9. Told(s, a, new) /\ (a = "ok" => s # 0 /\ vtab[t] \in store[s].inst)
  <2>1. s # 0 /\ vtab[t] \in store[s].inst => new \in StoreT
    BY <1>8
  <2>2. a = "ok" => s # 0 /\ vtab[t] \in store[s].inst
    BY <1>3 DEF Call, Answers
  <2> QED
    BY <1>1, <1>3, <1>4, <2>1, <2>2, CallEffect
<1>10. InstKept /\ InstGrown /\ TabKept
  BY <1>1, <1>8, <1>9, CallKeeps
<1>11. CurElsewhere(id)
  <2>1. a = "ok" => \A i \in DOMAIN new.cur : i # id =>
                       i \in DOMAIN store[s].cur /\ new.cur[i] = store[s].cur[i]
    BY <1>8, <1>9
  <2> QED
    BY <1>1, <1>9, <2>1, CallElsewhere
<1>12. BatchElsewhere(id) /\ batch' = batch /\ batch' \in Partial(BlockT)
  BY <1>1, <1>2 DEF BatchElsewhere, VtabTypes
<1>13. \A d \in Cursors : cursor[d].id # id /\ cursor[d].id < id /\ cursor[d].id \in Nat
  BY <1>1, <1>5 DEF CursorIds, VtabTypes, CursorT
<1>14. /\ alloc_cursor_id(id) \in RegistryT
       /\ alloc_cursor_id(id).cursors = registry.cursors \cup {id}
       /\ alloc_cursor_id(id).next_cursor = id + 1
       /\ alloc_cursor_id(id).instances = registry.instances
       /\ alloc_cursor_id(id).next_instance = registry.next_instance
  BY <1>1, <1>5, RegistryAfter
<1>15. store' \in Seq(StoreT) /\ Len(store') = Len(store) /\ faults' \in 0..MaxFaults
       /\ DOMAIN store' = DOMAIN store
  BY <1>1, <1>9 DEF Told, VtabTypes
<1>16. home' = home /\ vtab' = vtab /\ UNCHANGED cursorFrame
  BY <1>2 DEF cursorFrame, schemaVars
<1>17. CASE a = "ok"
  <2>1. /\ cursor' \in [Cursors -> CursorT] /\ cursor'[c] = k
        /\ \A d \in Cursors : d # c => cursor'[d] = cursor[d]
    BY <1>1, <1>3, <1>7, <1>17, CursorSet
  <2>2. registry' = alloc_cursor_id(id)
    BY <1>3, <1>17
  <2>3. CursorIds'
    <3>1. registry'.cursors = {cursor'[d].id : d \in Cursors} \ {0}
      <4>1. ASSUME NEW x, x \in registry'.cursors
            PROVE  x \in {cursor'[d].id : d \in Cursors} \ {0}
        <5>1. CASE x = id
          BY <1>5, <1>7, <2>1, <5>1
        <5>2. CASE x \in registry.cursors
          <6>1. PICK d \in Cursors : x = cursor[d].id /\ x # 0
            BY <1>1, <5>2 DEF CursorIds
          <6>2. d # c
            BY <1>6, <6>1
          <6> QED
            BY <2>1, <6>1, <6>2
        <5> QED
          BY <1>14, <2>2, <4>1, <5>1, <5>2
      <4>2. ASSUME NEW x, x \in {cursor'[d].id : d \in Cursors} \ {0}
            PROVE  x \in registry'.cursors
        <5>1. PICK d \in Cursors : x = cursor'[d].id /\ x # 0
          BY <4>2
        <5>2. CASE d = c
          BY <1>7, <1>14, <2>1, <2>2, <5>1, <5>2
        <5>3. CASE d # c
          BY <1>1, <1>14, <2>1, <2>2, <5>1, <5>3 DEF CursorIds
        <5> QED
          BY <5>2, <5>3
      <4> QED
        BY <4>1, <4>2
    <3>2. \A d \in Cursors : cursor'[d].id < registry'.next_cursor
      BY <1>5, <1>7, <1>13, <1>14, <2>1, <2>2
    <3>3. \A d, e \in Cursors : cursor'[d].id # 0 /\ cursor'[d].id = cursor'[e].id => d = e
      BY <1>1, <1>7, <1>13, <2>1 DEF CursorIds
    <3>4. DOMAIN batch' \subseteq registry'.cursors
      BY <1>1, <1>12, <1>14, <2>2 DEF CursorIds
    <3>5. registry'.next_cursor \in 1..(MaxCursors + 1)
      BY <1>5, <1>14, <2>2
    <3> QED
      BY <3>1, <3>2, <3>3, <3>4, <3>5 DEF CursorIds
  <2>4. ASSUME NEW u \in DOMAIN store' PROVE KnownCursors(u)'
    <3>1. KnownCursors(u) /\ u \in DOMAIN store /\ registry'.next_cursor = id + 1
      BY <1>1, <1>14, <1>15, <2>2 DEF Memories
    <3>2. \A i \in DOMAIN store[u].cur : i \in Nat
      BY <1>1, <3>1, StoreOf, StoreParts
    <3>3. CASE u # s
      <4>1. store'[u] = store[u] \/ (store'[u] = Dead /\ DOMAIN Dead.cur = {})
        BY <1>9, <3>1, <3>3, FreshTyped DEF Told
      <4>2. CASE DOMAIN store'[u].cur = {}
        BY <4>2 DEF KnownCursors
      <4>3. CASE store'[u] = store[u]
        <5>1. \A i \in DOMAIN store[u].cur : 0 < i /\ i < id + 1
          BY <1>5, <3>1, <3>2 DEF KnownCursors
        <5>2. id \notin DOMAIN store[u].cur
          BY <1>5, <3>1 DEF KnownCursors
        <5>3. \A d \in Cursors : cursor'[d].id \in DOMAIN store[u].cur => home[cursor'[d].tab] = u
          BY <1>7, <2>1, <3>1, <5>2 DEF KnownCursors
        <5> QED
          BY <1>16, <3>1, <4>3, <5>1, <5>3 DEF KnownCursors
      <4> QED
        BY <4>1, <4>2, <4>3
    <3>4. CASE u = s
      <4>1. /\ ~store[s].trapped /\ store'[s] = new /\ s # 0 /\ vtab[t] \in store[s].inst
        BY <1>9, <1>17 DEF Told
      <4>2. /\ DOMAIN store'[s].cur = DOMAIN store[s].cur \cup {id} /\ ~store'[s].trapped
        BY <1>8, <4>1
      <4>3. \A i \in DOMAIN store'[s].cur : 0 < i /\ i < id + 1
        BY <1>5, <3>1, <3>2, <3>4, <4>2 DEF KnownCursors
      <4>4. home[t] = s
        BY <1>1, <1>6, <3>1, <3>4, <4>1 DEF Memories, KnownTables
      <4>5. \A d \in Cursors : cursor'[d].id \in DOMAIN store'[s].cur => home[cursor'[d].tab] = s
        BY <1>7, <1>13, <2>1, <3>1, <3>4, <4>2, <4>4 DEF KnownCursors
      <4> QED
        BY <1>16, <3>1, <3>4, <4>2, <4>3, <4>5 DEF KnownCursors
    <3> QED
      BY <3>3, <3>4
  <2>5. InUse(c)'
    BY <1>5, <1>6, <1>7, <1>16, <2>1 DEF InUse
  <2>6. /\ registry' \in RegistryT /\ registry'.instances = registry.instances
        /\ registry'.next_instance = registry.next_instance
    BY <1>14, <2>2
  <2>7. /\ cursor' = [cursor EXCEPT ![c] = k] /\ k.phase \notin {"at", "row", "read"}
        /\ \A d \in Cursors : d # c => cursor[d].id # id
    BY <1>3, <1>7, <1>13, <1>17
  <2> HIDE DEF id
  <2> QED
    BY Zenon, <1>7, <1>10, <1>11, <1>12, <1>15, <1>16, <2>3, <2>4, <2>5, <2>6, <2>7, RestStep
<1>18. CASE a # "ok"
  <2>1. registry' = drop_cursor(alloc_cursor_id(id), id)
    BY <1>3, <1>18
  <2>2. id \notin registry.cursors /\ 0 \notin registry.cursors
    BY <1>1, <1>13 DEF CursorIds
  <2>3. /\ registry' \in RegistryT /\ registry'.instances = registry.instances
        /\ registry'.next_instance = registry.next_instance
        /\ registry'.next_cursor = id + 1 /\ registry'.cursors = registry.cursors \ {0}
    BY <1>14, <2>1, <2>2, RegistryDrops
  <2>4. /\ cursor' = [cursor EXCEPT ![c] = NoCursor] /\ NoCursor \in CursorT /\ NoCursor.id = 0
        /\ NoCursor.phase = "idle"
    BY <1>3, <1>18, NoCursorTyped
  <2>5. CursorIds'
    <3>1. registry'.next_cursor \in registry.next_cursor..(MaxCursors + 1)
      BY <1>5, <2>3
    <3>2. DOMAIN batch' \subseteq DOMAIN batch \ {cursor[c].id}
      BY <1>1, <1>6, <1>12, <2>2 DEF CursorIds
    <3> QED
      BY <1>6, <2>3, <2>4, <3>1, <3>2, IdsWithout
  <2>6. CurShrunk
    <3>1. a = "ok" => new.trapped = store[s].trapped /\ DOMAIN new.cur \subseteq DOMAIN store[s].cur
      BY <1>18
    <3> QED
      BY <1>1, <1>9, <3>1, CallShrinks
  <2>7. \A u \in DOMAIN store' : KnownCursors(u)'
    <3>1. registry'.next_cursor \in registry.next_cursor..(MaxCursors + 1)
      BY <1>5, <2>3
    <3> QED
      BY <1>15, <1>16, <2>4, <2>5, <2>6, <3>1, CursorsKnown
  <2>8. InUse(c)'
    <3>1. cursor'[c] = NoCursor
      BY <1>1, <2>4, CursorSet
    <3> QED
      BY <2>4, <3>1 DEF InUse
  <2>9. /\ NoCursor.phase \notin {"at", "row", "read"}
        /\ \A d \in Cursors : d # c => cursor[d].id # id
    BY <1>13, <2>4
  <2> HIDE DEF id
  <2> QED
    BY Zenon, <1>10, <1>11, <1>12, <1>15, <1>16, <2>3, <2>4, <2>5, <2>7, <2>8, <2>9, RestStep
<1> QED
  BY <1>17, <1>18

-----------------------------------------------------------------------------
(* The invariant holds.                                                     *)
LEMMA BridgeInit == Init => BridgeInv
<1> SUFFICES ASSUME Init PROVE BridgeInv
  OBVIOUS
<1> USE DEF Init
<1>1. /\ MaxInstances \in Nat /\ MaxCursors \in Nat /\ MaxFaults \in Nat /\ MaxUpdates \in Nat
  BY VtabAssumption
<1>2. /\ NoCursor \in CursorT /\ NoCursor.phase = "idle" /\ NoCursor.id = 0
      /\ \A c \in Cursors : cursor[c] = NoCursor
  BY NoCursorTyped
<1>3. /\ \A t \in Tables : vtab[t] = 0 /\ home[t] = 0
      /\ store = <<>> /\ DOMAIN store = {} /\ batch = <<>> /\ DOMAIN batch = {}
  OBVIOUS
<1>4. VtabTypes
  <2>1. /\ backing \in 0..Len(store) /\ dynlink \in 0..Len(store) /\ mutating \in 0..Len(store)
        /\ registered \in BOOLEAN /\ store \in Seq(StoreT)
        /\ faults \in 0..MaxFaults /\ updates \in 0..MaxUpdates
    <3>1. store \in Seq(StoreT) /\ Len(store) = 0 /\ 0 \in 0..0
      BY <1>3
    <3>2. 0 \in 0..MaxFaults /\ 0 \in 0..MaxUpdates
      BY <1>1
    <3>3. backing = 0 /\ dynlink = 0 /\ mutating = 0 /\ registered = FALSE /\ faults = 0 /\ updates = 0
      OBVIOUS
    <3> QED
      BY Zenon, <3>1, <3>2, <3>3
  <2>2. registry \in RegistryT
    BY DEF RegistryT
  <2>3. batch \in Partial(BlockT)
    <3>1. batch \in [{} -> BlockT] /\ {} \in SUBSET Nat
      OBVIOUS
    <3> QED
      BY <3>1 DEF Partial
  <2>4. made \subseteq Tables /\ vtab \in [Tables -> Nat] /\ home \in [Tables -> 0..Len(store)]
    OBVIOUS
  <2>5. view \in [Tables -> ContentT]
    BY FreshTyped
  <2>6. cursor \in [Cursors -> CursorT]
    BY <1>2
  <2> QED
    BY <2>1, <2>2, <2>3, <2>4, <2>5, <2>6 DEF VtabTypes
<1>5. TableIds
  <2>1. registry.instances = {} /\ registry.next_instance = 1
    OBVIOUS
  <2>2. {vtab[t] : t \in Tables} \subseteq {0}
    BY <1>3
  <2> QED
    BY <1>1, <1>3, <2>1, <2>2 DEF TableIds
<1>6. CursorIds
  <2>1. registry.cursors = {} /\ registry.next_cursor = 1
    OBVIOUS
  <2>2. {cursor[c].id : c \in Cursors} \subseteq {0}
    BY <1>2
  <2> QED
    BY <1>1, <1>2, <1>3, <2>1, <2>2 DEF CursorIds
<1>7. Memories /\ Homes
  BY <1>3 DEF Memories, Homes, InHome
<1>8. Reading /\ BlockReady
  BY <1>2 DEF Reading, BlockReady, InUse, RowByRow, BlockByBlock
<1>9. Phased
  BY DEF Phased
<1> QED
  BY <1>4, <1>5, <1>6, <1>7, <1>8, <1>9 DEF BridgeInv

LEMMA BridgeStutter == ASSUME BridgeInv, UNCHANGED vars PROVE BridgeInv'
<1>1. UNCHANGED <<backing, dynlink, mutating, registered, store, registry, batch, made, vtab, home,
                  view, cursor, txn, part, todo, points, updates, faults>>
  BY DEF vars, hostVars, schemaVars, txnVars
<1>2. VtabTypes'
  BY <1>1 DEF BridgeInv, VtabTypes
<1>3. Phased'
  BY <1>1 DEF BridgeInv, Phased
<1> QED
  BY <1>1, <1>2, <1>3, QuietStep

LEMMA BridgeStep == ASSUME BridgeInv, [Next]_vars PROVE BridgeInv'
<1>1. CASE \E k \in Kinds : Load(k)
  BY <1>1, LoadStep
<1>2. CASE Unload
  BY <1>2, UnloadStep
<1>3. ASSUME NEW t \in Tables,
             \/ x_create(t) \/ x_connect(t) \/ x_disconnect(t) \/ x_destroy(t)
             \/ x_begin(t) \/ x_update(t) \/ x_savepoint(t) \/ x_release(t) \/ x_rollback_to(t)
             \/ x_rename(t) \/ x_sync(t) \/ x_commit(t) \/ x_rollback(t)
      PROVE  BridgeInv'
  BY Zenon, <1>3, TableStep, TxnStep, SyncStep
<1>4. CASE EndTxn("sync") \/ EndTxn("undo") \/ Synced \/ Ended
  BY <1>4, PhaseStep
<1>5. ASSUME NEW c \in Cursors, (\E t \in Tables : x_best_index(c, t)) \/ Forget(c) \/ Step(c)
      PROVE  BridgeInv'
  <2>1. CASE \E t \in Tables : x_best_index(c, t)
    BY <2>1, BestIndexStep
  <2>2. CASE Forget(c)
    BY <2>2, ForgetStep
  <2>3. CASE x_open(c)
    BY <2>3, OpenStep
  <2>4. CASE x_filter(c)
    BY <2>4, FilterStep
  <2>5. CASE x_eof(c)
    BY <2>5, BlockEofStep, RowEofStep
  <2>6. CASE x_column(c)
    BY <2>6, BlockColumnStep, RowColumnStep
  <2>7. CASE x_next(c)
    BY <2>7, BlockNextStep, RowNextStep
  <2>8. CASE x_close(c)
    BY <2>8, CloseStep
  <2> QED
    BY <1>5, <2>1, <2>2, <2>3, <2>4, <2>5, <2>6, <2>7, <2>8 DEF Step
<1>6. CASE UNCHANGED vars
  BY <1>6, BridgeStutter
<1> QED
  BY Zenon, <1>1, <1>2, <1>3, <1>4, <1>5, <1>6 DEF Next

(* The state of the bridge stays as BridgeInv says, whatever is loaded,     *)
(* called, refused or trapped.                                              *)
THEOREM BridgeInvariant == Spec => []BridgeInv
<1>1. Init => BridgeInv
  BY BridgeInit
<1>2. BridgeInv /\ [Next]_vars => BridgeInv'
  BY BridgeStep
<1> QED
  BY <1>1, <1>2, PTL DEF Spec

(* The variables of the bridge have their types (TypeOK).                   *)
THEOREM BridgeTypeCorrect == Spec => []TypeOK
<1>1. ASSUME BridgeInv PROVE TypeOK
  <2>1. /\ VtabTypes /\ TableIds /\ CursorIds /\ Memories /\ Reading /\ Phased
        /\ MaxInstances \in Nat /\ MaxCursors \in Nat
    BY <1>1, VtabAssumption DEF BridgeInv
  <2>2. {backing, dynlink, mutating} \subseteq 0..Len(store) /\ registered \in BOOLEAN
        /\ made \subseteq Tables /\ home \in [Tables -> 0..Len(store)]
        /\ faults \in 0..MaxFaults /\ updates \in 0..MaxUpdates
    <3>1. \A x \in {backing, dynlink, mutating} : x \in 0..Len(store)
      BY Zenon, <2>1 DEF VtabTypes
    <3> QED
      BY <2>1, <3>1 DEF VtabTypes
  <2>3. registry.next_instance \in 1..(MaxInstances + 1)
        /\ registry.next_cursor \in 1..(MaxCursors + 1)
    BY <2>1 DEF TableIds, CursorIds
  <2>4. ASSUME NEW s \in DOMAIN store
        PROVE  /\ store[s].trapped \in BOOLEAN /\ store[s].synced \subseteq Tables
               /\ store[s].inst \subseteq 1..MaxInstances /\ DOMAIN store[s].cur \subseteq Ids
    <3>1. store[s] \in StoreT /\ KnownTables(s) /\ KnownCursors(s)
      BY <2>1, StoreOf DEF Memories
    <3>2. /\ store[s].trapped \in BOOLEAN /\ store[s].synced \subseteq Tables
          /\ store[s].inst \subseteq Nat /\ DOMAIN store[s].cur \subseteq Nat
      BY <3>1, StoreParts
    <3>3. ASSUME NEW i \in store[s].inst PROVE i \in 1..MaxInstances
      <4>1. i \in Nat /\ 0 < i /\ i < registry.next_instance
        BY <3>1, <3>2 DEF KnownTables
      <4> QED
        BY <2>1, <2>3, <4>1
    <3>4. ASSUME NEW i \in DOMAIN store[s].cur PROVE i \in Ids
      <4>1. i \in Nat /\ 0 < i /\ i < registry.next_cursor
        BY <3>1, <3>2 DEF KnownCursors
      <4> QED
        BY <2>1, <2>3, <4>1 DEF Ids
    <3> QED
      BY <3>2, <3>3, <3>4
  <2>5. vtab \in [Tables -> 0..MaxInstances]
    <3>1. ASSUME NEW t \in Tables PROVE vtab[t] \in 0..MaxInstances
      <4>1. vtab[t] \in Nat /\ vtab[t] < registry.next_instance
        BY <2>1 DEF VtabTypes, TableIds
      <4> QED
        BY <2>1, <2>3, <4>1
    <3> QED
      BY <2>1, <3>1 DEF VtabTypes
  <2>6. registry.instances \subseteq 1..MaxInstances
    BY <2>1, <2>5 DEF TableIds
  <2>7. registry.cursors \subseteq Ids
    <3>1. ASSUME NEW c \in Cursors, cursor[c].id # 0 PROVE cursor[c].id \in Ids
      <4>1. cursor[c].id \in Nat /\ cursor[c].id < registry.next_cursor
        BY <2>1 DEF VtabTypes, CursorIds, CursorT
      <4> QED
        BY <2>1, <2>3, <3>1, <4>1 DEF Ids
    <3> QED
      BY <2>1, <3>1 DEF CursorIds
  <2>8. \A c \in Cursors : cursor[c].phase \in Phases /\ cursor[c].tab \in Tables
    BY <2>1 DEF VtabTypes, CursorT
  <2> QED
    BY <2>1, <2>2, <2>3, <2>4, <2>5, <2>6, <2>7, <2>8 DEF TypeOK, Phased
<1> QED
  BY <1>1, BridgeInvariant, PTL

(* No id is leaked, shared or lost, and no block that a cursor reads from   *)
(* is missing or empty, on every path on which the component fails          *)
(* (TablesInStep: the registry and batch_cache of vtab.rs).                 *)
THEOREM TablesInStepHolds == Spec => []TablesInStep
<1>1. ASSUME BridgeInv PROVE TablesInStep
  <2>1. NoIdLeaks
    BY <1>1 DEF BridgeInv, NoIdLeaks, TableIds, CursorIds
  <2>2. StoreKnows
    BY <1>1 DEF BridgeInv, StoreKnows, TableIds, CursorIds, Homes, InHome
  <2> QED
    BY <1>1, <2>1, <2>2 DEF BridgeInv, TablesInStep
<1> QED
  BY <1>1, BridgeInvariant, PTL

(* The step from xSync to xCommit is taken only when every table of the     *)
(* transaction was synced, with the rows its writers were told of, by the   *)
(* store that holds it (CommitIsSynced: x_sync and x_commit of vtab.rs).    *)
THEOREM CommitIsSyncedHolds == Spec => CommitIsSynced
<1> DEFINE P == txn = "sync" /\ txn' = "commit" =>
                  \A t \in part :
                     \/ store[home[t]].trapped
                     \/ /\ t \in store[home[t]].synced
                        /\ store[home[t]].tab[t].rows = view[t].rows
<1>1. ASSUME BridgeInv, [Next]_vars PROVE [P]_vars
  <2>1. ASSUME txn = "sync", txn' = "commit" PROVE Synced
    <3>1. CASE \E k \in Kinds : Load(k)
      BY <2>1, <3>1 DEF Load, txnVars
    <3>2. CASE Unload
      BY <2>1, <3>2 DEF Unload, txnVars
    <3>3. ASSUME NEW t \in Tables,
                 x_create(t) \/ x_connect(t) \/ x_disconnect(t) \/ x_destroy(t)
          PROVE  FALSE
      BY <2>1, <3>3 DEF x_create, x_connect, x_disconnect, x_destroy, create_or_connect, Release,
                        txnVars
    <3>4. ASSUME NEW t \in Tables, x_begin(t) PROVE FALSE
      BY <2>1, <3>4 DEF x_begin
    <3>5. ASSUME NEW t \in Tables,
                 x_update(t) \/ x_savepoint(t) \/ x_release(t) \/ x_rollback_to(t)
          PROVE  FALSE
      BY <2>1, <3>5 DEF x_update, x_savepoint, x_release, x_rollback_to
    <3>6. ASSUME NEW t \in Tables, x_rename(t) PROVE FALSE
      BY <2>1, <3>6 DEF x_rename, txnVars
    <3>7. ASSUME NEW t \in Tables, x_sync(t) PROVE FALSE
      BY <2>1, <3>7 DEF x_sync
    <3>8. ASSUME NEW t \in Tables, x_commit(t) \/ x_rollback(t) PROVE FALSE
      BY <2>1, <3>8 DEF x_commit, x_rollback
    <3>9. CASE EndTxn("sync") \/ EndTxn("undo") \/ Ended
      BY <2>1, <3>9 DEF EndTxn, Ended
    <3>10. ASSUME NEW c \in Cursors, (\E t \in Tables : x_best_index(c, t)) \/ Forget(c) \/ Step(c)
           PROVE  FALSE
      <4>1. UNCHANGED txnVars
        BY Zenon, <3>10 DEF Step, x_best_index, Forget, x_open, x_filter, x_eof, x_column, x_next,
                     x_close, cursorFrame
      <4> QED
        BY <2>1, <4>1 DEF txnVars
    <3>11. CASE UNCHANGED vars
      BY <2>1, <3>11 DEF vars, txnVars
    <3> QED
      BY Zenon, <1>1, <3>1, <3>2, <3>3, <3>4, <3>5, <3>6, <3>7, <3>8, <3>9, <3>10, <3>11 DEF Next
  <2>2. ASSUME Synced, NEW t \in part
        PROVE  \/ store[home[t]].trapped
               \/ /\ t \in store[home[t]].synced
                  /\ store[home[t]].tab[t].rows = view[t].rows
    BY <1>1, <2>2 DEF BridgeInv, Synced, Phased, Homes, InHome
  <2> QED
    BY <2>1, <2>2
<1>2. BridgeInv /\ [Next]_vars => [P]_vars
  BY <1>1
<1> QED
  BY <1>2, BridgeInvariant, PTL DEF Spec, CommitIsSynced

-----------------------------------------------------------------------------
(* Every step is a step of VtabScan, or changes nothing it speaks of.       *)
Running == {"at", "row", "read", "done"}
ScanT == [on : BOOLEAN, over : BOOLEAN, want : Seq(Nat), got : Seq(Nat), hurt : BOOLEAN]

LEMMA ScanTyped ==
    ASSUME NEW k \in CursorT
    PROVE  /\ ScanOf(k) \in ScanT
           /\ k.phase \in Running =>
                 LET x == ScanOf(k) IN
                 /\ x.on /\ (x.over <=> k.phase = "done") /\ x.want = k.want
                 /\ x.got = k.got /\ (x.hurt <=> k.hurt)
<1>1. CASE k.phase \in Running
  BY <1>1 DEF ScanOf, Running, CursorT, ScanT
<1>2. CASE k.phase \notin Running
  BY <1>2 DEF ScanOf, Running, ScanT
<1> QED
  BY <1>1, <1>2

LEMMA ScansAfter ==
    ASSUME NEW c \in Cursors, \A d \in Cursors : d # c => cursor'[d] = cursor[d],
           NEW x, ScanOf(cursor'[c]) = x
    PROVE  Scans' = [Scans EXCEPT ![c] = x] /\ Scans[c] = ScanOf(cursor[c])
BY DEF Scans

LEMMA SameScans ==
    ASSUME NEW c \in Cursors, \A d \in Cursors : d # c => cursor'[d] = cursor[d],
           ScanOf(cursor'[c]) = ScanOf(cursor[c])
    PROVE  Scans' = Scans
BY DEF Scans

LEMMA ScanStops ==
    ASSUME NEW c \in Cursors, \A d \in Cursors : d # c => cursor'[d] = cursor[d],
           cursor'[c].phase \notin Running, TableRows' = TableRows
    PROVE  Scan!ScanNext
<1>1. ScanOf(cursor'[c]) = Scan!NoScan
  BY DEF ScanOf, Scan!NoScan, Running
<1>2. Scan!Stop(c)
  BY <1>1, ScansAfter DEF Scan!Stop
<1> QED
  BY <1>2 DEF Scan!ScanNext

LEMMA ScanStarts ==
    ASSUME VtabTypes, NEW c \in Cursors, NEW h \in BOOLEAN,
           Begun(c, view[cursor[c].tab].rows, h), TableRows' = TableRows
    PROVE  Scan!ScanNext
<1> DEFINE t == cursor[c].tab
           y == [on |-> TRUE, over |-> FALSE, want |-> TableRows[t], got |-> <<>>, hurt |-> h]
<1>1. t \in Tables /\ cursor'[c] \in CursorT
  BY DEF VtabTypes, CursorT, Begun
<1>2. TableRows[t] = view[t].rows /\ view[t].rows \in Seq(Nat)
  BY <1>1 DEF TableRows, VtabTypes, ContentT
<1>3. ScanOf(cursor'[c]) = y
  <2>1. y \in ScanT /\ y.on = TRUE /\ y.over = FALSE /\ y.want = view[t].rows /\ y.got = <<>>
        /\ y.hurt = h
    BY <1>2 DEF ScanT
  <2> HIDE DEF y
  <2>2. LET x == ScanOf(cursor'[c]) IN
        /\ x \in ScanT /\ x.on /\ ~x.over /\ x.want = view[t].rows
        /\ x.got = <<>> /\ (x.hurt <=> h)
    BY <1>1, ScanTyped DEF Begun, Running
  <2> QED
    BY <2>1, <2>2 DEF ScanT
<1>4. \A d \in Cursors : d # c => cursor'[d] = cursor[d]
  BY DEF Begun
<1>5. Scans' = [Scans EXCEPT ![c] = y]
  BY <1>3, <1>4, ScansAfter
<1>6. Scan!Start(c)
  BY <1>1, <1>5 DEF Scan!Start
<1> QED
  BY <1>6 DEF Scan!ScanNext

LEMMA ScanDelivers ==
    ASSUME VtabTypes, NEW c \in Cursors, cursor[c].phase = "row",
           NEW n, n = Len(cursor[c].got) + 1, n <= Len(cursor[c].want),
           Moved(c, "read", Append(cursor[c].got, cursor[c].want[n]), cursor[c].hurt),
           TableRows' = TableRows
    PROVE  Scan!ScanNext
<1> DEFINE x == ScanOf(cursor[c])
           y == ScanOf(cursor'[c])
           g == Append(cursor[c].got, cursor[c].want[n])
<1>1. /\ x \in ScanT /\ x.on /\ ~x.over /\ x.want = cursor[c].want /\ x.got = cursor[c].got
      /\ (x.hurt <=> cursor[c].hurt)
  BY ScanTyped DEF VtabTypes, Running
<1>2. cursor'[c] \in CursorT
  BY DEF Moved
<1>3. /\ y \in ScanT /\ y.on /\ ~y.over /\ y.want = cursor[c].want /\ y.got = g
      /\ (y.hurt <=> cursor[c].hurt)
  BY <1>2, ScanTyped DEF Moved, Running
<1>4. Scans' = [Scans EXCEPT ![c] = y] /\ Scans[c] = x
  BY ScansAfter DEF Moved
<1> HIDE DEF x, y
<1>5. y = [x EXCEPT !.got = Append(x.got, x.want[n])]
  BY <1>1, <1>3 DEF ScanT
<1>6. Scans' = [Scans EXCEPT ![c].got = Append(@, Scans[c].want[n])]
  BY <1>4, <1>5
<1>7. Scan!Deliver(c)
  BY <1>1, <1>4, <1>6 DEF Scan!Deliver
<1> QED
  BY <1>7 DEF Scan!ScanNext

LEMMA ScanHurts ==
    ASSUME VtabTypes, NEW c \in Cursors, cursor[c].phase = "read",
           Moved(c, "at", cursor[c].got, TRUE), TableRows' = TableRows
    PROVE  Scan!ScanNext
<1> DEFINE x == ScanOf(cursor[c])
           y == ScanOf(cursor'[c])
<1>1. /\ x \in ScanT /\ x.on /\ ~x.over /\ x.want = cursor[c].want /\ x.got = cursor[c].got
  BY ScanTyped DEF VtabTypes, Running
<1>2. cursor'[c] \in CursorT
  BY DEF Moved
<1>3. /\ y \in ScanT /\ y.on /\ ~y.over /\ y.want = cursor[c].want /\ y.got = cursor[c].got
      /\ y.hurt
  BY <1>2, ScanTyped DEF Moved, Running
<1>4. Scans' = [Scans EXCEPT ![c] = y] /\ Scans[c] = x
  BY ScansAfter DEF Moved
<1> HIDE DEF x, y
<1>5. y = [x EXCEPT !.hurt = TRUE]
  BY <1>1, <1>3 DEF ScanT
<1>6. Scan!Hurt(c)
  BY <1>1, <1>4, <1>5 DEF Scan!Hurt
<1> QED
  BY <1>6 DEF Scan!ScanNext

LEMMA ScanFinishes ==
    ASSUME VtabTypes, NEW c \in Cursors, cursor[c].phase = "at", NEW h \in BOOLEAN,
           Moved(c, "done", cursor[c].got, h), EndsWhole(c), TableRows' = TableRows
    PROVE  Scan!ScanNext
<1> DEFINE x == ScanOf(cursor[c])
           y == ScanOf(cursor'[c])
<1>1. /\ x \in ScanT /\ x.on /\ ~x.over /\ x.want = cursor[c].want /\ x.got = cursor[c].got
  BY ScanTyped DEF VtabTypes, Running
<1>2. cursor'[c] \in CursorT
  BY DEF Moved
<1>3. /\ y \in ScanT /\ y.on /\ y.over /\ y.want = cursor[c].want /\ y.got = cursor[c].got
      /\ (y.hurt <=> h)
  BY <1>2, ScanTyped DEF Moved, Running
<1>4. Scans' = [Scans EXCEPT ![c] = y] /\ Scans[c] = x
  BY ScansAfter DEF Moved
<1> HIDE DEF x, y
<1>5. y = [x EXCEPT !.over = TRUE, !.hurt = h]
  BY <1>1, <1>3 DEF ScanT
<1>6. ~h => cursor[c].got = cursor[c].want
  <2> SUFFICES ASSUME ~h PROVE cursor[c].got = cursor[c].want
    OBVIOUS
  <2>1. Prefix(c) /\ Len(cursor[c].got) = Len(cursor[c].want)
    BY DEF EndsWhole, Moved
  <2>2. PICK g \in Seq(Nat), w \in Seq(Nat) : g = cursor[c].got /\ w = cursor[c].want
    BY DEF VtabTypes, CursorT
  <2>3. Len(g) = Len(w) /\ \A i \in 1..Len(g) : g[i] = w[i]
    BY <2>1, <2>2 DEF Prefix
  <2>4. g \in Seq(Nat) /\ w \in Seq(Nat)
    OBVIOUS
  <2>5. g = w
    BY ONLY <2>3, <2>4, SeqEqual
  <2> QED
    BY <2>2, <2>5
<1>7. Scans' = [Scans EXCEPT ![c].over = TRUE, ![c].hurt = h]
  BY <1>4, <1>5
<1>8. Scans[c].on /\ ~Scans[c].over /\ (Scans[c].got = Scans[c].want \/ h)
  BY <1>1, <1>4, <1>6
<1>9. Scan!Finish(c)
  BY <1>7, <1>8 DEF Scan!Finish
<1> QED
  BY <1>9 DEF Scan!ScanNext

(* The steps of a cursor.                                                   *)
ScanMoves == Scan!ScanNext \/ UNCHANGED Scan!scanVars

LEMMA SeenBySteps ==
    ASSUME view' = view PROVE TableRows' = TableRows
BY DEF TableRows

LEMMA QuietMaps == ASSUME view' = view, cursor' = cursor PROVE ScanMoves
BY DEF ScanMoves, Scan!scanVars, TableRows, Scans

LEMMA WriteMaps == ASSUME VtabTypes', cursor' = cursor PROVE ScanMoves
<1>1. TableRows' \in [Tables -> Seq(Nat)]
  BY DEF VtabTypes, ContentT, TableRows
<1>2. Scans' = Scans
  BY DEF Scans
<1> QED
  BY <1>1, <1>2 DEF ScanMoves, Scan!ScanNext, Scan!Write

LEMMA StopMaps ==
    ASSUME VtabTypes, view' = view, NEW c \in Cursors, NEW k, k.phase \notin Running,
           cursor' = [cursor EXCEPT ![c] = k]
    PROVE  ScanMoves
<1>1. cursor'[c] = k /\ \A d \in Cursors : d # c => cursor'[d] = cursor[d]
  BY DEF VtabTypes
<1> QED
  BY <1>1, ScanStops, SeenBySteps DEF ScanMoves

LEMMA PlanMaps ==
    ASSUME VtabTypes, NEW c \in Cursors,
           Forget(c) \/ x_open(c) \/ x_close(c) \/ \E t \in Tables : x_best_index(c, t)
    PROVE  ScanMoves
<1>1. view' = view
  BY DEF Forget, x_open, x_close, x_best_index, cursorFrame
<1>2. NoCursor.phase \notin Running /\ cursor[c] \in CursorT
  BY NoCursorTyped DEF Running, VtabTypes
<1>3. CASE Forget(c) \/ x_close(c)
  BY <1>1, <1>2, <1>3, StopMaps DEF Forget, x_close
<1>4. CASE x_open(c)
  <2>1. [cursor[c] EXCEPT !.phase = "open", !.id = registry.next_cursor].phase \notin Running
    BY <1>2 DEF CursorT, Running
  <2>2. \/ cursor' = [cursor EXCEPT ![c] =
                         [cursor[c] EXCEPT !.phase = "open", !.id = registry.next_cursor]]
        \/ cursor' = [cursor EXCEPT ![c] = NoCursor]
    BY <1>4 DEF x_open
  <2> QED
    BY <1>1, <1>2, <2>1, <2>2, StopMaps
<1>5. CASE \E t \in Tables : x_best_index(c, t)
  <2>1. PICK t \in Tables : x_best_index(c, t)
    BY <1>5
  <2>2. [cursor[c] EXCEPT !.phase = "planned", !.tab = t].phase \notin Running
    BY <1>2 DEF CursorT, Running
  <2>3. \/ cursor' = [cursor EXCEPT ![c] = [cursor[c] EXCEPT !.phase = "planned", !.tab = t]]
        \/ cursor' = cursor
    BY <2>1 DEF x_best_index
  <2> QED
    BY <1>1, <2>2, <2>3, StopMaps, QuietMaps
<1> QED
  BY <1>3, <1>4, <1>5

LEMMA FailMaps ==
    ASSUME VtabTypes, view' = view, NEW c \in Cursors, cursor' = [cursor EXCEPT ![c].phase = "failed"]
    PROVE  ScanMoves
<1>1. Moved(c, "failed", cursor[c].got, cursor[c].hurt)
  BY PhaseSet DEF Phases
<1> QED
  BY <1>1, ScanStops, SeenBySteps DEF ScanMoves, Moved, Running

LEMMA FilterMaps ==
    ASSUME BridgeInv, NEW c \in Cursors, x_filter(c) PROVE ScanMoves
<1> DEFINE t == cursor[c].tab
           w == view[t].rows
           k == [cursor[c] EXCEPT !.phase = "at", !.want = w, !.got = <<>>, !.hurt = FALSE]
<1>1. VtabTypes /\ view' = view
  BY DEF BridgeInv, x_filter, cursorFrame
<1>2. w \in Seq(Nat)
  BY <1>1 DEF VtabTypes, CursorT, ContentT
<1>3. \/ cursor' = [cursor EXCEPT ![c].phase = "failed"]
      \/ cursor' = [cursor EXCEPT ![c] = k]
      \/ \E a \in Answers(store, dispatch_vtab_filter, dispatch_vtab_filter # 0
                              /\ cursor[c].id \in DOMAIN store[dispatch_vtab_filter].cur) :
            LET st == Heard(store, dispatch_vtab_filter, a,
                            [store[dispatch_vtab_filter] EXCEPT !.cur[cursor[c].id] =
                                store[dispatch_vtab_filter].tab[t].rows]) IN
            \E o \in refill_batch(st, cursor[c].id, Reset(cursor[c].id)) :
                cursor' = [cursor EXCEPT ![c] = [k EXCEPT !.hurt = o.hurt]]
  BY DEF x_filter
<1> HIDE DEF k
<1>4. CASE cursor' = [cursor EXCEPT ![c].phase = "failed"]
  BY <1>1, <1>4, FailMaps
<1>5. CASE cursor' = [cursor EXCEPT ![c] = k]
  <2>1. Begun(c, w, FALSE)
    BY <1>1, <1>2, <1>5, BegunIs DEF k
  <2> QED
    BY <1>1, <2>1, ScanStarts, SeenBySteps DEF ScanMoves
<1>6. ASSUME NEW h \in BOOLEAN, cursor' = [cursor EXCEPT ![c] = [k EXCEPT !.hurt = h]]
      PROVE  ScanMoves
  <2>1. Begun(c, w, h)
    BY <1>1, <1>2, <1>6, BegunIs DEF k
  <2> QED
    BY <1>1, <2>1, ScanStarts, SeenBySteps DEF ScanMoves
<1>7. ASSUME NEW st, NEW id, NEW e, NEW o \in refill_batch(st, id, e) PROVE o.hurt \in BOOLEAN
  <2>1. \E x, y, z, h : o = [st |-> x, entry |-> y, hurt |-> h, cost |-> z] /\ h \in BOOLEAN
    BY Zenon, <1>7 DEF refill_batch
  <2> QED
    BY <2>1
<1> QED
  BY <1>3, <1>4, <1>5, <1>6, <1>7

LEMMA EofMaps == ASSUME BridgeInv, NEW c \in Cursors, x_eof(c) PROVE ScanMoves
<1>1. /\ VtabTypes /\ view' = view /\ cursor[c].phase = "at" /\ EndsWhole(c)
      /\ TableRows' = TableRows
  <2>1. EndsWhole(c)
    BY BlockEofStep, RowEofStep
  <2> QED
    BY <2>1, SeenBySteps DEF BridgeInv, x_eof, cursorFrame
<1>2. PICK eof \in BOOLEAN, h \in BOOLEAN :
         /\ cursor' = [cursor EXCEPT ![c].phase = IF eof THEN "done" ELSE "row", ![c].hurt = @ \/ h]
         /\ ~eof => ~h
  <2>1. CASE Module[cursor[c].tab].batched
    <3> DEFINE e == \/ cursor[c].id \notin DOMAIN batch
                    \/ batch[cursor[c].id].idx >= Len(batch[cursor[c].id].rows)
                       /\ batch[cursor[c].id].eof_seen
    <3>1. cursor' = [cursor EXCEPT ![c].phase = IF e THEN "done" ELSE "row", ![c].hurt = @ \/ FALSE]
      BY <2>1 DEF x_eof
    <3> HIDE DEF e
    <3>2. CASE e
      <4>1. cursor' = [cursor EXCEPT ![c].phase = IF TRUE THEN "done" ELSE "row", ![c].hurt = @ \/ FALSE]
        BY <3>1, <3>2
      <4> QED
        BY <4>1
    <3>3. CASE ~e
      <4>1. cursor' = [cursor EXCEPT ![c].phase = IF FALSE THEN "done" ELSE "row", ![c].hurt = @ \/ FALSE]
        BY <3>1, <3>3
      <4> QED
        BY <4>1
    <3> QED
      BY <3>2, <3>3
  <2>2. CASE ~Module[cursor[c].tab].batched
    <3>1. PICK a \in Replies :
            cursor' = [cursor EXCEPT
                ![c].phase = IF a # "ok" \/ store[dispatch_vtab_next].cur[cursor[c].id] = <<>>
                             THEN "done" ELSE "row",
                ![c].hurt = @ \/ a # "ok"]
      BY <2>2 DEF x_eof
    <3> DEFINE e == a # "ok" \/ store[dispatch_vtab_next].cur[cursor[c].id] = <<>>
               h == a # "ok"
    <3>2. ~e => ~h
      OBVIOUS
    <3>3. cursor' = [cursor EXCEPT ![c].phase = IF e THEN "done" ELSE "row", ![c].hurt = @ \/ h]
      BY <3>1
    <3>4. e \in BOOLEAN /\ h \in BOOLEAN
      OBVIOUS
    <3> HIDE DEF e, h
    <3> QED
      BY <3>2, <3>3, <3>4
  <2> QED
    BY <2>1, <2>2
<1> DEFINE p == IF eof THEN "done" ELSE "row"
           v == cursor[c].hurt \/ h
<1>3. p \in Phases
  BY DEF Phases
<1>4. Moved(c, p, cursor[c].got, v)
  BY <1>1, <1>2, <1>3, PhaseHurtSet
<1>5. CASE eof
  <2>1. v \in BOOLEAN /\ p = "done"
    BY <1>5
  <2> HIDE DEF v, p
  <2>2. Scan!ScanNext
    BY <1>1, <1>4, <2>1, ScanFinishes
  <2> QED
    BY <2>2 DEF ScanMoves
<1>6. CASE ~eof
  <2>1. p = "row" /\ (v <=> cursor[c].hurt)
    BY <1>2, <1>6
  <2> HIDE DEF v, p
  <2>2. /\ cursor[c] \in CursorT /\ cursor'[c] \in CursorT /\ cursor'[c].phase = "row"
        /\ cursor'[c].want = cursor[c].want /\ cursor'[c].got = cursor[c].got
        /\ (cursor'[c].hurt <=> cursor[c].hurt)
        /\ \A d \in Cursors : d # c => cursor'[d] = cursor[d]
    BY <1>1, <1>4, <2>1 DEF Moved, VtabTypes
  <2>3. ScanOf(cursor'[c]) = ScanOf(cursor[c])
    <3>1. LET x == ScanOf(cursor[c]) IN
          /\ x \in ScanT /\ x.on /\ ~x.over /\ x.want = cursor[c].want
          /\ x.got = cursor[c].got /\ (x.hurt <=> cursor[c].hurt)
      BY <1>1, <2>2, ScanTyped DEF Running
    <3>2. LET y == ScanOf(cursor'[c]) IN
          /\ y \in ScanT /\ y.on /\ ~y.over /\ y.want = cursor[c].want
          /\ y.got = cursor[c].got /\ (y.hurt <=> cursor[c].hurt)
      BY <2>2, ScanTyped DEF Running
    <3> QED
      BY <3>1, <3>2 DEF ScanT
  <2>4. Scans' = Scans
    BY <2>2, <2>3, SameScans
  <2> QED
    BY <1>1, <2>4 DEF ScanMoves, Scan!scanVars
<1> QED
  BY <1>5, <1>6

LEMMA ColumnMaps == ASSUME BridgeInv, BridgeInv', NEW c \in Cursors, x_column(c) PROVE ScanMoves
<1>1. /\ VtabTypes /\ view' = view /\ cursor[c].phase = "row" /\ TableRows' = TableRows
  BY SeenBySteps DEF BridgeInv, x_column, cursorFrame
<1>2. PICK v : \/ cursor' = [cursor EXCEPT ![c].phase = "failed"]
               \/ cursor' = [cursor EXCEPT ![c].phase = "read", ![c].got = Given(cursor[c], v)]
  BY DEF x_column
<1>3. CASE cursor' = [cursor EXCEPT ![c].phase = "failed"]
  BY <1>1, <1>3, FailMaps
<1>4. CASE cursor' = [cursor EXCEPT ![c].phase = "read", ![c].got = Given(cursor[c], v)]
  <2> DEFINE k == [cursor[c] EXCEPT !.phase = "read", !.got = Given(cursor[c], v)]
  <2>1. cursor[c] \in CursorT /\ cursor'[c] \in CursorT /\ cursor'[c] = k
        /\ \A d \in Cursors : d # c => cursor'[d] = cursor[d]
    BY <1>1, <1>4 DEF BridgeInv, VtabTypes
  <2>2. /\ k.phase = "read" /\ k.got = Given(cursor[c], v) /\ k.want = cursor[c].want
        /\ k.id = cursor[c].id /\ k.tab = cursor[c].tab /\ k.hurt = cursor[c].hurt
    BY <2>1 DEF CursorT
  <2> HIDE DEF k
  <2>3. PICK w \in Seq(Nat), g \in Seq(Nat), h \in Seq(Nat) :
            w = cursor[c].want /\ g = cursor[c].got /\ h = cursor'[c].got
    BY <2>1 DEF CursorT
  <2>4. Prefix(c) /\ Prefix(c)'
    <3>1. RowByRow(c) /\ BlockByBlock(c) /\ RowByRow(c)' /\ BlockByBlock(c)'
      BY DEF BridgeInv, Reading
    <3>2. Prefix(c)
      BY <1>1, <3>1 DEF RowByRow, BlockByBlock
    <3>3. Prefix(c)'
      BY <2>1, <2>2, <3>1 DEF RowByRow, BlockByBlock
    <3> QED
      BY <3>2, <3>3
  <2>5. Len(g) <= Len(w) /\ Len(h) <= Len(w) /\ \A i \in 1..Len(h) : h[i] = w[i]
    BY <2>1, <2>2, <2>3, <2>4 DEF Prefix
  <2>6. h = Append(g, v)
    <3>1. ~(Len(g) > Len(w))
      BY <2>5
    <3> QED
      BY <2>1, <2>2, <2>3, <3>1 DEF Given
  <2>7. PICK n \in Nat : n = Len(g) + 1
    OBVIOUS
  <2>8. Len(h) = n /\ h[n] = v
    BY <2>6, <2>7, AppendProperties
  <2>9. n <= Len(w) /\ v = w[n]
    BY <2>5, <2>7, <2>8
  <2>10. Moved(c, "read", Append(cursor[c].got, cursor[c].want[n]), cursor[c].hurt)
    <3>1. k.got = Append(cursor[c].got, cursor[c].want[n])
      BY <2>1, <2>3, <2>6, <2>9
    <3>2. cursor' \in [Cursors -> CursorT]
      BY DEF BridgeInv, VtabTypes
    <3> QED
      BY <2>1, <2>2, <3>1, <3>2 DEF Moved
  <2> QED
    BY <1>1, <2>3, <2>7, <2>9, <2>10, ScanDelivers DEF ScanMoves
<1> QED
  BY <1>2, <1>3, <1>4

LEMMA NextMaps == ASSUME BridgeInv, NEW c \in Cursors, x_next(c) PROVE ScanMoves
<1>1. /\ VtabTypes /\ view' = view /\ cursor[c].phase = "read" /\ TableRows' = TableRows
  BY SeenBySteps DEF BridgeInv, x_next, cursorFrame
<1>2. PICK h \in BOOLEAN :
         \/ cursor' = [cursor EXCEPT ![c].phase = "failed"]
         \/ cursor' = [cursor EXCEPT ![c].phase = "at"]
         \/ cursor' = [cursor EXCEPT ![c].phase = "at", ![c].hurt = @ \/ h]
  <2>1. CASE Module[cursor[c].tab].batched
    <3> DEFINE id == cursor[c].id
               e == Advance(batch[id])
               plain == [st |-> store, entry |-> e, hurt |-> FALSE, cost |-> 0]
               dry == e.idx >= Len(e.rows) /\ ~e.eof_seen
    <3>1. PICK o \in IF dry THEN refill_batch(store, id, e) ELSE {plain} :
             cursor' = [cursor EXCEPT ![c].phase = "at", ![c].hurt = @ \/ o.hurt]
      BY <2>1 DEF x_next
    <3>2. CASE o \in refill_batch(store, id, e)
      <4>1. \E x, y, z, h : o = [st |-> x, entry |-> y, hurt |-> h, cost |-> z] /\ h \in BOOLEAN
        BY Zenon, <3>2 DEF refill_batch
      <4>2. o.hurt \in BOOLEAN
        BY <4>1
      <4> QED
        BY <3>1, <4>2
    <3>3. CASE o = plain
      BY <3>1, <3>3
    <3> QED
      BY <3>2, <3>3
  <2>2. CASE ~Module[cursor[c].tab].batched
    <3>1. PICK a \in Replies : cursor' = [cursor EXCEPT ![c].phase = IF a = "ok" THEN "at" ELSE "failed"]
      BY <2>2 DEF x_next
    <3>2. CASE a = "ok"
      BY <3>1, <3>2
    <3>3. CASE a # "ok"
      BY <3>1, <3>3
    <3> QED
      BY <3>2, <3>3
  <2> QED
    BY <2>1, <2>2
<1>3. CASE cursor' = [cursor EXCEPT ![c].phase = "failed"]
  BY <1>1, <1>3, FailMaps
<1>4. ASSUME Moved(c, "at", cursor[c].got, TRUE) PROVE ScanMoves
  BY <1>1, <1>4, ScanHurts DEF ScanMoves
<1>5. ASSUME NEW v, v <=> cursor[c].hurt, Moved(c, "at", cursor[c].got, v) PROVE ScanMoves
  <2>1. /\ cursor[c] \in CursorT /\ cursor'[c] \in CursorT /\ cursor'[c].phase = "at"
        /\ cursor'[c].want = cursor[c].want /\ cursor'[c].got = cursor[c].got
        /\ (cursor'[c].hurt <=> cursor[c].hurt)
        /\ \A d \in Cursors : d # c => cursor'[d] = cursor[d]
    BY <1>1, <1>5 DEF Moved, VtabTypes
  <2>2. ScanOf(cursor'[c]) = ScanOf(cursor[c])
    <3>1. LET x == ScanOf(cursor[c]) IN
          /\ x \in ScanT /\ x.on /\ ~x.over /\ x.want = cursor[c].want
          /\ x.got = cursor[c].got /\ (x.hurt <=> cursor[c].hurt)
      BY <1>1, <2>1, ScanTyped DEF Running
    <3>2. LET y == ScanOf(cursor'[c]) IN
          /\ y \in ScanT /\ y.on /\ ~y.over /\ y.want = cursor[c].want
          /\ y.got = cursor[c].got /\ (y.hurt <=> cursor[c].hurt)
      BY <2>1, ScanTyped DEF Running
    <3> QED
      BY <3>1, <3>2 DEF ScanT
  <2>3. Scans' = Scans
    BY <2>1, <2>2, SameScans
  <2> QED
    BY <1>1, <2>3 DEF ScanMoves, Scan!scanVars
<1>6. "at" \in Phases /\ cursor[c].hurt \in BOOLEAN
  BY <1>1 DEF Phases, VtabTypes, CursorT
<1>7. CASE cursor' = [cursor EXCEPT ![c].phase = "at"]
  <2>1. Moved(c, "at", cursor[c].got, cursor[c].hurt)
    BY <1>1, <1>6, <1>7, PhaseSet
  <2> QED
    BY <1>5, <2>1
<1>8. CASE cursor' = [cursor EXCEPT ![c].phase = "at", ![c].hurt = @ \/ h]
  <2>1. Moved(c, "at", cursor[c].got, cursor[c].hurt \/ h)
    BY <1>1, <1>6, <1>8, PhaseHurtSet
  <2>2. CASE h
    <3>1. Moved(c, "at", cursor[c].got, TRUE)
      BY <2>1, <2>2
    <3> QED
      BY <1>4, <3>1
  <2>3. CASE ~h
    <3>1. (cursor[c].hurt \/ h) <=> cursor[c].hurt
      BY <2>3
    <3> QED
      BY <1>5, <2>1, <3>1
  <2> QED
    BY <2>2, <2>3
<1> QED
  BY <1>2, <1>3, <1>7, <1>8

LEMMA BridgeMaps == ASSUME BridgeInv, BridgeInv', [Next]_vars PROVE ScanMoves
<1>1. VtabTypes /\ VtabTypes'
  BY DEF BridgeInv
<1>2. CASE (\E k \in Kinds : Load(k)) \/ Unload
  <2>1. view' = view /\ cursor' = cursor
    BY <1>2 DEF Load, Unload
  <2> QED
    BY <2>1, QuietMaps
<1>3. ASSUME NEW t \in Tables,
             x_create(t) \/ x_connect(t) \/ x_disconnect(t) \/ x_destroy(t)
      PROVE  ScanMoves
  <2>1. cursor' = cursor
    BY <1>3 DEF x_create, x_connect, x_disconnect, x_destroy, create_or_connect, Release
  <2> QED
    BY <1>1, <2>1, WriteMaps
<1>4. ASSUME NEW t \in Tables,
             \/ x_begin(t) \/ x_update(t) \/ x_savepoint(t) \/ x_release(t) \/ x_rollback_to(t)
             \/ x_rename(t) \/ x_sync(t) \/ x_commit(t) \/ x_rollback(t)
      PROVE  ScanMoves
  <2>1. \E s, a, op, synced : Write(t, s, a, op, synced)
    BY Zenon, <1>4 DEF x_begin, x_update, x_savepoint, x_release, x_rollback_to, x_rename, x_sync,
                x_commit, x_rollback
  <2>2. cursor' = cursor
    BY <2>1 DEF Write, txnFrame
  <2> QED
    BY <1>1, <2>2, WriteMaps
<1>5. CASE EndTxn("sync") \/ EndTxn("undo") \/ Synced \/ Ended
  <2>1. view' = view /\ cursor' = cursor
    BY <1>5 DEF EndTxn, Synced, Ended, txnFrame
  <2> QED
    BY <2>1, QuietMaps
<1>6. ASSUME NEW c \in Cursors, (\E t \in Tables : x_best_index(c, t)) \/ Forget(c) \/ Step(c)
      PROVE  ScanMoves
  BY <1>1, <1>6, PlanMaps, FilterMaps, EofMaps, ColumnMaps, NextMaps DEF Step
<1>7. CASE UNCHANGED vars
  BY <1>7, QuietMaps DEF vars
<1> QED
  BY Zenon, <1>2, <1>3, <1>4, <1>5, <1>6, <1>7 DEF Next

(* A cursor keeps the promise of VtabScan, whether its rows come one by one *)
(* or in blocks and whatever the component fails: each step of the bridge   *)
(* is a step of a scan, of a writer, or none (x_filter, x_next, x_eof and   *)
(* refill_batch of vtab.rs).                                                *)
THEOREM ScanRefinesHolds == Spec => ScanRefines
<1>1. Init => Scan!ScanInit
  <2> SUFFICES ASSUME Init PROVE Scan!ScanInit
    OBVIOUS
  <2>1. TableRows \in [Tables -> Seq(Nat)]
    BY BridgeInit DEF BridgeInv, VtabTypes, ContentT, TableRows
  <2>2. \A c \in Cursors : ScanOf(cursor[c]) = Scan!NoScan
    BY NoCursorTyped DEF Init, ScanOf, Scan!NoScan
  <2> QED
    BY <2>1, <2>2 DEF Scan!ScanInit, Scans
<1>2. BridgeInv /\ BridgeInv' /\ [Next]_vars => [Scan!ScanNext]_Scan!scanVars
  BY BridgeMaps DEF ScanMoves
<1> QED
  BY <1>1, <1>2, BridgeInvariant, PTL DEF Spec, ScanRefines, Scan!ScanSpec
=============================================================================
