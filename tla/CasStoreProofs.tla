--------------------------- MODULE CasStoreProofs ---------------------------
(***************************************************************************)
(* Proofs, for any number of processes, blobs, uris and imports, that the   *)
(* store keeps its types, its foreign key and its promise about hits.       *)
(***************************************************************************)
EXTENDS CasStore, TLAPS

(* What is known of p between two of its statements.  The heart of it is    *)
(* Witnessed: from the SELECT that found a row to the touch that ends the   *)
(* lookup, the cursor of that SELECT keeps the row in p's view.             *)
ArgsOK(p) ==
    /\ pc[p] \in {"set_uri", "resolve_uri", "touch_uri", "delete_uri",
                  "evict_delete_uri"} => uri[p] \in Uris
    /\ pc[p] \in {"put", "set_uri", "touch_uri", "get", "touch_get",
                  "get_by_sha256", "touch_sha256", "blob_has", "blob_delete",
                  "evict_delete_artifact"} => key[p] \in Digests
    /\ pc[p] \in {"get_by_sha256", "touch_sha256"} => uri[p] = NoUri

Named(p) == uri[p] # NoUri => View(p).uri[uri[p]] = key[p].of

Witnessed(p) ==
    /\ pc[p] = "touch_uri" =>
          "resolve_uri" \in pins[p] /\ Named(p) /\ key[p].alg = "blake3"
    /\ pc[p] = "get" /\ uri[p] # NoUri =>
          "resolve_uri" \in pins[p] /\ Named(p) /\ key[p].alg = "blake3"
    /\ pc[p] = "touch_get" =>
          "get" \in pins[p] /\ Named(p) /\ key[p].of \in View(p).art
    /\ pc[p] = "touch_sha256" =>
          "get_by_sha256" \in pins[p] /\ key[p].of \in View(p).art

ViewOK(p) ==
    /\ Stale(p) => Consistent(snap[p]) /\ Holding(p)
    /\ p \in txn => Stale(p)

ProcInv(p) == ArgsOK(p) /\ Witnessed(p) /\ ViewOK(p) /\ ret[p] # "missing"

Inv == TypeOK /\ Consistent(db) /\ \A p \in Procs : ProcInv(p)
-----------------------------------------------------------------------------
(* A step of p leaves the call of every other process where it is.          *)
Frame(p) ==
    \A q \in Procs \ {p} :
        pc'[q] = pc[q] /\ uri'[q] = uri[q] /\ key'[q] = key[q] /\ ret'[q] = ret[q]

(* What the actions of the store do to the connections.                     *)
ConnStep(p) ==
    \/ \E d \in Stores, wrote \in BOOLEAN :
          Commit(p, d, wrote) /\ Consistent(d) /\ (wrote \/ d = db)
    \/ RefusedBatch(p)
    \/ \E c \in Cursors, found \in BOOLEAN : ReadCached(p, c, found)
    \/ Disconnect(p)
    \/ UNCHANGED connVars

(* A process that holds a snapshot keeps its view while others commit.      *)
LEMMA HeldViewStable ==
    ASSUME NEW p \in Procs, NEW q \in Procs, p # q, Holding(q),
           NEW d, NEW wrote \in BOOLEAN, wrote \/ d = db,
           snap \in [Procs -> Stores \cup {NoSnap}], db \in Stores,
           Commit(p, d, wrote)
    PROVE  View(q)' = View(q) /\ pins'[q] = pins[q] /\ txn' = txn
BY StoreAssumption DEF Commit, View, Stale, Holding

(* No step of p on its connection disturbs what is known of q.              *)
LEMMA OthersUndisturbed ==
    ASSUME Inv, NEW p \in Procs, NEW q \in Procs, p # q, Frame(p), ConnStep(p)
    PROVE  ProcInv(q)'
<1> USE DEF Inv
<1>f. pc'[q] = pc[q] /\ uri'[q] = uri[q] /\ key'[q] = key[q] /\ ret'[q] = ret[q]
  BY DEF Frame
<1>t. TypeOK /\ ProcInv(q) /\ Consistent(db)
  OBVIOUS
<1>1. CASE \E d \in Stores, wrote \in BOOLEAN :
              Commit(p, d, wrote) /\ Consistent(d) /\ (wrote \/ d = db)
  <2> PICK d \in Stores, wrote \in BOOLEAN :
              Commit(p, d, wrote) /\ Consistent(d) /\ (wrote \/ d = db)
    BY <1>1
  <2>1. pins' = pins /\ txn' = txn
    BY DEF Commit
  <2>2. ArgsOK(q)'
    BY <1>f, <1>t DEF ProcInv, ArgsOK
  <2>3. ViewOK(q)'
    BY <1>t, <2>1, StoreAssumption
    DEF ProcInv, ViewOK, Commit, Stale, Holding, TypeOK
  <2>4. Witnessed(q)'
    <3>1. Holding(q) => View(q)' = View(q)
      BY <1>t, HeldViewStable DEF TypeOK
    <3> QED
      BY <3>1, <2>1, <1>f, <1>t DEF ProcInv, Witnessed, Named, Holding
  <2> QED
    BY <2>2, <2>3, <2>4, <1>f, <1>t DEF ProcInv
<1>2. CASE \/ RefusedBatch(p)
           \/ \E c \in Cursors, found \in BOOLEAN : ReadCached(p, c, found)
           \/ Disconnect(p)
           \/ UNCHANGED connVars
  <2>1. db' = db /\ snap'[q] = snap[q] /\ pins'[q] = pins[q] /\ (q \in txn' <=> q \in txn)
    BY <1>2, <1>t DEF RefusedBatch, ReadCached, Disconnect, connVars, TypeOK
  <2>2. View(q)' = View(q) /\ Stale(q)' = Stale(q) /\ Holding(q)' = Holding(q)
    BY <2>1 DEF View, Stale, Holding
  <2> QED
    BY <2>1, <2>2, <1>f, <1>t
    DEF ProcInv, ArgsOK, Witnessed, Named, ViewOK
<1> QED
  BY <1>1, <1>2 DEF ConnStep
-----------------------------------------------------------------------------
Labels == Statements \cup EvictStatements
Results == {"none", "ok", "hit", "miss", "missing", "fk", "locked"}
CallTypes ==
    /\ pc \in [Procs -> Labels]
    /\ uri \in [Procs -> Uris \cup {NoUri}]
    /\ key \in [Procs -> Digests \cup {NoKey}]
    /\ ret \in [Procs -> Results]
ConnTypes ==
    /\ db \in Stores
    /\ snap \in [Procs -> Stores \cup {NoSnap}]
    /\ pins \in [Procs -> SUBSET Cursors]
    /\ txn \subseteq Procs

(* Every step on a connection keeps the tables consistent and the stepping  *)
(* process's snapshot held for as long as it is old.                        *)
LEMMA ConnStepSafe ==
    ASSUME Inv, NEW p \in Procs, ConnStep(p)
    PROVE  ConnTypes' /\ Consistent(db)' /\ ViewOK(p)'
<1> USE DEF Inv, ConnTypes
<1>t. TypeOK /\ ViewOK(p) /\ Consistent(db)
  BY DEF ProcInv
<1>1. CASE \E d \in Stores, wrote \in BOOLEAN :
              Commit(p, d, wrote) /\ Consistent(d) /\ (wrote \/ d = db)
  <2> PICK d \in Stores, wrote \in BOOLEAN :
              Commit(p, d, wrote) /\ Consistent(d) /\ (wrote \/ d = db)
    BY <1>1
  <2>1. db' = d /\ pins' = pins /\ txn' = txn /\ ~Stale(p)
    BY DEF Commit
  <2>2. ConnTypes'
    BY <1>t, <2>1 DEF Commit, TypeOK
  <2>3. snap'[p] = snap[p]
    BY DEF Commit
  <2> QED
    BY <1>t, <2>1, <2>2, <2>3 DEF ViewOK, Stale, Consistent
<1>2. CASE RefusedBatch(p)
  BY <1>2, <1>t DEF RefusedBatch, TypeOK, ViewOK, Stale, Holding, Consistent
<1>3. CASE \E c \in Cursors, found \in BOOLEAN : ReadCached(p, c, found)
  <2> PICK c \in Cursors, found \in BOOLEAN : ReadCached(p, c, found)
    BY <1>3
  <2>1. ConnTypes'
    BY <1>t DEF ReadCached, TypeOK, Released
  <2>2. db' = db /\ txn' = txn /\ pins'[p] = (pins[p] \ {c}) \cup IF found THEN {c} ELSE {}
    BY <1>t DEF ReadCached, TypeOK
  <2>3. ViewOK(p)'
    <3>1. CASE Released(p, c)
      BY <3>1, <2>2, <1>t DEF ReadCached, TypeOK, ViewOK, Stale, Released
    <3>2. CASE ~Released(p, c)
      BY <3>2, <2>2, <1>t DEF ReadCached, TypeOK, ViewOK, Stale, Released, Holding
    <3> QED
      BY <3>1, <3>2
  <2> QED
    BY <1>t, <2>1, <2>2, <2>3 DEF Consistent
<1>4. CASE Disconnect(p)
  BY <1>4, <1>t, StoreAssumption
  DEF Disconnect, TypeOK, ViewOK, Stale, Holding, Consistent
<1>5. CASE UNCHANGED connVars
  BY <1>5, <1>t DEF connVars, TypeOK, ViewOK, Stale, Holding, Consistent
<1> QED
  BY <1>1, <1>2, <1>3, <1>4, <1>5 DEF ConnStep

(* So what is left to show of an action is what it makes of its own call.   *)
LEMMA OwnCallSuffices ==
    ASSUME Inv, NEW p \in Procs, ConnStep(p), Frame(p), CallTypes',
           ArgsOK(p)', Witnessed(p)', ret'[p] # "missing"
    PROVE  Inv'
<1>1. ConnTypes' /\ Consistent(db)' /\ ViewOK(p)'
  BY ConnStepSafe
<1>2. TypeOK'
  BY <1>1 DEF ConnTypes, CallTypes, TypeOK, Labels, Results
<1>3. ProcInv(p)'
  BY <1>1 DEF ProcInv
<1>4. \A q \in Procs : q # p => ProcInv(q)'
  BY OthersUndisturbed
<1> QED
  BY <1>1, <1>2, <1>3, <1>4 DEF Inv

LEMMA ReturnSafe ==
    ASSUME Inv, NEW p \in Procs, ConnStep(p),
           NEW r \in Results \ {"missing"}, Return(p, r)
    PROVE  Inv'
<1>t. CallTypes
  BY DEF Inv, TypeOK, CallTypes, Labels, Results
<1>1. CallTypes' /\ Frame(p) /\ pc'[p] = "idle" /\ ret'[p] = r
  BY <1>t DEF Return, CallTypes, Frame, Labels, Statements
<1>2. ArgsOK(p)' /\ Witnessed(p)'
  BY <1>1 DEF ArgsOK, Witnessed
<1> QED
  BY <1>1, <1>2, OwnCallSuffices

LEMMA GotoSafe ==
    ASSUME Inv, NEW p \in Procs, ConnStep(p), NEW l \in Labels, Goto(p, l),
           ArgsOK(p)', Witnessed(p)'
    PROVE  Inv'
<1>t. CallTypes
  BY DEF Inv, TypeOK, CallTypes, Labels, Results
<1>1. CallTypes' /\ Frame(p)
  BY <1>t DEF Goto, CallTypes, Frame
<1>2. ret'[p] # "missing"
  BY DEF Goto, Inv, ProcInv
<1> QED
  BY <1>1, <1>2, OwnCallSuffices

(* Statements that need no argument and follow no read.                     *)
Plain == {"idle", "closed", "gc", "purge", "merge_from", "evict_lru",
          "evict_artifacts", "evict_pick_artifact", "evict_uris",
          "evict_pick_uri", "evict_gc"}

LEMMA GotoPlainSafe ==
    ASSUME Inv, NEW p \in Procs, ConnStep(p), NEW l \in Plain, Goto(p, l)
    PROVE  Inv'
<1>1. pc'[p] = l /\ l \in Labels
  BY DEF Goto, Inv, TypeOK, Plain, Labels, Statements, EvictStatements
<1>2. ArgsOK(p)' /\ Witnessed(p)'
  BY <1>1 DEF ArgsOK, Witnessed, Plain
<1> QED
  BY <1>1, <1>2, GotoSafe
-----------------------------------------------------------------------------
(* What the writes make of a consistent store.                              *)
LEMMA BindConsistent ==
    ASSUME NEW d \in Stores, Consistent(d), NEW u \in Uris,
           NEW b \in d.art \cup {NoBlob}
    PROVE  /\ WithUri(d, u, b) \in Stores /\ Consistent(WithUri(d, u, b))
           /\ d.uri[u] = NoBlob => WithUri(d, u, NoBlob) = d
BY DEF Stores, Consistent, WithUri

LEMMA DropConsistent ==
    ASSUME NEW d \in Stores, Consistent(d), NEW S, S \cap Bound(d) = {}
    PROVE  /\ WithoutBlobs(d, S) \in Stores /\ Consistent(WithoutBlobs(d, S))
           /\ S \cap d.art = {} => WithoutBlobs(d, S) = d
<1>1. WithoutBlobs(d, S) \in Stores
  BY DEF Stores, WithoutBlobs
<1>2. Consistent(WithoutBlobs(d, S))
  BY DEF Stores, Consistent, WithoutBlobs, Bound
<1>3. ASSUME S \cap d.art = {} PROVE WithoutBlobs(d, S) = d
  <2>1. d.art \ S = d.art /\ d.sha \ S = d.sha
    BY <1>3 DEF Consistent, Stores
  <2> QED
    BY <2>1 DEF Stores, WithoutBlobs
<1> QED
  BY <1>1, <1>2, <1>3

(* A commit of the tables as they are (a touch).                            *)
LEMMA TouchIsConnStep ==
    ASSUME Inv, NEW p \in Procs, NEW wrote \in BOOLEAN, Commit(p, db, wrote)
    PROVE  ConnStep(p)
BY DEF ConnStep, Inv, TypeOK

LEMMA RefusedIsConnStep ==
    ASSUME NEW p \in Procs, Refused(p)
    PROVE  ConnStep(p)
BY DEF Refused, ConnStep

(* The statements of lookups: the witness is found, kept, and returned.     *)
LEMMA LookupSafe ==
    ASSUME Inv, NEW p \in Procs,
           \/ resolve_uri_select(p) \/ resolve_uri_touch(p)
           \/ get_select(p) \/ get_touch(p)
           \/ get_by_sha256_select(p) \/ get_by_sha256_touch(p)
    PROVE  Inv'
<1>t. /\ TypeOK /\ ArgsOK(p) /\ Witnessed(p) /\ ViewOK(p) /\ Consistent(db)
      /\ ret[p] # "missing"
  BY DEF Inv, ProcInv
<1>r. {"ok", "hit", "miss", "fk", "locked", "none"} \subseteq Results \ {"missing"}
  BY DEF Results
<1>l. {"touch_uri", "get", "touch_get", "get_by_sha256", "touch_sha256"} \subseteq Labels
  BY DEF Labels, Statements
<1>1. CASE resolve_uri_select(p)
  <2> DEFINE b == ViewAfterReset(p, "resolve_uri").uri[uri[p]]
  <2>1. /\ pc[p] = "resolve_uri" /\ ReadCached(p, "resolve_uri", b # NoBlob)
        /\ uri[p] \in Uris
    BY <1>1, <1>t DEF resolve_uri_select, ArgsOK
  <2>2. ConnStep(p)
    BY <2>1 DEF ConnStep, Cursors
  <2>3. CASE b = NoBlob
    BY <1>1, <1>r, <2>2, <2>3, ReturnSafe DEF resolve_uri_select
  <2>4. CASE b # NoBlob
    <3>1. /\ pc' = [pc EXCEPT ![p] = "touch_uri"]
          /\ key' = [key EXCEPT ![p] = Blake3(b)]
          /\ UNCHANGED <<uri, ret>>
      BY <1>1, <2>4 DEF resolve_uri_select
    <3>2. View(p)' = ViewAfterReset(p, "resolve_uri")
      BY <2>1, <1>t DEF ReadCached, View, ViewAfterReset, Stale, TypeOK
    <3>3. "resolve_uri" \in pins'[p]
      BY <2>1, <2>4, <1>t DEF ReadCached, TypeOK
    <3>4. b \in Blobs
      <4>1. ViewAfterReset(p, "resolve_uri") \in Stores
        BY <1>t DEF ViewAfterReset, View, Stale, TypeOK
      <4> QED
        BY <4>1, <2>1, <2>4 DEF Stores
    <3>5. Blake3(b) \in Digests /\ Blake3(b).of = b /\ Blake3(b).alg = "blake3"
      BY <3>4 DEF Blake3, Digests
    <3>6. CallTypes' /\ Frame(p)
      BY <3>1, <3>5, <1>t, <1>l DEF CallTypes, TypeOK, Frame, Labels, Results
    <3>7. pc'[p] = "touch_uri" /\ key'[p] = Blake3(b) /\ uri'[p] = uri[p]
      BY <3>1, <1>t DEF TypeOK
    <3>8. ArgsOK(p)'
      BY <3>7, <3>5, <2>1 DEF ArgsOK
    <3>9. Named(p)'
      BY <3>2, <3>7, <3>5 DEF Named
    <3>10. Witnessed(p)'
      BY <3>3, <3>5, <3>7, <3>9 DEF Witnessed
    <3> QED
      BY <2>2, <3>1, <3>6, <3>8, <3>10, <1>t, OwnCallSuffices
  <2> QED
    BY <2>3, <2>4
<1>2. CASE resolve_uri_touch(p)
  <2>1. CASE Refused(p) /\ Return(p, "locked")
    BY <2>1, <1>r, RefusedIsConnStep, ReturnSafe
  <2>2. CASE Commit(p, db, db.uri[uri[p]] # NoBlob) /\ Goto(p, "get")
    <3>1. ConnStep(p)
      BY <2>2, TouchIsConnStep
    <3>2. View(p)' = View(p) /\ pins' = pins
      BY <2>2 DEF Commit, View, Stale
    <3>3. pc[p] = "touch_uri" /\ pc'[p] = "get" /\ UNCHANGED <<uri, key, ret>>
      BY <1>2, <2>2, <1>t DEF resolve_uri_touch, Goto, TypeOK
    <3>4. ArgsOK(p)' /\ Witnessed(p)'
      BY <3>2, <3>3, <1>t DEF ArgsOK, Witnessed, Named
    <3> QED
      BY <3>1, <3>4, <2>2, <1>l, GotoSafe
  <2> QED
    BY <1>2, <2>1, <2>2 DEF resolve_uri_touch
<1>3. CASE get_select(p)
  <2> DEFINE found == /\ key[p].alg = "blake3"
                      /\ key[p].of \in ViewAfterReset(p, "get").art
  <2>1. pc[p] = "get" /\ ReadCached(p, "get", found) /\ key[p] \in Digests
    BY <1>3, <1>t DEF get_select, ArgsOK
  <2>2. ConnStep(p)
    BY <2>1 DEF ConnStep, Cursors
  <2>3. View(p)' = ViewAfterReset(p, "get")
    BY <2>1, <1>t DEF ReadCached, View, ViewAfterReset, Stale, TypeOK
  <2>4. ASSUME uri[p] # NoUri
        PROVE  found /\ View(p)' = View(p)
    <3>1. "resolve_uri" \in pins[p] /\ Named(p) /\ key[p].alg = "blake3"
      BY <2>1, <2>4, <1>t DEF Witnessed
    <3>2. ViewAfterReset(p, "get") = View(p)
      BY <3>1 DEF ViewAfterReset, Released
    <3>3. Consistent(View(p)) /\ uri[p] \in Uris /\ key[p].of \in Blobs
      BY <1>t, <2>1, <2>4 DEF View, ViewOK, TypeOK, Digests
    <3>4. key[p].of \in View(p).art
      BY <3>1, <3>3, <2>4, StoreAssumption DEF Named, Consistent
    <3> QED
      BY <3>1, <3>2, <3>4, <2>3
  <2>5. CASE found
    <3>1. Goto(p, "touch_get")
      BY <1>3, <2>5 DEF get_select
    <3>2. pc'[p] = "touch_get" /\ UNCHANGED <<uri, key, ret>> /\ "get" \in pins'[p]
      BY <3>1, <2>1, <2>5, <1>t DEF Goto, ReadCached, TypeOK
    <3>3. Named(p)'
      <4>1. CASE uri[p] # NoUri
        BY <4>1, <2>4, <3>2, <2>1, <1>t DEF Named, Witnessed
      <4>2. CASE uri[p] = NoUri
        BY <4>2, <3>2 DEF Named
      <4> QED
        BY <4>1, <4>2
    <3>4. ArgsOK(p)' /\ Witnessed(p)'
      BY <3>2, <3>3, <2>1, <2>3, <2>5 DEF ArgsOK, Witnessed
    <3> QED
      BY <3>1, <3>4, <2>2, <1>l, GotoSafe
  <2>6. CASE ~found
    <3>1. uri[p] = NoUri
      BY <2>4, <2>6
    <3>2. Goto(p, "get_by_sha256")
      BY <1>3, <2>6, <3>1 DEF get_select
    <3>3. pc'[p] = "get_by_sha256" /\ UNCHANGED <<uri, key, ret>>
      BY <3>2, <1>t DEF Goto, TypeOK
    <3>4. ArgsOK(p)' /\ Witnessed(p)'
      BY <3>1, <3>3, <2>1 DEF ArgsOK, Witnessed
    <3> QED
      BY <3>2, <3>4, <2>2, <1>l, GotoSafe
  <2> QED
    BY <2>5, <2>6
<1>4. CASE get_touch(p)
  <2>1. CASE Commit(p, db, key[p].of \in db.art) /\ Return(p, "hit")
    <3>1. Commit(p, db, TRUE) \/ Commit(p, db, FALSE)
      BY <2>1 DEF Commit
    <3>2. ConnStep(p)
      BY <3>1, TouchIsConnStep
    <3> QED
      BY <2>1, <3>2, <1>r, ReturnSafe
  <2>2. CASE Refused(p) /\ uri[p] # NoUri /\ Return(p, "locked")
    BY <2>2, <1>r, RefusedIsConnStep, ReturnSafe
  <2>3. CASE Refused(p) /\ uri[p] = NoUri /\ Goto(p, "get_by_sha256")
    <3>1. pc'[p] = "get_by_sha256" /\ UNCHANGED <<uri, key, ret>> /\ pc[p] = "touch_get"
      BY <2>3, <1>4, <1>t DEF Goto, TypeOK, get_touch
    <3>2. ArgsOK(p)' /\ Witnessed(p)'
      BY <3>1, <2>3, <1>t DEF ArgsOK, Witnessed
    <3> QED
      BY <3>2, <2>3, <1>l, RefusedIsConnStep, GotoSafe
  <2> QED
    BY <1>4, <2>1, <2>2, <2>3 DEF get_touch
<1>5. CASE get_by_sha256_select(p)
  <2> DEFINE found == /\ key[p].alg = "sha256"
                      /\ key[p].of \in ViewAfterReset(p, "get_by_sha256").sha
  <2>1. /\ pc[p] = "get_by_sha256" /\ ReadCached(p, "get_by_sha256", found)
        /\ key[p] \in Digests /\ uri[p] = NoUri
    BY <1>5, <1>t DEF get_by_sha256_select, ArgsOK
  <2>2. ConnStep(p)
    BY <2>1 DEF ConnStep, Cursors
  <2>3. CASE found
    <3>1. Goto(p, "touch_sha256")
      BY <1>5, <2>3 DEF get_by_sha256_select
    <3>2. /\ pc'[p] = "touch_sha256" /\ UNCHANGED <<uri, key, ret>>
          /\ "get_by_sha256" \in pins'[p]
      BY <3>1, <2>1, <2>3, <1>t DEF Goto, ReadCached, TypeOK
    <3>3. View(p)' = ViewAfterReset(p, "get_by_sha256")
      BY <2>1, <1>t DEF ReadCached, View, ViewAfterReset, Stale, TypeOK
    <3>4. Consistent(ViewAfterReset(p, "get_by_sha256"))
      BY <1>t DEF ViewAfterReset, View, ViewOK
    <3>5. key[p].of \in View(p)'.art
      BY <3>3, <3>4, <2>3 DEF Consistent
    <3>6. ArgsOK(p)' /\ Witnessed(p)'
      BY <3>2, <3>5, <2>1 DEF ArgsOK, Witnessed
    <3> QED
      BY <3>1, <3>6, <2>2, <1>l, GotoSafe
  <2>4. CASE ~found
    BY <1>5, <2>2, <2>4, <1>r, ReturnSafe DEF get_by_sha256_select
  <2> QED
    BY <2>3, <2>4
<1>6. CASE get_by_sha256_touch(p)
  <2>1. CASE Commit(p, db, key[p].of \in db.art) /\ Return(p, "hit")
    <3>1. Commit(p, db, TRUE) \/ Commit(p, db, FALSE)
      BY <2>1 DEF Commit
    <3>2. ConnStep(p)
      BY <3>1, TouchIsConnStep
    <3> QED
      BY <2>1, <3>2, <1>r, ReturnSafe
  <2>2. CASE Refused(p) /\ Return(p, "locked")
    BY <2>2, <1>r, RefusedIsConnStep, ReturnSafe
  <2> QED
    BY <1>6, <2>1, <2>2 DEF get_by_sha256_touch
<1> QED
  BY <1>1, <1>2, <1>3, <1>4, <1>5, <1>6

(* A statement that commits d, or fails on the foreign key, or is refused,  *)
(* and returns in each case.                                                *)
LEMMA WriteAndReturnSafe ==
    ASSUME Inv, NEW p \in Procs, NEW d \in Stores, Consistent(d),
           NEW wrote \in BOOLEAN, wrote \/ d = db,
           NEW r \in Results \ {"missing"},
           Commit(p, d, wrote) /\ Return(p, r)
    PROVE  Inv'
<1>1. ConnStep(p)
  BY DEF ConnStep
<1> QED
  BY <1>1, ReturnSafe

LEMMA FailAndReturnSafe ==
    ASSUME Inv, NEW p \in Procs, NEW r \in Results \ {"missing"}, Return(p, r),
           Refused(p) \/ RefusedBatch(p) \/ UNCHANGED connVars
    PROVE  Inv'
<1>1. ConnStep(p)
  BY DEF Refused, ConnStep
<1> QED
  BY <1>1, ReturnSafe

(* The statements that write the tables.                                    *)
LEMMA WriteSafe ==
    ASSUME Inv, NEW p \in Procs,
           \/ put_ref(p) \/ set_uri(p) \/ blob_has(p) \/ blob_delete(p)
           \/ delete_uri(p) \/ gc(p) \/ purge(p) \/ merge_from(p)
    PROVE  Inv'
<1>t. /\ TypeOK /\ ArgsOK(p) /\ Witnessed(p) /\ ViewOK(p) /\ Consistent(db)
      /\ db \in Stores
  BY DEF Inv, ProcInv, TypeOK
<1>r. {"ok", "hit", "miss", "fk", "locked", "none"} \subseteq Results \ {"missing"}
  BY DEF Results
<1> DEFINE b == key[p].of
<1>1. CASE put_ref(p)
  <2> DEFINE d == [db EXCEPT !.art = @ \cup {b}, !.sha = @ \cup {b}]
  <2>1. pc[p] = "put" /\ key[p] \in Digests /\ b \in Blobs
    BY <1>1, <1>t DEF put_ref, ArgsOK, Digests
  <2>2. d \in Stores /\ Consistent(d)
    BY <1>t, <2>1 DEF Stores, Consistent
  <2>3. CASE Commit(p, d, TRUE) /\ uri[p] = NoUri /\ Return(p, "ok")
    <3>1. ConnStep(p)
      BY <2>2, <2>3 DEF ConnStep
    <3> QED
      BY <3>1, <2>3, <1>r, ReturnSafe
  <2>4. CASE Commit(p, d, TRUE) /\ uri[p] # NoUri /\ Goto(p, "set_uri")
    <3>1. ConnStep(p)
      BY <2>2, <2>4 DEF ConnStep
    <3>2. pc'[p] = "set_uri" /\ uri'[p] \in Uris /\ key'[p] \in Digests
      BY <2>1, <2>4, <1>t DEF Goto, TypeOK
    <3>3. ArgsOK(p)' /\ Witnessed(p)' /\ "set_uri" \in Labels
      BY <3>2 DEF ArgsOK, Witnessed, Labels, Statements
    <3> QED
      BY <3>1, <3>3, <2>4, GotoSafe
  <2>5. CASE Refused(p) /\ Return(p, "locked")
    BY <2>5, <1>r, FailAndReturnSafe
  <2> QED
    BY <1>1, <2>3, <2>4, <2>5 DEF put_ref
<1>2. CASE set_uri(p)
  <2>1. pc[p] = "set_uri" /\ uri[p] \in Uris
    BY <1>2, <1>t DEF set_uri, ArgsOK
  <2>2. CASE b \in db.art /\ Commit(p, WithUri(db, uri[p], b), TRUE) /\ Return(p, "ok")
    <3>1. WithUri(db, uri[p], b) \in Stores /\ Consistent(WithUri(db, uri[p], b))
      BY <2>1, <2>2, <1>t, BindConsistent
    <3> QED
      BY <3>1, <2>2, <1>r, WriteAndReturnSafe
  <2>3. CASE UNCHANGED connVars /\ Return(p, "fk")
    BY <2>3, <1>r, FailAndReturnSafe
  <2>4. CASE Refused(p) /\ Return(p, "locked")
    BY <2>4, <1>r, FailAndReturnSafe
  <2> QED
    BY <1>2, <2>2, <2>3, <2>4 DEF set_uri
<1>3. CASE blob_has(p)
  <2> DEFINE found == b \in ViewAfterReset(p, "has").sha
  <2>1. ReadCached(p, "has", found) /\ Return(p, IF found THEN "ok" ELSE "miss")
    BY <1>3 DEF blob_has
  <2>2. ConnStep(p)
    <3>1. ReadCached(p, "has", TRUE) \/ ReadCached(p, "has", FALSE)
      BY <2>1 DEF ReadCached
    <3> QED
      BY <3>1 DEF ConnStep, Cursors
  <2>3. Return(p, "ok") \/ Return(p, "miss")
    BY <2>1
  <2> QED
    BY <2>2, <2>3, <1>r, ReturnSafe
<1>4. CASE blob_delete(p)
  <2>1. CASE Commit(p, db, FALSE) /\ Return(p, "miss")
    BY <2>1, <1>r, <1>t, WriteAndReturnSafe
  <2>2. CASE /\ b \in Unbound(db) /\ b \in db.sha
             /\ Commit(p, WithoutBlobs(db, {b}), TRUE)
             /\ Return(p, "ok")
    <3>1. {b} \cap Bound(db) = {}
      BY <2>2 DEF Unbound
    <3>2. WithoutBlobs(db, {b}) \in Stores /\ Consistent(WithoutBlobs(db, {b}))
      BY <3>1, <1>t, DropConsistent
    <3> QED
      BY <3>2, <2>2, <1>r, WriteAndReturnSafe
  <2>3. CASE UNCHANGED connVars /\ Return(p, "fk")
    BY <2>3, <1>r, FailAndReturnSafe
  <2>4. CASE Refused(p) /\ Return(p, "locked")
    BY <2>4, <1>r, FailAndReturnSafe
  <2>5. CASE b \in db.sha
    BY <1>4, <2>5, <2>2, <2>3, <2>4 DEF blob_delete
  <2>6. CASE b \notin db.sha
    <3>1. \/ Commit(p, db, b \in db.sha) /\ Return(p, "miss")
          \/ UNCHANGED connVars /\ Return(p, "fk")
          \/ Refused(p) /\ Return(p, "locked")
      BY <1>4, <2>6 DEF blob_delete
    <3>2. (b \in db.sha) = FALSE
      BY <2>6
    <3> QED
      BY <3>1, <3>2, <2>6, <2>1, <2>3, <2>4
  <2> QED
    BY <2>5, <2>6
<1>5. CASE delete_uri(p)
  <2> DEFINE d == WithUri(db, uri[p], NoBlob)
  <2>1. pc[p] = "delete_uri" /\ uri[p] \in Uris
    BY <1>5, <1>t DEF delete_uri, ArgsOK
  <2>2. CASE Commit(p, d, db.uri[uri[p]] # NoBlob) /\ Return(p, "ok")
    <3>1. d \in Stores /\ Consistent(d) /\ (db.uri[uri[p]] # NoBlob \/ d = db)
      BY <2>1, <1>t, BindConsistent
    <3> QED
      BY <3>1, <2>2, <1>r, WriteAndReturnSafe
  <2>3. CASE Refused(p) /\ Return(p, "locked")
    BY <2>3, <1>r, FailAndReturnSafe
  <2> QED
    BY <1>5, <2>2, <2>3 DEF delete_uri
<1>6. CASE gc(p)
  <2> DEFINE d == WithoutBlobs(db, Unbound(db))
  <2>1. CASE Commit(p, d, Unbound(db) # {}) /\ Return(p, "ok")
    <3>1. Unbound(db) \cap Bound(db) = {}
      BY DEF Unbound
    <3>2. d \in Stores /\ Consistent(d) /\ (Unbound(db) # {} \/ d = db)
      BY <3>1, <1>t, DropConsistent
    <3> QED
      BY <3>2, <2>1, <1>r, WriteAndReturnSafe
  <2>2. CASE Refused(p) /\ Return(p, "locked")
    BY <2>2, <1>r, FailAndReturnSafe
  <2> QED
    BY <1>6, <2>1, <2>2 DEF gc, CollectUnbound
<1>7. CASE purge(p)
  <2> DEFINE d == [art |-> {}, sha |-> {}, uri |-> [u \in Uris |-> NoBlob]]
  <2>1. CASE Commit(p, d, db.art # {}) /\ Return(p, "ok")
    <3>1. d \in Stores /\ Consistent(d)
      BY DEF Stores, Consistent
    <3>2. db.art # {} \/ d = db
      <4>1. ASSUME db.art = {} PROVE d = db
        <5>1. db.sha = {} /\ db.uri = [u \in Uris |-> NoBlob]
          BY <4>1, <1>t DEF Consistent, Stores
        <5> QED
          BY <4>1, <5>1, <1>t DEF Stores
      <4> QED
        BY <4>1
    <3> QED
      BY <3>1, <3>2, <2>1, <1>r, WriteAndReturnSafe
  <2>2. CASE RefusedBatch(p) /\ Return(p, "locked")
    BY <2>2, <1>r, FailAndReturnSafe
  <2> QED
    BY <1>7, <2>1, <2>2 DEF purge
<1>8. CASE merge_from(p)
  <2> DEFINE d(s) == [art |-> db.art \cup s.art,
                      sha |-> db.sha \cup (s.sha \ db.art),
                      uri |-> [u \in Uris |-> IF s.uri[u] = NoBlob
                                              THEN db.uri[u] ELSE s.uri[u]]]
             wrote(s) == ~(s.art \subseteq db.art) \/ Bound(s) # {}
  <2>1. ASSUME NEW s \in Imports, Commit(p, d(s), wrote(s)), Return(p, "ok")
        PROVE  Inv'
    <3>0. s \in Stores /\ Consistent(s)
      BY StoreAssumption DEF Consistent
    <3>1. d(s) \in Stores /\ Consistent(d(s))
      BY <3>0, <1>t DEF Stores, Consistent
    <3>2. wrote(s) \/ d(s) = db
      <4>1. ASSUME s.art \subseteq db.art, Bound(s) = {} PROVE d(s) = db
        <5>1. db.art \cup s.art = db.art
          BY <4>1
        <5>2. db.sha \cup (s.sha \ db.art) = db.sha
          BY <4>1, <3>0 DEF Consistent
        <5>3. \A u \in Uris : s.uri[u] = NoBlob
          BY <4>1 DEF Bound
        <5>4. [u \in Uris |-> IF s.uri[u] = NoBlob THEN db.uri[u] ELSE s.uri[u]]
                 = db.uri
          BY <5>3, <1>t DEF Stores
        <5> QED
          BY <5>1, <5>2, <5>4, <1>t DEF Stores
      <4> QED
        BY <4>1
    <3> QED
      BY <3>1, <3>2, <2>1, <1>r, WriteAndReturnSafe
  <2>2. CASE RefusedBatch(p) /\ Return(p, "locked")
    BY <2>2, <1>r, FailAndReturnSafe
  <2> QED
    BY <1>8, <2>1, <2>2 DEF merge_from
<1> QED
  BY <1>1, <1>2, <1>3, <1>4, <1>5, <1>6, <1>7, <1>8

(* The rounds of evict_lru.                                                 *)
LEMMA EvictSafe ==
    ASSUME Inv, NEW p \in Procs, EvictStep(p)
    PROVE  Inv'
<1>t. /\ TypeOK /\ ArgsOK(p) /\ ViewOK(p) /\ Consistent(db) /\ db \in Stores
      /\ ret[p] # "missing"
  BY DEF Inv, ProcInv, TypeOK
<1>r. {"ok", "fk", "locked"} \subseteq Results \ {"missing"}
  BY DEF Results
<1>l. /\ {"evict_artifacts", "evict_pick_artifact", "evict_uris",
          "evict_pick_uri", "evict_gc"} \subseteq Plain
      /\ {"evict_delete_artifact", "evict_delete_uri"} \subseteq Labels
  BY DEF Plain, Labels, EvictStatements
<1>c. ASSUME UNCHANGED connVars PROVE ConnStep(p)
  BY <1>c DEF ConnStep
<1>1. CASE EvictBegin(p)
  BY <1>1, <1>c, <1>l, <1>r, GotoPlainSafe, ReturnSafe DEF EvictBegin
<1>2. CASE EvictArtifacts(p)
  <2>1. ConnStep(p) /\ (Goto(p, "evict_pick_artifact") \/ Goto(p, "evict_uris"))
    BY <1>2, <1>c DEF EvictArtifacts
  <2> QED
    BY <2>1, <1>l, GotoPlainSafe
<1>3. CASE EvictPickArtifact(p)
  <2>1. ConnStep(p)
    BY <1>3, <1>c DEF EvictPickArtifact
  <2>2. CASE Goto(p, "evict_uris")
    BY <2>1, <2>2, <1>l, GotoPlainSafe
  <2>3. ASSUME NEW b \in Unbound(View(p)),
               key' = [key EXCEPT ![p] = Blake3(b)],
               pc' = [pc EXCEPT ![p] = "evict_delete_artifact"],
               UNCHANGED <<uri, ret>>
        PROVE  Inv'
    <3>1. View(p) \in Stores
      BY <1>t DEF View, Stale, TypeOK
    <3>2. Blake3(b) \in Digests
      BY <2>3, <3>1 DEF Unbound, Stores, Blake3, Digests
    <3>3. CallTypes' /\ Frame(p)
      BY <2>3, <3>2, <1>t, <1>l DEF CallTypes, TypeOK, Frame, Labels, Results
    <3>4. pc'[p] = "evict_delete_artifact" /\ key'[p] \in Digests
      BY <2>3, <3>2, <1>t DEF TypeOK
    <3>5. ArgsOK(p)' /\ Witnessed(p)'
      BY <3>4 DEF ArgsOK, Witnessed
    <3> QED
      BY <2>1, <2>3, <3>3, <3>5, <1>t, OwnCallSuffices
  <2> QED
    BY <1>3, <2>2, <2>3 DEF EvictPickArtifact
<1>4. CASE EvictDeleteArtifact(p)
  <2> DEFINE b == key[p].of
             d == WithoutBlobs(db, {b})
  <2>1. CASE b \notin Bound(db) /\ Commit(p, d, b \in db.art) /\ Goto(p, "evict_artifacts")
    <3>1. {b} \cap Bound(db) = {}
      BY <2>1
    <3>2. d \in Stores /\ Consistent(d) /\ (b \notin db.art => d = db)
      BY <3>1, <1>t, DropConsistent
    <3>3. Commit(p, d, TRUE) \/ (Commit(p, d, FALSE) /\ d = db)
      BY <2>1, <3>2 DEF Commit
    <3>4. ConnStep(p)
      BY <3>2, <3>3 DEF ConnStep
    <3> QED
      BY <3>4, <2>1, <1>l, GotoPlainSafe
  <2>2. CASE UNCHANGED connVars /\ Return(p, "fk")
    BY <2>2, <1>r, FailAndReturnSafe
  <2>3. CASE Refused(p) /\ Return(p, "locked")
    BY <2>3, <1>r, FailAndReturnSafe
  <2> QED
    BY <1>4, <2>1, <2>2, <2>3 DEF EvictDeleteArtifact
<1>5. CASE EvictUris(p)
  BY <1>5, <1>c, <1>l, <1>r, GotoPlainSafe, ReturnSafe DEF EvictUris
<1>6. CASE EvictPickUri(p)
  <2>1. ConnStep(p)
    BY <1>6, <1>c DEF EvictPickUri
  <2>2. CASE Return(p, "ok")
    BY <2>1, <2>2, <1>r, ReturnSafe
  <2>3. ASSUME NEW u \in Uris,
               uri' = [uri EXCEPT ![p] = u],
               pc' = [pc EXCEPT ![p] = "evict_delete_uri"],
               UNCHANGED <<key, ret>>
        PROVE  Inv'
    <3>1. CallTypes' /\ Frame(p)
      BY <2>3, <1>t, <1>l DEF CallTypes, TypeOK, Frame, Labels, Results
    <3>2. pc'[p] = "evict_delete_uri" /\ uri'[p] \in Uris
      BY <2>3, <1>t DEF TypeOK
    <3>3. ArgsOK(p)' /\ Witnessed(p)'
      BY <3>2 DEF ArgsOK, Witnessed
    <3> QED
      BY <2>1, <2>3, <3>1, <3>3, <1>t, OwnCallSuffices
  <2> QED
    BY <1>6, <2>2, <2>3 DEF EvictPickUri
<1>7. CASE EvictDeleteUri(p)
  <2> DEFINE d == WithUri(db, uri[p], NoBlob)
  <2>1. CASE Commit(p, d, db.uri[uri[p]] # NoBlob) /\ Goto(p, "evict_gc")
    <3>1. uri[p] \in Uris
      BY <1>7, <1>t DEF EvictDeleteUri, ArgsOK
    <3>2. d \in Stores /\ Consistent(d) /\ (db.uri[uri[p]] # NoBlob \/ d = db)
      BY <3>1, <1>t, BindConsistent
    <3>3. ConnStep(p)
      BY <3>2, <2>1 DEF ConnStep
    <3> QED
      BY <3>3, <2>1, <1>l, GotoPlainSafe
  <2>2. CASE Refused(p) /\ Return(p, "locked")
    BY <2>2, <1>r, FailAndReturnSafe
  <2> QED
    BY <1>7, <2>1, <2>2 DEF EvictDeleteUri
<1>8. CASE EvictGc(p)
  <2> DEFINE d == WithoutBlobs(db, Unbound(db))
  <2>1. CASE Commit(p, d, Unbound(db) # {}) /\ Goto(p, "evict_uris")
    <3>1. Unbound(db) \cap Bound(db) = {}
      BY DEF Unbound
    <3>2. d \in Stores /\ Consistent(d) /\ (Unbound(db) # {} \/ d = db)
      BY <3>1, <1>t, DropConsistent
    <3>3. ConnStep(p)
      BY <3>2, <2>1 DEF ConnStep
    <3> QED
      BY <3>3, <2>1, <1>l, GotoPlainSafe
  <2>2. CASE Refused(p) /\ Return(p, "locked")
    BY <2>2, <1>r, FailAndReturnSafe
  <2> QED
    BY <1>8, <2>1, <2>2 DEF EvictGc, CollectUnbound
<1> QED
  BY <1>1, <1>2, <1>3, <1>4, <1>5, <1>6, <1>7, <1>8 DEF EvictStep

(* A process starts, exits, or calls an operation.                          *)
LEMMA SessionSafe ==
    ASSUME Inv, NEW p \in Procs, open_external(p) \/ Exit(p) \/ Call(p)
    PROVE  Inv'
<1>t. TypeOK /\ db \in Stores /\ Consistent(db)
  BY DEF Inv, TypeOK
<1>1. CASE open_external(p)
  <2>1. ConnStep(p)
    BY <1>1, TouchIsConnStep DEF open_external
  <2> QED
    BY <1>1, <2>1, GotoPlainSafe DEF open_external, Plain
<1>2. CASE Exit(p)
  <2>1. ConnStep(p)
    BY <1>2 DEF Exit, ConnStep
  <2>2. CallTypes' /\ Frame(p)
    BY <1>2, <1>t
    DEF Exit, CallTypes, TypeOK, Frame, Labels, Results, Statements
  <2>3. pc'[p] = "closed" /\ ret'[p] = "none"
    BY <1>2, <1>t DEF Exit, TypeOK
  <2>4. ArgsOK(p)' /\ Witnessed(p)'
    BY <2>3 DEF ArgsOK, Witnessed
  <2> QED
    BY <2>1, <2>2, <2>3, <2>4, OwnCallSuffices
<1>3. CASE Call(p)
  <2>1. ASSUME NEW w \in Labels, NEW u \in Uris \cup {NoUri},
               NEW k \in Digests \cup {NoKey}, Start(p, w, u, k),
               w \in {"put", "get"} => k \in Digests,
               w \in {"get_by_sha256", "blob_has", "blob_delete"}
                  => k \in Digests /\ u = NoUri,
               w \in {"resolve_uri", "delete_uri"} => u \in Uris,
               w = "get" => u = NoUri,
               w \notin {"set_uri", "touch_uri", "touch_get", "touch_sha256",
                         "evict_delete_uri", "evict_delete_artifact"}
        PROVE  Inv'
    <3>1. ConnStep(p)
      BY <2>1 DEF Start, ConnStep
    <3>2. CallTypes' /\ Frame(p)
      BY <2>1, <1>t DEF Start, CallTypes, TypeOK, Frame, Labels, Results
    <3>3. pc'[p] = w /\ uri'[p] = u /\ key'[p] = k /\ ret'[p] = "none"
      BY <2>1, <1>t DEF Start, TypeOK
    <3>4. ArgsOK(p)'
      BY <3>3, <2>1 DEF ArgsOK
    <3>5. Witnessed(p)'
      BY <3>3, <2>1 DEF Witnessed
    <3> QED
      BY <3>1, <3>2, <3>3, <3>4, <3>5, OwnCallSuffices
  <2>2. \A b \in Blobs : Blake3(b) \in Digests /\ Sha256(b) \in Digests
    BY DEF Blake3, Sha256, Digests
  <2>3. {"put", "resolve_uri", "delete_uri", "get", "get_by_sha256", "blob_has",
         "blob_delete", "gc", "evict_lru", "purge", "merge_from"} \subseteq Labels
    BY DEF Labels, Statements, EvictStatements
  <2>4. CASE \/ \E u \in Uris, b \in Blobs : Start(p, "put", u, Blake3(b))
             \/ \E b \in Blobs : Start(p, "put", NoUri, Blake3(b))
    BY <2>4, <2>1, <2>2, <2>3
  <2>5. CASE \/ \E u \in Uris : Start(p, "resolve_uri", u, NoKey)
             \/ \E u \in Uris : Start(p, "delete_uri", u, NoKey)
    BY <2>5, <2>1, <2>3
  <2>6. CASE \E k \in Digests : Start(p, "get", NoUri, k)
    BY <2>6, <2>1, <2>3
  <2>7. CASE \E b \in Blobs, w \in {"get_by_sha256", "blob_has", "blob_delete"} :
                Start(p, w, NoUri, Sha256(b))
    BY <2>7, <2>1, <2>2, <2>3
  <2>8. CASE \E w \in {"gc", "evict_lru", "purge", "merge_from"} :
                Start(p, w, NoUri, NoKey)
    BY <2>8, <2>1, <2>3
  <2> QED
    BY <1>3, <2>4, <2>5, <2>6, <2>7, <2>8 DEF Call
<1> QED
  BY <1>1, <1>2, <1>3
-----------------------------------------------------------------------------
LEMMA InitInv == Init => Inv
<1> SUFFICES ASSUME Init PROVE Inv
  OBVIOUS
<1>1. TypeOK
  BY StoreAssumption DEF Init, TypeOK, Stores, Statements
<1>2. Consistent(db)
  BY DEF Init, Consistent
<1>3. ASSUME NEW p \in Procs PROVE ProcInv(p)
  BY DEF Init, ProcInv, ArgsOK, Witnessed, ViewOK, Stale
<1> QED
  BY <1>1, <1>2, <1>3 DEF Inv

LEMMA NextInv == Inv /\ [Next]_vars => Inv'
<1> SUFFICES ASSUME Inv, [Next]_vars PROVE Inv'
  OBVIOUS
<1>1. ASSUME NEW p \in Procs, Step(p) PROVE Inv'
  BY <1>1, LookupSafe, WriteSafe, EvictSafe DEF Step
<1>2. CASE UNCHANGED vars
  BY <1>2 DEF vars, connVars, procVars, Inv, TypeOK, Consistent, ProcInv, ArgsOK,
              Witnessed, Named, ViewOK, View, Stale, Holding
<1> QED
  BY <1>1, <1>2, SessionSafe DEF Next

(* The strengthened invariant holds in every reachable state.               *)
THEOREM InvHolds == Spec => []Inv
<1>1. Init => Inv
  BY InitInv
<1>2. Inv /\ [Next]_vars => Inv'
  BY NextInv
<1> QED
  BY <1>1, <1>2, PTL DEF Spec

(* Type correctness of the store, for any constants.                        *)
THEOREM TypeCorrect == Spec => []TypeOK
<1>1. Inv => TypeOK
  BY DEF Inv
<1> QED
  BY <1>1, InvHolds, PTL

(* A uri never refers to an artifact that is gone, in the file and in every *)
(* snapshot, however many processes put, collect, evict, purge and import.  *)
THEOREM UriIntegrityHolds == Spec => []UriIntegrity
<1>1. Inv => UriIntegrity
  BY DEF Inv, ProcInv, ViewOK, View, UriIntegrity
<1> QED
  BY <1>1, InvHolds, PTL

(* resolve_uri never reports an artifact missing behind a uri it has read.  *)
THEOREM NeverMissingHolds == Spec => []NeverMissing
<1>1. Inv => NeverMissing
  BY DEF Inv, ProcInv, NeverMissing
<1> QED
  BY <1>1, InvHolds, PTL

(* A transaction left open by a failed purge or import has an old snapshot. *)
THEOREM OpenTxnIsStaleHolds == Spec => []OpenTxnIsStale
<1>1. Inv => OpenTxnIsStale
  BY DEF Inv, ProcInv, ViewOK, TypeOK, OpenTxnIsStale
<1> QED
  BY <1>1, InvHolds, PTL
-----------------------------------------------------------------------------
Hit(p) ==
    /\ key'[p].of \in db'.art
    /\ uri'[p] # NoUri => db'.uri[uri'[p]] = key'[p].of

(* Only the touch at the end of a lookup answers with a hit.                *)
LEMMA OnlyTouchesHit ==
    ASSUME TypeOK, NEW p \in Procs, NEW q \in Procs,
           open_external(p) \/ Exit(p) \/ Call(p) \/ Step(p),
           ret'[q] = "hit", ret[q] # "hit"
    PROVE  q = p /\ (get_touch(p) \/ get_by_sha256_touch(p)) /\ Return(p, "hit")
<1> USE DEF TypeOK
<1>1. ASSUME NEW r, Return(p, r) PROVE q = p /\ r = "hit"
  BY <1>1 DEF Return
<1>2. ASSUME NEW l, Goto(p, l) PROVE FALSE
  BY <1>2 DEF Goto
<1>3. CASE open_external(p)
  BY <1>3, <1>2 DEF open_external
<1>4. CASE Exit(p)
  BY <1>4 DEF Exit
<1>5. CASE Call(p)
  <2>1. \A w, u, k : ~Start(p, w, u, k)
    BY DEF Start
  <2> QED
    BY <1>5, <2>1 DEF Call
<1>6. ASSUME NEW r \in {"ok", "miss", "missing", "fk", "locked"}, Return(p, r)
      PROVE  FALSE
  BY <1>6, <1>1
<1>7. CASE put_ref(p) \/ set_uri(p) \/ blob_has(p) \/ blob_delete(p)
  <2>1. \/ Return(p, "ok") \/ Return(p, "miss") \/ Return(p, "fk")
        \/ Return(p, "locked") \/ Goto(p, "set_uri")
    BY <1>7 DEF put_ref, set_uri, blob_has, blob_delete
  <2> QED
    BY <2>1, <1>2, <1>6
<1>8. CASE delete_uri(p) \/ gc(p) \/ purge(p) \/ merge_from(p)
  <2>1. Return(p, "ok") \/ Return(p, "locked")
    BY <1>8 DEF delete_uri, gc, purge, merge_from
  <2> QED
    BY <2>1, <1>6
<1>9. CASE \/ resolve_uri_select(p) \/ resolve_uri_touch(p) \/ get_select(p)
           \/ get_by_sha256_select(p)
  <2>1. \/ Return(p, "miss") \/ Return(p, "locked") \/ Return(p, "missing")
        \/ ret' = ret \/ (\E l \in Statements : Goto(p, l))
    BY <1>9 DEF resolve_uri_select, resolve_uri_touch, get_select,
                get_by_sha256_select, Statements
  <2> QED
    BY <2>1, <1>2, <1>6
<1>10. CASE EvictStep(p)
  <2>1. \/ Return(p, "ok") \/ Return(p, "locked") \/ Return(p, "fk") \/ ret' = ret
    BY <1>10
    DEF EvictStep, EvictBegin, EvictArtifacts, EvictPickArtifact, Goto,
        EvictDeleteArtifact, EvictUris, EvictPickUri, EvictDeleteUri, EvictGc
  <2> QED
    BY <2>1, <1>6
<1>11. CASE get_touch(p)
  BY <1>11, <1>1, <1>2 DEF get_touch
<1>12. CASE get_by_sha256_touch(p)
  BY <1>12, <1>1 DEF get_by_sha256_touch
<1> QED
  BY <1>3, <1>4, <1>5, <1>7, <1>8, <1>9, <1>10, <1>11, <1>12 DEF Step

LEMMA HitStep == Inv /\ [Next]_vars => 
    [\A p \in Procs : ret'[p] = "hit" /\ ret[p] # "hit" => Hit(p)]_vars
<1> SUFFICES ASSUME Inv, Next, NEW q \in Procs, ret'[q] = "hit", ret[q] # "hit"
             PROVE  Hit(q)
  OBVIOUS
<1>1. PICK p \in Procs : open_external(p) \/ Exit(p) \/ Call(p) \/ Step(p)
  BY DEF Next
<1>2. /\ q = p /\ Return(p, "hit")
      /\ get_touch(p) \/ get_by_sha256_touch(p)
  BY <1>1, OnlyTouchesHit DEF Inv
<1>3. uri' = uri /\ key' = key
  BY <1>2 DEF Return
<1>t. TypeOK /\ ArgsOK(p) /\ Witnessed(p)
  BY DEF Inv, ProcInv
<1>4. ret'[p] # "locked" /\ pc'[p] = "idle"
  BY <1>2, <1>t DEF Return, TypeOK
<1>5. CASE get_touch(p)
  <2>1. Commit(p, db, key[p].of \in db.art)
    BY <1>4, <1>5, <1>t DEF get_touch, Return, Goto, TypeOK
  <2>2. db' = db /\ View(p) = db
    BY <2>1 DEF Commit, View
  <2> QED
    BY <1>2, <1>3, <1>5, <1>t, <2>2 DEF get_touch, Witnessed, Named, Hit
<1>6. CASE get_by_sha256_touch(p)
  <2>1. Commit(p, db, key[p].of \in db.art)
    BY <1>4, <1>6, <1>t DEF get_by_sha256_touch, Return, TypeOK
  <2>2. db' = db /\ View(p) = db
    BY <2>1 DEF Commit, View
  <2> QED
    BY <1>2, <1>3, <1>6, <1>t, <2>2 DEF get_by_sha256_touch, Witnessed, ArgsOK, Hit
<1> QED
  BY <1>2, <1>5, <1>6

(* A lookup that succeeds tells the truth about the file at the instant it  *)
(* returns, however old the snapshot was that it began to read.             *)
THEOREM HitIsCurrentHolds == Spec => HitIsCurrent
<1>1. Inv /\ [Next]_vars =>
        [\A p \in Procs : ret'[p] = "hit" /\ ret[p] # "hit" => Hit(p)]_vars
  BY HitStep
<1>2. [\A p \in Procs : ret'[p] = "hit" /\ ret[p] # "hit" => Hit(p)]_vars
        => [\A p \in Procs :
              ret'[p] = "hit" /\ ret[p] # "hit" =>
                /\ key'[p].of \in db'.art
                /\ uri'[p] # NoUri => db'.uri[uri'[p]] = key'[p].of]_vars
  BY DEF Hit
<1> QED
  BY <1>1, <1>2, InvHolds, PTL DEF Spec, HitIsCurrent

-----------------------------------------------------------------------------
(* The refinement of BlobCache.  What p has been told, as its caller keeps  *)
(* it: a hit of an operation that is over.  While an operation runs nothing *)
(* has been told yet, so nothing the statements before its last one do to   *)
(* the registers of the call is visible.                                    *)
Told(p) ==
    IF ret[p] = "hit" THEN [uri |-> uri[p], blob |-> key[p].of]
    ELSE [uri |-> NoUri, blob |-> NoBlob]

NotToldYet == \A p \in Procs : pc[p] # "idle" => ret[p] # "hit"

(* A statement belongs to a call in progress, and either ends it or leaves  *)
(* its result open.                                                         *)
LEMMA StepOfCall ==
    ASSUME TypeOK, NEW p \in Procs, Step(p)
    PROVE  /\ pc[p] # "idle"
           /\ Frame(p)
           /\ pc'[p] = "idle" \/ ret'[p] = ret[p]
<1> USE DEF TypeOK
<1> DEFINE Moves == Frame(p) /\ (pc'[p] = "idle" \/ ret'[p] = ret[p])
<1>1. ASSUME NEW r, Return(p, r) PROVE Moves
  BY <1>1 DEF Return, Frame
<1>2. ASSUME NEW l, Goto(p, l) PROVE Moves
  BY <1>2 DEF Goto, Frame
<1> HIDE DEF Moves
<1>3. CASE put_ref(p) \/ set_uri(p) \/ blob_has(p) \/ blob_delete(p)
  <2>1. Moves
    BY <1>3, <1>1, <1>2 DEF put_ref, set_uri, blob_has, blob_delete
  <2> QED
    BY <2>1, <1>3 DEF put_ref, set_uri, blob_has, blob_delete, Moves
<1>4. CASE delete_uri(p) \/ gc(p) \/ purge(p) \/ merge_from(p)
  <2>1. Moves
    BY <1>4, <1>1 DEF delete_uri, gc, purge, merge_from
  <2> QED
    BY <2>1, <1>4 DEF delete_uri, gc, purge, merge_from, Moves
<1>5. CASE resolve_uri_select(p)
  <2>1. ASSUME NEW b, pc' = [pc EXCEPT ![p] = "touch_uri"],
               key' = [key EXCEPT ![p] = Blake3(b)], UNCHANGED <<uri, ret>>
        PROVE  Moves
    BY <2>1 DEF Moves, Frame
  <2>2. Moves
    BY <1>5, <1>1, <2>1 DEF resolve_uri_select
  <2> QED
    BY <2>2, <1>5 DEF resolve_uri_select, Moves
<1>6. CASE \/ resolve_uri_touch(p) \/ get_select(p) \/ get_touch(p)
           \/ get_by_sha256_select(p) \/ get_by_sha256_touch(p)
  <2>1. Moves
    BY <1>6, <1>1, <1>2
    DEF resolve_uri_touch, get_select, get_touch, get_by_sha256_select,
        get_by_sha256_touch
  <2> QED
    BY <2>1, <1>6
    DEF resolve_uri_touch, get_select, get_touch, get_by_sha256_select,
        get_by_sha256_touch, Moves
<1>7. CASE EvictStep(p)
  <2>1. ASSUME NEW b, key' = [key EXCEPT ![p] = Blake3(b)],
               pc' = [pc EXCEPT ![p] = "evict_delete_artifact"],
               UNCHANGED <<uri, ret>>
        PROVE  Moves
    BY <2>1 DEF Moves, Frame
  <2>2. ASSUME NEW u, uri' = [uri EXCEPT ![p] = u],
               pc' = [pc EXCEPT ![p] = "evict_delete_uri"],
               UNCHANGED <<key, ret>>
        PROVE  Moves
    BY <2>2 DEF Moves, Frame
  <2>3. CASE \/ EvictBegin(p) \/ EvictArtifacts(p) \/ EvictPickArtifact(p)
             \/ EvictDeleteArtifact(p)
    <3>1. Moves
      BY <2>3, <2>1, <1>1, <1>2
      DEF EvictBegin, EvictArtifacts, EvictPickArtifact, EvictDeleteArtifact
    <3> QED
      BY <3>1, <2>3
      DEF EvictBegin, EvictArtifacts, EvictPickArtifact, EvictDeleteArtifact, Moves
  <2>4. CASE EvictUris(p) \/ EvictPickUri(p) \/ EvictDeleteUri(p) \/ EvictGc(p)
    <3>1. Moves
      BY <2>4, <2>2, <1>1, <1>2
      DEF EvictUris, EvictPickUri, EvictDeleteUri, EvictGc
    <3> QED
      BY <3>1, <2>4 DEF EvictUris, EvictPickUri, EvictDeleteUri, EvictGc, Moves
  <2> QED
    BY <1>7, <2>3, <2>4 DEF EvictStep
<1> QED
  BY <1>3, <1>4, <1>5, <1>6, <1>7 DEF Step

LEMMA NextNotToldYet ==
    TypeOK /\ NotToldYet /\ [Next]_vars => NotToldYet'
<1> SUFFICES ASSUME TypeOK, NotToldYet, [Next]_vars, NEW q \in Procs,
                    pc'[q] # "idle"
             PROVE  ret'[q] # "hit"
  BY DEF NotToldYet
<1>1. CASE UNCHANGED vars
  BY <1>1 DEF vars, procVars, NotToldYet
<1>2. ASSUME NEW p \in Procs, Step(p) PROVE ret'[q] # "hit"
  BY <1>2, StepOfCall DEF NotToldYet, Frame
<1>3. ASSUME NEW p \in Procs, open_external(p) PROVE ret'[q] # "hit"
  BY <1>3 DEF open_external, Goto, NotToldYet, TypeOK
<1>4. ASSUME NEW p \in Procs, Exit(p) PROVE ret'[q] # "hit"
  BY <1>4 DEF Exit, NotToldYet, TypeOK
<1>5. ASSUME NEW p \in Procs, Call(p) PROVE ret'[q] # "hit"
  <2>1. ASSUME NEW w, NEW u, NEW k, Start(p, w, u, k) PROVE ret'[q] # "hit"
    BY <2>1 DEF Start, NotToldYet, TypeOK
  <2> QED
    BY <1>5, <2>1 DEF Call
<1> QED
  BY <1>1, <1>2, <1>3, <1>4, <1>5 DEF Next

(* What a statement makes of the two tables: it leaves them alone, brings   *)
(* blobs and bindings in, or takes some away.                               *)
Grown(d) ==
    /\ db.art \subseteq d.art
    /\ \A u \in Uris : db.uri[u] # NoBlob => d.uri[u] # NoBlob
Shrunk(d) ==
    /\ d.art \subseteq db.art
    /\ \A u \in Uris : d.uri[u] \in {db.uri[u], NoBlob}

LEMMA DropShrinks ==
    ASSUME NEW S PROVE Shrunk(WithoutBlobs(db, S)) \/ db \notin Stores
BY DEF Shrunk, WithoutBlobs, Stores

LEMMA UnbindShrinks ==
    ASSUME db \in Stores, NEW v \in Uris PROVE Shrunk(WithUri(db, v, NoBlob))
BY DEF Shrunk, WithUri, Stores

LEMMA StepOnTables ==
    ASSUME Inv, NEW p \in Procs, Step(p)
    PROVE  db' = db \/ Grown(db') \/ Shrunk(db')
<1>t. TypeOK /\ ArgsOK(p) /\ db \in Stores /\ Consistent(db)
  BY DEF Inv, ProcInv, TypeOK
<1>r. ASSUME Refused(p) \/ RefusedBatch(p) \/ UNCHANGED connVars PROVE db' = db
  BY <1>r DEF Refused, RefusedBatch, connVars
<1>c. ASSUME NEW d, NEW wrote, Commit(p, d, wrote) PROVE db' = d
  BY <1>c DEF Commit
<1>1. CASE \/ resolve_uri_select(p) \/ resolve_uri_touch(p) \/ get_select(p)
           \/ get_touch(p) \/ get_by_sha256_select(p) \/ get_by_sha256_touch(p)
           \/ blob_has(p)
  BY <1>1, <1>r, <1>c
  DEF resolve_uri_select, resolve_uri_touch, get_select, get_touch,
      get_by_sha256_select, get_by_sha256_touch, blob_has, ReadCached
<1>2. CASE put_ref(p)
  <2>1. CASE db' = [db EXCEPT !.art = @ \cup {key[p].of},
                              !.sha = @ \cup {key[p].of}]
    BY <2>1, <1>t DEF Grown, Stores
  <2> QED
    BY <1>2, <2>1, <1>r, <1>c DEF put_ref
<1>3. CASE set_uri(p)
  <2>1. uri[p] \in Uris
    BY <1>3, <1>t DEF set_uri, ArgsOK
  <2>2. ASSUME key[p].of \in db.art, db' = WithUri(db, uri[p], key[p].of)
        PROVE  Grown(db')
    <3>1. key[p].of # NoBlob
      BY <2>2, <1>t, StoreAssumption DEF Stores
    <3> QED
      BY <2>1, <2>2, <3>1, <1>t DEF Grown, WithUri, Stores
  <2> QED
    BY <1>3, <2>2, <1>r, <1>c DEF set_uri
<1>4. CASE merge_from(p)
  <2>1. ASSUME NEW s \in Imports,
               db' = [art |-> db.art \cup s.art,
                      sha |-> db.sha \cup (s.sha \ db.art),
                      uri |-> [u \in Uris |-> IF s.uri[u] = NoBlob
                                              THEN db.uri[u] ELSE s.uri[u]]]
        PROVE  Grown(db')
    BY <2>1 DEF Grown
  <2> QED
    BY <1>4, <2>1, <1>r, <1>c DEF merge_from
<1>5. CASE blob_delete(p)
  BY <1>5, <1>r, <1>c, <1>t, DropShrinks DEF blob_delete
<1>6. CASE delete_uri(p) \/ EvictDeleteUri(p)
  <2>1. uri[p] \in Uris
    BY <1>6, <1>t DEF delete_uri, EvictDeleteUri, ArgsOK
  <2> QED
    BY <1>6, <2>1, <1>r, <1>c, <1>t, UnbindShrinks DEF delete_uri, EvictDeleteUri
<1>7. CASE gc(p) \/ EvictGc(p)
  BY <1>7, <1>r, <1>c, <1>t, DropShrinks DEF gc, EvictGc, CollectUnbound
<1>8. CASE purge(p)
  <2>1. CASE db' = [art |-> {}, sha |-> {}, uri |-> [u \in Uris |-> NoBlob]]
    BY <2>1 DEF Shrunk
  <2> QED
    BY <1>8, <2>1, <1>r, <1>c DEF purge
<1>9. CASE EvictDeleteArtifact(p)
  BY <1>9, <1>r, <1>c, <1>t, DropShrinks DEF EvictDeleteArtifact
<1>10. CASE \/ EvictBegin(p) \/ EvictArtifacts(p) \/ EvictPickArtifact(p)
            \/ EvictUris(p) \/ EvictPickUri(p)
  BY <1>10, <1>r
  DEF EvictBegin, EvictArtifacts, EvictPickArtifact, EvictUris, EvictPickUri
<1> QED
  BY <1>1, <1>2, <1>3, <1>4, <1>5, <1>6, <1>7, <1>8, <1>9, <1>10
  DEF Step, EvictStep
-----------------------------------------------------------------------------
(* Steps of the store as steps of the cache.                                *)
LEMMA TellingNothing ==
    ASSUME NEW p \in Procs, Frame(p), ret[p] # "hit", ret'[p] # "hit"
    PROVE  [q \in Procs |-> Told(q)]' = [q \in Procs |-> Told(q)]
<1>1. \A q \in Procs : Told(q)' = Told(q)
  BY DEF Told, Frame
<1> QED
  BY <1>1

LEMMA TellingOne ==
    ASSUME NEW p \in Procs, Frame(p), NEW x, Told(p)' = x
    PROVE  [q \in Procs |-> Told(q)]' = [[q \in Procs |-> Told(q)] EXCEPT ![p] = x]
<1>1. \A q \in Procs \ {p} : Told(q)' = Told(q)
  BY DEF Told, Frame
<1> QED
  BY <1>1

LEMMA TablesMap ==
    ASSUME Inv, Inv', db' = db \/ Grown(db') \/ Shrunk(db'),
           [q \in Procs |-> Told(q)]' = [q \in Procs |-> Told(q)]
    PROVE  [Cache!CacheNext]_Cache!cacheVars
<1>1. /\ db' \in Stores /\ \A u \in Uris : db'.uri[u] \in db'.art \cup {NoBlob}
      /\ db'.uri \in [Uris -> Blobs \cup {NoBlob}] /\ db'.art \subseteq Blobs
  BY DEF Inv, TypeOK, Consistent, Stores
<1>2. Cache!Referable(db'.art, db'.uri)
  BY <1>1 DEF Cache!Referable
<1>3. CASE db' = db
  BY <1>3 DEF Cache!cacheVars, Told
<1>4. CASE Grown(db')
  <2>1. Cache!Extend
    BY <1>1, <1>2, <1>4 DEF Cache!Extend, Grown
  <2> QED
    BY <2>1 DEF Cache!CacheNext, Told
<1>5. CASE Shrunk(db')
  <2>1. Cache!Discard
    BY <1>1, <1>2, <1>5 DEF Cache!Discard, Shrunk
  <2> QED
    BY <2>1 DEF Cache!CacheNext, Told
<1> QED
  BY <1>3, <1>4, <1>5

(* The one statement at which a lookup answers.                             *)
LEMMA AnswerMaps ==
    ASSUME Inv, Inv', Next, NEW p \in Procs, Step(p), ret[p] # "hit",
           ret'[p] = "hit", Frame(p)
    PROVE  Cache!CacheNext
<1>1. Hit(p)
  <2>1. ret' # ret
    OBVIOUS
  <2> QED
    BY <2>1, HitStep DEF vars, procVars
<1>2. get_touch(p) \/ get_by_sha256_touch(p)
  BY OnlyTouchesHit DEF Inv
<1>3. db' = db
  BY <1>2 DEF get_touch, get_by_sha256_touch, Commit, Refused, connVars
<1> DEFINE u == uri'[p]
           b == key'[p].of
           told == [q \in Procs |-> Told(q)]
<1>4. u \in Uris \cup {NoUri}
  BY DEF Inv, TypeOK
<1>5. b \in db.art /\ (u # NoUri => db.uri[u] = b)
  BY <1>1, <1>3 DEF Hit
<1>6. Told(p)' = [uri |-> u, blob |-> b]
  BY DEF Told
<1>7. told' = [told EXCEPT ![p] = [uri |-> u, blob |-> b]]
  BY <1>6, TellingOne
<1>8. Cache!Answer(p)
  BY <1>3, <1>4, <1>5, <1>7 DEF Cache!Answer, Told
<1> QED
  BY <1>8 DEF Cache!CacheNext

(* A call that begins, and a process that goes, take the old answer away.   *)
LEMMA ForgetMaps ==
    ASSUME TypeOK, NEW p \in Procs, Exit(p) \/ Call(p)
    PROVE  Cache!CacheNext
<1> DEFINE told == [q \in Procs |-> Told(q)]
           none == [uri |-> NoUri, blob |-> NoBlob]
<1>1. db' = db /\ Frame(p) /\ ret'[p] = "none"
  <2>1. CASE Exit(p)
    BY <2>1 DEF Exit, Disconnect, Frame, TypeOK
  <2>2. ASSUME NEW w, NEW v, NEW k, Start(p, w, v, k)
        PROVE  db' = db /\ Frame(p) /\ ret'[p] = "none"
    BY <2>2 DEF Start, connVars, Frame, TypeOK
  <2> QED
    BY <2>1, <2>2 DEF Call
<1>2. Told(p)' = none
  BY <1>1 DEF Told
<1>3. told' = [told EXCEPT ![p] = none]
  BY <1>1, <1>2, TellingOne
<1>4. Cache!Forget(p)
  BY <1>1, <1>3 DEF Cache!Forget, Cache!NoAnswer, Told
<1> QED
  BY <1>4 DEF Cache!CacheNext

LEMMA InitMaps == Init => Cache!CacheInit
<1> SUFFICES ASSUME Init PROVE Cache!CacheInit
  OBVIOUS
<1>1. db.art \in SUBSET Blobs /\ db.uri = [u \in Uris |-> NoBlob]
  BY StoreAssumption DEF Init
<1>2. \A p \in Procs : Told(p) = [uri |-> NoUri, blob |-> NoBlob]
  BY DEF Init, Told
<1>3. [p \in Procs |-> Told(p)] = [p \in Procs |-> [uri |-> NoUri, blob |-> NoBlob]]
  BY <1>2
<1> QED
  BY <1>1, <1>3 DEF Cache!CacheInit, Cache!NoAnswer, Told

LEMMA NextMaps ==
    Inv /\ Inv' /\ NotToldYet /\ [Next]_vars => [Cache!CacheNext]_Cache!cacheVars
<1> SUFFICES ASSUME Inv, Inv', NotToldYet, [Next]_vars
             PROVE  [Cache!CacheNext]_Cache!cacheVars
  OBVIOUS
<1>t. TypeOK
  BY DEF Inv
<1>1. CASE UNCHANGED vars
  BY <1>1 DEF vars, connVars, procVars, Cache!cacheVars
<1>2. ASSUME NEW p \in Procs, Step(p)
      PROVE  [Cache!CacheNext]_Cache!cacheVars
  <2>1. ret[p] # "hit" /\ Frame(p)
    BY <1>2, <1>t, StepOfCall DEF NotToldYet
  <2>2. CASE ret'[p] = "hit"
    <3>1. Next
      BY <1>2 DEF Next
    <3> QED
      BY <1>2, <2>1, <2>2, <3>1, AnswerMaps
  <2>3. CASE ret'[p] # "hit"
    <3>1. [q \in Procs |-> Told(q)]' = [q \in Procs |-> Told(q)]
      BY <2>1, <2>3, TellingNothing
    <3> QED
      BY <1>2, <3>1, StepOnTables, TablesMap
  <2> QED
    BY <2>2, <2>3
<1>3. ASSUME NEW p \in Procs, open_external(p)
      PROVE  [Cache!CacheNext]_Cache!cacheVars
  <2>1. db' = db /\ UNCHANGED <<uri, key, ret>>
    BY <1>3 DEF open_external, Commit, Goto
  <2> QED
    BY <2>1 DEF Cache!cacheVars
<1>4. ASSUME NEW p \in Procs, Exit(p) \/ Call(p)
      PROVE  [Cache!CacheNext]_Cache!cacheVars
  BY <1>4, <1>t, ForgetMaps
<1> QED
  BY <1>1, <1>2, <1>3, <1>4 DEF Next

(* The store implements the cache its callers reason about: seen through    *)
(* its tables and the answers it has given, each SQL statement of each      *)
(* process is one indivisible step of BlobCache or none at all.             *)
THEOREM ImplementsCacheHolds == Spec => ImplementsCache
<1>1. Init => NotToldYet
  BY DEF Init, NotToldYet
<1>2. TypeOK /\ NotToldYet /\ [Next]_vars => NotToldYet'
  BY NextNotToldYet
<1>3. Inv => TypeOK
  BY DEF Inv
<1>4. Init => Cache!CacheInit
  BY InitMaps
<1>5. Inv /\ Inv' /\ NotToldYet /\ [Next]_vars => [Cache!CacheNext]_Cache!cacheVars
  BY NextMaps
<1> QED
  BY <1>1, <1>2, <1>3, <1>4, <1>5, InvHolds, PTL
  DEF Spec, ImplementsCache, Cache!CacheSpec
=============================================================================
