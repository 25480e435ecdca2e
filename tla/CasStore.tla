------------------------------ MODULE CasStore ------------------------------
(***************************************************************************)
(* The content-addressed store of sqlite-cas-cache (SqliteCasStore) as      *)
(* several sqlink processes use it at the same time: one database file,     *)
(* one connection per process, one operation at a time per process (the     *)
(* Mutex of host/src/cache.rs).  Operations of one process are sequences    *)
(* of SQL statements; statements of different processes interleave.         *)
(*                                                                         *)
(* Abstractions.  A blob stands for its bytes; its two digests are tagged   *)
(* by algorithm and differ from every other digest.  Timestamps and use     *)
(* counts are left out, so that "the oldest candidate" is any candidate     *)
(* (the wall clock of two processes orders nothing); a touch still commits, *)
(* which is what other processes notice.                                    *)
(***************************************************************************)
EXTENDS SqliteConn, Naturals, FiniteSetsExt

CONSTANTS
    Blobs, NoBlob,      \* contents, and "no row"
    Uris, NoUri,        \* names bound to contents, and "no name"
    Size,               \* bytes_len of each blob
    EvictTarget,        \* the target_bytes given to evict_lru
    Legacy,             \* rows of a database first written by schema v1
    Imports,            \* the stores merge_from may be pointed at
    Work                \* the operations the processes call

VARIABLES
    pc,     \* pc[p]: the statement p runs next
    uri,    \* uri[p]: the uri argument, or the uri picked as a victim
    key,    \* key[p]: the digest p works on
    ret     \* ret[p]: how p's latest operation ended

procVars == <<pc, uri, key, ret>>
vars == <<connVars, procVars>>

Digests == [alg : {"blake3", "sha256"}, of : Blobs]
NoKey == [alg |-> "none", of |-> NoBlob]
Blake3(b) == [alg |-> "blake3", of |-> b]
Sha256(b) == [alg |-> "sha256", of |-> b]

(* __cas_artifact (art: the rows, sha: those with a sha256) and __cas_uri.  *)
Stores == [art : SUBSET Blobs, sha : SUBSET Blobs,
           uri : [Uris -> Blobs \cup {NoBlob}]]

(* The SELECTs of store.rs that stay cached, by the function that runs them.*)
Cursors == {"resolve_uri", "get", "get_by_sha256", "has"}

ASSUME StoreAssumption ==
    /\ NoBlob \notin Blobs /\ NoUri \notin Uris /\ NoSnap \notin Stores
    /\ Size \in [Blobs -> Nat] /\ EvictTarget \in Nat
    /\ IsFiniteSet(Blobs)
    /\ Legacy \subseteq Blobs
    /\ Imports \subseteq Stores
    \* a source store keeps the same foreign key
    /\ \A s \in Imports : \A u \in Uris : s.uri[u] \in s.art \cup {NoBlob}
    /\ \A s \in Imports : s.sha \subseteq s.art

Bound(d) == {d.uri[u] : u \in Uris} \ {NoBlob}
Unbound(d) == d.art \ Bound(d)
total_bytes(d) == MapThenSumSet(LAMBDA b : Size[b], d.art)

WithoutBlobs(d, S) == [d EXCEPT !.art = @ \ S, !.sha = @ \ S]
WithUri(d, u, b) == [d EXCEPT !.uri = [@ EXCEPT ![u] = b]]

Init ==
    /\ db = [art |-> Legacy, sha |-> {}, uri |-> [u \in Uris |-> NoBlob]]
    /\ snap = [p \in Procs |-> NoSnap]
    /\ pins = [p \in Procs |-> {}]
    /\ txn = {}
    /\ pc = [p \in Procs |-> "closed"]
    /\ uri = [p \in Procs |-> NoUri]
    /\ key = [p \in Procs |-> NoKey]
    /\ ret = [p \in Procs |-> "none"]
-----------------------------------------------------------------------------
Goto(p, l) == pc' = [pc EXCEPT ![p] = l] /\ UNCHANGED <<uri, key, ret>>

(* The operation returns r.  A hit keeps what was found, as its answer.     *)
Return(p, r) ==
    /\ pc' = [pc EXCEPT ![p] = "idle"]
    /\ ret' = [ret EXCEPT ![p] = r]
    /\ uri' = IF r = "hit" THEN uri ELSE [uri EXCEPT ![p] = NoUri]
    /\ key' = IF r = "hit" THEN key ELSE [key EXCEPT ![p] = NoKey]

(* install_schema on an up-to-date file still writes the version row.       *)
open_external(p) ==
    /\ pc[p] = "closed"
    /\ Commit(p, db, TRUE)
    /\ Goto(p, "idle")

(* The process exits or is killed, in the middle of an operation or not.    *)
Exit(p) ==
    /\ pc[p] # "closed"
    /\ Disconnect(p)
    /\ pc' = [pc EXCEPT ![p] = "closed"]
    /\ uri' = [uri EXCEPT ![p] = NoUri]
    /\ key' = [key EXCEPT ![p] = NoKey]
    /\ ret' = [ret EXCEPT ![p] = "none"]

Start(p, w, u, k) ==
    /\ pc[p] = "idle" /\ w \in Work
    /\ pc' = [pc EXCEPT ![p] = w]
    /\ uri' = [uri EXCEPT ![p] = u]
    /\ key' = [key EXCEPT ![p] = k]
    /\ ret' = [ret EXCEPT ![p] = "none"]
    /\ UNCHANGED connVars

Call(p) ==
    \/ \E u \in Uris, b \in Blobs : Start(p, "put", u, Blake3(b))
    \/ \E b \in Blobs : Start(p, "put", NoUri, Blake3(b))
    \/ \E u \in Uris : Start(p, "resolve_uri", u, NoKey)
    \/ \E u \in Uris : Start(p, "delete_uri", u, NoKey)
    \/ \E k \in Digests : Start(p, "get", NoUri, k)
    \/ \E b \in Blobs, w \in {"get_by_sha256", "blob_has", "blob_delete"} :
          Start(p, w, NoUri, Sha256(b))
    \/ \E w \in {"gc", "evict_lru", "purge", "merge_from"} :
          Start(p, w, NoUri, NoKey)
-----------------------------------------------------------------------------
(* put_ref: insert the row, or backfill its sha256.                         *)
put_ref(p) ==
    /\ pc[p] = "put"
    /\ LET b == key[p].of IN
       \/ /\ Commit(p, [db EXCEPT !.art = @ \cup {b}, !.sha = @ \cup {b}], TRUE)
          /\ IF uri[p] = NoUri THEN Return(p, "ok") ELSE Goto(p, "set_uri")
       \/ Refused(p) /\ Return(p, "locked")

(* set_uri, the second half of Cache::put.  The row may be gone again.      *)
set_uri(p) ==
    /\ pc[p] = "set_uri"
    /\ LET b == key[p].of IN
       \/ /\ b \in db.art
          /\ Commit(p, WithUri(db, uri[p], b), TRUE)
          /\ Return(p, "ok")
       \/ /\ b \notin db.art /\ ~Stale(p)
          /\ UNCHANGED connVars
          /\ Return(p, "fk")
       \/ Refused(p) /\ Return(p, "locked")

(* resolve_uri: SELECT hash, touch the uri row, then get(hash).             *)
resolve_uri_select(p) ==
    /\ pc[p] = "resolve_uri"
    /\ LET b == ViewAfterReset(p, "resolve_uri").uri[uri[p]] IN
       /\ ReadCached(p, "resolve_uri", b # NoBlob)
       /\ IF b = NoBlob
          THEN Return(p, "miss")
          ELSE /\ pc' = [pc EXCEPT ![p] = "touch_uri"]
               /\ key' = [key EXCEPT ![p] = Blake3(b)]
               /\ UNCHANGED <<uri, ret>>

resolve_uri_touch(p) ==
    /\ pc[p] = "touch_uri"
    /\ \/ Commit(p, db, db.uri[uri[p]] # NoBlob) /\ Goto(p, "get")
       \/ Refused(p) /\ Return(p, "locked")

(* get: SELECT bytes, then touch.  Called by resolve_uri, where a missing   *)
(* row is an error, and by Cache::lookup_by_hash, which goes on to ask for  *)
(* the same 32 bytes as a sha-256 when get finds nothing or fails.          *)
get_select(p) ==
    /\ pc[p] = "get"
    /\ LET found == /\ key[p].alg = "blake3"
                    /\ key[p].of \in ViewAfterReset(p, "get").art
       IN  /\ ReadCached(p, "get", found)
           /\ IF found THEN Goto(p, "touch_get")
              ELSE IF uri[p] # NoUri THEN Return(p, "missing")
              ELSE Goto(p, "get_by_sha256")

(* MUTANT of get_touch: the error of the UPDATE is dropped (let _ = ...).   *)
get_touch_ignoring_error(p) ==
    /\ pc[p] = "touch_get"
    /\ Commit(p, db, key[p].of \in db.art) \/ Refused(p)
    /\ Return(p, "hit")

get_touch(p) ==
    /\ pc[p] = "touch_get"
    /\ \/ Commit(p, db, key[p].of \in db.art) /\ Return(p, "hit")
       \/ /\ Refused(p)
          /\ IF uri[p] # NoUri THEN Return(p, "locked")
             ELSE Goto(p, "get_by_sha256")

get_by_sha256_select(p) ==
    /\ pc[p] = "get_by_sha256"
    /\ LET found == /\ key[p].alg = "sha256"
                    /\ key[p].of \in ViewAfterReset(p, "get_by_sha256").sha
       IN  /\ ReadCached(p, "get_by_sha256", found)
           /\ IF found THEN Goto(p, "touch_sha256") ELSE Return(p, "miss")

get_by_sha256_touch(p) ==
    /\ pc[p] = "touch_sha256"
    /\ \/ Commit(p, db, key[p].of \in db.art) /\ Return(p, "hit")
       \/ Refused(p) /\ Return(p, "locked")

(* BlobBackend::has (size runs the same way): a cached SELECT, no touch.    *)
blob_has(p) ==
    /\ pc[p] = "blob_has"
    /\ LET found == key[p].of \in ViewAfterReset(p, "has").sha IN
       /\ ReadCached(p, "has", found)
       /\ Return(p, IF found THEN "ok" ELSE "miss")

(* BlobBackend::delete: the foreign key keeps a bound row.                  *)
blob_delete(p) ==
    /\ pc[p] = "blob_delete"
    /\ LET b == key[p].of IN
       \/ /\ b \notin db.sha \/ b \in Unbound(db)
          /\ Commit(p, IF b \in db.sha THEN WithoutBlobs(db, {b}) ELSE db,
                    b \in db.sha)
          /\ Return(p, IF b \in db.sha THEN "ok" ELSE "miss")
       \/ /\ b \in db.sha /\ b \in Bound(db) /\ ~Stale(p)
          /\ UNCHANGED connVars
          /\ Return(p, "fk")
       \/ Refused(p) /\ Return(p, "locked")

delete_uri(p) ==
    /\ pc[p] = "delete_uri"
    /\ \/ /\ Commit(p, WithUri(db, uri[p], NoBlob), db.uri[uri[p]] # NoBlob)
          /\ Return(p, "ok")
       \/ Refused(p) /\ Return(p, "locked")

(* One DELETE takes every row no uri refers to.                             *)
CollectUnbound(p) == Commit(p, WithoutBlobs(db, Unbound(db)), Unbound(db) # {})

gc(p) ==
    /\ pc[p] = "gc"
    /\ \/ CollectUnbound(p) /\ Return(p, "ok")
       \/ Refused(p) /\ Return(p, "locked")

(* MUTANT of purge: the COMMIT is missing from the batch.                   *)
purge_without_commit(p) ==
    /\ pc[p] = "purge"
    /\ txn' = txn \cup {p}
    /\ UNCHANGED <<db, snap, pins>>
    /\ Return(p, "ok")

(* One transaction, but nothing rolls it back when its DELETE is refused.   *)
purge(p) ==
    /\ pc[p] = "purge"
    /\ \/ /\ Commit(p, [art |-> {}, sha |-> {}, uri |-> [u \in Uris |-> NoBlob]],
                    db.art # {})
          /\ Return(p, "ok")
       \/ RefusedBatch(p) /\ Return(p, "locked")

(* MUTANT of merge_from: bindings are copied, artifacts are not.            *)
merge_from_uris_only(p) ==
    /\ pc[p] = "merge_from"
    /\ \/ \E s \in Imports :
             /\ Commit(p, [db EXCEPT !.uri = [u \in Uris |->
                              IF s.uri[u] = NoBlob THEN db.uri[u] ELSE s.uri[u]]],
                       TRUE)
             /\ Return(p, "ok")
       \/ RefusedBatch(p) /\ Return(p, "locked")

(* Rows of the source that are new, and all of its bindings; one            *)
(* transaction, left open like purge's when it is refused.                  *)
merge_from(p) ==
    /\ pc[p] = "merge_from"
    /\ \/ \E s \in Imports :
             /\ Commit(p, [art |-> db.art \cup s.art,
                           sha |-> db.sha \cup (s.sha \ db.art),
                           uri |-> [u \in Uris |-> IF s.uri[u] = NoBlob
                                                   THEN db.uri[u]
                                                   ELSE s.uri[u]]],
                       ~(s.art \subseteq db.art) \/ Bound(s) # {})
             /\ Return(p, "ok")
       \/ RefusedBatch(p) /\ Return(p, "locked")
-----------------------------------------------------------------------------
(* evict_lru.  Each total_bytes and each pick is a SELECT of its own on a   *)
(* statement that is finalized at once, so it pins nothing.                 *)
OverTarget(p) == total_bytes(View(p)) > EvictTarget

EvictBegin(p) ==
    /\ pc[p] = "evict_lru"
    /\ IF OverTarget(p) THEN Goto(p, "evict_artifacts") ELSE Return(p, "ok")
    /\ UNCHANGED connVars

(* Phase 1, while (total > target): pick an unbound row and delete it.      *)
EvictArtifacts(p) ==
    /\ pc[p] = "evict_artifacts"
    /\ Goto(p, IF OverTarget(p) THEN "evict_pick_artifact" ELSE "evict_uris")
    /\ UNCHANGED connVars

(* MUTANT of EvictPickArtifact: no break when every row is bound.           *)
EvictPickArtifact_no_break(p) ==
    /\ pc[p] = "evict_pick_artifact"
    /\ IF Unbound(View(p)) = {}
       THEN Goto(p, "evict_artifacts")
       ELSE \E b \in Unbound(View(p)) :
               /\ key' = [key EXCEPT ![p] = Blake3(b)]
               /\ pc' = [pc EXCEPT ![p] = "evict_delete_artifact"]
               /\ UNCHANGED <<uri, ret>>
    /\ UNCHANGED connVars

EvictPickArtifact(p) ==
    /\ pc[p] = "evict_pick_artifact"
    /\ IF Unbound(View(p)) = {}
       THEN Goto(p, "evict_uris")
       ELSE \E b \in Unbound(View(p)) :
               /\ key' = [key EXCEPT ![p] = Blake3(b)]
               /\ pc' = [pc EXCEPT ![p] = "evict_delete_artifact"]
               /\ UNCHANGED <<uri, ret>>
    /\ UNCHANGED connVars

(* MUTANT of EvictDeleteArtifact: the row goes even if it was bound since.  *)
EvictDeleteArtifact_without_fk(p) ==
    /\ pc[p] = "evict_delete_artifact"
    /\ \/ /\ Commit(p, WithoutBlobs(db, {key[p].of}), key[p].of \in db.art)
          /\ Goto(p, "evict_artifacts")
       \/ Refused(p) /\ Return(p, "locked")

(* The pick is not part of the DELETE: a uri may have been bound since.     *)
EvictDeleteArtifact(p) ==
    /\ pc[p] = "evict_delete_artifact"
    /\ LET b == key[p].of IN
       \/ /\ b \notin Bound(db)
          /\ Commit(p, WithoutBlobs(db, {b}), b \in db.art)
          /\ Goto(p, "evict_artifacts")
       \/ /\ b \in Bound(db) /\ ~Stale(p)
          /\ UNCHANGED connVars
          /\ Return(p, "fk")
       \/ Refused(p) /\ Return(p, "locked")

(* Phase 2, while (total > target): pick a uri, delete it, gc().            *)
EvictUris(p) ==
    /\ pc[p] = "evict_uris"
    /\ IF OverTarget(p) THEN Goto(p, "evict_pick_uri") ELSE Return(p, "ok")
    /\ UNCHANGED connVars

EvictPickUri(p) ==
    /\ pc[p] = "evict_pick_uri"
    /\ LET named == {u \in Uris : View(p).uri[u] # NoBlob} IN
       IF named = {}
       THEN Return(p, "ok")
       ELSE \E u \in named :
               /\ uri' = [uri EXCEPT ![p] = u]
               /\ pc' = [pc EXCEPT ![p] = "evict_delete_uri"]
               /\ UNCHANGED <<key, ret>>
    /\ UNCHANGED connVars

EvictDeleteUri(p) ==
    /\ pc[p] = "evict_delete_uri"
    /\ \/ /\ Commit(p, WithUri(db, uri[p], NoBlob), db.uri[uri[p]] # NoBlob)
          /\ Goto(p, "evict_gc")
       \/ Refused(p) /\ Return(p, "locked")

EvictGc(p) ==
    /\ pc[p] = "evict_gc"
    /\ \/ CollectUnbound(p) /\ Goto(p, "evict_uris")
       \/ Refused(p) /\ Return(p, "locked")

EvictStep(p) ==
    \/ EvictBegin(p) \/ EvictArtifacts(p) \/ EvictPickArtifact(p)
    \/ EvictDeleteArtifact(p) \/ EvictUris(p) \/ EvictPickUri(p)
    \/ EvictDeleteUri(p) \/ EvictGc(p)

(* The next statement of the operation p is in. *)
Step(p) ==
    \/ put_ref(p) \/ set_uri(p)
    \/ resolve_uri_select(p) \/ resolve_uri_touch(p)
    \/ get_select(p) \/ get_touch(p)
    \/ get_by_sha256_select(p) \/ get_by_sha256_touch(p)
    \/ blob_has(p) \/ blob_delete(p)
    \/ delete_uri(p) \/ gc(p) \/ purge(p) \/ merge_from(p)
    \/ EvictStep(p)

Next == \E p \in Procs : open_external(p) \/ Exit(p) \/ Call(p) \/ Step(p)

(* A call that was made runs on: nothing in it waits for anyone.  Whether a *)
(* process calls, starts or exits is up to its user.                        *)
Spec == Init /\ [][Next]_vars /\ \A p \in Procs : WF_vars(Step(p))
-----------------------------------------------------------------------------
Statements == {"closed", "idle", "put", "set_uri", "resolve_uri", "touch_uri",
    "get", "touch_get", "get_by_sha256", "touch_sha256", "blob_has",
    "blob_delete", "delete_uri", "gc", "purge", "merge_from"}
EvictStatements == {"evict_lru", "evict_artifacts", "evict_pick_artifact",
    "evict_delete_artifact", "evict_uris", "evict_pick_uri",
    "evict_delete_uri", "evict_gc"}

(* Every variable keeps to its type. *)
TypeOK ==
    /\ db \in Stores
    /\ snap \in [Procs -> Stores \cup {NoSnap}]
    /\ pins \in [Procs -> SUBSET Cursors]
    /\ txn \subseteq Procs
    /\ pc \in [Procs -> Statements \cup EvictStatements]
    /\ uri \in [Procs -> Uris \cup {NoUri}]
    /\ key \in [Procs -> Digests \cup {NoKey}]
    /\ ret \in [Procs -> {"none", "ok", "hit", "miss", "missing", "fk", "locked"}]

Consistent(d) ==
    /\ \A u \in Uris : d.uri[u] \in d.art \cup {NoBlob}
    /\ d.sha \subseteq d.art

(* No uri row refers to an artifact row that is gone, in the file and in    *)
(* every snapshot a process still reads, whatever put, gc, eviction, purge  *)
(* and import do to each other between their statements.                    *)
UriIntegrity == \A p \in Procs : Consistent(db) /\ Consistent(View(p))

(* resolve_uri reads the uri row and the artifact row with two statements.  *)
(* Its error "uri_index references missing artifact" is never produced by   *)
(* a concurrent eviction or purge: the SELECT on the uri row still stands   *)
(* when the second one runs, so both see the same snapshot.                 *)
NeverMissing == \A p \in Procs : ret[p] # "missing"

(* Only a session whose snapshot is old is left inside a transaction that   *)
(* a failed purge or import did not end.                                    *)
OpenTxnIsStale == \A p \in txn : Stale(p)

(* A lookup that succeeds is true at the instant it returns: the artifact   *)
(* is in the file and, for a lookup by uri, the uri is bound to it.  A      *)
(* session that reads an old snapshot is refused the touch that ends every  *)
(* lookup, so what the snapshot showed never gets out.                      *)
HitIsCurrent ==
    [][\A p \in Procs :
         ret'[p] = "hit" /\ ret[p] # "hit" =>
            /\ key'[p].of \in db'.art
            /\ uri'[p] # NoUri => db'.uri[uri'[p]] = key'[p].of]_vars

(* The store implements the cache its callers reason about.                 *)
Cache == INSTANCE BlobCache WITH
    rows <- db.art,
    names <- db.uri,
    answer <- [p \in Procs |->
                 IF ret[p] = "hit" THEN [uri |-> uri[p], blob |-> key[p].of]
                 ELSE [uri |-> NoUri, blob |-> NoBlob]]
ImplementsCache == Cache!CacheSpec

(* Every operation that was called returns, unless its process exits.  An   *)
(* eviction returns once the other processes leave it alone: each round of  *)
(* its loops deletes something or ends the loop.                            *)
OperationsReturn ==
    \A p \in Procs :
        /\ pc[p] \in Statements \ {"idle", "closed"} ~> pc[p] \in {"idle", "closed"}
        /\ <>[](\A q \in Procs \ {p} : pc[q] \in {"idle", "closed"})
              => (pc[p] \in EvictStatements ~> pc[p] \in {"idle", "closed"})

(* host/src/cache.rs: readers and writers of other processes are serialized *)
(* by SQLite's file lock; so none of them is turned away.                   *)
NobodyTurnedAway == \A p \in Procs : ret[p] # "locked"
=============================================================================
