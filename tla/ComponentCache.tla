--------------------------- MODULE ComponentCache ---------------------------
(***************************************************************************)
(* The cache of compiled components (Host::component_for_digest and         *)
(* host/src/component_blob_cache.rs): C1, an in-process LRU of each host;   *)
(* C2, the table _component_cache of a database several host processes      *)
(* share, its rows sealed with a secret from ~/.sqlink/cache-hmac.key; and  *)
(* the creation of that file.  A host runs several loads at once.           *)
(*                                                                         *)
(* Abstractions.  The MAC is perfect: a frame opens only with the key, the  *)
(* digest and the engine it was sealed with.  last_used_at counts seconds   *)
(* and is written after the fact, so an eviction may pick any row.          *)
(***************************************************************************)
EXTENDS Naturals, Sequences, FiniteSets, FiniteSetsExt

CONSTANTS
    Hosts, Tasks,       \* processes, and the loads each runs at once
    HostOf, Engine,     \* HostOf[t], Engine[h]
    Digests, NoDigest,
    Size,               \* Size[d]: bytes of the frame of d's machine code
    Cap1,               \* Cap1[h]: capacity of C1 (SQLITE_WASM_COMPONENT_CACHE)
    MaxBytes,           \* SQLITE_WASM_COMPONENT_CACHE_MAX_BYTES, 0: no limit
    MayDisable,         \* hosts that set SQLITE_WASM_DISABLE_COMPONENT_CACHE at times
    Secrets,            \* what /dev/urandom may return
    ForeignRows         \* keys of the rows another machine left in the database

VARIABLES
    file,     \* cache-hmac.key: its content, "absent" or "short"
    key,      \* key[h]: blob_cache_key, "unset", "none" or a secret
    c1,       \* c1[h]: C1, the least recently used entry first
    rows,     \* _component_cache: <<digest, engine>> -> frame
    task,     \* task[t]: the step t is at, with its local variables
    failed    \* an eviction ended before it was done

cacheVars == <<file, key, c1, rows, task, failed>>

Engines == {Engine[h] : h \in Hosts}

(* The machine code of d for engine g, and code nobody here compiled.       *)
Code(d, g) == <<d, g>>
ForeignCode == <<NoDigest, "foreign">>
NoCode == <<NoDigest, "none">>

NoTask == [at |-> "idle", digest |-> NoDigest, code |-> NoCode, secret |-> "none",
           victim |-> <<NoDigest, "none">>]

ASSUME CacheAssumption ==
    /\ HostOf \in [Tasks -> Hosts]
    /\ NoDigest \notin Digests
    /\ Size \in [Digests -> Nat \ {0}]
    /\ Cap1 \in [Hosts -> Nat] /\ MaxBytes \in Nat
    /\ MayDisable \subseteq Hosts
    /\ Secrets \cap {"absent", "short", "unset", "none", "foreign"} = {}
    /\ ForeignRows \subseteq Digests \X Engines

CacheInit ==
    /\ file = "absent"
    /\ key = [h \in Hosts |-> "unset"]
    /\ c1 = [h \in Hosts |-> <<>>]
    /\ rows = [r \in ForeignRows |-> [key |-> "foreign", sealed |-> r, code |-> ForeignCode]]
    /\ task = [t \in Tasks |-> NoTask]
    /\ failed = FALSE
-----------------------------------------------------------------------------
(* ComponentCache::get: the first entry of the digest moves to the back.    *)
Cached(q, d) == \E i \in DOMAIN q : q[i].digest = d
position(q, d) == CHOOSE i \in DOMAIN q : q[i].digest = d /\ \A j \in 1..(i - 1) : q[j].digest # d
get(q, d) ==
    LET pos == position(q, d)
    IN  Append(SubSeq(q, 1, pos - 1) \o SubSeq(q, pos + 1, Len(q)), q[pos])

(* MUTANT of insert: the entry of a concurrent load is not looked for.      *)
insert_blindly(q, cap, d, c) ==
    Append(IF Len(q) >= cap /\ q # <<>> THEN Tail(q) ELSE q, [digest |-> d, code |-> c])

(* ComponentCache::insert: nothing if the digest is there, else the front   *)
(* goes when the cache is full.                                             *)
insert(q, cap, d, c) ==
    IF Cached(q, d) THEN q
    ELSE Append(IF Len(q) >= cap /\ q # <<>> THEN Tail(q) ELSE q, [digest |-> d, code |-> c])

(* user_conn is locked from a store to the end of its eviction.             *)
Locked(h) ==
    \E t \in Tasks : HostOf[t] = h /\ task[t].at \in {"evict", "pick", "delete"}

At(t, step) == task[t].at = step
Goto(t, step) == task' = [task EXCEPT ![t] = [@ EXCEPT !.at = step]]
Return(t) == task' = [task EXCEPT ![t] = NoTask]

(* A load: C1 first.                                                        *)
component_for_digest(t, d) ==
    LET h == HostOf[t] IN
    /\ At(t, "idle")
    /\ \/ /\ h \in MayDisable
          /\ task' = [task EXCEPT ![t] = [NoTask EXCEPT !.at = "bypass", !.digest = d]]
          /\ UNCHANGED c1
       \/ /\ ~Cached(c1[h], d)
          /\ task' = [task EXCEPT ![t] = [NoTask EXCEPT !.at = "key", !.digest = d]]
          /\ UNCHANGED c1
       \/ /\ Cached(c1[h], d)
          /\ c1' = [c1 EXCEPT ![h] = get(@, d)]
          /\ UNCHANGED task
    /\ UNCHANGED <<file, key, rows, failed>>
-----------------------------------------------------------------------------

(* blob_cache_key: the first caller of a host initialises the OnceLock, the *)
(* others wait for it.  load_or_create_hmac_key takes the file if there is  *)
(* one, and gives up on a short one.                                        *)
load_or_create_hmac_key(t) ==
    LET h == HostOf[t] IN
    /\ At(t, "key")
    /\ \A u \in Tasks : HostOf[u] = h => task[u].at \notin {"create", "write"}
    /\ \/ /\ key[h] # "unset"
          /\ Goto(t, "lookup")
          /\ UNCHANGED key
       \/ /\ key[h] = "unset" /\ file # "absent"
          /\ key' = [key EXCEPT ![h] = IF file = "short" THEN "none" ELSE file]
          /\ Goto(t, "lookup")
       \/ /\ key[h] = "unset"                         \* no file, or unreadable
          /\ \E s \in Secrets :
                task' = [task EXCEPT ![t] = [@ EXCEPT !.at = "create", !.secret = s]]
          /\ UNCHANGED key
       \/ /\ key[h] = "unset"                         \* no HOME, no /dev/urandom
          /\ key' = [key EXCEPT ![h] = "none"]
          /\ Goto(t, "lookup")
    /\ UNCHANGED <<file, c1, rows, failed>>

(* MUTANT of create_new: an existing file is truncated.                     *)
create_over(t) ==
    /\ At(t, "create")
    /\ file' = "short" /\ Goto(t, "write")
    /\ UNCHANGED <<key, c1, rows, failed>>

(* write_mode_0600: the file must not exist yet ...                         *)
create_new(t) ==
    /\ At(t, "create")
    /\ IF file = "absent"
       THEN file' = "short" /\ Goto(t, "write") /\ UNCHANGED key
       ELSE /\ key' = [key EXCEPT ![HostOf[t]] = "none"]
            /\ task' = [task EXCEPT ![t] = [@ EXCEPT !.at = "lookup", !.secret = "none"]]
            /\ UNCHANGED file
    /\ UNCHANGED <<c1, rows, failed>>

(* ... and is written afterwards, if the disk has room.                     *)
write_all(t) ==
    /\ At(t, "write")
    /\ \/ /\ file' = task[t].secret
          /\ key' = [key EXCEPT ![HostOf[t]] = task[t].secret]
       \/ /\ key' = [key EXCEPT ![HostOf[t]] = "none"]
          /\ UNCHANGED file
    /\ task' = [task EXCEPT ![t] = [@ EXCEPT !.at = "lookup", !.secret = "none"]]
    /\ UNCHANGED <<c1, rows, failed>>
-----------------------------------------------------------------------------
RowKey(t) == <<task[t].digest, Engine[HostOf[t]]>>

(* CompileCache::seal and open, of a dependency.                            *)
seal(k, r, c) == [key |-> k, sealed |-> r, code |-> c]

(* MUTANT of open_artifact: the tag is not compared.                        *)
open_artifact_unchecked(f, k, r) == f.sealed = r
open_artifact(f, k, r) == f.key = k /\ f.sealed = r

(* A row that opens and deserialises is used; anything else, a refused      *)
(* statement too, is a miss.                                                *)
try_c2_lookup(t) ==
    LET k == key[HostOf[t]]
        r == RowKey(t)
    IN  /\ At(t, "lookup")
        /\ k = "none" \/ ~Locked(HostOf[t])
        /\ \/ /\ k # "none" /\ r \in DOMAIN rows /\ open_artifact(rows[r], k, r)
              /\ task' = [task EXCEPT ![t] = [@ EXCEPT !.at = "insert", !.code = rows[r].code]]
           \/ Goto(t, "compile")
        /\ UNCHANGED <<file, key, c1, rows, failed>>

(* compile_via_runtime; it may fail, and then the load does.                *)
compile_via_runtime(t) ==
    /\ \/ /\ At(t, "compile")
          /\ task' = [task EXCEPT ![t] = [@ EXCEPT !.at = "store",
                                                !.code = Code(task[t].digest, Engine[HostOf[t]])]]
       \/ /\ task[t].at \in {"bypass", "compile"}    \* returned, or failed
          /\ Return(t)
    /\ UNCHANGED <<file, key, c1, rows, failed>>

(* try_c2_store: INSERT OR REPLACE, then the eviction unless MaxBytes is 0. *)
(* Without a key, or when the statement is refused, C2 is left alone.       *)
store(t) ==
    LET k == key[HostOf[t]]
        r == RowKey(t)
    IN  /\ At(t, "store")
        /\ k = "none" \/ ~Locked(HostOf[t])
        /\ \/ /\ k # "none"
              /\ rows' = [x \in DOMAIN rows \cup {r} |->
                             IF x = r THEN seal(k, r, task[t].code) ELSE rows[x]]
              /\ Goto(t, IF MaxBytes = 0 THEN "insert" ELSE "evict")
           \/ /\ Goto(t, "insert")
              /\ UNCHANGED rows
        /\ UNCHANGED <<file, key, c1, failed>>

TotalOf(R) == MapThenSumSet(LAMBDA r : Size[r[1]], R)

(* total_bytes.                                                             *)
total_bytes == TotalOf(DOMAIN rows)

(* evict_to, statement by statement: the total, ...                         *)
evict_total(t) ==
    /\ At(t, "evict")
    /\ Goto(t, IF total_bytes <= MaxBytes THEN "insert" ELSE "pick")
    /\ UNCHANGED <<file, key, c1, rows, failed>>

(* ... a victim, if another process left one, ...                           *)
evict_pick(t) ==
    /\ At(t, "pick")
    /\ \/ /\ DOMAIN rows = {} /\ Goto(t, "insert")
       \/ \E r \in DOMAIN rows :
             task' = [task EXCEPT ![t] = [@ EXCEPT !.at = "delete", !.victim = r]]
    /\ UNCHANGED <<file, key, c1, rows, failed>>

(* ... and its removal, which starts the loop again.                        *)
evict_delete(t) ==
    /\ At(t, "delete")
    /\ rows' = [x \in DOMAIN rows \ {task[t].victim} |-> rows[x]]
    /\ task' = [task EXCEPT ![t] = [@ EXCEPT !.at = "evict", !.victim = NoTask.victim]]
    /\ UNCHANGED <<file, key, c1, failed>>

(* A refused statement ends the eviction; the load goes on.                 *)
evict_fails(t) ==
    /\ task[t].at \in {"evict", "pick", "delete"}
    /\ failed' = TRUE
    /\ task' = [task EXCEPT ![t] = [@ EXCEPT !.at = "insert", !.victim = NoTask.victim]]
    /\ UNCHANGED <<file, key, c1, rows>>

(* The component goes into C1, and to the caller.                           *)
finish(t) ==
    /\ At(t, "insert")
    /\ c1' = [c1 EXCEPT ![HostOf[t]] = insert(@, Cap1[HostOf[t]], task[t].digest, task[t].code)]
    /\ Return(t)
    /\ UNCHANGED <<file, key, rows, failed>>

(* `.cache gc components`.                                                  *)
component_cache_purge(h) ==
    /\ ~Locked(h)
    /\ rows' = [r \in {} |-> 0]
    /\ UNCHANGED <<file, key, c1, task, failed>>

(* The process dies, and is started again; its statements are undone or     *)
(* done.                                                                    *)
Killed(h) ==
    /\ key' = [key EXCEPT ![h] = "unset"]
    /\ c1' = [c1 EXCEPT ![h] = <<>>]
    /\ task' = [t \in Tasks |-> IF HostOf[t] = h THEN NoTask ELSE task[t]]
    /\ failed' = (failed \/ Locked(h))
    /\ UNCHANGED <<file, rows>>

Step(t) ==
    \/ \E d \in Digests : component_for_digest(t, d)
    \/ load_or_create_hmac_key(t) \/ create_new(t) \/ write_all(t)
    \/ try_c2_lookup(t) \/ compile_via_runtime(t) \/ store(t)
    \/ evict_total(t) \/ evict_pick(t) \/ evict_delete(t) \/ evict_fails(t)
    \/ finish(t)

CacheNext ==
    \/ \E t \in Tasks : Step(t)
    \/ \E h \in Hosts : component_cache_purge(h) \/ Killed(h)

CacheSpec == CacheInit /\ [][CacheNext]_cacheVars
-----------------------------------------------------------------------------
Steps == {"idle", "bypass", "key", "create", "write", "lookup", "compile", "store",
          "evict", "pick", "delete", "insert"}

(* The secret's file, the two tiers and the loads' locals have the shape    *)
(* their Rust types say.                                                    *)
CacheTypeOK ==
    /\ file \in {"absent", "short"} \cup Secrets
    /\ key \in [Hosts -> {"unset", "none"} \cup Secrets]
    /\ DOMAIN c1 = Hosts
    /\ DOMAIN rows \subseteq Digests \X Engines
    /\ DOMAIN task = Tasks
    /\ \A t \in Tasks : /\ task[t].at \in Steps
                        /\ task[t].digest \in Digests \cup {NoDigest}
                        /\ At(t, "write") => task[t].secret \in Secrets
    /\ failed \in BOOLEAN

(* Whatever a load returns or C1 keeps was compiled from those bytes by     *)
(* this engine: rows of other machines, engines and digests are never       *)
(* executed, whoever replaces or removes them meanwhile.                    *)
RightCode ==
    /\ \A t \in Tasks :
          At(t, "insert") => task[t].code = Code(task[t].digest, Engine[HostOf[t]])
    /\ \A h \in Hosts : \A i \in DOMAIN c1[h] :
          c1[h][i].code = Code(c1[h][i].digest, Engine[h])

(* Two hosts that both have a secret have the same one, the one in the      *)
(* file, however their first loads race: they accept each other's rows, and *)
(* a restarted host accepts its own.                                        *)
KeysAgree == \A h \in Hosts : key[h] \notin {"unset", "none"} => key[h] = file

(* C1 never holds more entries than its capacity (one, if that is zero),    *)
(* nor a digest twice, although loads look before they compile and insert   *)
(* after.                                                                   *)
C1Bounded ==
    \A h \in Hosts :
        /\ Len(c1[h]) <= (IF Cap1[h] = 0 THEN 1 ELSE Cap1[h])
        /\ \A i, j \in DOMAIN c1[h] : c1[h][i].digest = c1[h][j].digest => i = j

(* The table stays within its limit whenever no load is evicting, although  *)
(* each process goes by the totals it saw while others store; unless an     *)
(* eviction was cut short.                                                  *)
C2Bounded ==
    LET AtRest == \A t \in Tasks : task[t].at \notin {"evict", "pick", "delete"}
    IN  MaxBytes # 0 /\ TotalOf(ForeignRows) <= MaxBytes /\ AtRest /\ ~failed
            => total_bytes <= MaxBytes

(* Both levels keep to their limits, whatever loads, evictions and purges   *)
(* of several tasks and processes overlap (compile_component, C2Cache).     *)
CachesBounded == C1Bounded /\ C2Bounded
=============================================================================
