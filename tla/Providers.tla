----------------------------- MODULE Providers -----------------------------
(***************************************************************************)
(* The table of compose providers of host/src/lib.rs and compose_provider.rs *)
(* and what feeds it: registration under a trust policy, with the signature  *)
(* checked by a component; resolution by tenant and id, by digest and by     *)
(* URI; language runtimes; the built-in `sqlite-runtime` provider with its   *)
(* numbered statements; and fetch_artifact of the store behind the cache.    *)
(*                                                                           *)
(* Abstractions.  The bytes of a file are a model value and stand for what   *)
(* they compile to; a digest is [alg, of].  A row is [sql, at, n]: the n-th  *)
(* row of a query run when the database held `at` rows.  Encodings (CBOR)    *)
(* and what a component computes are left out.  A client is one task or      *)
(* thread of the process and works off its program, chosen initially; the    *)
(* steps "edit", "put" and "evict" of a program are other programs changing  *)
(* files and the store.  MaxFaults bounds what fails.                        *)
(***************************************************************************)
EXTENDS Naturals, Sequences, FiniteSets

CONSTANTS
    Clients, Contents, Paths,
    Tenants, Default,   \* DEFAULT_TENANT
    Ids, SqliteRuntime, \* the id of the built-in provider
    Keys,               \* Ed25519 keys
    Policies,           \* what set_trust_policy may be given
    Programs,           \* each: client -> sequence of calls
    FirstFiles,         \* path -> [bytes, sig]
    MaxFaults,
    None

Algs == {"blake3", "sha256"}
Digest(alg, b) == [alg |-> alg, of |-> b]
Digests == [alg : Algs, of : Contents]
Signatures == [by : Keys, of : Contents, whole : BOOLEAN]   \* whole: 64 bytes long
PolicyKinds == {"AllowAll", "DigestAllowlist", "DenyAll", "Ed25519Signed"}
Sources == [kind : {"blake3"}, of : Contents] \cup [kind : {"local"}, path : Paths]
             \cup [kind : {"https", "custom"}]
Calls == UNION {{w[c][i] : i \in DOMAIN w[c]} : w \in Programs, c \in Clients}

ASSUME ProvidersAssumption ==
    /\ Default \in Tenants /\ SqliteRuntime \in Ids
    /\ MaxFaults \in Nat
    /\ None \notin Contents \cup Clients \cup Keys \cup Paths
    /\ \A p \in Policies : /\ p.kind \in PolicyKinds
                           /\ p.allow \subseteq Digests
                           /\ p.anchors \in Seq(Keys)
    /\ FirstFiles \in [Paths -> [bytes : Contents, sig : Signatures \cup {None}]]
    /\ \A w \in Programs : DOMAIN w = Clients /\ \A c \in Clients : w[c] \in Seq(Calls)
    /\ \A k \in Calls : /\ k.op = "policy" => k.policy \in Policies
                        /\ k.op = "fetch" => k.sources \in Seq(Sources)

VARIABLES
    work,       \* work[c]: the calls client c still makes
    task,       \* task[c]: the call c is in
    held,       \* held[c]: the handle c last resolved, with how it asked
    policy,     \* trust_policy
    files,      \* provider files and their .sig sidecars
    prov,       \* compose_providers: <<tenant, id>> -> handle
    cache,      \* the store: [blobs, uris]
    runtimes,   \* language runtimes: key -> bytes
    verifier,   \* OpenSslVerifier: the openssl component, once compiled
    locks,      \* conn, stmts and verifier: who holds the mutex
    rows,       \* number of rows in the database
    stmts,      \* statements of sqlite-runtime: id -> [sql, cursor]
    nextStmt,   \* next_stmt_id
    mine,       \* mine[c]: [id, sql, got] of the statement c prepared
    faults,
    \* history
    seen,       \* seen[c]: the policies in force since c's call began
    signed      \* signed[c]: the signatures its file had since

tables == <<policy, files, prov, cache, runtimes, verifier>>
engine == <<locks, rows, stmts, nextStmt, mine>>
vars == <<work, task, held, tables, engine, faults, seen, signed>>

Put(f, k, v) == [x \in DOMAIN f \cup {k} |-> IF x = k THEN v ELSE f[x]]
Drop(f, k) == [x \in DOMAIN f \ {k} |-> f[x]]

Idle == [pc |-> "idle", call |-> None, policy |-> None, bytes |-> None, left |-> << >>,
         sig |-> None, id |-> 0]
Builtin == [kind |-> "sqlite-runtime", bytes |-> None, home |-> Default, by |-> None]
(* A compiled provider: its bytes, the tenant it was registered for, and    *)
(* the judgement that let it in.                                            *)
Wasm(b, t, why) == [kind |-> "wasm-component", bytes |-> b, home |-> t, by |-> why]
Nothing == [how |-> "nothing", asked |-> None, handle |-> None]

Init ==
    /\ work \in Programs
    /\ task = [c \in Clients |-> Idle]
    /\ held = [c \in Clients |-> Nothing]
    /\ policy = [kind |-> "AllowAll", allow |-> {}, anchors |-> << >>]
    /\ files = FirstFiles
    /\ prov = [k \in {<<Default, SqliteRuntime>>} |-> Builtin]
    /\ cache = [blobs |-> {}, uris |-> << >>]
    /\ runtimes = << >>
    /\ verifier = "cold"
    /\ locks = [conn |-> None, stmts |-> None, verifier |-> None]
    /\ rows = 1
    /\ stmts = << >>
    /\ nextStmt = 1
    /\ mine = [c \in Clients |-> [id |-> 0, sql |-> None, got |-> << >>]]
    /\ faults = 0
    /\ seen = [c \in Clients |-> {}]
    /\ signed = [c \in Clients |-> {}]

At(c, op, pc) == task[c].pc = pc /\ task[c].call.op = op
Goto(c, pc) == task' = [task EXCEPT ![c] = [@ EXCEPT !.pc = pc]]

(* Returning drops every guard the call still holds.                        *)
Unlocked(c) == [k \in DOMAIN locks |-> IF locks[k] = c THEN None ELSE locks[k]]
Back(c) == /\ task' = [task EXCEPT ![c] = Idle]
           /\ locks' = Unlocked(c)
           /\ seen' = [seen EXCEPT ![c] = {}]
           /\ signed' = [signed EXCEPT ![c] = {}]
Fault == faults < MaxFaults /\ faults' = faults + 1

(* What a program's own steps change: the policy in force, files, and the   *)
(* store.                                                                   *)
Called(c, op) == task[c].pc = "idle" /\ work[c] # << >> /\ Head(work[c]).op = op
Next1(c) == work' = [work EXCEPT ![c] = Tail(@)]

set_trust_policy(c) ==
    /\ Called(c, "policy")
    /\ Next1(c)
    /\ policy' = Head(work[c]).policy
    /\ seen' = [d \in Clients |-> IF task[d].pc = "idle" THEN {} ELSE seen[d] \cup {policy'}]
    /\ UNCHANGED <<task, held, files, prov, cache, runtimes, verifier, engine, faults, signed>>

Edit(c) ==
    /\ Called(c, "edit")
    /\ Next1(c)
    /\ files' = [files EXCEPT ![Head(work[c]).path] = Head(work[c]).file]
    /\ signed' = [d \in Clients |->
                    IF task[d].pc # "idle" /\ task[d].call.op = "register"
                    THEN signed[d] \cup {files'[task[d].call.path].sig} ELSE {}]
    /\ UNCHANGED <<task, held, policy, prov, cache, runtimes, verifier, engine, faults, seen>>

Store(c) ==
    /\ \/ /\ Called(c, "put")
          /\ cache' = [blobs |-> cache.blobs \cup {Head(work[c]).bytes},
                       uris |-> Put(cache.uris, Head(work[c]).uri, Head(work[c]).bytes)]
       \/ /\ Called(c, "evict")
          /\ cache' = [blobs |-> cache.blobs \ {Head(work[c]).bytes},
                       uris |-> [u \in {v \in DOMAIN cache.uris : cache.uris[v] # Head(work[c]).bytes}
                                    |-> cache.uris[u]]]
    /\ Next1(c)
    /\ UNCHANGED <<task, held, policy, files, prov, runtimes, verifier, engine, faults, seen, signed>>

(* Every other call takes several steps.                                    *)
Instant == {"policy", "edit", "put", "evict"}
Call(c) ==
    /\ task[c].pc = "idle" /\ work[c] # << >>
    /\ LET k == Head(work[c]) IN
       /\ k.op \notin Instant
       /\ task' = [task EXCEPT ![c] = [Idle EXCEPT !.call = k,
                        !.pc = IF k.op # "register" THEN "start" ELSE IF k.async THEN "read" ELSE "policy"]]
       /\ signed' = [signed EXCEPT ![c] = IF k.op = "register" THEN {files[k.path].sig} ELSE {}]
    /\ Next1(c)
    /\ seen' = [seen EXCEPT ![c] = {policy}]
    /\ UNCHANGED <<held, tables, engine, faults>>

(* TrustPolicy::verify: the decision on a digest alone.                     *)
verify(p, digest) ==
    \/ p.kind = "AllowAll"
    \/ p.kind = "DigestAllowlist" /\ digest \in p.allow

(* register_wasm_provider_in reads the policy first; the signature policy   *)
(* needs the asynchronous sibling, which a caller inside tokio is refused.  *)
SyncPolicy(c) ==
    /\ At(c, "register", "policy")
    /\ IF policy.kind # "Ed25519Signed"
       THEN /\ task' = [task EXCEPT ![c] = [@ EXCEPT !.pc = "check", !.policy = policy]]
            /\ UNCHANGED <<locks, seen, signed>>
       ELSE IF task[c].call.tokio
       THEN Back(c)
       ELSE Goto(c, "read") /\ UNCHANGED <<locks, seen, signed>>
    /\ UNCHANGED <<work, held, tables, rows, stmts, nextStmt, mine, faults>>

(* What is compiled: the bytes that were judged.                            *)
new_wasm_component(path, bytes) == files[path].bytes
new_wasm_component_from_bytes(path, bytes) == bytes

(* A judgement, kept with the handle: who let which bytes in.               *)
SyncCheck(c) ==
    /\ At(c, "register", "check")
    /\ LET b == files[task[c].call.path].bytes IN
       IF verify(task[c].policy, Digest("blake3", b))
       THEN /\ task' = [task EXCEPT ![c] = [@ EXCEPT !.pc = "compile", !.bytes = b]]
            /\ UNCHANGED <<locks, seen, signed>>
       ELSE Back(c)
    /\ UNCHANGED <<work, held, tables, rows, stmts, nextStmt, mine, faults>>

(* register_wasm_provider_in_async: the bytes, then the policy, then the    *)
(* sidecar, then one anchor after the other.                                *)
AsyncRead(c) ==
    /\ At(c, "register", "read")
    /\ task' = [task EXCEPT ![c] = [@ EXCEPT !.pc = "decide", !.bytes = files[task[c].call.path].bytes]]
    /\ UNCHANGED <<work, held, tables, engine, faults, seen, signed>>

AsyncDecide(c) ==
    /\ At(c, "register", "decide")
    /\ IF policy.kind = "Ed25519Signed"
       THEN /\ task' = [task EXCEPT ![c] = [@ EXCEPT !.pc = "sidecar", !.policy = policy,
                                                     !.left = policy.anchors]]
            /\ UNCHANGED <<locks, seen, signed>>
       ELSE IF verify(policy, Digest("blake3", task[c].bytes))
       THEN /\ task' = [task EXCEPT ![c] = [@ EXCEPT !.pc = "compile", !.policy = policy]]
            /\ UNCHANGED <<locks, seen, signed>>
       ELSE Back(c)
    /\ UNCHANGED <<work, held, tables, rows, stmts, nextStmt, mine, faults>>

(* sig_sidecar_path: a missing sidecar or one that is not 64 bytes ends it. *)
Sidecar(c) ==
    /\ At(c, "register", "sidecar")
    /\ LET s == files[task[c].call.path].sig IN
       IF s # None /\ s.whole
       THEN /\ task' = [task EXCEPT ![c] = [@ EXCEPT !.pc = "anchor", !.sig = s]]
            /\ UNCHANGED <<locks, seen, signed>>
       ELSE Back(c)
    /\ UNCHANGED <<work, held, tables, rows, stmts, nextStmt, mine, faults>>

(* verify_against_anchors: no anchor left means no; otherwise the verifier  *)
(* is needed, and its component is compiled under an async mutex.           *)
ensure_loaded(c) ==
    /\ At(c, "register", "anchor")
    /\ IF task[c].left = << >>
       THEN Back(c)
       ELSE /\ locks.verifier = None
            /\ IF verifier = "loaded"
               THEN Goto(c, "verify") /\ UNCHANGED locks
               ELSE Goto(c, "load") /\ locks' = [locks EXCEPT !.verifier = c]
            /\ UNCHANGED <<seen, signed>>
    /\ UNCHANGED <<work, held, tables, rows, stmts, nextStmt, mine, faults>>

(* The component cannot be read or compiled: the slot stays empty, and the  *)
(* next verification tries again.                                           *)
LoadVerifier(c) ==
    /\ At(c, "register", "load")
    /\ \/ /\ verifier' = "loaded"
          /\ Goto(c, "verify")
          /\ locks' = Unlocked(c)
          /\ UNCHANGED <<faults, seen, signed>>
       \/ Fault /\ Back(c) /\ UNCHANGED verifier
    /\ UNCHANGED <<work, held, policy, files, prov, cache, runtimes, rows, stmts, nextStmt, mine>>

(* verify_ed25519, by the openssl component (external): right exactly for   *)
(* a signature of these bytes by this key; or it fails, which ends the      *)
(* registration.                                                            *)
verify_ed25519(key, bytes, sig) == sig.by = key /\ sig.of = bytes
Verify(c) ==
    /\ At(c, "register", "verify")
    /\ \/ /\ LET t == task[c]
             IN task' = [task EXCEPT ![c] = IF verify_ed25519(Head(t.left), t.bytes, t.sig)
                                            THEN [t EXCEPT !.pc = "compile"]
                                            ELSE [t EXCEPT !.pc = "anchor", !.left = Tail(t.left)]]
          /\ UNCHANGED <<locks, seen, signed, faults>>
       \/ Fault /\ Back(c)
    /\ UNCHANGED <<work, held, tables, rows, stmts, nextStmt, mine>>

(* Compile and insert; the tenant is made on demand, and a provider of the  *)
(* same id replaced.  A component that does not compile is not registered.  *)
register_compose_provider_in(c) ==
    /\ At(c, "register", "compile")
    /\ \/ /\ LET k == task[c].call
                 b == new_wasm_component_from_bytes(k.path, task[c].bytes)
             IN prov' = Put(prov, <<k.tenant, k.id>>,
                            Wasm(b, k.tenant, [policies |-> seen[c], sigs |-> signed[c]]))
          /\ UNCHANGED faults
       \/ Fault /\ UNCHANGED prov
    /\ Back(c)
    /\ UNCHANGED <<work, held, policy, files, cache, runtimes, verifier, rows, stmts, nextStmt, mine>>

----------------------------------------------------------------------------
(* Resolution.  RunBackend looks in its own tenant only, and HostWrapBackend*)
(* in the default one.                                                      *)
get_compose_provider_in(t, id) == IF <<t, id>> \in DOMAIN prov THEN prov[<<t, id>>] ELSE None

resolve_by_id(c) ==
    /\ At(c, "resolve", "start")
    /\ LET k == task[c].call
           h == get_compose_provider_in(k.tenant, k.id)
       IN held' = [held EXCEPT ![c] = IF h = None THEN Nothing
                                      ELSE [how |-> "id", asked |-> k.tenant, handle |-> h]]
    /\ Back(c)
    /\ UNCHANGED <<work, tables, rows, stmts, nextStmt, mine, faults>>

(* The store finds bytes by either digest (lookup_by_hash).                 *)
lookup_by_hash(digest) == IF digest.of \in cache.blobs THEN digest.of ELSE None

(* resolve_by_digest: the bytes, then the gate on the digest as it was      *)
(* spelled; a signature policy refuses, there is no sidecar.                *)
DigestLookup(c) ==
    /\ At(c, "digest", "start")
    /\ LET b == lookup_by_hash(task[c].call.digest) IN
       IF b = None
       THEN Back(c)
       ELSE /\ task' = [task EXCEPT ![c] = [@ EXCEPT !.pc = "gate", !.bytes = b]]
            /\ UNCHANGED <<locks, seen, signed>>
    /\ UNCHANGED <<work, held, tables, rows, stmts, nextStmt, mine, faults>>

resolve_by_digest(c) ==
    /\ At(c, "digest", "gate")
    /\ \/ /\ held' = [held EXCEPT ![c] =
                IF verify(policy, task[c].call.digest)
                THEN [how |-> "digest", asked |-> task[c].call.digest,
                      handle |-> Wasm(task[c].bytes, Default,
                                      [policies |-> seen[c], sigs |-> {}])]
                ELSE Nothing]
          /\ UNCHANGED faults
       \/ Fault /\ held' = [held EXCEPT ![c] = Nothing]     \* does not compile
    /\ Back(c)
    /\ UNCHANGED <<work, tables, rows, stmts, nextStmt, mine>>

(* resolve_uri_to_bytes: a pinned name by its hash, any other name by the   *)
(* store's bindings; unbound names have no resolver any more.  A file is    *)
(* read as it is.  The bytes go to the loader of Residents.                 *)
resolve_uri_to_bytes(k) ==
    CASE k.scheme = "file" -> files[k.name].bytes
      [] k.scheme \in {"blake3", "sha256", "digest"} -> lookup_by_hash(k.name)
      [] OTHER -> IF k.name \in DOMAIN cache.uris THEN cache.uris[k.name] ELSE None
load_extension_from_uri(c) ==
    /\ At(c, "load", "start")
    /\ LET b == resolve_uri_to_bytes(task[c].call)
       IN held' = [held EXCEPT ![c] = IF b = None THEN Nothing
                     ELSE [how |-> "uri", asked |-> task[c].call.name, handle |-> Wasm(b, Default, None)]]
    /\ Back(c)
    /\ UNCHANGED <<work, tables, rows, stmts, nextStmt, mine, faults>>
----------------------------------------------------------------------------
(* Language runtimes: the file is compiled when it is registered.  A run    *)
(* takes its runtime first and reads the source afterwards, so what it runs *)
(* is [runtime, source]; it resolves in the default tenant.                 *)
register_runtime(c) ==
    /\ \/ /\ At(c, "register_runtime", "start")
          /\ task' = [task EXCEPT ![c] = [@ EXCEPT !.pc = "insert", !.bytes = files[task[c].call.path].bytes]]
          /\ UNCHANGED <<runtimes, faults, locks, seen, signed>>
       \/ /\ At(c, "register_runtime", "insert")
          /\ \/ runtimes' = Put(runtimes, task[c].call.key, task[c].bytes) /\ UNCHANGED faults
             \/ Fault /\ UNCHANGED runtimes
          /\ Back(c)
    /\ UNCHANGED <<work, held, policy, files, prov, cache, verifier, rows, stmts, nextStmt, mine>>

unregister_runtime(c) ==
    /\ At(c, "unregister_runtime", "start")
    /\ runtimes' = Drop(runtimes, task[c].call.key)
    /\ Back(c)
    /\ UNCHANGED <<work, held, policy, files, prov, cache, verifier, rows, stmts, nextStmt, mine, faults>>

run_source(c) ==
    /\ \/ /\ At(c, "run_source", "start")
          /\ IF task[c].call.key \in DOMAIN runtimes
             THEN /\ task' = [task EXCEPT ![c] = [@ EXCEPT !.pc = "execute",
                                                          !.bytes = runtimes[task[c].call.key]]]
                  /\ UNCHANGED <<locks, seen, signed>>
             ELSE Back(c)
          /\ UNCHANGED held
       \/ /\ At(c, "run_source", "execute")
          /\ held' = [held EXCEPT ![c] = [how |-> "run", asked |-> task[c].call.key,
                 handle |-> Wasm(task[c].bytes, Default, files[task[c].call.path].bytes)]]
          /\ Back(c)
    /\ UNCHANGED <<work, tables, rows, stmts, nextStmt, mine, faults>>

----------------------------------------------------------------------------
(* sqlite_runtime_invoke, for a client that resolved the built-in provider. *)
(* Everyone who resolves it shares its connection and its statements.       *)
Connected(c) == held[c].handle = Builtin

(* Anything else found under the id is a component of its own, without      *)
(* statements.                                                              *)
NotConnected(c) ==
    /\ At(c, "execute", "start") \/ At(c, "prepare", "start")
    /\ ~Connected(c)
    /\ Back(c)
    /\ UNCHANGED <<work, held, tables, rows, stmts, nextStmt, mine, faults>>

(* query, query-scalar, execute, execute-batch: under the connection's      *)
(* mutex from the first statement to the answer.  Writes add a row.         *)
LockConn(c) ==
    /\ At(c, "execute", "start") /\ Connected(c)
    /\ locks.conn = None
    /\ locks' = [locks EXCEPT !.conn = c]
    /\ Goto(c, "run")
    /\ UNCHANGED <<work, held, tables, rows, stmts, nextStmt, mine, faults, seen, signed>>

Execute(c) ==
    /\ At(c, "execute", "run")
    /\ \/ rows' = rows + 1 /\ UNCHANGED faults
       \/ Fault /\ UNCHANGED rows
    /\ Back(c)
    /\ UNCHANGED <<work, held, tables, stmts, nextStmt, mine>>

(* prepare: the statement is compiled once under the connection's mutex and *)
(* thrown away; then a number is drawn; then the text is kept under it.     *)
Validated_keeps(c) == locks
Validated(c) == Unlocked(c)
Validate(c) ==
    /\ \/ /\ At(c, "prepare", "start") /\ Connected(c)
          /\ locks.conn = None
          /\ locks' = [locks EXCEPT !.conn = c]
          /\ Goto(c, "validate")
          /\ UNCHANGED <<faults, seen, signed>>
       \/ /\ At(c, "prepare", "validate")
          /\ \/ locks' = Validated(c) /\ Goto(c, "number") /\ UNCHANGED <<faults, seen, signed>>
             \/ Fault /\ Back(c)
    /\ UNCHANGED <<work, held, tables, rows, stmts, nextStmt, mine>>

StmtNumber_size == Cardinality(DOMAIN stmts) + 1
StmtNumber == nextStmt
Number(c) ==
    /\ At(c, "prepare", "number")
    /\ task' = [task EXCEPT ![c] = [@ EXCEPT !.pc = "stash", !.id = StmtNumber]]
    /\ nextStmt' = nextStmt + 1
    /\ UNCHANGED <<work, held, tables, locks, rows, stmts, mine, faults, seen, signed>>

Stash(c) ==
    /\ At(c, "prepare", "stash")
    /\ locks.stmts = None
    /\ LET t == task[c] IN
       /\ stmts' = Put(stmts, t.id, [sql |-> t.call.sql, fetched |-> FALSE, cursor |-> << >>])
       /\ mine' = [mine EXCEPT ![c] = [id |-> t.id, sql |-> t.call.sql, got |-> << >>]]
    /\ Back(c)
    /\ UNCHANGED <<work, held, tables, rows, nextStmt, faults>>

(* step: under the statements' mutex; the first one runs the query, under   *)
(* the connection's mutex too, and keeps all its rows.                      *)
Rows(sql) == [n \in 1..rows |-> [sql |-> sql, at |-> rows, n |-> n]]
Fetched_not(c) == FALSE
Fetched(c) == stmts[mine[c].id].fetched

Got(c, s) ==     \* the next row, if any, is taken off the cursor
    /\ stmts' = Put(stmts, mine[c].id,
                    [s EXCEPT !.cursor = IF s.cursor = << >> THEN << >> ELSE Tail(s.cursor)])
    /\ mine' = [mine EXCEPT ![c].got = IF s.cursor = << >> THEN @ ELSE Append(@, Head(s.cursor))]

Step(c) ==
    /\ At(c, "step", "start")
    /\ locks.stmts = None
    /\ IF mine[c].id \notin DOMAIN stmts
       THEN Back(c) /\ UNCHANGED <<stmts, mine>>             \* unknown stmt-id
       ELSE IF Fetched(c)
       THEN Got(c, stmts[mine[c].id]) /\ Back(c)
       ELSE /\ locks' = [locks EXCEPT !.stmts = c]
            /\ Goto(c, "collect")
            /\ UNCHANGED <<stmts, mine, seen, signed>>
    /\ UNCHANGED <<work, held, tables, rows, nextStmt, faults>>

(* A query that fails leaves the statement as it was.                       *)
Collect(c) ==
    /\ At(c, "step", "collect")
    /\ locks.conn = None
    /\ \/ LET s == stmts[mine[c].id]
          IN Got(c, [s EXCEPT !.fetched = TRUE, !.cursor = Rows(s.sql)]) /\ UNCHANGED faults
       \/ Fault /\ UNCHANGED <<stmts, mine>>
    /\ Back(c)
    /\ UNCHANGED <<work, held, tables, rows, nextStmt>>

Finalize(c) ==
    /\ At(c, "finalize", "start")
    /\ locks.stmts = None
    /\ stmts' = Drop(stmts, mine[c].id)
    /\ mine' = [mine EXCEPT ![c].id = 0]
    /\ Back(c)
    /\ UNCHANGED <<work, held, tables, rows, nextStmt, faults>>

----------------------------------------------------------------------------
(* fetch_artifact: the binding of the uri, if it agrees with the expected   *)
(* hash; then the expected hash; then one source after the other.  `left`   *)
(* is what is still to be tried.                                            *)
Bind(uri, b) == [cache EXCEPT !.uris = IF uri = None THEN @ ELSE Put(@, uri, b)]
Returned(c, b) == held' = [held EXCEPT ![c] =
    [how |-> "fetch", asked |-> task[c].call, handle |-> Wasm(b, Default, None)]]

FetchCached(c) ==
    /\ At(c, "fetch", "start")
    /\ LET k == task[c].call
           bound == IF k.uri \in DOMAIN cache.uris THEN cache.uris[k.uri] ELSE None
       IN \/ /\ bound # None /\ k.expected \in {None, bound}
             /\ Returned(c, bound) /\ Back(c) /\ UNCHANGED cache
          \/ /\ ~(bound # None /\ k.expected \in {None, bound})
             /\ k.expected \in cache.blobs
             /\ Returned(c, k.expected) /\ Back(c) /\ cache' = Bind(k.uri, k.expected)
          \/ /\ ~(bound # None /\ k.expected \in {None, bound})
             /\ k.expected \notin cache.blobs
             /\ task' = [task EXCEPT ![c] = [@ EXCEPT !.pc = "source", !.left = k.sources]]
             /\ UNCHANGED <<held, cache, locks, seen, signed>>
    /\ UNCHANGED <<work, policy, files, prov, runtimes, verifier, rows, stmts, nextStmt, mine, faults>>

(* What a source may yield.  Blake3 is looked up in the store; a file is    *)
(* read; the network (external) answers as it likes; a custom kind has no   *)
(* resolver unless the embedder registered one.                             *)
Obtained(source) ==
    CASE source.kind = "blake3" -> {IF source.of \in cache.blobs THEN source.of ELSE None}
      [] source.kind = "local" -> {files[source.path].bytes}
      [] source.kind = "https" -> Contents \cup {None}
      [] source.kind = "custom" -> {None}

(* What a resolver returned is compared with the expected hash; what came   *)
(* from the store under a Blake3 source is not.                             *)
Attempt_unchecked(k, source, x) == x
Attempt(k, source, x) ==
    IF source.kind # "blake3" /\ k.expected \notin {None, x} THEN None ELSE x

FetchSource(c) ==
    /\ At(c, "fetch", "source")
    /\ IF task[c].left = << >>
       THEN /\ held' = [held EXCEPT ![c] = Nothing]
            /\ Back(c) /\ UNCHANGED cache
       ELSE \E x \in Obtained(Head(task[c].left)) :
            LET k == task[c].call
                b == Attempt(k, Head(task[c].left), x)
            IN IF b # None
               THEN /\ cache' = [Bind(k.uri, b) EXCEPT !.blobs = @ \cup {b}]
                    /\ Returned(c, b) /\ Back(c)
               ELSE /\ task' = [task EXCEPT ![c] = [@ EXCEPT !.left = Tail(task[c].left)]]
                    /\ UNCHANGED <<held, cache, locks, seen, signed>>
    /\ UNCHANGED <<work, policy, files, prov, runtimes, verifier, rows, stmts, nextStmt, mine, faults>>

ClientStep(c) ==
    \/ Call(c)
    \/ SyncPolicy(c) \/ SyncCheck(c) \/ AsyncRead(c) \/ AsyncDecide(c) \/ Sidecar(c)
    \/ ensure_loaded(c) \/ LoadVerifier(c) \/ Verify(c) \/ register_compose_provider_in(c)
    \/ resolve_by_id(c) \/ DigestLookup(c) \/ resolve_by_digest(c) \/ load_extension_from_uri(c)
    \/ register_runtime(c) \/ unregister_runtime(c) \/ run_source(c)
    \/ NotConnected(c) \/ LockConn(c) \/ Execute(c) \/ Validate(c) \/ Number(c) \/ Stash(c)
    \/ Step(c) \/ Collect(c) \/ Finalize(c)
    \/ FetchCached(c) \/ FetchSource(c)
Next == \E c \in Clients : set_trust_policy(c) \/ Edit(c) \/ Store(c) \/ ClientStep(c)

(* Once a call is made, its task or thread is run until it returns.         *)
Fairness == \A c \in Clients : WF_vars(task[c].pc # "idle" /\ ClientStep(c))
Spec == Init /\ [][Next]_vars /\ Fairness

----------------------------------------------------------------------------
(* The shape of the state.                                                  *)
TypeOK ==
    /\ \A c \in Clients : /\ task[c].bytes \in Contents \cup {None}
                          /\ held[c].how \in {"nothing", "id", "digest", "uri", "run", "fetch"}
                          /\ mine[c].id \in Nat
    /\ policy.kind \in PolicyKinds
    /\ files \in [Paths -> [bytes : Contents, sig : Signatures \cup {None}]]
    /\ DOMAIN prov \subseteq Tenants \X Ids
    /\ cache.blobs \subseteq Contents /\ \A u \in DOMAIN cache.uris : cache.uris[u] \in Contents
    /\ verifier \in {"cold", "loaded"}
    /\ locks \in [{"conn", "stmts", "verifier"} -> Clients \cup {None}]
    /\ \A i \in DOMAIN stmts : i < nextStmt

(* What a policy is for, independently of the code: bytes it allows.        *)
Acceptable(p, b, sigs, algs) ==
    \/ p.kind = "AllowAll"
    \/ p.kind = "DigestAllowlist" /\ \E alg \in algs : Digest(alg, b) \in p.allow
    \/ /\ p.kind = "Ed25519Signed"
       /\ \E s \in sigs \ {None} : s.whole /\ s.of = b /\ \E i \in DOMAIN p.anchors : p.anchors[i] = s.by

(* The bytes a provider was compiled from were acceptable to a policy that  *)
(* was in force, and under a signature that lay beside the file, at some    *)
(* time during the registration, whatever happened to the policy, the file  *)
(* and the sidecar between its steps (register_wasm_provider_in and         *)
(* _in_async); so was what was resolved by digest, with either digest       *)
(* (resolve_by_digest).                                                     *)
OnlyTrustedCode ==
    /\ \A k \in DOMAIN prov : prov[k] # Builtin =>
            \E p \in prov[k].by.policies : Acceptable(p, prov[k].bytes, prov[k].by.sigs, {"blake3"})
    /\ \A c \in Clients : held[c].how = "digest" =>
            \E p \in held[c].handle.by.policies :
                Acceptable(p, held[c].handle.bytes, {}, Algs)

(* A component resolves only what was registered for its own tenant         *)
(* (get_compose_provider_in, RunBackend::resolve_by_id: no fallback).       *)
TenantsApart == \A c \in Clients : held[c].how = "id" => held[c].handle.home = held[c].asked

(* The rows a client has stepped through are the first rows, in order, of   *)
(* its own query, all as the database was at one moment: writes, and other  *)
(* clients that prepare, step and finalize, do not show in them.            *)
OwnRows ==
    \A c \in Clients : \E at \in 0..rows :
        /\ Len(mine[c].got) <= at
        /\ \A n \in DOMAIN mine[c].got : mine[c].got[n] = [sql |-> mine[c].sql, at |-> at, n |-> n]

(* fetch_artifact returns bytes of the expected hash, unless a Blake3       *)
(* source named others.                                                     *)
FetchedAsAsked ==
    \A c \in Clients : held[c].how = "fetch" =>
        LET k == held[c].asked
            b == held[c].handle.bytes
        IN \/ k.expected \in {None, b}
           \/ \E i \in DOMAIN k.sources : k.sources[i].kind = "blake3" /\ k.sources[i].of = b

(* What a client resolves or fetches is what it asked for, of its own       *)
(* tenant, whoever registers and stores what in between.                    *)
ResolvedAsAsked == TenantsApart /\ FetchedAsAsked

(* Every call returns: the three mutexes are never waited for in a circle   *)
(* and are given back on every path.                                        *)
EveryCallReturns == \A c \in Clients : []<>(task[c].pc = "idle")
=============================================================================
