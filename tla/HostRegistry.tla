---------------------------- MODULE HostRegistry ----------------------------
(***************************************************************************)
(* The extension tables of one sqlink Host (host/src/lib.rs) and what they  *)
(* install on the shared SQLite connection: loading and unloading provider  *)
(* and bridge components, naming and registering their SQL functions,       *)
(* collations, virtual-table modules and hooks, and which component a SQL   *)
(* name reaches.                                                            *)
(*                                                                         *)
(* Abstractions.  An artifact stands for the component bytes and their      *)
(* manifest; a declared name stands for a name and its arity; a SQL name is *)
(* a tuple, <<n>> for the declared name, <<e, s, k>> for the k-th name of s *)
(* under extension e, <<p, s>> for p__s.  An extension's expansion is its   *)
(* own name.  Loads that fail before they change a table are left out.      *)
(***************************************************************************)
EXTENDS Naturals, Sequences, FiniteSets

CONSTANTS
    Exts, NoExt,            \* extension names
    Artifacts, NoArtifact,  \* loadable components: see ArtifactAssumption
    NoHook, HostHook,       \* no hook; the auth log or SQLite's auto-checkpoint
    Builtins,               \* what SQLite itself defines: <<space, <<n>>>>
    FallbackLimit,          \* NAME_COLLISION_FALLBACK_LIMIT
    Prefixes, NoPrefix,     \* short prefixes
    Sanitize,               \* the prefix derived from an extension's name
    Alias,                  \* Alias[p][k]: the k-th alternative of p
    Databases, FirstDb,     \* database files; the one the session starts with
    PrefixRows,             \* __sqlink_prefix of each as earlier sessions left it
    UnloadsBeforeOpen,      \* the client opens a database with nothing loaded
    BusyExts,               \* extensions whose INSERT meets a locked database
    MaxLoads                \* bound: loads of a session

Hooks == {"authorizer", "update", "commit", "wal"}

VARIABLES
    open,           \* shared_spi_conn is open
    sql,            \* names on the connection that were ever registered
    slot,           \* slot[h]: what the connection calls for hook h
    regs,           \* ext_{scalar,aggregate,collation,vtab}_registrations
    owner,          \* ext_{authorizer,update_hook,commit_hook,wal_hook}_owner
    prefix_cache,   \* prefix_cache[e]
    db,             \* db_path
    prefix_rows,    \* __sqlink_prefix of each database: prefix -> its extension
    backing,        \* provider_backed and compose_providers["ext:e"]
    manifests,      \* provider_manifests
    bridges,        \* dynlink_bridges
    mutating,       \* mutating_bridges
    job,            \* what the client is in the middle of
    current,        \* current[e]: what the client knows to be loaded as e
    loads           \* loads so far

connVars == <<open, sql, slot, regs, owner>>
prefixVars == <<db, prefix_cache, prefix_rows>>
tableVars == <<backing, manifests, bridges, mutating>>
clientVars == <<job, current, loads>>
vars == <<connVars, prefixVars, tableVars, clientVars>>

ASSUME ArtifactAssumption ==
    /\ NoExt \notin Exts /\ NoArtifact \notin Artifacts /\ NoPrefix \notin Prefixes
    /\ NoHook \notin Artifacts /\ HostHook \notin Artifacts /\ NoHook # HostHook
    /\ \A a \in Artifacts :
          /\ a.ext \in Exts
          /\ a.kind \in {"provider", "bridge", "mutating"}
          /\ a.hooks \subseteq Hooks
    /\ FallbackLimit \in Nat \ {0} /\ MaxLoads \in Nat
    /\ Sanitize \in [Exts -> Prefixes]
    /\ Alias \in [Prefixes -> Seq(Prefixes)]
    /\ FirstDb \in Databases /\ UnloadsBeforeOpen \in BOOLEAN
    /\ PrefixRows \in [Databases -> [Prefixes -> Exts \cup {NoExt}]]

Idle == [kind |-> "idle", ext |-> NoExt, items |-> {}]
Removed == [art |-> NoArtifact, tier |-> "removed"]

(* A new connection has SQLite's auto-checkpoint and nothing else.          *)
FreshSlots == [h \in Hooks |-> IF h = "wal" THEN HostHook ELSE NoHook]
NoNames == [k \in {} |-> Removed]

Init ==
    /\ open = FALSE
    /\ sql = NoNames
    /\ slot = FreshSlots
    /\ regs = [e \in Exts |-> {}]
    /\ owner = [h \in Hooks |-> NoExt]
    /\ prefix_cache = [e \in Exts |-> NoPrefix]
    /\ db = FirstDb
    /\ prefix_rows = PrefixRows
    /\ backing = [e \in Exts |-> NoArtifact]
    /\ manifests = [e \in Exts |-> NoArtifact]
    /\ bridges = [e \in Exts |-> NoArtifact]
    /\ mutating = [e \in Exts |-> NoArtifact]
    /\ job = Idle
    /\ current = [e \in Exts |-> NoArtifact]
    /\ loads = 0
-----------------------------------------------------------------------------
(* Which component answers for e.  dispatch_scalar and the read tier of the *)
(* virtual tables try a bridge first; aggregates and hooks need a resident  *)
(* provider, which is the only kind load_extension makes.                   *)
provider_route(e) == backing[e]

scalar_route(e) == IF bridges[e] # NoArtifact THEN bridges[e] ELSE backing[e]

vtab_route(e) ==
    IF mutating[e] # NoArtifact THEN mutating[e] ELSE scalar_route(e)

Route(tier, e) ==
    CASE tier = "scalar" -> scalar_route(e)
      [] tier = "vtab" -> vtab_route(e)
      [] OTHER -> provider_route(e)
-----------------------------------------------------------------------------
(* MUTANT of function_exists: only registered names are asked for.          *)
function_exists_registered(k) == k \in DOMAIN sql /\ sql[k] # Removed

(* function_exists asks PRAGMA function_list, which still lists a built-in  *)
(* that a removed registration hides.                                       *)
function_exists(k) ==
    k \in Builtins \/ (k \in DOMAIN sql /\ sql[k] # Removed)

(* The name itself, else <ext>_<name>, <ext>_<name>_2, ...; the bare name   *)
(* when every candidate is taken.                                           *)
resolve_collision_free_name(e, s) ==
    LET free == {i \in 1..FallbackLimit : ~function_exists(<<"fn", <<e, s, i>>>>)}
    IN  IF ~function_exists(<<"fn", s>>) \/ free = {} THEN s
        ELSE <<e, s, CHOOSE i \in free : \A j \in free : i <= j>>

(* manifest_for_provider: scalar names are resolved here once, against the  *)
(* connection if it is open, and again when they are registered.            *)
manifest_for_provider(a) ==
    {[tier |-> "scalar", of |-> n, art |-> a,
      name |-> IF open THEN resolve_collision_free_name(a.ext, <<n>>) ELSE <<n>>]
        : n \in a.scalars}
    \cup {[tier |-> "aggregate", of |-> n, art |-> a, name |-> <<n>>] : n \in a.aggregates}
    \cup {[tier |-> "collation", of |-> n, art |-> a, name |-> <<n>>] : n \in a.collations}
    \cup {[tier |-> "vtab", of |-> n, art |-> a, name |-> <<n>>] : n \in a.vtabs}
    \cup {[tier |-> "hook", of |-> h, art |-> a, name |-> <<h>>] : h \in a.hooks}

(* load_extension of a component that exports the provider endpoint.        *)
load_extension_as_provider(a) ==
    /\ a.kind = "provider"
    /\ backing' = [backing EXCEPT ![a.ext] = a]
    /\ manifests' = [manifests EXCEPT ![a.ext] = a]
    /\ UNCHANGED <<bridges, mutating>>

(* MUTANT of load_extension_as_dynlink_bridge: a warm instance is kept.     *)
load_extension_as_dynlink_bridge_keep(a) ==
    /\ a.kind # "provider"
    /\ bridges' = [bridges EXCEPT ![a.ext] = IF @ = NoArtifact THEN a ELSE @]
    /\ manifests' = [manifests EXCEPT ![a.ext] = a]
    /\ mutating' = IF a.kind = "mutating" THEN [mutating EXCEPT ![a.ext] = a]
                   ELSE mutating
    /\ UNCHANGED backing

(* load_extension of a dynlink bridge; one that writes gets a second        *)
(* instance.                                                                *)
load_extension_as_dynlink_bridge(a) ==
    /\ a.kind # "provider"
    /\ bridges' = [bridges EXCEPT ![a.ext] = a]
    /\ manifests' = [manifests EXCEPT ![a.ext] = a]
    /\ mutating' = IF a.kind = "mutating" THEN [mutating EXCEPT ![a.ext] = a]
                   ELSE mutating
    /\ UNCHANGED backing

(* `.load`: the loader, then the manifest the client registers from.  The   *)
(* client may load the same artifact again; another version of an extension *)
(* it unloads first.                                                        *)
load_extension(a) ==
    /\ job = Idle /\ loads < MaxLoads
    /\ current[a.ext] \in {NoArtifact, a}
    /\ load_extension_as_provider(a) \/ load_extension_as_dynlink_bridge(a)
    /\ job' = IF manifest_for_provider(a) = {} THEN Idle
              ELSE [kind |-> "register", ext |-> a.ext, items |-> manifest_for_provider(a)]
    /\ current' = [current EXCEPT ![a.ext] = a]
    /\ loads' = loads + 1
    /\ UNCHANGED <<connVars, prefixVars>>
-----------------------------------------------------------------------------
(* record_prefix_with_collision_fallback: the first of p, p2, p3, ... that  *)
(* is free or already ours.                                                 *)
Candidates(p) == <<p>> \o Alias[p]

(* MUTANT of record_prefix: the requested prefix is used without a lookup.  *)
record_prefix_unchecked(e, p) ==
    /\ prefix_rows' = [prefix_rows EXCEPT ![db][p] = e]
    /\ prefix_cache' = [prefix_cache EXCEPT ![e] = p]
    /\ UNCHANGED db

(* A failed INSERT, or no candidate left, falls back to p without a row.    *)
record_prefix(e, p) ==
    LET Holder(q) == prefix_rows[db][q]
        fits == {i \in DOMAIN Candidates(p) : Holder(Candidates(p)[i]) \in {e, NoExt}}
        Use(q) == prefix_cache' = [prefix_cache EXCEPT ![e] = q] /\ UNCHANGED db
    IN  \/ fits = {} /\ Use(p) /\ UNCHANGED prefix_rows
        \/ \E i \in fits :
              LET q == Candidates(p)[i] IN
              /\ \A j \in fits : i <= j
              /\ IF Holder(q) = NoExt /\ e \in BusyExts
                 THEN Use(p) /\ UNCHANGED prefix_rows
                 ELSE Use(q) /\ prefix_rows' = [prefix_rows EXCEPT ![db][q] = e]

ensure_prefix_for_extension(e) ==
    IF prefix_cache[e] # NoPrefix THEN UNCHANGED prefixVars
    ELSE record_prefix(e, Sanitize[e])

(* Installing a trampoline replaces whatever held the name.                 *)
WithNames(K, t) == [k \in DOMAIN sql \cup K |-> IF k \in K THEN t ELSE sql[k]]

Space(tier) == CASE tier = "collation" -> "coll" [] tier = "vtab" -> "mod" [] OTHER -> "fn"

(* The names under which an item was installed are recorded for its         *)
(* extension: the bare name, and prefix__name if that one succeeded too.    *)
Install(i, K) ==
    /\ sql' = WithNames(K, [art |-> i.art, tier |-> i.tier])
    /\ regs' = [regs EXCEPT ![i.art.ext] = @ \cup K]
    /\ open' = TRUE
    /\ UNCHANGED <<slot, owner>>

(* The connection does not open, or SQLite refuses the registration.        *)
Refused == open' \in {open, TRUE} /\ UNCHANGED <<sql, slot, regs, owner, prefixVars>>

(* What SQLite accepts of the two registrations of i under the name s.      *)
register_named(i, s) ==
    LET e == i.art.ext
        bare == <<Space(i.tier), s>>
        \* of the name the client asked for, not of s
        qualified == <<Space(i.tier), <<prefix_cache'[e], i.name>>>>
    IN  \/ Refused
        \/ /\ prefix_cache[e] = NoPrefix        \* no prefix tables
           /\ UNCHANGED prefixVars
           /\ Install(i, {bare})
        \/ /\ ensure_prefix_for_extension(e)
           /\ \/ Install(i, {bare, qualified})
              \/ Install(i, {bare})             \* prefix__name refused

register_scalar(i) ==
    i.tier = "scalar" /\ register_named(i, resolve_collision_free_name(i.art.ext, i.name))

register_collation(i) == i.tier = "collation" /\ register_named(i, i.name)
register_aggregate(i) == i.tier = "aggregate" /\ register_named(i, i.name)
register_vtab(i) == i.tier = "vtab" /\ register_named(i, i.name)

(* The authorizer, update, commit and wal hooks have one slot each.         *)
register_hook(i) ==
    /\ i.tier = "hook"
    /\ \/ /\ slot' = [slot EXCEPT ![i.of] = i.art]
          /\ owner' = [owner EXCEPT ![i.of] = i.art.ext]
          /\ open' = TRUE
          /\ UNCHANGED <<sql, regs, prefixVars>>
       \/ Refused

Rank == [scalar |-> 1, collation |-> 2, aggregate |-> 3, hook |-> 4, vtab |-> 5]

(* The client registers what the manifest lists, tier by tier; a failure is *)
(* logged and the next item tried.                                          *)
install_provider_backed_on_shared_conn ==
    /\ job.kind = "register"
    /\ \E i \in job.items :
          /\ \A j \in job.items : Rank[i.tier] <= Rank[j.tier]
          /\ \/ register_scalar(i) \/ register_collation(i) \/ register_aggregate(i)
             \/ register_vtab(i) \/ register_hook(i)
          /\ job' = IF job.items = {i} THEN Idle ELSE [job EXCEPT !.items = @ \ {i}]
    /\ UNCHANGED <<tableVars, current, loads>>
-----------------------------------------------------------------------------
(* MUTANT of unload: the manifest stays behind.                             *)
unload_keep_manifest(e) ==
    /\ job = Idle /\ current[e] # NoArtifact
    /\ backing' = [backing EXCEPT ![e] = NoArtifact]
    /\ job' = [kind |-> "unregister", ext |-> e, items |-> {}]
    /\ UNCHANGED <<connVars, prefixVars, manifests, bridges, mutating, current, loads>>

(* `.unload`, first half.  An extension without a provider backing, a       *)
(* bridge for one, is "not loaded": nothing changes.                        *)
unload(e) ==
    /\ job = Idle /\ current[e] # NoArtifact
    /\ IF backing[e] # NoArtifact
       THEN /\ backing' = [backing EXCEPT ![e] = NoArtifact]
            /\ manifests' = [manifests EXCEPT ![e] = NoArtifact]
       ELSE UNCHANGED <<backing, manifests>>
    /\ job' = [kind |-> "unregister", ext |-> e, items |-> {}]
    /\ UNCHANGED <<connVars, prefixVars, bridges, mutating, current, loads>>

(* MUTANT of unregister_extension: virtual-table modules stay registered.   *)
unregister_extension_keep_vtabs ==
    /\ job.kind = "unregister"
    /\ LET e == job.ext IN
       /\ sql' = [k \in DOMAIN sql |-> IF k \in regs[e] /\ k[1] # "mod" THEN Removed ELSE sql[k]]
       /\ regs' = [regs EXCEPT ![e] = {}]
       /\ slot' = [h \in Hooks |-> IF owner[h] = e /\ open THEN NoHook ELSE slot[h]]
       /\ owner' = [h \in Hooks |-> IF owner[h] = e THEN NoExt ELSE owner[h]]
       /\ current' = [current EXCEPT ![e] = NoArtifact]
    /\ job' = Idle
    /\ UNCHANGED <<open, prefixVars, tableVars, loads>>

(* `.unload`, second half: every recorded name is removed, whoever holds it *)
(* by now, and the hooks this extension owns.                               *)
unregister_extension ==
    /\ job.kind = "unregister"
    /\ LET e == job.ext IN
       /\ sql' = [k \in DOMAIN sql |-> IF k \in regs[e] THEN Removed ELSE sql[k]]
       /\ regs' = [regs EXCEPT ![e] = {}]
       /\ slot' = [h \in Hooks |-> IF owner[h] = e /\ open THEN NoHook ELSE slot[h]]
       /\ owner' = [h \in Hooks |-> IF owner[h] = e THEN NoExt ELSE owner[h]]
       /\ current' = [current EXCEPT ![e] = NoArtifact]
    /\ job' = Idle
    /\ UNCHANGED <<open, prefixVars, tableVars, loads>>

(* `.auth on`, `.auth off`: the slot changes hands, its recorded owner does *)
(* not.                                                                     *)
set_auth_log(on) ==
    /\ job = Idle
    /\ slot' = [slot EXCEPT !["authorizer"] = IF on THEN HostHook ELSE NoHook]
    /\ open' = TRUE
    /\ UNCHANGED <<sql, regs, owner, prefixVars, tableVars, clientVars>>

(* `.open`: the connection is closed with all that was installed on it and  *)
(* another is opened, on the same file or a different one.  The tables of   *)
(* the host, the prefix cache too, stay as they are.                        *)
open_db(d) ==
    /\ job = Idle
    /\ UnloadsBeforeOpen => \A e \in Exts : current[e] = NoArtifact
    /\ db' = d
    /\ sql' = NoNames
    /\ slot' = FreshSlots
    /\ open' \in BOOLEAN                 \* FALSE: the file does not open
    /\ UNCHANGED <<regs, owner, prefix_cache, prefix_rows, tableVars, clientVars>>

Next ==
    \/ \E d \in Databases : open_db(d)
    \/ \E a \in Artifacts : load_extension(a)
    \/ install_provider_backed_on_shared_conn
    \/ \E e \in Exts : unload(e)
    \/ unregister_extension
    \/ \E on \in BOOLEAN : set_auth_log(on)

Spec == Init /\ [][Next]_vars
-----------------------------------------------------------------------------
(* Every table of the host has the shape its Rust type says.                *)
HostTypeOK ==
    /\ open \in BOOLEAN
    /\ \A k \in DOMAIN sql :
          sql[k] = Removed \/ sql[k].art \in Artifacts
    /\ slot \in [Hooks -> Artifacts \cup {NoHook, HostHook}]
    /\ DOMAIN regs = Exts
    /\ owner \in [Hooks -> Exts \cup {NoExt}]
    /\ prefix_cache \in [Exts -> Prefixes \cup {NoPrefix}]
    /\ db \in Databases
    /\ prefix_rows \in [Databases -> [Prefixes -> Exts \cup {NoExt}]]
    /\ backing \in [Exts -> Artifacts \cup {NoArtifact}]
    /\ manifests \in [Exts -> Artifacts \cup {NoArtifact}]
    /\ bridges \in [Exts -> Artifacts \cup {NoArtifact}]
    /\ mutating \in [Exts -> Artifacts \cup {NoArtifact}]
    /\ job.kind \in {"idle", "register", "unregister"} /\ job.ext \in Exts \cup {NoExt}
    /\ current \in [Exts -> Artifacts \cup {NoArtifact}]
    /\ loads \in Nat

Reaches(e) ==
    \/ \E k \in DOMAIN sql : sql[k] # Removed /\ sql[k].art.ext = e
    \/ \E h \in Hooks : slot[h] \in Artifacts /\ slot[h].ext = e

(* Once the client has unloaded an extension, no function, collation,       *)
(* module or hook of the connection calls into it: whatever was installed   *)
(* for it, under whichever names, and whoever installed over it, was        *)
(* recorded and is removed.                                                 *)
NothingLeftBehind == \A e \in Exts : current[e] = NoArtifact => ~Reaches(e)

(* The versions of an extension are all providers, all read-only bridges or *)
(* all writing bridges.                                                     *)
OneKind(e) ==
    \A a, b \in Artifacts : a.ext = e /\ b.ext = e => a.kind = b.kind

(* A SQL name or hook that reaches a component reaches the version whose    *)
(* manifest it was registered from, never an older or a newer one of the    *)
(* same extension: function ids are per version.  Unloading leaves a bridge *)
(* in its table, where it would hide a later version of another kind.       *)
RunsItsOwnVersion ==
    /\ \A k \in DOMAIN sql :
          sql[k] # Removed /\ OneKind(sql[k].art.ext) =>
              Route(sql[k].tier, sql[k].art.ext) \in {NoArtifact, sql[k].art}
    /\ \A h \in Hooks :
          slot[h] \in Artifacts => provider_route(slot[h].ext) \in {NoArtifact, slot[h]}

(* Loading never takes a scalar's name from a built-in or from another      *)
(* extension, and unloading one extension never removes the scalar of       *)
(* another.  Names that some extension declares as an aggregate are left    *)
(* out: an aggregate is registered over whatever has its name.              *)
ScalarName(k) ==
    /\ k[1] = "fn" /\ Len(k[2]) # 2
    /\ \A a \in Artifacts : \A n \in a.aggregates : k[2] # <<n>>

KeepsItsName(k) ==
    /\ k \notin Builtins
    /\ k \in DOMAIN sql /\ sql[k] # Removed =>
          LET e == sql[k].art.ext IN
          IF sql'[k] = Removed THEN job.kind = "unregister" /\ job.ext = e
          ELSE sql'[k].art.ext = e

ScalarNamesKept == [][\A k \in DOMAIN sql' : ScalarName(k) => KeepsItsName(k)]_vars

(* The prefix an extension uses for its qualified names is its own row of   *)
(* __sqlink_prefix in some database of this session, so that no two         *)
(* extensions of a database share one; unless the INSERT met a locked       *)
(* database, or every alternative belongs to others.                        *)
PrefixIsItsOwn ==
    \A e \in Exts \ BusyExts :
        prefix_cache[e] # NoPrefix =>
            \E d \in Databases :
                \/ prefix_rows[d][prefix_cache[e]] = e
                \/ \A i \in DOMAIN Candidates(Sanitize[e]) :
                      prefix_rows[d][Candidates(Sanitize[e])[i]] \notin {e, NoExt}

(* dispatch_parse offers a rejected statement to every manifest and gives   *)
(* up at the first that has no component behind it: there is always one.    *)
ManifestsHaveRoutes ==
    \A e \in Exts : manifests[e] # NoArtifact => scalar_route(e) # NoArtifact

(* "per-extension list of ... SQL functions the host registered on          *)
(* shared_spi_conn on the extension's behalf.  Used by                      *)
(* spi.unregister-extension to know what to tear down": what it tears down  *)
(* was the extension's.                                                     *)
TearsDownItsOwn ==
    [][\A k \in DOMAIN sql :
          unregister_extension /\ sql[k] # Removed /\ sql'[k] = Removed =>
              sql[k].art.ext = job.ext]_vars
=============================================================================
