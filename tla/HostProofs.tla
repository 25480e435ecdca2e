----------------------------- MODULE HostProofs -----------------------------
(****************************************************************************)
(* Proofs about the host: its registry of extensions (HostRegistry), for    *)
(* any set of extensions and artifacts, and the cache of compiled           *)
(* components it loads them through (ComponentCache), for any hosts, loads  *)
(* and digests.                                                             *)
(*                                                                          *)
(* HostRegistry.  The inductive invariant HostInv says that whatever is     *)
(* installed on the connection for an extension comes from the artifact the *)
(* client has loaded under that name (FromCurrent), and is recorded for the *)
(* extension (Recorded, HooksOwned): unregister_extension, which only knows *)
(* the records, then removes all of it before the name is loaded again.     *)
(*                                                                          *)
(* ComponentCache.  KeysAgree is inductive together with OneWriter: the     *)
(* file is short while somebody writes it, create_new lets only one load    *)
(* write it, and a secret that was written or read is the file's for ever.  *)
(* RightCode and CachesBounded are inductive on top of that: TierInv says   *)
(* that a row sealed here, under whatever secret, holds the code of its     *)
(* own key, that a load past compiling holds the code of its digest, and    *)
(* that an oversized table has somebody at work on it.                      *)
(****************************************************************************)
EXTENDS HostRegistry, ComponentCache, SequenceTheorems, WellFoundedInduction, TLAPS

(* Every installed name is in the list unregister_extension walks.          *)
Recorded ==
    \A k \in DOMAIN sql : sql[k] # Removed => k \in regs[sql[k].art.ext]

(* Every installed hook is the recorded owner's.                            *)
HooksOwned == \A h \in Hooks : slot[h] \in Artifacts => owner[h] = slot[h].ext

(* What is installed was registered from the artifact now loaded.           *)
FromCurrent ==
    /\ \A k \in DOMAIN sql : sql[k] # Removed => sql[k].art = current[sql[k].art.ext]
    /\ \A h \in Hooks : slot[h] \in Artifacts => slot[h] = current[slot[h].ext]

(* The items still to be registered are the loaded artifact's.              *)
JobOfCurrent ==
    /\ job.kind = "register" =>
          \A i \in job.items : /\ i.art \in Artifacts /\ i.art = current[i.art.ext]
                               /\ i.tier = "hook" => i.of \in Hooks
    /\ job.kind = "unregister" => job.ext \in Exts

(* Without a connection no extension has a hook.                            *)
ClosedIsEmpty == ~open => \A h \in Hooks : slot[h] \notin Artifacts

HostInv ==
    HostTypeOK /\ Recorded /\ HooksOwned /\ FromCurrent /\ JobOfCurrent /\ ClosedIsEmpty

(* What the manifest lists comes from the artifact.                         *)
LEMMA ManifestOfArtifact ==
    ASSUME NEW a \in Artifacts, NEW i \in manifest_for_provider(a)
    PROVE  i.art = a /\ (i.tier = "hook" => i.of \in Hooks)
  <1>1. CASE \E n \in a.scalars : \E s : i = [tier |-> "scalar", of |-> n, art |-> a, name |-> s]
    BY <1>1
  <1>2. CASE \E n \in a.aggregates : i = [tier |-> "aggregate", of |-> n, art |-> a, name |-> <<n>>]
    BY <1>2
  <1>3. CASE \E n \in a.collations : i = [tier |-> "collation", of |-> n, art |-> a, name |-> <<n>>]
    BY <1>3
  <1>4. CASE \E n \in a.vtabs : i = [tier |-> "vtab", of |-> n, art |-> a, name |-> <<n>>]
    BY <1>4
  <1>5. CASE \E h \in a.hooks : i = [tier |-> "hook", of |-> h, art |-> a, name |-> <<h>>]
    BY <1>5, ArtifactAssumption
  <1> QED BY <1>1, <1>2, <1>3, <1>4, <1>5, Zenon DEF manifest_for_provider

LEMMA HostInvInit == Init => HostInv
  <1> SUFFICES ASSUME Init PROVE HostInv
    OBVIOUS
  <1>1. HostTypeOK
    BY ArtifactAssumption DEF Init, HostTypeOK, Hooks, Idle, FreshSlots, NoNames
  <1>2. Recorded /\ HooksOwned /\ FromCurrent /\ ClosedIsEmpty
    BY ArtifactAssumption DEF Init, Recorded, HooksOwned, FromCurrent, ClosedIsEmpty, Hooks, FreshSlots, NoNames
  <1>3. JobOfCurrent
    BY DEF Init, JobOfCurrent, Idle
  <1> QED BY <1>1, <1>2, <1>3 DEF HostInv

(* A load replaces nothing on the connection: the extension is not loaded,  *)
(* or loaded from the same artifact.                                        *)
LEMMA LoadKeepsInv ==
    ASSUME HostInv, NEW a \in Artifacts, load_extension(a)
    PROVE  HostInv'
  <1> USE DEF HostInv
  <1>0. /\ a.ext \in Exts /\ a \notin {NoArtifact}
        /\ current' = [current EXCEPT ![a.ext] = a]
        /\ current[a.ext] \in {NoArtifact, a}
        /\ UNCHANGED <<open, sql, slot, regs, owner, db, prefix_cache, prefix_rows>>
    BY ArtifactAssumption DEF load_extension, connVars, prefixVars
  <1>1. HostTypeOK'
    <2>1. /\ backing' \in [Exts -> Artifacts \cup {NoArtifact}]
          /\ manifests' \in [Exts -> Artifacts \cup {NoArtifact}]
          /\ bridges' \in [Exts -> Artifacts \cup {NoArtifact}]
          /\ mutating' \in [Exts -> Artifacts \cup {NoArtifact}]
      <3>1. CASE load_extension_as_provider(a)
        BY <1>0, <3>1 DEF HostTypeOK, load_extension_as_provider
      <3>2. CASE load_extension_as_dynlink_bridge(a)
        BY <1>0, <3>2 DEF HostTypeOK, load_extension_as_dynlink_bridge
      <3> QED BY <3>1, <3>2 DEF load_extension
    <2>2. /\ job'.kind \in {"idle", "register", "unregister"}
          /\ job'.ext \in Exts \cup {NoExt}
      BY <1>0 DEF load_extension, Idle
    <2>3. loads' \in Nat /\ current' \in [Exts -> Artifacts \cup {NoArtifact}]
      BY <1>0 DEF load_extension, HostTypeOK
    <2> QED BY <1>0, <2>1, <2>2, <2>3 DEF HostTypeOK
  <1>2. Recorded' /\ HooksOwned' /\ ClosedIsEmpty'
    BY <1>0 DEF Recorded, HooksOwned, ClosedIsEmpty
  <1>3. FromCurrent'
    <2>1. \A k \in DOMAIN sql : sql[k] # Removed => sql[k].art \in Artifacts /\ sql[k].art.ext \in Exts
      BY ArtifactAssumption DEF HostTypeOK
    <2>2. \A b \in Artifacts : b = current[b.ext] => b = current'[b.ext]
      BY <1>0, ArtifactAssumption DEF HostTypeOK
    <2> QED BY <1>0, <2>1, <2>2 DEF FromCurrent
  <1>4. JobOfCurrent'
    <2>1. \A i \in manifest_for_provider(a) :
              i.art = a /\ (i.tier = "hook" => i.of \in Hooks)
      BY ManifestOfArtifact
    <2>2. current'[a.ext] = a
      BY <1>0 DEF HostTypeOK
    <2> QED BY <1>0, <2>1, <2>2 DEF load_extension, JobOfCurrent, Idle
  <1> QED BY <1>1, <1>2, <1>3, <1>4

(* Installing an item of the loaded artifact under a set of names.          *)
LEMMA InstallKeepsInv ==
    ASSUME HostInv, NEW i, i.art \in Artifacts, i.art = current[i.art.ext],
           NEW K, Install(i, K), UNCHANGED current
    PROVE  /\ \A k \in DOMAIN sql' : sql'[k] = Removed \/ sql'[k].art \in Artifacts
           /\ DOMAIN regs' = Exts
           /\ Recorded' /\ HooksOwned' /\ FromCurrent' /\ ClosedIsEmpty'
  <1> USE DEF HostInv
  <1> DEFINE t == [art |-> i.art, tier |-> i.tier]
  <1>0. /\ i.art.ext \in Exts
        /\ t.art = i.art
        /\ sql' = [k \in DOMAIN sql \cup K |-> IF k \in K THEN t ELSE sql[k]]
        /\ regs' = [regs EXCEPT ![i.art.ext] = @ \cup K]
        /\ UNCHANGED <<slot, owner, current>>
        /\ DOMAIN regs = Exts
    BY ArtifactAssumption DEF Install, WithNames, HostTypeOK
  <1> HIDE DEF t
  <1>1. \A k \in DOMAIN sql' : sql'[k] = Removed \/ sql'[k].art \in Artifacts
    BY <1>0 DEF HostTypeOK
  <1>2. Recorded'
    <2> SUFFICES ASSUME NEW k \in DOMAIN sql', sql'[k] # Removed
                 PROVE  k \in regs'[sql'[k].art.ext]
      BY DEF Recorded
    <2>1. CASE k \in K
      BY <1>0, <2>1
    <2>2. CASE k \notin K
      <3>1. k \in DOMAIN sql /\ sql'[k] = sql[k] /\ sql[k] # Removed
        BY <1>0, <2>2
      <3>2. k \in regs[sql[k].art.ext] /\ sql[k].art.ext \in Exts
        BY <3>1, ArtifactAssumption DEF Recorded, HostTypeOK
      <3> QED BY <1>0, <3>1, <3>2
    <2> QED BY <2>1, <2>2
  <1>3. HooksOwned'
    BY <1>0 DEF HooksOwned
  <1>4. FromCurrent'
    BY <1>0 DEF FromCurrent
  <1>5. ClosedIsEmpty'
    BY DEF Install, ClosedIsEmpty
  <1> QED BY <1>0, <1>1, <1>2, <1>3, <1>4, <1>5

(* The candidates for a prefix are prefixes.                                *)
LEMMA CandidatesSeq ==
    ASSUME NEW p \in Prefixes
    PROVE  Candidates(p) \in Seq(Prefixes)
  BY ArtifactAssumption DEF Candidates

(* The prefix tables stay typed, whichever prefix is found.                 *)
LEMMA PrefixTyped ==
    ASSUME HostTypeOK, NEW e \in Exts, ensure_prefix_for_extension(e)
    PROVE  /\ prefix_cache' \in [Exts -> Prefixes \cup {NoPrefix}]
           /\ db' \in Databases
           /\ prefix_rows' \in [Databases -> [Prefixes -> Exts \cup {NoExt}]]
  <1> DEFINE p == Sanitize[e]
  <1>1. p \in Prefixes /\ Candidates(p) \in Seq(Prefixes)
    BY ArtifactAssumption, CandidatesSeq
  <1>2. CASE prefix_cache[e] # NoPrefix
    BY <1>2 DEF ensure_prefix_for_extension, prefixVars, HostTypeOK
  <1>3. CASE prefix_cache[e] = NoPrefix
    <2>1. \/ prefix_cache' = [prefix_cache EXCEPT ![e] = p] /\ UNCHANGED prefix_rows
          \/ \E i \in DOMAIN Candidates(p) :
                /\ prefix_cache' = [prefix_cache EXCEPT ![e] = Candidates(p)[i]]
                /\ prefix_rows' = [prefix_rows EXCEPT ![db][Candidates(p)[i]] = e]
      BY <1>3 DEF ensure_prefix_for_extension, record_prefix
    <2>2. UNCHANGED db
      BY <1>3 DEF ensure_prefix_for_extension, record_prefix
    <2>3. \A i \in DOMAIN Candidates(p) : Candidates(p)[i] \in Prefixes
      BY <1>1
    <2>4. prefix_cache' \in [Exts -> Prefixes \cup {NoPrefix}]
      BY <1>1, <2>1, <2>3 DEF HostTypeOK
    <2>5. \A i \in DOMAIN Candidates(p) :
              [prefix_rows EXCEPT ![db][Candidates(p)[i]] = e]
                  \in [Databases -> [Prefixes -> Exts \cup {NoExt}]]
      BY <2>3 DEF HostTypeOK
    <2>6. prefix_rows' \in [Databases -> [Prefixes -> Exts \cup {NoExt}]]
      BY <2>1, <2>5 DEF HostTypeOK
    <2> QED BY <2>2, <2>4, <2>6 DEF HostTypeOK
  <1> QED BY <1>2, <1>3

(* Registering one item of the loaded artifact.                             *)
LEMMA RegisterKeepsInv ==
    ASSUME HostInv, install_provider_backed_on_shared_conn
    PROVE  HostInv'
  <1> USE DEF HostInv
  <1>0. PICK i \in job.items :
            /\ \/ register_scalar(i) \/ register_collation(i) \/ register_aggregate(i)
               \/ register_vtab(i) \/ register_hook(i)
            /\ job' = IF job.items = {i} THEN Idle ELSE [job EXCEPT !.items = @ \ {i}]
    BY DEF install_provider_backed_on_shared_conn
  <1>1. /\ job.kind = "register" /\ i.art \in Artifacts /\ i.art = current[i.art.ext]
        /\ i.tier = "hook" => i.of \in Hooks
        /\ i.art.ext \in Exts
        /\ UNCHANGED <<backing, manifests, bridges, mutating, current, loads>>
    BY <1>0, ArtifactAssumption DEF install_provider_backed_on_shared_conn, JobOfCurrent, tableVars
  <1>2. /\ job'.kind \in {"idle", "register", "unregister"} /\ job'.ext \in Exts \cup {NoExt}
        /\ JobOfCurrent'
    <2>1. CASE job.items = {i}
      BY <1>0, <1>1, <2>1 DEF Idle, JobOfCurrent
    <2>2. CASE job.items # {i}
      <3>1. job' = [job EXCEPT !.items = @ \ {i}]
        BY <1>0, <2>2
      <3>2. /\ job'.kind = "register" /\ job'.ext = job.ext /\ job'.items = job.items \ {i}
        BY <1>1, <3>1 DEF HostTypeOK
      <3> QED BY <1>1, <3>2 DEF HostTypeOK, JobOfCurrent
    <2> QED BY <2>1, <2>2
  <1>3. CASE Refused
    <2>1. UNCHANGED <<sql, slot, regs, owner, db, prefix_cache, prefix_rows>> /\ open' \in BOOLEAN
      BY <1>3 DEF Refused, prefixVars, HostTypeOK
    <2>2. HostTypeOK'
      BY <1>1, <1>2, <2>1 DEF HostTypeOK
    <2>3. Recorded' /\ HooksOwned' /\ FromCurrent' /\ ClosedIsEmpty'
      BY <1>1, <1>3, <2>1 DEF Recorded, HooksOwned, FromCurrent, ClosedIsEmpty, Refused
    <2> QED BY <1>2, <2>2, <2>3
  <1>4. ASSUME NEW K, Install(i, K),
               UNCHANGED prefixVars \/ ensure_prefix_for_extension(i.art.ext)
        PROVE  HostInv'
    <2>1. /\ \A k \in DOMAIN sql' : sql'[k] = Removed \/ sql'[k].art \in Artifacts
          /\ DOMAIN regs' = Exts
          /\ Recorded' /\ HooksOwned' /\ FromCurrent' /\ ClosedIsEmpty'
      BY <1>1, <1>4, InstallKeepsInv
    <2>2. /\ prefix_cache' \in [Exts -> Prefixes \cup {NoPrefix}]
          /\ db' \in Databases
          /\ prefix_rows' \in [Databases -> [Prefixes -> Exts \cup {NoExt}]]
      BY <1>1, <1>4, PrefixTyped DEF prefixVars, HostTypeOK
    <2>3. open' = TRUE /\ UNCHANGED <<slot, owner>>
      BY <1>4 DEF Install
    <2>4. HostTypeOK'
      BY <1>1, <1>2, <2>1, <2>2, <2>3 DEF HostTypeOK
    <2> QED BY <1>2, <2>1, <2>4
  <1>5. ASSUME NEW s, register_named(i, s) PROVE HostInv'
    <2>1. \/ Refused
          \/ \E K : Install(i, K) /\ (UNCHANGED prefixVars \/ ensure_prefix_for_extension(i.art.ext))
      BY <1>5, Zenon DEF register_named
    <2> QED BY <1>3, <1>4, <2>1
  <1>6. CASE i.tier = "hook" /\ ~Refused /\ register_hook(i)
    <2>1. /\ i.of \in Hooks
          /\ slot' = [slot EXCEPT ![i.of] = i.art]
          /\ owner' = [owner EXCEPT ![i.of] = i.art.ext]
          /\ open' = TRUE
          /\ UNCHANGED <<sql, regs, db, prefix_cache, prefix_rows>>
      BY <1>1, <1>6 DEF register_hook, prefixVars
    <2>2. HostTypeOK'
      BY <1>1, <1>2, <2>1 DEF HostTypeOK
    <2>3. Recorded'
      BY <2>1 DEF Recorded
    <2>4. HooksOwned' /\ FromCurrent' /\ ClosedIsEmpty'
      BY <1>1, <2>1 DEF HooksOwned, FromCurrent, ClosedIsEmpty, HostTypeOK
    <2> QED BY <1>2, <2>2, <2>3, <2>4
  <1> QED
    BY <1>0, <1>3, <1>5, <1>6
    DEF register_scalar, register_collation, register_aggregate, register_vtab, register_hook

(* The loader's half of `.unload` leaves the connection alone.              *)
LEMMA UnloadKeepsInv ==
    ASSUME HostInv, NEW e \in Exts, unload(e)
    PROVE  HostInv'
  <1> USE DEF HostInv
  <1>1. /\ UNCHANGED <<open, sql, slot, regs, owner, db, prefix_cache, prefix_rows,
                       bridges, mutating, current, loads>>
        /\ job' = [kind |-> "unregister", ext |-> e, items |-> {}]
    BY DEF unload, connVars, prefixVars
  <1>2. /\ backing' \in [Exts -> Artifacts \cup {NoArtifact}]
        /\ manifests' \in [Exts -> Artifacts \cup {NoArtifact}]
    BY DEF unload, HostTypeOK
  <1>3. HostTypeOK'
    BY <1>1, <1>2 DEF HostTypeOK
  <1>4. Recorded' /\ HooksOwned' /\ FromCurrent' /\ JobOfCurrent' /\ ClosedIsEmpty'
    BY <1>1 DEF Recorded, HooksOwned, FromCurrent, JobOfCurrent, ClosedIsEmpty
  <1> QED BY <1>3, <1>4

(* The other half removes everything that is recorded.                      *)
LEMMA UnregisterKeepsInv ==
    ASSUME HostInv, unregister_extension
    PROVE  HostInv'
  <1> USE DEF HostInv
  <1> DEFINE e == job.ext
  <1>1. /\ e \in Exts
        /\ sql' = [k \in DOMAIN sql |-> IF k \in regs[e] THEN Removed ELSE sql[k]]
        /\ regs' = [regs EXCEPT ![e] = {}]
        /\ slot' = [h \in Hooks |-> IF owner[h] = e /\ open THEN NoHook ELSE slot[h]]
        /\ owner' = [h \in Hooks |-> IF owner[h] = e THEN NoExt ELSE owner[h]]
        /\ current' = [current EXCEPT ![e] = NoArtifact]
        /\ job' = Idle
        /\ UNCHANGED <<open, db, prefix_cache, prefix_rows, backing, manifests, bridges,
                       mutating, loads>>
    BY DEF unregister_extension, JobOfCurrent, prefixVars, tableVars
  <1> HIDE DEF e
  <1>2. \A k \in DOMAIN sql' :
            sql'[k] # Removed =>
                /\ k \in DOMAIN sql /\ sql'[k] = sql[k] /\ k \notin regs[e]
                /\ sql[k].art \in Artifacts /\ sql[k].art.ext \in Exts
                /\ sql[k].art.ext # e
    <2> SUFFICES ASSUME NEW k \in DOMAIN sql', sql'[k] # Removed
                 PROVE  /\ k \in DOMAIN sql /\ sql'[k] = sql[k] /\ k \notin regs[e]
                        /\ sql[k].art \in Artifacts /\ sql[k].art.ext \in Exts
                        /\ sql[k].art.ext # e
      OBVIOUS
    <2>1. k \in DOMAIN sql /\ sql'[k] = sql[k] /\ k \notin regs[e] /\ sql[k] # Removed
      BY <1>1
    <2>2. sql[k].art \in Artifacts /\ sql[k].art.ext \in Exts
      BY <2>1, ArtifactAssumption DEF HostTypeOK
    <2> QED BY <2>1, <2>2 DEF Recorded
  <1>3. \A h \in Hooks :
            slot'[h] \in Artifacts =>
                slot'[h] = slot[h] /\ owner'[h] = owner[h] /\ slot[h].ext # e
    BY <1>1, ArtifactAssumption DEF HooksOwned, ClosedIsEmpty, HostTypeOK
  <1>4. HostTypeOK'
    <2>1. slot' \in [Hooks -> Artifacts \cup {NoHook, HostHook}]
      BY <1>1 DEF HostTypeOK
    <2>2. owner' \in [Hooks -> Exts \cup {NoExt}]
      BY <1>1 DEF HostTypeOK
    <2> QED BY <1>1, <1>2, <2>1, <2>2 DEF HostTypeOK, Idle
  <1>5. Recorded'
    BY <1>1, <1>2 DEF Recorded, HostTypeOK
  <1>6. HooksOwned'
    BY <1>3 DEF HooksOwned
  <1>7. FromCurrent'
    <2>1. \A k \in DOMAIN sql' : sql'[k] # Removed => sql'[k].art = current'[sql'[k].art.ext]
      BY <1>1, <1>2 DEF FromCurrent, HostTypeOK
    <2>2. \A h \in Hooks : slot'[h] \in Artifacts => slot'[h] = current'[slot'[h].ext]
      BY <1>1, <1>3, ArtifactAssumption DEF FromCurrent, HostTypeOK
    <2> QED BY <2>1, <2>2 DEF FromCurrent
  <1>8. JobOfCurrent'
    BY <1>1 DEF JobOfCurrent, Idle
  <1>9. ClosedIsEmpty'
    BY <1>1, <1>3 DEF ClosedIsEmpty
  <1> QED BY <1>4, <1>5, <1>6, <1>7, <1>8, <1>9

(* The auth log takes the slot from an extension, never gives it one.       *)
LEMMA AuthLogKeepsInv ==
    ASSUME HostInv, NEW on \in BOOLEAN, set_auth_log(on)
    PROVE  HostInv'
  <1> USE DEF HostInv
  <1>1. /\ slot' = [slot EXCEPT !["authorizer"] = IF on THEN HostHook ELSE NoHook]
        /\ open' = TRUE
        /\ UNCHANGED <<sql, regs, owner, db, prefix_cache, prefix_rows, backing, manifests,
                       bridges, mutating, job, current, loads>>
    BY DEF set_auth_log, prefixVars, tableVars, clientVars
  <1>2. \A h \in Hooks : slot'[h] \in Artifacts => slot'[h] = slot[h]
    BY <1>1, ArtifactAssumption DEF HostTypeOK
  <1>3. HostTypeOK'
    BY <1>1 DEF HostTypeOK, Hooks
  <1>4. Recorded' /\ HooksOwned' /\ FromCurrent' /\ JobOfCurrent' /\ ClosedIsEmpty'
    BY <1>1, <1>2 DEF Recorded, HooksOwned, FromCurrent, JobOfCurrent, ClosedIsEmpty
  <1> QED BY <1>3, <1>4

(* A new connection has nothing installed.                                  *)
LEMMA OpenKeepsInv ==
    ASSUME HostInv, NEW d \in Databases, open_db(d)
    PROVE  HostInv'
  <1> USE DEF HostInv
  <1>1. /\ DOMAIN sql' = {}
        /\ slot' = FreshSlots
        /\ db' = d /\ open' \in BOOLEAN
        /\ UNCHANGED <<regs, owner, prefix_cache, prefix_rows, backing, manifests, bridges,
                       mutating, job, current, loads>>
    BY DEF open_db, NoNames, tableVars, clientVars
  <1>2. slot' \in [Hooks -> {NoHook, HostHook}]
    BY <1>1 DEF FreshSlots
  <1>3. HostTypeOK'
    BY <1>1, <1>2 DEF HostTypeOK
  <1>4. Recorded' /\ HooksOwned' /\ FromCurrent' /\ JobOfCurrent' /\ ClosedIsEmpty'
    BY <1>1, <1>2, ArtifactAssumption DEF Recorded, HooksOwned, FromCurrent, JobOfCurrent, ClosedIsEmpty
  <1> QED BY <1>3, <1>4

LEMMA HostInvStep == HostInv /\ [Next]_vars => HostInv'
  <1> SUFFICES ASSUME HostInv, [Next]_vars PROVE HostInv'
    OBVIOUS
  <1>1. ASSUME NEW a \in Artifacts, load_extension(a) PROVE HostInv'
    BY <1>1, LoadKeepsInv
  <1>2. CASE install_provider_backed_on_shared_conn
    BY <1>2, RegisterKeepsInv
  <1>3. ASSUME NEW e \in Exts, unload(e) PROVE HostInv'
    BY <1>3, UnloadKeepsInv
  <1>4. CASE unregister_extension
    BY <1>4, UnregisterKeepsInv
  <1>5. ASSUME NEW on \in BOOLEAN, set_auth_log(on) PROVE HostInv'
    BY <1>5, AuthLogKeepsInv
  <1>6. ASSUME NEW d \in Databases, open_db(d) PROVE HostInv'
    BY <1>6, OpenKeepsInv
  <1>7. CASE UNCHANGED vars
    BY <1>7 DEF vars, connVars, prefixVars, tableVars, clientVars, HostInv, HostTypeOK,
                Recorded, HooksOwned, FromCurrent, JobOfCurrent, ClosedIsEmpty
  <1> QED BY <1>1, <1>2, <1>3, <1>4, <1>5, <1>6, <1>7 DEF Next

(* HostInv holds in every reachable state of the host's tables.             *)
THEOREM HostInvHolds == Spec => []HostInv
  BY HostInvInit, HostInvStep, PTL DEF Spec

(* The host's tables keep their types whatever is loaded and unloaded.      *)
THEOREM HostTypeCorrect == Spec => []HostTypeOK
  <1>1. HostInv => HostTypeOK
    BY DEF HostInv
  <1> QED BY HostInvHolds, <1>1, PTL

(* Nothing on the connection calls into an extension the client has         *)
(* unloaded, for any set of extensions and any order of loads.              *)
THEOREM NothingLeftBehindHolds == Spec => []NothingLeftBehind
  <1>1. HostInv => NothingLeftBehind
    BY ArtifactAssumption DEF HostInv, HostTypeOK, FromCurrent, NothingLeftBehind, Reaches
  <1> QED BY HostInvHolds, <1>1, PTL
-----------------------------------------------------------------------------
(* The component tables.  A provider that is still there is the loaded      *)
(* version; bridges stay after an unload, but a loaded bridge replaced      *)
(* whatever was there before.                                               *)
Tables ==
    /\ \A e \in Exts : backing[e] # NoArtifact =>
          backing[e].ext = e /\ backing[e].kind = "provider" /\ backing[e] = current[e]
    /\ \A e \in Exts : bridges[e] # NoArtifact =>
          bridges[e].ext = e /\ bridges[e].kind # "provider"
    /\ \A e \in Exts : mutating[e] # NoArtifact =>
          mutating[e].ext = e /\ mutating[e].kind = "mutating"
    /\ \A e \in Exts : current[e] # NoArtifact =>
          /\ current[e].ext = e
          /\ current[e].kind # "provider" => bridges[e] = current[e]
          /\ current[e].kind = "mutating" => mutating[e] = current[e]
    /\ job.kind = "unregister" => backing[job.ext] = NoArtifact

TablesInv == HostInv /\ Tables /\ ManifestsHaveRoutes

LEMMA TablesInit == Init => TablesInv
  <1> SUFFICES ASSUME Init PROVE TablesInv
    OBVIOUS
  <1>1. Tables
    BY DEF Init, Tables, Idle
  <1>2. ManifestsHaveRoutes
    BY DEF Init, ManifestsHaveRoutes
  <1> QED BY <1>1, <1>2, HostInvInit DEF TablesInv

LEMMA LoadKeepsTables ==
    ASSUME TablesInv, NEW a \in Artifacts, load_extension(a)
    PROVE  Tables' /\ ManifestsHaveRoutes'
  <1> DEFINE x == a.ext
  <1>1. /\ x \in Exts /\ a # NoArtifact
        /\ a.kind \in {"provider", "bridge", "mutating"}
        /\ current[x] \in {NoArtifact, a}
        /\ current' = [current EXCEPT ![x] = a]
        /\ job'.kind # "unregister"
    BY ArtifactAssumption DEF load_extension, Idle
  <1>2. /\ backing \in [Exts -> Artifacts \cup {NoArtifact}]
        /\ manifests \in [Exts -> Artifacts \cup {NoArtifact}]
        /\ bridges \in [Exts -> Artifacts \cup {NoArtifact}]
        /\ mutating \in [Exts -> Artifacts \cup {NoArtifact}]
        /\ current \in [Exts -> Artifacts \cup {NoArtifact}]
    BY DEF TablesInv, HostInv, HostTypeOK
  <1>3. CASE load_extension_as_provider(a)
    <2>1. /\ a.kind = "provider"
          /\ backing' = [backing EXCEPT ![x] = a]
          /\ manifests' = [manifests EXCEPT ![x] = a]
          /\ UNCHANGED <<bridges, mutating>>
      BY <1>3 DEF load_extension_as_provider
    <2>2. Tables'
      BY <1>1, <1>2, <2>1 DEF TablesInv, Tables
    <2>3. ManifestsHaveRoutes'
      BY <1>1, <1>2, <2>1 DEF TablesInv, ManifestsHaveRoutes, scalar_route
    <2> QED BY <2>2, <2>3
  <1>4. CASE load_extension_as_dynlink_bridge(a)
    <2>1. /\ a.kind # "provider"
          /\ bridges' = [bridges EXCEPT ![x] = a]
          /\ manifests' = [manifests EXCEPT ![x] = a]
          /\ mutating' = IF a.kind = "mutating" THEN [mutating EXCEPT ![x] = a]
                         ELSE mutating
          /\ UNCHANGED backing
      BY <1>4 DEF load_extension_as_dynlink_bridge
    <2>2. Tables'
      BY <1>1, <1>2, <2>1 DEF TablesInv, Tables
    <2>3. ManifestsHaveRoutes'
      BY <1>1, <1>2, <2>1 DEF TablesInv, ManifestsHaveRoutes, scalar_route
    <2> QED BY <2>2, <2>3
  <1> QED BY <1>3, <1>4 DEF load_extension

LEMMA UnloadKeepsTables ==
    ASSUME TablesInv, NEW e \in Exts, unload(e)
    PROVE  Tables' /\ ManifestsHaveRoutes'
  <1>1. /\ backing' = [backing EXCEPT ![e] = NoArtifact]
        /\ \/ manifests' = [manifests EXCEPT ![e] = NoArtifact]
           \/ backing[e] = NoArtifact /\ UNCHANGED <<backing, manifests>>
        /\ job' = [kind |-> "unregister", ext |-> e, items |-> {}]
        /\ UNCHANGED <<bridges, mutating, current>>
    BY DEF unload, TablesInv, HostInv, HostTypeOK
  <1>2. /\ backing \in [Exts -> Artifacts \cup {NoArtifact}]
        /\ manifests \in [Exts -> Artifacts \cup {NoArtifact}]
    BY DEF TablesInv, HostInv, HostTypeOK
  <1>3. Tables'
    BY <1>1, <1>2 DEF TablesInv, Tables
  <1>4. ManifestsHaveRoutes'
    BY <1>1, <1>2 DEF TablesInv, ManifestsHaveRoutes, scalar_route
  <1> QED BY <1>3, <1>4

LEMMA UnregisterKeepsTables ==
    ASSUME TablesInv, unregister_extension
    PROVE  Tables' /\ ManifestsHaveRoutes'
  <1>1. /\ job.ext \in Exts /\ backing[job.ext] = NoArtifact
        /\ current' = [current EXCEPT ![job.ext] = NoArtifact]
        /\ job'.kind = "idle"
        /\ UNCHANGED <<backing, manifests, bridges, mutating>>
    BY DEF unregister_extension, TablesInv, Tables, HostInv, JobOfCurrent, tableVars, Idle
  <1>2. current \in [Exts -> Artifacts \cup {NoArtifact}]
    BY DEF TablesInv, HostInv, HostTypeOK
  <1>3. Tables'
    BY <1>1, <1>2 DEF TablesInv, Tables
  <1>4. ManifestsHaveRoutes'
    BY <1>1 DEF TablesInv, ManifestsHaveRoutes, scalar_route
  <1> QED BY <1>3, <1>4

(* The other steps leave the tables and what is loaded alone.               *)
LEMMA RestKeepsTables ==
    ASSUME TablesInv, UNCHANGED <<backing, manifests, bridges, mutating, current>>,
           job'.kind = "unregister" => UNCHANGED job
    PROVE  Tables' /\ ManifestsHaveRoutes'
  <1>1. Tables'
    BY DEF TablesInv, Tables
  <1>2. ManifestsHaveRoutes'
    BY DEF TablesInv, ManifestsHaveRoutes, scalar_route
  <1> QED BY <1>1, <1>2

LEMMA TablesStep == TablesInv /\ [Next]_vars => TablesInv'
  <1> SUFFICES ASSUME TablesInv, [Next]_vars PROVE TablesInv'
    OBVIOUS
  <1>1. HostInv'
    BY HostInvStep DEF TablesInv
  <1>2. ASSUME NEW a \in Artifacts, load_extension(a) PROVE Tables' /\ ManifestsHaveRoutes'
    BY <1>2, LoadKeepsTables
  <1>3. ASSUME install_provider_backed_on_shared_conn PROVE Tables' /\ ManifestsHaveRoutes'
    <2>1. /\ UNCHANGED <<backing, manifests, bridges, mutating, current>>
          /\ \E i : job' = IF job.items = {i} THEN Idle ELSE [job EXCEPT !.items = @ \ {i}]
          /\ job.kind = "register"
      BY <1>3 DEF install_provider_backed_on_shared_conn, tableVars
    <2>2. job'.kind # "unregister"
      <3>1. PICK i : job' = IF job.items = {i} THEN Idle ELSE [job EXCEPT !.items = @ \ {i}]
        BY <2>1
      <3>2. [job EXCEPT !.items = @ \ {i}].kind = job.kind
        OBVIOUS
      <3> QED BY <2>1, <3>1, <3>2 DEF Idle
    <2> QED BY <2>1, <2>2, RestKeepsTables
  <1>4. ASSUME NEW e \in Exts, unload(e) PROVE Tables' /\ ManifestsHaveRoutes'
    BY <1>4, UnloadKeepsTables
  <1>5. ASSUME unregister_extension PROVE Tables' /\ ManifestsHaveRoutes'
    BY <1>5, UnregisterKeepsTables
  <1>6. ASSUME NEW on \in BOOLEAN, set_auth_log(on) PROVE Tables' /\ ManifestsHaveRoutes'
    BY <1>6, RestKeepsTables DEF set_auth_log, tableVars, clientVars
  <1>7. ASSUME NEW d \in Databases, open_db(d) PROVE Tables' /\ ManifestsHaveRoutes'
    BY <1>7, RestKeepsTables DEF open_db, tableVars, clientVars
  <1>8. ASSUME UNCHANGED vars PROVE Tables' /\ ManifestsHaveRoutes'
    BY <1>8, RestKeepsTables DEF vars, tableVars, clientVars
  <1> QED BY <1>1, <1>2, <1>3, <1>4, <1>5, <1>6, <1>7, <1>8 DEF Next, TablesInv

THEOREM TablesInvHolds == Spec => []TablesInv
  BY TablesInit, TablesStep, PTL DEF Spec

(* dispatch_parse always finds a component behind a manifest.               *)
THEOREM ManifestsHaveRoutesHolds == Spec => []ManifestsHaveRoutes
  <1>1. TablesInv => ManifestsHaveRoutes
    BY DEF TablesInv
  <1> QED BY TablesInvHolds, <1>1, PTL

(* No SQL name and no hook ever runs another version of its extension, if   *)
(* the versions are of one kind.                                            *)
THEOREM RunsItsOwnVersionHolds == Spec => []RunsItsOwnVersion
  <1>1. ASSUME TablesInv PROVE RunsItsOwnVersion
    <2>1. ASSUME NEW k \in DOMAIN sql, sql[k] # Removed, OneKind(sql[k].art.ext)
          PROVE  Route(sql[k].tier, sql[k].art.ext) \in {NoArtifact, sql[k].art}
      <3> DEFINE a == sql[k].art
                 e == a.ext
      <3>1. a \in Artifacts /\ e \in Exts /\ a = current[e] /\ a # NoArtifact
        BY <1>1, <2>1, ArtifactAssumption DEF TablesInv, HostInv, HostTypeOK, FromCurrent
      <3>2. \A b \in Artifacts : b.ext = e => b.kind = a.kind
        BY <2>1, <3>1 DEF OneKind
      <3>3. backing[e] \in {NoArtifact, a}
        BY <1>1, <3>1 DEF TablesInv, Tables
      <3> HIDE DEF a, e
      <3>4. bridges[e] \in {NoArtifact, a}
        <4> SUFFICES ASSUME bridges[e] # NoArtifact PROVE bridges[e] = a
          OBVIOUS
        <4>1. bridges[e] \in Artifacts /\ bridges[e].ext = e /\ bridges[e].kind # "provider"
          BY <1>1, <3>1 DEF TablesInv, Tables, HostInv, HostTypeOK
        <4> QED BY <1>1, <3>1, <3>2, <4>1 DEF TablesInv, Tables
      <3>5. mutating[e] \in {NoArtifact, a}
        <4> SUFFICES ASSUME mutating[e] # NoArtifact PROVE mutating[e] = a
          OBVIOUS
        <4>1. mutating[e] \in Artifacts /\ mutating[e].ext = e /\ mutating[e].kind = "mutating"
          BY <1>1, <3>1 DEF TablesInv, Tables, HostInv, HostTypeOK
        <4> QED BY <1>1, <3>1, <3>2, <4>1 DEF TablesInv, Tables
      <3>6. Route(sql[k].tier, e) \in {NoArtifact, a}
        BY <3>3, <3>4, <3>5 DEF Route, provider_route, scalar_route, vtab_route
      <3> QED BY <3>6 DEF a, e
    <2>2. ASSUME NEW h \in Hooks, slot[h] \in Artifacts
          PROVE  provider_route(slot[h].ext) \in {NoArtifact, slot[h]}
      BY <1>1, <2>2, ArtifactAssumption
      DEF TablesInv, Tables, HostInv, FromCurrent, provider_route
    <2> QED BY <2>1, <2>2 DEF RunsItsOwnVersion
  <1> QED BY TablesInvHolds, <1>1, PTL
-----------------------------------------------------------------------------
(* A row of __sqlink_prefix is never given to another extension.            *)
LEMMA EnsureKeepsPrefixes ==
    ASSUME HostTypeOK, PrefixIsItsOwn, NEW e \in Exts, ensure_prefix_for_extension(e)
    PROVE  PrefixIsItsOwn'
  <1> DEFINE p == Sanitize[e]
             Own(x) == \E d \in Databases :
                          \/ prefix_rows[d][prefix_cache[x]] = x
                          \/ \A i \in DOMAIN Candidates(Sanitize[x]) :
                                prefix_rows[d][Candidates(Sanitize[x])[i]] \notin {x, NoExt}
  <1>1. CASE prefix_cache[e] # NoPrefix
    BY <1>1 DEF ensure_prefix_for_extension, prefixVars, PrefixIsItsOwn
  <1>2. CASE prefix_cache[e] = NoPrefix
    <2>1. record_prefix(e, p)
      BY <1>2 DEF ensure_prefix_for_extension
    <2>2. \A x \in Exts : \A i \in DOMAIN Candidates(Sanitize[x]) :
              Candidates(Sanitize[x])[i] \in Prefixes
      BY ArtifactAssumption, CandidatesSeq
    <2>3. p \in Prefixes /\ db \in Databases
      BY ArtifactAssumption DEF HostTypeOK
    <2>4. CASE /\ \A i \in DOMAIN Candidates(p) :
                     prefix_rows[db][Candidates(p)[i]] \notin {e, NoExt}
               /\ prefix_cache' = [prefix_cache EXCEPT ![e] = p]
               /\ UNCHANGED prefix_rows
      BY <2>3, <2>4 DEF PrefixIsItsOwn, HostTypeOK
    <2>5. CASE e \in BusyExts /\ prefix_cache' = [prefix_cache EXCEPT ![e] = p]
               /\ UNCHANGED prefix_rows
      BY <2>3, <2>5 DEF PrefixIsItsOwn, HostTypeOK
    <2>6. ASSUME NEW i \in DOMAIN Candidates(p),
                 prefix_rows[db][Candidates(p)[i]] \in {e, NoExt},
                 prefix_cache' = [prefix_cache EXCEPT ![e] = Candidates(p)[i]],
                 prefix_rows' = [prefix_rows EXCEPT ![db][Candidates(p)[i]] = e]
          PROVE  PrefixIsItsOwn'
      <3> DEFINE q == Candidates(p)[i]
      <3>1. q \in Prefixes
        BY <2>2
      <3> HIDE DEF q
      <3>2. /\ prefix_rows'[db][q] = e
            /\ \A d \in Databases, r \in Prefixes :
                  prefix_rows[d][r] # NoExt => prefix_rows'[d][r] = prefix_rows[d][r]
        BY <2>3, <2>6, <3>1 DEF HostTypeOK, q
      <3> SUFFICES ASSUME NEW x \in Exts \ BusyExts, prefix_cache'[x] # NoPrefix
                   PROVE  Own(x)'
        BY DEF PrefixIsItsOwn
      <3>3. CASE x = e
        <4>1. prefix_cache'[x] = q
          BY <2>6, <3>3 DEF HostTypeOK, q
        <4> QED BY <2>3, <3>2, <3>3, <4>1
      <3>4. CASE x # e
        <4>1. prefix_cache'[x] = prefix_cache[x] /\ prefix_cache[x] \in Prefixes
          BY <2>6, <3>4 DEF HostTypeOK
        <4>2. PICK d \in Databases :
                  \/ prefix_rows[d][prefix_cache[x]] = x
                  \/ \A j \in DOMAIN Candidates(Sanitize[x]) :
                        prefix_rows[d][Candidates(Sanitize[x])[j]] \notin {x, NoExt}
          BY <4>1 DEF PrefixIsItsOwn
        <4>3. CASE prefix_rows[d][prefix_cache[x]] = x
          <5>1. prefix_rows'[d][prefix_cache'[x]] = x
            BY <3>2, <4>1, <4>2, <4>3, ArtifactAssumption
          <5> QED BY <5>1
        <4>4. CASE \A j \in DOMAIN Candidates(Sanitize[x]) :
                       prefix_rows[d][Candidates(Sanitize[x])[j]] \notin {x, NoExt}
          <5>1. \A j \in DOMAIN Candidates(Sanitize[x]) :
                    prefix_rows'[d][Candidates(Sanitize[x])[j]] \notin {x, NoExt}
            BY <2>2, <3>2, <4>4
          <5> QED BY <5>1 DEF Candidates
        <4> QED BY <4>2, <4>3, <4>4
      <3> QED BY <3>3, <3>4
    <2> QED BY <2>1, <2>4, <2>5, <2>6 DEF record_prefix
  <1> QED BY <1>1, <1>2

LEMMA PrefixStep == HostInv /\ PrefixIsItsOwn /\ [Next]_vars => PrefixIsItsOwn'
  <1> SUFFICES ASSUME HostInv, PrefixIsItsOwn, [Next]_vars PROVE PrefixIsItsOwn'
    OBVIOUS
  <1>1. ASSUME UNCHANGED <<prefix_cache, prefix_rows>> PROVE PrefixIsItsOwn'
    BY <1>1 DEF PrefixIsItsOwn, Candidates
  <1>2. CASE install_provider_backed_on_shared_conn
    <2>1. PICK i \in job.items :
              \/ register_scalar(i) \/ register_collation(i) \/ register_aggregate(i)
              \/ register_vtab(i) \/ register_hook(i)
      BY <1>2 DEF install_provider_backed_on_shared_conn
    <2>2. i.art.ext \in Exts
      BY <1>2, <2>1, ArtifactAssumption
      DEF install_provider_backed_on_shared_conn, HostInv, JobOfCurrent
    <2>3. \A s : register_named(i, s) =>
              UNCHANGED <<prefix_cache, prefix_rows>> \/ ensure_prefix_for_extension(i.art.ext)
      BY Zenon DEF register_named, Refused, prefixVars
    <2>4. register_hook(i) => UNCHANGED <<prefix_cache, prefix_rows>>
      BY DEF register_hook, Refused, prefixVars
    <2>5. UNCHANGED <<prefix_cache, prefix_rows>> \/ ensure_prefix_for_extension(i.art.ext)
      BY <2>1, <2>3, <2>4
      DEF register_scalar, register_collation, register_aggregate, register_vtab
    <2> QED BY <1>1, <2>2, <2>5, EnsureKeepsPrefixes DEF HostInv
  <1>3. CASE ~install_provider_backed_on_shared_conn
    <2>1. UNCHANGED <<prefix_cache, prefix_rows>>
      BY <1>3 DEF Next, load_extension, unload, unregister_extension, set_auth_log, open_db,
                  vars, prefixVars
    <2> QED BY <1>1, <2>1
  <1> QED BY <1>2, <1>3

(* The prefix an extension uses is its own in a database of the session,    *)
(* unless the database was locked or every alternative was taken.           *)
THEOREM PrefixIsItsOwnHolds == Spec => []PrefixIsItsOwn
  <1>1. Init => PrefixIsItsOwn
    BY DEF Init, PrefixIsItsOwn
  <1> QED BY <1>1, HostInvHolds, PrefixStep, PTL DEF Spec

-----------------------------------------------------------------------------
(***************************************************************************)
(* The names of scalars.  ScalarsInv says that a scalar's name is live for  *)
(* exactly one extension, the only one that has it on record, and that no   *)
(* built-in has it: unregister_extension then removes its own alone.  The   *)
(* name is chosen by resolve_collision_free_name, so this holds while that  *)
(* finds one (FallbackLeft; after FallbackLimit it takes the bare name),    *)
(* and as long as the client opens a database with nothing loaded.          *)
(***************************************************************************)

(* Some name is left for every scalar that is to be registered.             *)
FallbackLeft ==
    \A i \in job.items : i.tier = "scalar" =>
        \/ ~function_exists(<<"fn", i.name>>)
        \/ \E n \in 1..FallbackLimit : ~function_exists(<<"fn", <<i.art.ext, i.name, n>>>>)

ScalarsInv ==
    /\ \A k \in DOMAIN sql : ScalarName(k) => k \notin Builtins
    /\ \A e \in Exts : \A k \in regs[e] :
          ScalarName(k) => k \in DOMAIN sql /\ sql[k] # Removed /\ sql[k].art.ext = e

(* What an item is registered under.                                        *)
ItemsNamed ==
    job.kind = "register" => \A i \in job.items :
        /\ i.tier \in {"scalar", "aggregate", "collation", "vtab", "hook"}
        /\ i.tier = "aggregate" => \E n \in i.art.aggregates : i.name = <<n>>

(* Nothing is on record for an extension that is not loaded.                *)
RecordsOfLoaded == \A e \in Exts : current[e] = NoArtifact => regs[e] = {}

(* The first of the names that are left.                                    *)
LEMMA FirstOf ==
    ASSUME NEW F, F \subseteq Nat, F # {}
    PROVE  \E i \in F : \A j \in F : i <= j
  <1>1. PICK i \in F : \A j \in F : ~(<<j, i>> \in OpToRel(<, Nat))
    BY WFMin, NatLessThanWellFounded, Zenon
  <1>2. \A j \in F : j \in Nat /\ ~(j < i)
    BY <1>1 DEF OpToRel
  <1> QED BY <1>2

(* A name that is left is found.                                            *)
LEMMA ResolvedIsFree ==
    ASSUME NEW e, NEW s,
           \/ ~function_exists(<<"fn", s>>)
           \/ \E n \in 1..FallbackLimit : ~function_exists(<<"fn", <<e, s, n>>>>)
    PROVE  ~function_exists(<<"fn", resolve_collision_free_name(e, s)>>)
  <1> DEFINE free == {i \in 1..FallbackLimit : ~function_exists(<<"fn", <<e, s, i>>>>)}
             first == CHOOSE i \in free : \A j \in free : i <= j
  <1>1. CASE ~function_exists(<<"fn", s>>)
    BY <1>1, Zenon DEF resolve_collision_free_name
  <1>2. CASE function_exists(<<"fn", s>>)
    <2>a. free # {}
      BY <1>2, Zenon
    <2>b. free \subseteq Nat
      OBVIOUS
    <2>1. free # {} /\ free \subseteq Nat
      BY <2>a, <2>b
    <2>2. \E i \in free : \A j \in free : i <= j
      BY <2>1, FirstOf, Zenon
    <2>3. first \in free
      BY <2>2, Zenon
    <2>4. resolve_collision_free_name(e, s) = <<e, s, first>>
      BY <1>2, <2>1, Zenon DEF resolve_collision_free_name
    <2> QED BY <2>3, <2>4, Zenon
  <1> QED BY <1>1, <1>2

ScalarsKept == \A k \in DOMAIN sql' : ScalarName(k) => KeepsItsName(k)

(* What is true of an item when the client gets it is true when it is       *)
(* registered.                                                              *)
LEMMA ItemsOfManifest ==
    ASSUME NEW a, NEW i \in manifest_for_provider(a)
    PROVE  /\ i.tier \in {"scalar", "aggregate", "collation", "vtab", "hook"}
           /\ i.tier = "aggregate" => \E n \in i.art.aggregates : i.name = <<n>>
  <1>1. CASE \E n \in a.scalars : \E s : i = [tier |-> "scalar", of |-> n, art |-> a, name |-> s]
    BY <1>1
  <1>2. CASE \E n \in a.aggregates : i = [tier |-> "aggregate", of |-> n, art |-> a, name |-> <<n>>]
    BY <1>2
  <1>3. CASE \E n \in a.collations : i = [tier |-> "collation", of |-> n, art |-> a, name |-> <<n>>]
    BY <1>3
  <1>4. CASE \E n \in a.vtabs : i = [tier |-> "vtab", of |-> n, art |-> a, name |-> <<n>>]
    BY <1>4
  <1>5. CASE \E h \in a.hooks : i = [tier |-> "hook", of |-> h, art |-> a, name |-> <<h>>]
    BY <1>5
  <1> QED BY <1>1, <1>2, <1>3, <1>4, <1>5, Zenon DEF manifest_for_provider

LEMMA ItemsStep == ItemsNamed /\ [Next]_vars => ItemsNamed'
  <1> SUFFICES ASSUME ItemsNamed, [Next]_vars PROVE ItemsNamed'
    OBVIOUS
  <1>1. ASSUME NEW a \in Artifacts, load_extension(a) PROVE ItemsNamed'
    <2>1. job' = Idle \/ job' = [kind |-> "register", ext |-> a.ext, items |-> manifest_for_provider(a)]
      BY <1>1 DEF load_extension
    <2> QED BY <2>1, ItemsOfManifest DEF ItemsNamed, Idle
  <1>2. CASE install_provider_backed_on_shared_conn
    <2>1. PICK i \in job.items : job' = IF job.items = {i} THEN Idle ELSE [job EXCEPT !.items = @ \ {i}]
      BY <1>2 DEF install_provider_backed_on_shared_conn
    <2>2. CASE job' = Idle
      BY <2>2 DEF ItemsNamed, Idle
    <2>3. CASE job' = [job EXCEPT !.items = @ \ {i}]
      <3>1. job'.items = job.items \ {i} /\ job'.kind = job.kind
        BY <2>3
      <3> QED BY <3>1 DEF ItemsNamed
    <2> QED BY <2>1, <2>2, <2>3
  <1>3. ASSUME NEW e, unload(e) PROVE ItemsNamed'
    BY <1>3 DEF unload, ItemsNamed
  <1>4. CASE unregister_extension
    BY <1>4 DEF unregister_extension, ItemsNamed, Idle
  <1>5. ASSUME NEW on, set_auth_log(on) PROVE ItemsNamed'
    BY <1>5 DEF set_auth_log, clientVars, ItemsNamed
  <1>6. ASSUME NEW d, open_db(d) PROVE ItemsNamed'
    BY <1>6 DEF open_db, clientVars, ItemsNamed
  <1>7. CASE UNCHANGED vars
    BY <1>7 DEF vars, clientVars, ItemsNamed
  <1> QED BY <1>1, <1>2, <1>3, <1>4, <1>5, <1>6, <1>7 DEF Next

LEMMA RecordsStep == HostInv /\ RecordsOfLoaded /\ [Next]_vars => RecordsOfLoaded'
  <1> SUFFICES ASSUME HostInv, RecordsOfLoaded, [Next]_vars PROVE RecordsOfLoaded'
    OBVIOUS
  <1>0. /\ DOMAIN regs = Exts /\ current \in [Exts -> Artifacts \cup {NoArtifact}]
        /\ NoArtifact \notin Artifacts
    BY ArtifactAssumption DEF HostInv, HostTypeOK
  <1>1. ASSUME NEW a \in Artifacts, load_extension(a) PROVE RecordsOfLoaded'
    <2>1. current' = [current EXCEPT ![a.ext] = a] /\ regs' = regs
      BY <1>1 DEF load_extension, connVars
    <2> QED BY <1>0, <2>1 DEF RecordsOfLoaded
  <1>2. CASE install_provider_backed_on_shared_conn
    <2>1. PICK i \in job.items :
              \/ register_scalar(i) \/ register_collation(i) \/ register_aggregate(i)
              \/ register_vtab(i) \/ register_hook(i)
      BY <1>2 DEF install_provider_backed_on_shared_conn
    <2>2. /\ i.art \in Artifacts /\ i.art = current[i.art.ext] /\ i.art.ext \in Exts
          /\ UNCHANGED current
      BY <1>2, <2>1, ArtifactAssumption
      DEF install_provider_backed_on_shared_conn, HostInv, JobOfCurrent
    <2>3. ASSUME NEW K, Install(i, K) PROVE \A e \in Exts : e # i.art.ext => regs'[e] = regs[e]
      BY <1>0, <2>3 DEF Install
    <2>4. ASSUME NEW s, register_named(i, s)
          PROVE  \A e \in Exts : e # i.art.ext => regs'[e] = regs[e]
      <3>1. UNCHANGED regs \/ \E K : Install(i, K)
        BY <2>4, Zenon DEF register_named, Refused
      <3> QED BY <2>3, <3>1
    <2>5. \A e \in Exts : e # i.art.ext => regs'[e] = regs[e]
      BY <2>1, <2>4 DEF register_scalar, register_collation, register_aggregate,
                        register_vtab, register_hook, Refused
    <2> QED BY <1>0, <2>2, <2>5 DEF RecordsOfLoaded
  <1>3. ASSUME NEW e, unload(e) PROVE RecordsOfLoaded'
    BY <1>3 DEF unload, connVars, RecordsOfLoaded
  <1>4. CASE unregister_extension
    <2>1. /\ regs' = [regs EXCEPT ![job.ext] = {}]
          /\ current' = [current EXCEPT ![job.ext] = NoArtifact]
      BY <1>4 DEF unregister_extension
    <2> QED BY <1>0, <2>1 DEF RecordsOfLoaded
  <1>5. ASSUME NEW on, set_auth_log(on) PROVE RecordsOfLoaded'
    BY <1>5 DEF set_auth_log, clientVars, RecordsOfLoaded
  <1>6. ASSUME NEW d, open_db(d) PROVE RecordsOfLoaded'
    BY <1>6 DEF open_db, clientVars, RecordsOfLoaded
  <1>7. CASE UNCHANGED vars
    BY <1>7 DEF vars, clientVars, connVars, RecordsOfLoaded
  <1> QED BY <1>1, <1>2, <1>3, <1>4, <1>5, <1>6, <1>7 DEF Next

(* A scalar goes under a name that nobody has.                              *)
LEMMA InstallKeepsScalars ==
    ASSUME HostInv, ScalarsInv, NEW i, i.art \in Artifacts, NEW K, Install(i, K),
           \A k \in K : ScalarName(k) => ~function_exists(k)
    PROVE  ScalarsInv' /\ ScalarsKept
  <1> DEFINE t == [art |-> i.art, tier |-> i.tier]
  <1>1. /\ sql' = [k \in DOMAIN sql \cup K |-> IF k \in K THEN t ELSE sql[k]]
        /\ regs' = [regs EXCEPT ![i.art.ext] = @ \cup K] /\ DOMAIN regs = Exts
        /\ i.art.ext \in Exts
    BY ArtifactAssumption DEF Install, WithNames, HostInv, HostTypeOK
  <1>2. t.art = i.art /\ t # Removed
    BY ArtifactAssumption DEF Removed
  <1> HIDE DEF t
  <1>3. \A k \in K : ScalarName(k) =>
            k \notin Builtins /\ (k \in DOMAIN sql => sql[k] = Removed)
    BY DEF function_exists
  <1>4. \A k \in DOMAIN sql' : ScalarName(k) => k \notin Builtins
    BY <1>1, <1>3 DEF ScalarsInv
  <1>5. ASSUME NEW e \in Exts, NEW k \in regs'[e], ScalarName(k)
        PROVE  k \in DOMAIN sql' /\ sql'[k] # Removed /\ sql'[k].art.ext = e
    <2>1. CASE k \in regs[e]
      <3>1. k \in DOMAIN sql /\ sql[k] # Removed /\ sql[k].art.ext = e
        BY <1>5, <2>1 DEF ScalarsInv
      <3> QED BY <1>1, <1>3, <1>5, <3>1
    <2>2. CASE k \notin regs[e]
      <3>1. e = i.art.ext /\ k \in K
        BY <1>1, <1>5, <2>2
      <3> QED BY <1>1, <1>2, <3>1
    <2> QED BY <2>1, <2>2
  <1>6. ScalarsInv'
    BY <1>4, <1>5 DEF ScalarsInv
  <1>7. ASSUME NEW k \in DOMAIN sql', ScalarName(k), k \in DOMAIN sql, sql[k] # Removed
        PROVE  sql'[k] = sql[k]
    BY <1>1, <1>3, <1>7
  <1> QED BY <1>4, <1>6, <1>7 DEF ScalarsKept, KeepsItsName

(* Qualified names, and names of the other kinds, are no scalar's; unload   *)
(* finds no name on record that is another extension's.                     *)
LEMMA ScalarsStep ==
    ASSUME UnloadsBeforeOpen, HostInv, ItemsNamed, RecordsOfLoaded, FallbackLeft,
           ScalarsInv, Next
    PROVE  ScalarsInv' /\ ScalarsKept
  <1>a. ASSUME UNCHANGED <<sql, regs>> PROVE ScalarsInv' /\ ScalarsKept
    <2>1. \A k \in DOMAIN sql : sql[k] # Removed => sql'[k] # Removed
      BY <1>a
    <2> QED BY <1>a, <2>1 DEF ScalarsInv, ScalarsKept, KeepsItsName
  <1>1. ASSUME NEW a \in Artifacts, load_extension(a) PROVE UNCHANGED <<sql, regs>>
    BY <1>1 DEF load_extension, connVars
  <1>2. CASE install_provider_backed_on_shared_conn
    <2>1. PICK i \in job.items :
              \/ register_scalar(i) \/ register_collation(i) \/ register_aggregate(i)
              \/ register_vtab(i) \/ register_hook(i)
      BY <1>2 DEF install_provider_backed_on_shared_conn
    <2>2. /\ job.kind = "register" /\ i.art \in Artifacts
          /\ i.tier = "aggregate" => \E n \in i.art.aggregates : i.name = <<n>>
      BY <1>2, <2>1 DEF install_provider_backed_on_shared_conn, HostInv, JobOfCurrent, ItemsNamed
    <2>3. ASSUME NEW q PROVE ~ScalarName(<<Space(i.tier), <<q, i.name>>>>)
      BY DEF ScalarName
    <2>4. ASSUME NEW s, register_named(i, s),
                 ScalarName(<<Space(i.tier), s>>) => ~function_exists(<<Space(i.tier), s>>)
          PROVE  ScalarsInv' /\ ScalarsKept
      <3>1. \/ UNCHANGED <<sql, regs>>
            \/ Install(i, {<<Space(i.tier), s>>})
            \/ Install(i, {<<Space(i.tier), s>>, <<Space(i.tier), <<prefix_cache'[i.art.ext], i.name>>>>})
        BY <2>4, Zenon DEF register_named, Refused
      <3>2. CASE Install(i, {<<Space(i.tier), s>>})
        BY <2>2, <2>4, <3>2, InstallKeepsScalars
      <3>3. CASE Install(i, {<<Space(i.tier), s>>, <<Space(i.tier), <<prefix_cache'[i.art.ext], i.name>>>>})
        <4> DEFINE K == {<<Space(i.tier), s>>, <<Space(i.tier), <<prefix_cache'[i.art.ext], i.name>>>>}
        <4>1. \A k \in K : ScalarName(k) => ~function_exists(k)
          BY <2>3, <2>4
        <4> QED BY <2>2, <3>3, <4>1, InstallKeepsScalars
      <3> QED BY <1>a, <3>1, <3>2, <3>3
    <2>5. CASE register_scalar(i)
      <3>1. i.tier = "scalar" /\ Space(i.tier) = "fn"
            /\ register_named(i, resolve_collision_free_name(i.art.ext, i.name))
        BY <2>5 DEF register_scalar, Space
      <3>2. ~function_exists(<<"fn", resolve_collision_free_name(i.art.ext, i.name)>>)
        BY <3>1, ResolvedIsFree DEF FallbackLeft
      <3> QED BY <2>4, <3>1, <3>2
    <2>6. CASE register_collation(i) \/ register_vtab(i)
      <3>1. register_named(i, i.name) /\ Space(i.tier) \in {"coll", "mod"}
        BY <2>6 DEF register_collation, register_vtab, Space
      <3>2. ~ScalarName(<<Space(i.tier), i.name>>)
        BY <3>1 DEF ScalarName
      <3> QED BY <2>4, <3>1, <3>2
    <2>7. CASE register_aggregate(i)
      <3>1. register_named(i, i.name) /\ i.tier = "aggregate"
        BY <2>7 DEF register_aggregate
      <3>2. ~ScalarName(<<Space(i.tier), i.name>>)
        BY <2>2, <3>1 DEF ScalarName
      <3> QED BY <2>4, <3>1, <3>2
    <2>8. CASE register_hook(i)
      BY <1>a, <2>8 DEF register_hook, Refused
    <2> QED BY <2>1, <2>5, <2>6, <2>7, <2>8
  <1>3. ASSUME NEW e, unload(e) PROVE UNCHANGED <<sql, regs>>
    BY <1>3 DEF unload, connVars
  <1>4. CASE unregister_extension
    <2> DEFINE e == job.ext
    <2>1. /\ job.kind = "unregister" /\ e \in Exts
          /\ sql' = [k \in DOMAIN sql |-> IF k \in regs[e] THEN Removed ELSE sql[k]]
          /\ regs' = [regs EXCEPT ![e] = {}] /\ DOMAIN regs = Exts
      BY <1>4 DEF unregister_extension, HostInv, JobOfCurrent, HostTypeOK
    <2>2. ASSUME NEW x \in Exts, NEW k \in regs'[x], ScalarName(k)
          PROVE  k \in DOMAIN sql' /\ sql'[k] # Removed /\ sql'[k].art.ext = x
      <3>1. x # e /\ k \in regs[x]
        BY <2>1, <2>2
      <3>2. k \in DOMAIN sql /\ sql[k] # Removed /\ sql[k].art.ext = x
        BY <2>2, <3>1 DEF ScalarsInv
      <3>3. k \notin regs[e]
        BY <2>1, <2>2, <3>1, <3>2 DEF ScalarsInv
      <3> QED BY <2>1, <3>2, <3>3
    <2>3. ScalarsInv'
      BY <2>1, <2>2 DEF ScalarsInv
    <2>4. ASSUME NEW k \in DOMAIN sql', ScalarName(k), k \in DOMAIN sql, sql[k] # Removed
          PROVE  IF sql'[k] = Removed THEN sql[k].art.ext = e ELSE sql'[k] = sql[k]
      BY <2>1, <2>4 DEF ScalarsInv
    <2> QED BY <2>1, <2>3, <2>4 DEF ScalarsKept, KeepsItsName, ScalarsInv
  <1>5. ASSUME NEW on, set_auth_log(on) PROVE UNCHANGED <<sql, regs>>
    BY <1>5 DEF set_auth_log
  <1>6. ASSUME NEW d, open_db(d) PROVE ScalarsInv' /\ ScalarsKept
    <2>1. sql' = NoNames /\ regs' = regs /\ DOMAIN NoNames = {}
      BY <1>6 DEF open_db, NoNames
    <2>2. \A e \in Exts : regs[e] = {}
      BY <1>6 DEF open_db, RecordsOfLoaded
    <2> QED BY <2>1, <2>2 DEF ScalarsInv, ScalarsKept
  <1> QED BY <1>a, <1>1, <1>2, <1>3, <1>4, <1>5, <1>6 DEF Next

(* Loading takes no scalar's name from a built-in or from another           *)
(* extension, and unloading removes no other extension's                    *)
(* (resolve_collision_free_name, unregister_extension), as long as the      *)
(* client unloads before it opens another database and a collision-free     *)
(* name is left.                                                            *)
THEOREM ScalarNamesKeptHolds == UnloadsBeforeOpen => (Spec /\ []FallbackLeft => ScalarNamesKept)
  <1> SUFFICES ASSUME UnloadsBeforeOpen PROVE Spec /\ []FallbackLeft => ScalarNamesKept
    OBVIOUS
  <1>1. Init => ItemsNamed /\ RecordsOfLoaded /\ ScalarsInv
    BY DEF Init, ItemsNamed, Idle, RecordsOfLoaded, ScalarsInv, NoNames
  <1>2. HostInv /\ ItemsNamed /\ RecordsOfLoaded /\ FallbackLeft /\ ScalarsInv /\ [Next]_vars
            => ScalarsInv'
    <2>1. UNCHANGED vars /\ ScalarsInv => ScalarsInv'
      BY DEF vars, connVars, ScalarsInv
    <2> QED BY <2>1, ScalarsStep
  <1>3. HostInv /\ ItemsNamed /\ RecordsOfLoaded /\ FallbackLeft /\ ScalarsInv /\ [Next]_vars
            => [ScalarsKept]_vars
    BY ScalarsStep
  <1>4. Spec /\ []FallbackLeft => [][ScalarsKept]_vars
    BY <1>1, <1>2, <1>3, ItemsStep, RecordsStep, HostInvHolds, PTL DEF Spec
  <1> QED BY <1>4 DEF ScalarNamesKept, ScalarsKept
-----------------------------------------------------------------------------
(* The cache of compiled components. *)
Codes == {NoCode, ForeignCode} \cup (Digests \cup {NoDigest}) \X Engines

TaskRecord ==
    [at : Steps, digest : Digests \cup {NoDigest}, code : Codes,
     secret : Secrets \cup {"none"}, victim : {NoTask.victim} \cup Digests \X Engines]

(* A load that creates the file has a secret, one that is under way a       *)
(* digest.                                                                  *)
Sound(r) ==
    /\ r.at \in {"create", "write"} => r.secret \in Secrets
    /\ r.at # "idle" => r.digest \in Digests

TasksSound == task \in [Tasks -> TaskRecord] /\ \A t \in Tasks : Sound(task[t])

(* The frames of C2 hold what compile_via_runtime or another machine made.  *)
RowsTyped ==
    DOMAIN rows \subseteq Digests \X Engines /\ \A r \in DOMAIN rows : rows[r].code \in Codes

(* The file is short while it is written, and only one load writes it.      *)
OneWriter ==
    /\ \A t \in Tasks : At(t, "write") => file = "short"
    /\ \A t, u \in Tasks : At(t, "write") /\ At(u, "write") => t = u

CacheInv == CacheTypeOK /\ TasksSound /\ RowsTyped /\ OneWriter /\ KeysAgree

(* What an update of one or two fields leaves sound.                        *)
LEMMA Moved ==
    ASSUME NEW x \in TaskRecord, x.digest \in Digests, NEW s \in Steps,
           s \in {"create", "write"} => x.secret \in Secrets
    PROVE  LET r == [x EXCEPT !.at = s] IN r \in TaskRecord /\ r.at = s /\ Sound(r)
  BY DEF TaskRecord, Sound

LEMMA SecretSet ==
    ASSUME NEW x \in TaskRecord, x.digest \in Digests, NEW s \in Steps,
           NEW v \in Secrets \cup {"none"}, s \in {"create", "write"} => v \in Secrets
    PROVE  LET r == [x EXCEPT !.at = s, !.secret = v] IN
           r \in TaskRecord /\ r.at = s /\ Sound(r)
  BY DEF TaskRecord, Sound

LEMMA CodeSet ==
    ASSUME NEW x \in TaskRecord, x.digest \in Digests,
           NEW s \in Steps \ {"create", "write"}, NEW v \in Codes
    PROVE  LET r == [x EXCEPT !.at = s, !.code = v] IN
           r \in TaskRecord /\ r.at = s /\ Sound(r)
  BY DEF TaskRecord, Sound

LEMMA VictimSet ==
    ASSUME NEW x \in TaskRecord, x.digest \in Digests,
           NEW s \in Steps \ {"create", "write"},
           NEW v \in {NoTask.victim} \cup Digests \X Engines
    PROVE  LET r == [x EXCEPT !.at = s, !.victim = v] IN
           r \in TaskRecord /\ r.at = s /\ Sound(r)
  BY DEF TaskRecord, Sound

LEMMA IdleTyped ==
    /\ NoTask \in TaskRecord /\ NoTask.at = "idle" /\ Sound(NoTask)
    /\ \A s \in Steps \ {"create", "write"}, d \in Digests :
          LET r == [NoTask EXCEPT !.at = s, !.digest = d] IN
          r \in TaskRecord /\ r.at = s /\ Sound(r)
  <1>1. NoTask \in TaskRecord /\ NoTask.at = "idle" /\ Sound(NoTask)
    BY DEF NoTask, TaskRecord, Steps, Codes, Sound
  <1>2. ASSUME NEW x \in TaskRecord, NEW s \in Steps \ {"create", "write"}, NEW d \in Digests
        PROVE  LET r == [x EXCEPT !.at = s, !.digest = d] IN
               r \in TaskRecord /\ r.at = s /\ Sound(r)
    BY <1>2 DEF TaskRecord, Sound
  <1> QED BY <1>1, <1>2

LEMMA CacheInvInit == CacheInit => CacheInv
  <1> SUFFICES ASSUME CacheInit PROVE CacheInv
    OBVIOUS
  <1>1. /\ DOMAIN rows = ForeignRows
        /\ \A r \in DOMAIN rows : rows[r].code = ForeignCode
    BY DEF CacheInit
  <1>2. task = [t \in Tasks |-> NoTask]
    BY DEF CacheInit
  <1>3. TasksSound
    BY <1>2, IdleTyped DEF TasksSound
  <1>4. \A t \in Tasks : task[t].at = "idle" /\ task[t].digest \in Digests \cup {NoDigest}
    BY <1>2, IdleTyped DEF TaskRecord
  <1>5. CacheTypeOK
    BY <1>1, <1>2, <1>4, CacheAssumption DEF CacheInit, CacheTypeOK, Steps, At
  <1>6. RowsTyped
    BY <1>1, CacheAssumption DEF RowsTyped, Codes
  <1>7. OneWriter /\ KeysAgree
    BY <1>4 DEF CacheInit, OneWriter, KeysAgree, At
  <1> QED BY <1>3, <1>5, <1>6, <1>7 DEF CacheInv

(* One load's record is replaced by a sound one.                            *)
LEMMA TaskStep ==
    ASSUME CacheInv, NEW t \in Tasks, NEW r \in TaskRecord, Sound(r),
           task' = [task EXCEPT ![t] = r]
    PROVE  /\ TasksSound'
           /\ task'[t] = r /\ \A u \in Tasks \ {t} : task'[u] = task[u]
           /\ DOMAIN task' = Tasks
           /\ \A u \in Tasks : /\ task'[u].at \in Steps
                               /\ task'[u].digest \in Digests \cup {NoDigest}
                               /\ At(u, "write")' => task'[u].secret \in Secrets
  <1>1. /\ task'[t] = r /\ \A u \in Tasks \ {t} : task'[u] = task[u]
        /\ task' \in [Tasks -> TaskRecord]
    BY DEF CacheInv, TasksSound
  <1>2. TasksSound'
    BY <1>1 DEF CacheInv, TasksSound
  <1> QED BY <1>1, <1>2 DEF TasksSound, TaskRecord, Sound, At

(* Steps that leave the file and the keys alone and do not write the file.  *)
LEMMA QuietStep ==
    ASSUME CacheInv, NEW t \in Tasks, NEW r \in TaskRecord, Sound(r), r.at # "write",
           task' = [task EXCEPT ![t] = r],
           UNCHANGED <<file, key>>, DOMAIN c1' = Hosts, failed' \in BOOLEAN, RowsTyped'
    PROVE  CacheInv'
  <1>1. KeysAgree'
    BY DEF CacheInv, KeysAgree
  <1>2. OneWriter'
    BY TaskStep DEF CacheInv, OneWriter, At
  <1>3. CacheTypeOK'
    BY TaskStep DEF CacheInv, CacheTypeOK, RowsTyped
  <1> QED BY TaskStep, <1>1, <1>2, <1>3 DEF CacheInv

LEMMA LoadStep ==
    ASSUME CacheInv, NEW t \in Tasks, NEW d \in Digests, component_for_digest(t, d)
    PROVE  CacheInv'
  <1>1. UNCHANGED <<file, key, rows, failed>> /\ DOMAIN c1' = Hosts /\ RowsTyped'
        /\ failed' \in BOOLEAN
    BY DEF component_for_digest, CacheInv, CacheTypeOK, RowsTyped
  <1>2. CASE UNCHANGED task
    BY <1>1, <1>2 DEF CacheInv, CacheTypeOK, TasksSound, OneWriter, KeysAgree, At
  <1>3. ASSUME NEW s \in {"bypass", "key"},
               task' = [task EXCEPT ![t] = [NoTask EXCEPT !.at = s, !.digest = d]]
        PROVE  CacheInv'
    <2> DEFINE r == [NoTask EXCEPT !.at = s, !.digest = d]
    <2>1. r \in TaskRecord /\ r.at = s /\ Sound(r)
      BY IdleTyped DEF Steps
    <2>2. task' = [task EXCEPT ![t] = r]
      BY <1>3
    <2> HIDE DEF r
    <2> QED BY <1>1, <2>1, <2>2, QuietStep
  <1> QED BY <1>2, <1>3 DEF component_for_digest

LEMMA KeyStep ==
    ASSUME CacheInv, NEW t \in Tasks, load_or_create_hmac_key(t)
    PROVE  CacheInv'
  <1>1. /\ UNCHANGED <<file, c1, rows, failed>> /\ RowsTyped'
        /\ DOMAIN c1' = Hosts /\ failed' \in BOOLEAN
    BY DEF load_or_create_hmac_key, CacheInv, CacheTypeOK, RowsTyped
  <1>2. task[t] \in TaskRecord /\ task[t].digest \in Digests
    BY DEF load_or_create_hmac_key, CacheInv, TasksSound, Sound, At
  <1>3. CASE Goto(t, "lookup")
    <2> DEFINE r == [task[t] EXCEPT !.at = "lookup"]
    <2>1. r \in TaskRecord /\ r.at = "lookup" /\ Sound(r)
      BY <1>2, "lookup" \in Steps, Moved DEF Steps
    <2>2. task' = [task EXCEPT ![t] = r]
      BY <1>3 DEF Goto
    <2> HIDE DEF r
    <2>3. \/ UNCHANGED key
          \/ key' = [key EXCEPT ![HostOf[t]] = "none"]
          \/ /\ file # "absent"
             /\ key' = [key EXCEPT ![HostOf[t]] = IF file = "short" THEN "none" ELSE file]
      BY DEF load_or_create_hmac_key
    <2>4. KeysAgree' /\ key' \in [Hosts -> {"unset", "none"} \cup Secrets]
      BY <1>1, <2>3, CacheAssumption DEF CacheInv, KeysAgree, CacheTypeOK
    <2>5. OneWriter'
      BY <1>1, <2>1, <2>2, TaskStep DEF CacheInv, OneWriter, At
    <2>6. CacheTypeOK'
      BY <1>1, <2>1, <2>2, <2>4, TaskStep DEF CacheInv, CacheTypeOK, RowsTyped
    <2> QED BY <1>1, <2>1, <2>2, <2>4, <2>5, <2>6, TaskStep DEF CacheInv
  <1>4. ASSUME NEW s \in Secrets, UNCHANGED key,
               task' = [task EXCEPT ![t] = [@ EXCEPT !.at = "create", !.secret = s]]
        PROVE  CacheInv'
    <2> DEFINE r == [task[t] EXCEPT !.at = "create", !.secret = s]
    <2>1. r \in TaskRecord /\ r.at = "create" /\ Sound(r)
      BY <1>2, "create" \in Steps, SecretSet DEF Steps
    <2>2. task' = [task EXCEPT ![t] = r]
      BY <1>4
    <2> HIDE DEF r
    <2> QED BY <1>1, <1>4, <2>1, <2>2, QuietStep
  <1> QED BY <1>3, <1>4 DEF load_or_create_hmac_key

(* Only the load that finds the file absent goes on to write it.            *)
LEMMA CreateStep ==
    ASSUME CacheInv, NEW t \in Tasks, create_new(t)
    PROVE  CacheInv'
  <1>1. /\ UNCHANGED <<c1, rows, failed>> /\ RowsTyped'
        /\ DOMAIN c1' = Hosts /\ failed' \in BOOLEAN
    BY DEF create_new, CacheInv, CacheTypeOK, RowsTyped
  <1>2. task[t] \in TaskRecord /\ task[t].digest \in Digests /\ task[t].secret \in Secrets
    BY DEF create_new, CacheInv, TasksSound, Sound, At
  <1>3. CASE file = "absent"
    <2> DEFINE r == [task[t] EXCEPT !.at = "write"]
    <2>1. r \in TaskRecord /\ r.at = "write" /\ Sound(r)
      BY <1>2, "write" \in Steps, Moved DEF Steps
    <2>2. file' = "short" /\ UNCHANGED key /\ task' = [task EXCEPT ![t] = r]
      BY <1>3 DEF create_new, Goto
    <2> HIDE DEF r
    <2>3. KeysAgree'
      BY <1>3, <2>2, CacheAssumption DEF CacheInv, KeysAgree, CacheTypeOK
    <2>4. OneWriter'
      BY <1>3, <2>1, <2>2, TaskStep DEF CacheInv, OneWriter, At
    <2>5. CacheTypeOK'
      BY <1>1, <2>1, <2>2, TaskStep DEF CacheInv, CacheTypeOK, RowsTyped
    <2> QED BY <1>1, <2>1, <2>2, <2>3, <2>4, <2>5, TaskStep DEF CacheInv
  <1>4. CASE file # "absent"
    <2> DEFINE r == [task[t] EXCEPT !.at = "lookup", !.secret = "none"]
    <2>1. r \in TaskRecord /\ r.at = "lookup" /\ Sound(r)
      BY <1>2, "lookup" \in Steps, SecretSet DEF Steps
    <2>2. /\ UNCHANGED file /\ key' = [key EXCEPT ![HostOf[t]] = "none"]
          /\ task' = [task EXCEPT ![t] = r]
      BY <1>4 DEF create_new
    <2> HIDE DEF r
    <2>3. KeysAgree' /\ key' \in [Hosts -> {"unset", "none"} \cup Secrets]
      BY <2>2 DEF CacheInv, KeysAgree, CacheTypeOK
    <2>4. OneWriter'
      BY <2>1, <2>2, TaskStep DEF CacheInv, OneWriter, At
    <2>5. CacheTypeOK'
      BY <1>1, <2>1, <2>2, <2>3, TaskStep DEF CacheInv, CacheTypeOK, RowsTyped
    <2> QED BY <1>1, <2>1, <2>2, <2>3, <2>4, <2>5, TaskStep DEF CacheInv
  <1> QED BY <1>3, <1>4

(* While the file is short nobody has a secret, so the one written now is   *)
(* the first.                                                               *)
LEMMA WriteStep ==
    ASSUME CacheInv, NEW t \in Tasks, write_all(t)
    PROVE  CacheInv'
  <1> DEFINE r == [task[t] EXCEPT !.at = "lookup", !.secret = "none"]
  <1>1. /\ UNCHANGED <<c1, rows, failed>> /\ At(t, "write") /\ RowsTyped'
        /\ DOMAIN c1' = Hosts /\ failed' \in BOOLEAN
        /\ file = "short" /\ task[t].secret \in Secrets
        /\ \/ /\ file' = task[t].secret
              /\ key' = [key EXCEPT ![HostOf[t]] = task[t].secret]
           \/ UNCHANGED file /\ key' = [key EXCEPT ![HostOf[t]] = "none"]
    BY DEF write_all, CacheInv, CacheTypeOK, RowsTyped, OneWriter
  <1>2. task[t] \in TaskRecord /\ task[t].digest \in Digests
    BY DEF write_all, CacheInv, TasksSound, Sound, At
  <1>3. r \in TaskRecord /\ r.at = "lookup" /\ Sound(r)
    BY <1>2, "lookup" \in Steps, SecretSet DEF Steps
  <1>4. task' = [task EXCEPT ![t] = r]
    BY DEF write_all
  <1> HIDE DEF r
  <1>5. OneWriter'
    BY <1>1, <1>3, <1>4, TaskStep DEF CacheInv, OneWriter, At
  <1>6. KeysAgree' /\ key' \in [Hosts -> {"unset", "none"} \cup Secrets]
    BY <1>1, CacheAssumption DEF CacheInv, KeysAgree, CacheTypeOK
  <1>7. CacheTypeOK'
    BY <1>1, <1>3, <1>4, <1>6, TaskStep DEF CacheInv, CacheTypeOK, RowsTyped
  <1> QED BY <1>1, <1>3, <1>4, <1>5, <1>6, <1>7, TaskStep DEF CacheInv

(* Steps of a load under way that touch neither the file nor the keys.      *)
LEMMA LaterSteps ==
    ASSUME CacheInv, NEW t \in Tasks, task[t].at # "idle",
           NEW s \in Steps \ {"create", "write"},
           UNCHANGED <<file, key>>, DOMAIN c1' = Hosts, failed' \in BOOLEAN, RowsTyped',
           \/ Goto(t, s)
           \/ \E v \in Codes :
                 task' = [task EXCEPT ![t] = [@ EXCEPT !.at = s, !.code = v]]
           \/ \E v \in {NoTask.victim} \cup Digests \X Engines :
                 task' = [task EXCEPT ![t] = [@ EXCEPT !.at = s, !.victim = v]]
           \/ Return(t)
    PROVE  CacheInv'
  <1>1. task[t] \in TaskRecord /\ task[t].digest \in Digests
    BY DEF CacheInv, TasksSound, Sound
  <1>2. CASE Goto(t, s)
    <2> DEFINE r == [task[t] EXCEPT !.at = s]
    <2>1. r \in TaskRecord /\ r.at = s /\ Sound(r)
      BY <1>1, Moved
    <2>2. task' = [task EXCEPT ![t] = r]
      BY <1>2 DEF Goto
    <2> HIDE DEF r
    <2> QED BY <2>1, <2>2, QuietStep
  <1>3. ASSUME NEW v \in Codes,
               task' = [task EXCEPT ![t] = [@ EXCEPT !.at = s, !.code = v]]
        PROVE  CacheInv'
    <2> DEFINE r == [task[t] EXCEPT !.at = s, !.code = v]
    <2>1. r \in TaskRecord /\ r.at = s /\ Sound(r)
      BY <1>1, CodeSet
    <2>2. task' = [task EXCEPT ![t] = r]
      BY <1>3
    <2> HIDE DEF r
    <2> QED BY <2>1, <2>2, QuietStep
  <1>4. ASSUME NEW v \in {NoTask.victim} \cup Digests \X Engines,
               task' = [task EXCEPT ![t] = [@ EXCEPT !.at = s, !.victim = v]]
        PROVE  CacheInv'
    <2> DEFINE r == [task[t] EXCEPT !.at = s, !.victim = v]
    <2>1. r \in TaskRecord /\ r.at = s /\ Sound(r)
      BY <1>1, VictimSet
    <2>2. task' = [task EXCEPT ![t] = r]
      BY <1>4
    <2> HIDE DEF r
    <2> QED BY <2>1, <2>2, QuietStep
  <1>5. CASE Return(t)
    BY <1>5, IdleTyped, QuietStep DEF Return
  <1> QED BY <1>2, <1>3, <1>4, <1>5

LEMMA LookupStep ==
    ASSUME CacheInv, NEW t \in Tasks, try_c2_lookup(t)
    PROVE  CacheInv'
  <1>1. /\ UNCHANGED <<file, key>> /\ DOMAIN c1' = Hosts /\ failed' \in BOOLEAN
        /\ RowsTyped' /\ task[t].at # "idle"
    BY DEF try_c2_lookup, CacheInv, CacheTypeOK, RowsTyped, At
  <1>2. \/ Goto(t, "compile")
        \/ \E v \in Codes :
              task' = [task EXCEPT ![t] = [@ EXCEPT !.at = "insert", !.code = v]]
    BY DEF try_c2_lookup, CacheInv, RowsTyped
  <1>3. {"compile", "insert"} \subseteq Steps \ {"create", "write"}
    BY DEF Steps
  <1> QED BY <1>1, <1>2, <1>3, LaterSteps

LEMMA CompileStep ==
    ASSUME CacheInv, NEW t \in Tasks, compile_via_runtime(t)
    PROVE  CacheInv'
  <1>1. /\ UNCHANGED <<file, key>> /\ DOMAIN c1' = Hosts /\ failed' \in BOOLEAN
        /\ RowsTyped' /\ task[t].at # "idle"
    BY DEF compile_via_runtime, CacheInv, CacheTypeOK, RowsTyped, At
  <1>2. "store" \in Steps \ {"create", "write"}
    BY DEF Steps
  <1>3. Code(task[t].digest, Engine[HostOf[t]]) \in Codes
    BY CacheAssumption DEF Code, Codes, Engines, CacheInv, CacheTypeOK
  <1>4. \/ Return(t)
        \/ \E v \in Codes :
              task' = [task EXCEPT ![t] = [@ EXCEPT !.at = "store", !.code = v]]
    BY <1>3 DEF compile_via_runtime
  <1> QED BY <1>1, <1>2, <1>4, LaterSteps

LEMMA StoreStep ==
    ASSUME CacheInv, NEW t \in Tasks, store(t)
    PROVE  CacheInv'
  <1>1. /\ UNCHANGED <<file, key>> /\ DOMAIN c1' = Hosts /\ failed' \in BOOLEAN
        /\ task[t].at # "idle" /\ task[t] \in TaskRecord /\ task[t].digest \in Digests
    BY DEF store, CacheInv, CacheTypeOK, TasksSound, Sound, At
  <1>2. \A k, r, c : seal(k, r, c).code = c
    BY DEF seal
  <1>3. RowKey(t) \in Digests \X Engines /\ task[t].code \in Codes
    BY <1>1, CacheAssumption DEF RowKey, Engines, TaskRecord
  <1>4. RowsTyped'
    BY <1>2, <1>3 DEF store, CacheInv, RowsTyped
  <1>5. \E s \in {"insert", "evict"} : Goto(t, s)
    BY DEF store
  <1>6. {"insert", "evict"} \subseteq Steps \ {"create", "write"}
    BY DEF Steps
  <1> QED BY <1>1, <1>4, <1>5, <1>6, LaterSteps

LEMMA EvictSteps ==
    ASSUME CacheInv, NEW t \in Tasks,
           evict_total(t) \/ evict_pick(t) \/ evict_delete(t) \/ evict_fails(t)
    PROVE  CacheInv'
  <1>1. /\ UNCHANGED <<file, key>> /\ DOMAIN c1' = Hosts /\ failed' \in BOOLEAN
        /\ task[t].at # "idle"
    BY DEF evict_total, evict_pick, evict_delete, evict_fails, CacheInv, CacheTypeOK, At
  <1>2. RowsTyped'
    BY DEF evict_total, evict_pick, evict_delete, evict_fails, CacheInv, RowsTyped
  <1>3. \E s \in {"evict", "pick", "delete", "insert"} :
           \/ Goto(t, s)
           \/ \E v \in {NoTask.victim} \cup Digests \X Engines :
                 task' = [task EXCEPT ![t] = [@ EXCEPT !.at = s, !.victim = v]]
    BY DEF evict_total, evict_pick, evict_delete, evict_fails, CacheInv, RowsTyped
  <1>4. {"evict", "pick", "delete", "insert"} \subseteq Steps \ {"create", "write"}
    BY DEF Steps
  <1> QED BY <1>1, <1>2, <1>3, <1>4, LaterSteps

LEMMA FinishStep ==
    ASSUME CacheInv, NEW t \in Tasks, finish(t)
    PROVE  CacheInv'
  <1>1. /\ UNCHANGED <<file, key>> /\ DOMAIN c1' = Hosts /\ failed' \in BOOLEAN
        /\ RowsTyped' /\ task[t].at # "idle" /\ Return(t)
    BY DEF finish, CacheInv, CacheTypeOK, RowsTyped, At
  <1>2. "idle" \in Steps \ {"create", "write"}
    BY DEF Steps
  <1> QED BY <1>1, <1>2, LaterSteps

LEMMA PurgeStep ==
    ASSUME CacheInv, NEW h \in Hosts, component_cache_purge(h)
    PROVE  CacheInv'
  <1>1. DOMAIN rows' = {} /\ UNCHANGED <<file, key, c1, task, failed>>
    BY DEF component_cache_purge
  <1>2. RowsTyped'
    BY <1>1 DEF RowsTyped
  <1>3. CacheTypeOK'
    BY <1>1 DEF CacheInv, CacheTypeOK, At
  <1> QED BY <1>1, <1>2, <1>3 DEF CacheInv, TasksSound, OneWriter, KeysAgree, At

(* A killed host forgets its secret; the file stays as it is, short if it   *)
(* was being written.                                                       *)
LEMMA KilledStep ==
    ASSUME CacheInv, NEW h \in Hosts, Killed(h)
    PROVE  CacheInv'
  <1>1. UNCHANGED <<file, rows>> /\ DOMAIN c1' = Hosts /\ failed' \in BOOLEAN
    BY DEF Killed, CacheInv, CacheTypeOK, Locked
  <1>2. RowsTyped'
    BY <1>1 DEF CacheInv, RowsTyped
  <1>3. task' = [t \in Tasks |-> IF HostOf[t] = h THEN NoTask ELSE task[t]]
    BY DEF Killed
  <1>4. TasksSound'
    BY <1>3, IdleTyped DEF CacheInv, TasksSound
  <1>5. DOMAIN task' = Tasks /\ \A t \in Tasks : task'[t].at = "write" => task'[t] = task[t]
    BY <1>3, IdleTyped
  <1>6. OneWriter'
    BY <1>1, <1>5 DEF CacheInv, OneWriter, At
  <1>7. KeysAgree' /\ key' \in [Hosts -> {"unset", "none"} \cup Secrets]
    BY <1>1 DEF Killed, CacheInv, KeysAgree, CacheTypeOK
  <1>8. \A t \in Tasks : /\ task'[t].at \in Steps
                         /\ task'[t].digest \in Digests \cup {NoDigest}
                         /\ At(t, "write")' => task'[t].secret \in Secrets
    BY <1>4 DEF TasksSound, TaskRecord, Sound, At
  <1>9. CacheTypeOK'
    BY <1>1, <1>2, <1>5, <1>7, <1>8 DEF CacheInv, CacheTypeOK, RowsTyped
  <1> QED BY <1>2, <1>4, <1>6, <1>7, <1>9 DEF CacheInv

LEMMA CacheStep == CacheInv /\ [CacheNext]_cacheVars => CacheInv'
  <1> SUFFICES ASSUME CacheInv, [CacheNext]_cacheVars PROVE CacheInv'
    OBVIOUS
  <1>1. CASE UNCHANGED cacheVars
    BY <1>1 DEF cacheVars, CacheInv, CacheTypeOK, TasksSound, RowsTyped, OneWriter, KeysAgree, At
  <1>2. ASSUME NEW t \in Tasks, Step(t) PROVE CacheInv'
    BY <1>2, LoadStep, KeyStep, CreateStep, WriteStep, LookupStep, CompileStep, StoreStep,
       EvictSteps, FinishStep DEF Step
  <1>3. ASSUME NEW h \in Hosts, component_cache_purge(h) \/ Killed(h) PROVE CacheInv'
    BY <1>3, PurgeStep, KilledStep
  <1> QED BY <1>1, <1>2, <1>3 DEF CacheNext

(* The inductive invariant holds in every reachable state.                  *)
THEOREM CacheInvHolds == CacheSpec => []CacheInv
  BY CacheInvInit, CacheStep, PTL DEF CacheSpec

(* Every state has the shape the Rust types of component_blob_cache.rs and  *)
(* component_for_digest say; the secret a load writes is one it generated.  *)
THEOREM CacheTypeCorrect == CacheSpec => []CacheTypeOK
  <1>1. CacheInv => CacheTypeOK
    BY DEF CacheInv
  <1> QED BY <1>1, CacheInvHolds, PTL

(* Hosts that race to create cache-hmac.key never keep two secrets: whoever *)
(* has one has the file's, for any number of hosts, loads and restarts.     *)
THEOREM KeysAgreeHolds == CacheSpec => []KeysAgree
  <1>1. CacheInv => KeysAgree
    BY DEF CacheInv
  <1> QED BY <1>1, CacheInvHolds, PTL
-----------------------------------------------------------------------------
Entries == [digest : Digests, code : Codes]

(* C1 of host h: right code, at most its capacity, no digest twice.         *)
QueueOK(q, h) ==
    /\ q \in Seq(Entries)
    /\ \A i \in DOMAIN q : q[i].code = Code(q[i].digest, Engine[h])
    /\ Len(q) <= (IF Cap1[h] = 0 THEN 1 ELSE Cap1[h])
    /\ \A i, j \in DOMAIN q : q[i].digest = q[j].digest => i = j

Compiled == {"store", "evict", "pick", "delete", "insert"}
Evicting == {"evict", "pick", "delete"}

QueuesOK == \A h \in Hosts : QueueOK(c1[h], h)
TasksRight ==
    \A t \in Tasks : task[t].at \in Compiled => task[t].code = RowKey(t)
RowsRight == \A r \in DOMAIN rows : rows[r].key = "foreign" \/ rows[r].code = r

(* Whenever the table is too large, somebody is evicting or gave up.        *)
LimitKept ==
    MaxBytes # 0 /\ TotalOf(ForeignRows) <= MaxBytes =>
        total_bytes <= MaxBytes \/ failed \/ \E t \in Tasks : task[t].at \in Evicting

TierInv == QueuesOK /\ TasksRight /\ RowsRight /\ LimitKept

(* An empty table has no bytes: the fold over {} is defined and gives 0.    *)
LEMMA TotalOfNothing == TotalOf({}) = 0
  <1> DEFINE body(f) == [s \in SUBSET {} |->
                IF s = {} THEN 0
                ELSE Size[(CHOOSE x \in s : TRUE)[1]] + f[s \ {CHOOSE x \in s : TRUE}]]
             zero == [s \in SUBSET {} |-> 0]
             iter == CHOOSE f : f = body(f)
  <1>1. zero = body(zero)
    OBVIOUS
  <1>2. iter = body(iter)
    BY <1>1, Zenon
  <1>3. iter[{}] = 0
    <2>1. {} \in SUBSET {}
      OBVIOUS
    <2>2. body(iter)[{}] = 0
      BY <2>1
    <2> HIDE DEF body, iter
    <2> QED BY <1>2, <2>2
  <1>4. TotalOf({}) = iter[{}]
    BY DEF TotalOf, MapThenSumSet, MapThenFoldSet
  <1> QED BY <1>3, <1>4

(* Moving the entry at a position to the back permutes the sequence.        *)
LEMMA MoveToBack ==
    ASSUME NEW S, NEW q \in Seq(S), NEW pos \in 1..Len(q)
    PROVE  LET m == Append(SubSeq(q, 1, pos - 1) \o SubSeq(q, pos + 1, Len(q)), q[pos]) IN
           /\ m \in Seq(S) /\ Len(m) = Len(q)
           /\ m[Len(q)] = q[pos]
           /\ \A i \in 1..(Len(q) - 1) : m[i] = q[IF i < pos THEN i ELSE i + 1]
  <1> DEFINE front == SubSeq(q, 1, pos - 1)
             back == SubSeq(q, pos + 1, Len(q))
             rest == front \o back
             m == Append(rest, q[pos])
  <1>1. Len(q) \in Nat /\ DOMAIN q = 1..Len(q) /\ \A i \in 1..Len(q) : q[i] \in S
    OBVIOUS
  <1>2. /\ front \in Seq(S) /\ Len(front) = pos - 1
        /\ \A i \in 1..(pos - 1) : front[i] = q[i]
    <2>1. 1 \in Int /\ pos - 1 \in Int /\ \A i \in 1..(pos - 1) : q[i] \in S
      BY <1>1
    <2>2. /\ front \in Seq(S) /\ Len(front) = IF 1 <= pos - 1 THEN pos - 1 - 1 + 1 ELSE 0
          /\ \A i \in 1..(pos - 1 - 1 + 1) : front[i] = q[1 + i - 1]
      BY <2>1, SubSeqProperties
    <2> HIDE DEF front
    <2> QED BY <1>1, <2>2
  <1>3. /\ back \in Seq(S) /\ Len(back) = Len(q) - pos
        /\ \A i \in 1..(Len(q) - pos) : back[i] = q[pos + i]
    <2>1. Len(q) \in Int /\ pos + 1 \in Int /\ \A i \in (pos + 1)..Len(q) : q[i] \in S
      BY <1>1
    <2>2. /\ back \in Seq(S)
          /\ Len(back) = IF pos + 1 <= Len(q) THEN Len(q) - (pos + 1) + 1 ELSE 0
          /\ \A i \in 1..(Len(q) - (pos + 1) + 1) : back[i] = q[(pos + 1) + i - 1]
      BY <2>1, SubSeqProperties
    <2> HIDE DEF back
    <2>3. Len(q) - (pos + 1) + 1 = Len(q) - pos
      BY <1>1
    <2>4. \A i \in 1..(Len(q) - pos) : (pos + 1) + i - 1 = pos + i
      BY <1>1
    <2>5. Len(back) = Len(q) - pos
      <3>1. \A n \in Nat : \A p \in 1..n :
               (IF p + 1 <= n THEN n - (p + 1) + 1 ELSE 0) = n - p
        OBVIOUS
      <3> QED BY <1>1, <2>2, <3>1
    <2>6. \A i \in 1..(Len(q) - pos) : back[i] = q[(pos + 1) + i - 1]
      BY <2>2, <2>3
    <2> QED BY <2>2, <2>4, <2>5, <2>6
  <1> HIDE DEF front, back
  <1>4. /\ rest \in Seq(S) /\ Len(rest) = Len(front) + Len(back)
        /\ \A i \in 1..(Len(front) + Len(back)) :
              rest[i] = IF i <= Len(front) THEN front[i] ELSE back[i - Len(front)]
    BY <1>2, <1>3, ConcatProperties
  <1> HIDE DEF rest
  <1>5. Len(rest) = Len(q) - 1
    BY <1>1, <1>2, <1>3, <1>4
  <1>6. ASSUME NEW i \in 1..(Len(q) - 1) PROVE rest[i] = q[IF i < pos THEN i ELSE i + 1]
    <2>1. i \in 1..(Len(front) + Len(back))
      BY <1>1, <1>2, <1>3
    <2>2. CASE i < pos
      BY <1>1, <1>2, <1>4, <2>1, <2>2
    <2>3. CASE ~(i < pos)
      <3>1. /\ ~(i <= Len(front)) /\ i - Len(front) \in 1..(Len(q) - pos)
            /\ pos + (i - Len(front)) = i + 1
        BY <1>1, <1>2, <2>3
      <3>2. rest[i] = back[i - Len(front)]
        BY <1>4, <2>1, <3>1
      <3>3. back[i - Len(front)] = q[pos + (i - Len(front))]
        BY <1>3, <3>1
      <3> QED BY <2>3, <3>1, <3>2, <3>3
    <2> QED BY <2>2, <2>3
  <1>7. q[pos] \in S
    BY <1>1
  <1>8. /\ m \in Seq(S) /\ Len(m) = Len(rest) + 1
        /\ \A i \in 1..Len(rest) : m[i] = rest[i]
        /\ m[Len(rest) + 1] = q[pos]
    BY <1>4, <1>7, AppendProperties
  <1> HIDE DEF m
  <1>9. Len(m) = Len(q) /\ m[Len(q)] = q[pos]
    BY <1>1, <1>5, <1>8
  <1>10. \A i \in 1..(Len(q) - 1) : m[i] = q[IF i < pos THEN i ELSE i + 1]
    BY <1>5, <1>6, <1>8
  <1> QED BY <1>8, <1>9, <1>10 DEF m, rest, front, back

(* A sequence whose elements come from q without repetition is fit for C1   *)
(* when q is.                                                               *)
LEMMA Reordered ==
    ASSUME NEW h \in Hosts, NEW q, QueueOK(q, h), NEW m \in Seq(Entries),
           Len(m) = Len(q),
           NEW f \in [1..Len(q) -> 1..Len(q)],
           \A i, j \in 1..Len(q) : f[i] = f[j] => i = j,
           \A i \in 1..Len(q) : m[i] = q[f[i]]
    PROVE  QueueOK(m, h)
  <1>1. q \in Seq(Entries) /\ DOMAIN q = 1..Len(q) /\ DOMAIN m = 1..Len(q)
    BY DEF QueueOK
  <1>2. \A i \in DOMAIN m : m[i].code = Code(m[i].digest, Engine[h])
    BY <1>1 DEF QueueOK
  <1>3. \A i, j \in DOMAIN m : m[i].digest = m[j].digest => i = j
    BY <1>1 DEF QueueOK
  <1> QED BY <1>1, <1>2, <1>3 DEF QueueOK

(* A hit in C1 only reorders it.                                            *)
LEMMA GetOK ==
    ASSUME NEW h \in Hosts, NEW q, QueueOK(q, h), NEW d, Cached(q, d)
    PROVE  QueueOK(get(q, d), h)
  <1> DEFINE pos == position(q, d)
             f == [i \in 1..Len(q) |-> IF i = Len(q) THEN pos ELSE IF i < pos THEN i ELSE i + 1]
  <1>1. q \in Seq(Entries) /\ Len(q) \in Nat /\ DOMAIN q = 1..Len(q)
    BY DEF QueueOK
  <1>2. pos \in 1..Len(q)
    <2>1. PICK i \in 1..Len(q) : q[i].digest = d
      BY <1>1 DEF Cached
    <2>2. \A j \in 1..(i - 1) : q[j].digest # d
      BY <1>1, <2>1 DEF QueueOK
    <2> QED BY <1>1, <2>1, <2>2 DEF position
  <1> DEFINE m == get(q, d)
  <1>3. /\ m \in Seq(Entries) /\ Len(m) = Len(q)
        /\ m[Len(q)] = q[pos]
        /\ \A i \in 1..(Len(q) - 1) : m[i] = q[IF i < pos THEN i ELSE i + 1]
    BY <1>1, <1>2, MoveToBack DEF get
  <1> HIDE DEF pos, m
  <1>4. f \in [1..Len(q) -> 1..Len(q)]
    BY <1>1, <1>2
  <1>5. \A i \in 1..Len(q) : f[i] = IF i = Len(q) THEN pos ELSE IF i < pos THEN i ELSE i + 1
    OBVIOUS
  <1> HIDE DEF f
  <1>6. \A i, j \in 1..Len(q) : f[i] = f[j] => i = j
    <2>1. \A n \in Nat : \A p, i, j \in 1..n :
             (IF i = n THEN p ELSE IF i < p THEN i ELSE i + 1)
                 = (IF j = n THEN p ELSE IF j < p THEN j ELSE j + 1) => i = j
      OBVIOUS
    <2> QED BY <1>1, <1>2, <1>5, <2>1
  <1>8. \A i \in 1..Len(q) : m[i] = q[f[i]]
    <2>1. \A n \in Nat : \A i \in 1..n : i = n \/ (i \in 1..(n - 1) /\ i # n)
      OBVIOUS
    <2> QED BY <1>1, <1>3, <1>5, <2>1
  <1>7. QueueOK(m, h)
    BY <1>3, <1>4, <1>6, <1>8, Reordered
  <1> QED BY <1>7 DEF m

(* A load's component goes in where no other load has put it.               *)
LEMMA InsertOK ==
    ASSUME NEW h \in Hosts, NEW q, QueueOK(q, h), NEW d \in Digests
    PROVE  QueueOK(insert(q, Cap1[h], d, Code(d, Engine[h])), h)
  <1> DEFINE e == [digest |-> d, code |-> Code(d, Engine[h])]
             full == Len(q) >= Cap1[h] /\ q # <<>>
             kept == IF full THEN Tail(q) ELSE q
             k == IF full THEN 1 ELSE 0
             cap == IF Cap1[h] = 0 THEN 1 ELSE Cap1[h]
             more == Append(kept, e)
  <1>1. /\ q \in Seq(Entries) /\ Len(q) \in Nat /\ DOMAIN q = 1..Len(q)
        /\ Cap1[h] \in Nat
    BY CacheAssumption DEF QueueOK
  <1>2. CASE Cached(q, d)
    BY <1>2 DEF insert
  <1>3. CASE ~Cached(q, d)
    <2>1. e \in Entries /\ e.digest = d /\ e.code = Code(d, Engine[h])
      BY DEF Entries, Codes, Code, Engines
    <2> HIDE DEF e
    <2>2. \A i \in 1..Len(q) : q[i].digest # d
      BY <1>1, <1>3 DEF Cached
    <2>3. /\ kept \in Seq(Entries) /\ Len(kept) = Len(q) - k
          /\ \A i \in 1..Len(kept) : kept[i] = q[i + k]
      <3>1. CASE full
        <4>1. /\ Tail(q) \in Seq(Entries) /\ Len(Tail(q)) = Len(q) - 1
              /\ \A i \in 1..Len(Tail(q)) : Tail(q)[i] = q[i + 1]
          BY <1>1, <3>1, HeadTailProperties
        <4> QED BY <3>1, <4>1
      <3>2. CASE ~full
        <4>1. \A i \in 1..Len(q) : q[i] = q[i + 0]
          BY <1>1
        <4> QED BY <1>1, <3>2, <4>1
      <3> QED BY <3>1, <3>2
    <2>4. k \in {0, 1} /\ k <= Len(q) /\ Len(q) - k < cap
      <3>1. Len(q) <= cap
        BY DEF QueueOK
      <3>2. q # <<>> <=> Len(q) # 0
        BY <1>1
      <3> QED BY <1>1, <3>1, <3>2
    <2> HIDE DEF kept, k
    <2>5. /\ more \in Seq(Entries) /\ Len(more) = Len(kept) + 1
          /\ more[Len(kept) + 1] = e
          /\ \A i \in 1..Len(kept) : more[i] = kept[i]
      BY <2>1, <2>3, AppendProperties
    <2> HIDE DEF more
    <2>6. DOMAIN more = 1..(Len(kept) + 1) /\ Len(kept) \in Nat
      BY <1>1, <2>3, <2>5
    <2>7. ASSUME NEW i \in 1..Len(kept)
          PROVE  i + k \in 1..Len(q) /\ more[i] = q[i + k]
      BY <1>1, <2>3, <2>4, <2>5
    <2>8. ASSUME NEW i \in DOMAIN more
          PROVE  more[i].code = Code(more[i].digest, Engine[h])
      <3>1. CASE i = Len(kept) + 1
        BY <2>1, <2>5, <3>1
      <3>2. CASE i \in 1..Len(kept)
        BY <1>1, <2>7, <3>2 DEF QueueOK
      <3> QED BY <2>6, <3>1, <3>2
    <2>9. ASSUME NEW i \in DOMAIN more, NEW j \in DOMAIN more,
                 more[i].digest = more[j].digest
          PROVE  i = j
      <3>1. \A n \in 1..Len(kept) : more[n].digest # more[Len(kept) + 1].digest
        BY <2>1, <2>2, <2>5, <2>7
      <3>2. CASE i \in 1..Len(kept) /\ j \in 1..Len(kept)
        <4>1. i + k \in DOMAIN q /\ j + k \in DOMAIN q /\ q[i + k].digest = q[j + k].digest
          BY <1>1, <2>7, <2>9, <3>2
        <4>2. i + k = j + k
          BY <4>1 DEF QueueOK
        <4> QED BY <2>4, <2>6, <3>2, <4>2
      <3> QED BY <2>6, <2>9, <3>1, <3>2
    <2>10. Len(more) <= cap
      BY <1>1, <2>3, <2>4, <2>5
    <2>11. QueueOK(more, h)
      BY <2>5, <2>8, <2>9, <2>10 DEF QueueOK
    <2> QED BY <1>3, <2>11 DEF insert, more, kept, e
  <1> QED BY <1>2, <1>3
-----------------------------------------------------------------------------
(* Which fields an update leaves alone.                                     *)
LEMMA FieldsKept ==
    ASSUME NEW x \in TaskRecord, NEW s, NEW v
    PROVE  /\ LET r == [x EXCEPT !.at = s] IN
              r.at = s /\ r.digest = x.digest /\ r.code = x.code
           /\ LET r == [x EXCEPT !.at = s, !.secret = v] IN
              r.at = s /\ r.digest = x.digest /\ r.code = x.code
           /\ LET r == [x EXCEPT !.at = s, !.victim = v] IN
              r.at = s /\ r.digest = x.digest /\ r.code = x.code
           /\ LET r == [x EXCEPT !.at = s, !.code = v] IN
              r.at = s /\ r.digest = x.digest /\ r.code = v
  BY DEF TaskRecord

Right(t, r) == r.at \in Compiled => r.code = <<r.digest, Engine[HostOf[t]]>>

(* One load's record is replaced by one with the right code.                *)
LEMMA RightStep ==
    ASSUME CacheInv, TierInv, NEW t \in Tasks, NEW r, Right(t, r),
           task' = [task EXCEPT ![t] = r]
    PROVE  /\ TasksRight'
           /\ task'[t] = r /\ \A u \in Tasks \ {t} : task'[u] = task[u]
  <1>1. task'[t] = r /\ \A u \in Tasks \ {t} : task'[u] = task[u]
    BY DEF CacheInv, CacheTypeOK
  <1> QED BY <1>1 DEF TierInv, TasksRight, RowKey, Right

(* Eviction goes on, has given up, or has reached the limit.                *)
LEMMA LimitStep ==
    ASSUME LimitKept, failed => failed',
           \/ MaxBytes = 0
           \/ total_bytes' <= MaxBytes
           \/ failed'
           \/ \E t \in Tasks : task'[t].at \in Evicting
           \/ /\ total_bytes' = total_bytes
              /\ \A t \in Tasks : task[t].at \in Evicting => task'[t].at \in Evicting
    PROVE  LimitKept'
  BY DEF LimitKept

(* Steps of a load that touch neither tier.                                 *)
LEMMA TaskOnlyStep ==
    ASSUME CacheInv, TierInv, NEW t \in Tasks, NEW r, Right(t, r),
           task' = [task EXCEPT ![t] = r],
           UNCHANGED <<c1, rows>>, failed => failed',
           task[t].at \in Evicting =>
               r.at \in Evicting \/ failed' \/ total_bytes <= MaxBytes
    PROVE  TierInv'
  <1>1. QueuesOK' /\ RowsRight' /\ total_bytes' = total_bytes
    BY DEF TierInv, QueuesOK, RowsRight, total_bytes
  <1>2. LimitKept'
    BY <1>1, RightStep, LimitStep DEF TierInv
  <1> QED BY <1>1, <1>2, RightStep DEF TierInv

LEMMA TierInit == CacheInit => TierInv
  <1> SUFFICES ASSUME CacheInit PROVE TierInv
    OBVIOUS
  <1>1. DOMAIN rows = ForeignRows /\ \A r \in DOMAIN rows : rows[r].key = "foreign"
    BY DEF CacheInit
  <1>2. \A t \in Tasks : task[t].at = "idle"
    BY IdleTyped DEF CacheInit
  <1>3. \A h \in Hosts : QueueOK(<<>>, h)
    <2>1. Len(<<>>) = 0 /\ DOMAIN <<>> = {} /\ <<>> \in Seq(Entries)
      OBVIOUS
    <2>2. \A h \in Hosts : Cap1[h] \in Nat
      BY CacheAssumption
    <2> QED BY <2>1, <2>2 DEF QueueOK
  <1>4. QueuesOK
    BY <1>3 DEF CacheInit, QueuesOK
  <1>5. TasksRight /\ RowsRight
    BY <1>1, <1>2 DEF TasksRight, RowsRight, Compiled
  <1>6. LimitKept
    BY <1>1 DEF LimitKept, total_bytes
  <1> QED BY <1>4, <1>5, <1>6 DEF TierInv

LEMMA LoadTier ==
    ASSUME CacheInv, TierInv, NEW t \in Tasks, NEW d \in Digests, component_for_digest(t, d)
    PROVE  TierInv'
  <1> DEFINE h == HostOf[t]
  <1>1. h \in Hosts /\ UNCHANGED <<rows, failed>> /\ task[t].at = "idle"
    BY CacheAssumption DEF component_for_digest, At
  <1>2. ASSUME NEW s \in {"bypass", "key"}, UNCHANGED c1,
               task' = [task EXCEPT ![t] = [NoTask EXCEPT !.at = s, !.digest = d]]
        PROVE  TierInv'
    <2> DEFINE r == [NoTask EXCEPT !.at = s, !.digest = d]
    <2>1. r.at = s
      BY IdleTyped DEF Steps
    <2>2. Right(t, r)
      BY <2>1 DEF Right, Compiled
    <2> HIDE DEF r
    <2>3. task' = [task EXCEPT ![t] = r]
      BY <1>2 DEF r
    <2>4. task[t].at \notin Evicting
      BY <1>1 DEF Evicting
    <2> QED BY <1>1, <1>2, <2>2, <2>3, <2>4, TaskOnlyStep
  <1>3. ASSUME Cached(c1[h], d), c1' = [c1 EXCEPT ![h] = get(@, d)], UNCHANGED task
        PROVE  TierInv'
    <2>1. c1'[h] = get(c1[h], d) /\ \A g \in Hosts \ {h} : c1'[g] = c1[g]
      BY <1>1, <1>3 DEF CacheInv, CacheTypeOK
    <2>2. QueueOK(c1'[h], h)
      BY <1>1, <1>3, <2>1, GetOK DEF TierInv, QueuesOK
    <2>3. QueuesOK'
      BY <2>1, <2>2 DEF TierInv, QueuesOK
    <2>4. TasksRight' /\ RowsRight' /\ LimitKept'
      BY <1>1, <1>3 DEF TierInv, TasksRight, RowsRight, LimitKept, total_bytes, RowKey
    <2> QED BY <2>3, <2>4 DEF TierInv
  <1> QED BY <1>2, <1>3 DEF component_for_digest

(* The creation of the file, and a load that ends without a component.      *)
LEMMA EarlyTier ==
    ASSUME CacheInv, TierInv, NEW t \in Tasks,
           \/ load_or_create_hmac_key(t) \/ create_new(t) \/ write_all(t)
           \/ compile_via_runtime(t) /\ Return(t)
           \/ try_c2_lookup(t) /\ Goto(t, "compile")
    PROVE  TierInv'
  <1>1. UNCHANGED <<c1, rows, failed>> /\ task[t].at \notin Evicting
    BY DEF load_or_create_hmac_key, create_new, write_all, compile_via_runtime,
           try_c2_lookup, At, Evicting
  <1>2. task[t] \in TaskRecord
    BY DEF CacheInv, TasksSound
  <1>3. ASSUME NEW r, r.at \notin Compiled, task' = [task EXCEPT ![t] = r]
        PROVE  TierInv'
    BY <1>1, <1>3, TaskOnlyStep DEF Right
  <1>4. ASSUME NEW s \in {"lookup", "write", "compile"}, Goto(t, s)
        PROVE  TierInv'
    <2> DEFINE r == [task[t] EXCEPT !.at = s]
    <2>1. r.at \notin Compiled
      BY <1>2, FieldsKept DEF Compiled
    <2>2. task' = [task EXCEPT ![t] = r]
      BY <1>4 DEF Goto
    <2> HIDE DEF r
    <2> QED BY <1>3, <2>1, <2>2
  <1>5. ASSUME NEW s \in {"create", "lookup"}, NEW v,
               task' = [task EXCEPT ![t] = [@ EXCEPT !.at = s, !.secret = v]]
        PROVE  TierInv'
    <2> DEFINE r == [task[t] EXCEPT !.at = s, !.secret = v]
    <2>1. r.at \notin Compiled
      BY <1>2, FieldsKept DEF Compiled
    <2>2. task' = [task EXCEPT ![t] = r]
      BY <1>5
    <2> HIDE DEF r
    <2> QED BY <1>3, <2>1, <2>2
  <1>6. CASE Return(t)
    BY <1>3, <1>6, IdleTyped DEF Return, Compiled
  <1>7. CASE load_or_create_hmac_key(t)
    BY <1>4, <1>5, <1>7 DEF load_or_create_hmac_key
  <1>8. CASE create_new(t)
    BY <1>4, <1>5, <1>8 DEF create_new
  <1>9. CASE write_all(t)
    BY <1>5, <1>9 DEF write_all
  <1> QED BY <1>4, <1>6, <1>7, <1>8, <1>9

(* A row that opens was sealed here, so its code is that of its key; what   *)
(* compile_via_runtime returns is by definition.                            *)
LEMMA CodeTier ==
    ASSUME CacheInv, TierInv, NEW t \in Tasks,
           try_c2_lookup(t) \/ compile_via_runtime(t)
    PROVE  TierInv'
  <1>1. UNCHANGED <<c1, rows, failed>> /\ task[t].at \notin Evicting
    BY DEF compile_via_runtime, try_c2_lookup, At, Evicting
  <1>2. task[t] \in TaskRecord
    BY DEF CacheInv, TasksSound
  <1>3. ASSUME NEW s, task' = [task EXCEPT ![t] = [@ EXCEPT !.at = s, !.code = RowKey(t)]]
        PROVE  TierInv'
    <2> DEFINE r == [task[t] EXCEPT !.at = s, !.code = RowKey(t)]
    <2>1. r.digest = task[t].digest /\ r.code = RowKey(t)
      BY <1>2, FieldsKept
    <2>2. task' = [task EXCEPT ![t] = r]
      BY <1>3
    <2> HIDE DEF r
    <2>3. Right(t, r)
      BY <2>1 DEF Right, RowKey
    <2> QED BY <1>1, <2>2, <2>3, TaskOnlyStep
  <1>4. CASE try_c2_lookup(t) /\ ~Goto(t, "compile")
    <2> DEFINE r == RowKey(t)
               k == key[HostOf[t]]
    <2>1. /\ r \in DOMAIN rows /\ rows[r].key = k
          /\ task' = [task EXCEPT ![t] = [@ EXCEPT !.at = "insert", !.code = rows[r].code]]
      BY <1>4 DEF try_c2_lookup, open_artifact
    <2>2. k # "foreign"
      <3>1. k \in {"unset", "none"} \cup Secrets
        BY CacheAssumption DEF CacheInv, CacheTypeOK
      <3> QED BY <3>1, CacheAssumption
    <2>3. rows[r].code = r
      BY <2>1, <2>2 DEF TierInv, RowsRight
    <2> QED BY <1>3, <2>1, <2>3
  <1>5. CASE compile_via_runtime(t) /\ ~Return(t)
    BY <1>3, <1>5 DEF compile_via_runtime, Code, RowKey
  <1> QED BY <1>4, <1>5, EarlyTier

LEMMA StoreTier ==
    ASSUME CacheInv, TierInv, NEW t \in Tasks, store(t)
    PROVE  TierInv'
  <1>1. UNCHANGED <<c1, failed>> /\ task[t].at = "store" /\ task[t] \in TaskRecord
    BY DEF store, At, CacheInv, TasksSound
  <1>2. task[t].code = RowKey(t)
    BY <1>1 DEF TierInv, TasksRight, Compiled
  <1>3. RowsRight'
    <2>1. seal(key[HostOf[t]], RowKey(t), task[t].code).code = RowKey(t)
      BY <1>2 DEF seal
    <2> DEFINE f == seal(key[HostOf[t]], RowKey(t), task[t].code)
               r == RowKey(t)
    <2> HIDE DEF f, r
    <2>2. \/ UNCHANGED rows
          \/ rows' = [x \in DOMAIN rows \cup {r} |-> IF x = r THEN f ELSE rows[x]]
      BY DEF store, f, r
    <2>3. f.code = r
      BY <2>1 DEF f, r
    <2> QED BY <2>2, <2>3 DEF TierInv, RowsRight
  <1>4. PICK s \in {"insert", "evict"} :
           /\ Goto(t, s)
           /\ MaxBytes = 0 \/ s = "evict" \/ UNCHANGED rows
    BY DEF store
  <1> DEFINE r == [task[t] EXCEPT !.at = s]
  <1>5. r.at = s /\ r.digest = task[t].digest /\ r.code = task[t].code
    BY <1>1, FieldsKept
  <1>6. task' = [task EXCEPT ![t] = r]
    BY <1>4 DEF Goto
  <1> HIDE DEF r
  <1>7. Right(t, r)
    BY <1>2, <1>5 DEF Right, RowKey
  <1>8. /\ TasksRight' /\ task'[t] = r /\ \A u \in Tasks \ {t} : task'[u] = task[u]
    BY <1>6, <1>7, RightStep
  <1>9. LimitKept'
    <2>1. CASE MaxBytes = 0
      BY <1>1, <2>1, LimitStep DEF TierInv
    <2>2. CASE s = "evict"
      <3>1. task'[t].at \in Evicting
        BY <1>5, <1>8, <2>2 DEF Evicting
      <3> QED BY <1>1, <3>1, LimitStep DEF TierInv
    <2>3. CASE UNCHANGED rows
      <3>1. total_bytes' = total_bytes /\ task[t].at \notin Evicting
        BY <1>1, <2>3 DEF total_bytes, Evicting
      <3> QED BY <1>1, <1>8, <3>1, LimitStep DEF TierInv
    <2> QED BY <1>4, <2>1, <2>2, <2>3
  <1>10. QueuesOK'
    BY <1>1 DEF TierInv, QueuesOK
  <1> QED BY <1>3, <1>8, <1>9, <1>10 DEF TierInv

(* An eviction ends below the limit, on an empty table, or as failed.       *)
LEMMA EvictTier ==
    ASSUME CacheInv, TierInv, NEW t \in Tasks,
           evict_total(t) \/ evict_pick(t) \/ evict_delete(t) \/ evict_fails(t)
    PROVE  TierInv'
  <1>1. UNCHANGED c1 /\ task[t].at \in Evicting /\ task[t] \in TaskRecord
    BY DEF evict_total, evict_pick, evict_delete, evict_fails, At, Evicting, CacheInv, TasksSound
  <1>2. task[t].code = RowKey(t)
    BY <1>1 DEF TierInv, TasksRight, Compiled, Evicting
  <1>3. PICK r : /\ task' = [task EXCEPT ![t] = r]
                 /\ Right(t, r)
                 /\ \/ r.at \in Evicting
                    \/ failed'
                    \/ total_bytes <= MaxBytes /\ UNCHANGED rows
    <2>1. ASSUME NEW s, NEW v, s \in Evicting \/ failed',
                 task' = [task EXCEPT ![t] = [@ EXCEPT !.at = s, !.victim = v]]
          PROVE  \E r : /\ task' = [task EXCEPT ![t] = r] /\ Right(t, r)
                        /\ r.at \in Evicting \/ failed'
      <3> DEFINE r == [task[t] EXCEPT !.at = s, !.victim = v]
      <3>1. r.at = s /\ r.digest = task[t].digest /\ r.code = task[t].code
        BY <1>1, FieldsKept
      <3>2. task' = [task EXCEPT ![t] = r]
        BY <2>1
      <3> HIDE DEF r
      <3>3. Right(t, r) /\ (r.at \in Evicting \/ failed')
        BY <1>2, <2>1, <3>1 DEF Right, RowKey
      <3> QED BY <3>2, <3>3
    <2>2. ASSUME NEW s, Goto(t, s),
                 s \in Evicting \/ (total_bytes <= MaxBytes /\ UNCHANGED rows)
          PROVE  \E r : /\ task' = [task EXCEPT ![t] = r] /\ Right(t, r)
                        /\ r.at \in Evicting \/ (total_bytes <= MaxBytes /\ UNCHANGED rows)
      <3> DEFINE r == [task[t] EXCEPT !.at = s]
      <3>1. r.at = s /\ r.digest = task[t].digest /\ r.code = task[t].code
        BY <1>1, FieldsKept
      <3>2. task' = [task EXCEPT ![t] = r]
        BY <2>2 DEF Goto
      <3> HIDE DEF r
      <3>3. Right(t, r) /\ (r.at \in Evicting \/ (total_bytes <= MaxBytes /\ UNCHANGED rows))
        BY <1>2, <2>2, <3>1 DEF Right, RowKey
      <3> QED BY <3>2, <3>3
    <2>3. DOMAIN rows = {} => total_bytes <= MaxBytes
      BY TotalOfNothing, CacheAssumption DEF total_bytes
    <2>4. CASE evict_total(t)
      BY <2>2, <2>4 DEF evict_total, Evicting
    <2>5. CASE evict_pick(t)
      BY <2>1, <2>2, <2>3, <2>5 DEF evict_pick, Evicting
    <2>6. CASE evict_delete(t)
      BY <2>1, <2>6 DEF evict_delete, Evicting
    <2>7. CASE evict_fails(t)
      BY <2>1, <2>7 DEF evict_fails
    <2> QED BY <2>4, <2>5, <2>6, <2>7
  <1>4. RowsRight'
    BY DEF TierInv, RowsRight, evict_total, evict_pick, evict_delete, evict_fails
  <1>5. failed => failed'
    BY DEF evict_total, evict_pick, evict_delete, evict_fails
  <1>6. TasksRight' /\ task'[t] = r
    BY <1>3, RightStep
  <1>7. LimitKept'
    <2>1. CASE r.at \in Evicting
      BY <1>5, <1>6, <2>1, LimitStep DEF TierInv
    <2>2. CASE failed'
      BY <1>5, <2>2, LimitStep DEF TierInv
    <2>3. CASE total_bytes <= MaxBytes /\ UNCHANGED rows
      <3>1. total_bytes' <= MaxBytes
        BY <2>3 DEF total_bytes
      <3> QED BY <1>5, <3>1, LimitStep DEF TierInv
    <2> QED BY <1>3, <2>1, <2>2, <2>3
  <1>8. QueuesOK'
    BY <1>1 DEF TierInv, QueuesOK
  <1> QED BY <1>4, <1>6, <1>7, <1>8 DEF TierInv

LEMMA FinishTier ==
    ASSUME CacheInv, TierInv, NEW t \in Tasks, finish(t)
    PROVE  TierInv'
  <1> DEFINE h == HostOf[t]
  <1>1. /\ h \in Hosts /\ UNCHANGED <<rows, failed>> /\ Return(t)
        /\ task[t].at = "insert" /\ task[t].digest \in Digests
    BY CacheAssumption DEF finish, At, CacheInv, TasksSound, Sound
  <1>2. task[t].code = Code(task[t].digest, Engine[h])
    BY <1>1 DEF TierInv, TasksRight, Compiled, RowKey, Code
  <1>3. /\ c1'[h] = insert(c1[h], Cap1[h], task[t].digest, Code(task[t].digest, Engine[h]))
        /\ \A g \in Hosts \ {h} : c1'[g] = c1[g]
    BY <1>1, <1>2 DEF finish, CacheInv, CacheTypeOK
  <1>4. QueueOK(c1'[h], h)
    BY <1>1, <1>3, InsertOK DEF TierInv, QueuesOK
  <1>5. QueuesOK'
    BY <1>3, <1>4 DEF TierInv, QueuesOK
  <1>6. Right(t, NoTask) /\ task[t].at \notin Evicting
    BY <1>1, IdleTyped DEF Right, Compiled, Evicting
  <1>7. TasksRight' /\ \A u \in Tasks \ {t} : task'[u] = task[u]
    BY <1>1, <1>6, RightStep DEF Return
  <1>8. RowsRight' /\ total_bytes' = total_bytes
    BY <1>1 DEF TierInv, RowsRight, total_bytes
  <1>9. LimitKept'
    BY <1>1, <1>6, <1>7, <1>8, LimitStep DEF TierInv
  <1> QED BY <1>5, <1>7, <1>8, <1>9 DEF TierInv

LEMMA HostTier ==
    ASSUME CacheInv, TierInv, NEW h \in Hosts, component_cache_purge(h) \/ Killed(h)
    PROVE  TierInv'
  <1>1. CASE component_cache_purge(h)
    <2>1. DOMAIN rows' = {} /\ UNCHANGED <<c1, task, failed>>
      BY <1>1 DEF component_cache_purge
    <2>2. total_bytes' <= MaxBytes
      BY <2>1, TotalOfNothing, CacheAssumption DEF total_bytes
    <2>3. LimitKept'
      BY <2>1, <2>2, LimitStep DEF TierInv
    <2> QED BY <2>1, <2>3 DEF TierInv, QueuesOK, RowsRight, TasksRight, RowKey
  <1>2. CASE Killed(h)
    <2>1. /\ UNCHANGED rows /\ failed' = (failed \/ Locked(h))
          /\ c1' = [c1 EXCEPT ![h] = <<>>]
          /\ \A t \in Tasks : task'[t] = IF HostOf[t] = h THEN NoTask ELSE task[t]
      BY <1>2 DEF Killed
    <2>2. QueueOK(<<>>, h)
      <3>1. Len(<<>>) = 0 /\ DOMAIN <<>> = {} /\ <<>> \in Seq(Entries)
        OBVIOUS
      <3>2. Cap1[h] \in Nat
        BY CacheAssumption
      <3> QED BY <3>1, <3>2 DEF QueueOK
    <2>3. QueuesOK'
      BY <2>1, <2>2 DEF TierInv, QueuesOK, CacheInv, CacheTypeOK
    <2>4. TasksRight'
      BY <2>1, IdleTyped DEF TierInv, TasksRight, RowKey, Compiled
    <2>5. RowsRight' /\ total_bytes' = total_bytes
      BY <2>1 DEF TierInv, RowsRight, total_bytes
    <2>6. LimitKept'
      <3>1. CASE Locked(h)
        BY <2>1, <3>1, LimitStep DEF TierInv
      <3>2. CASE ~Locked(h)
        <4>1. \A t \in Tasks : task[t].at \in Evicting => task'[t].at \in Evicting
          BY <2>1, <3>2 DEF Locked, Evicting
        <4> QED BY <2>1, <2>5, <4>1, LimitStep DEF TierInv
      <3> QED BY <3>1, <3>2
    <2> QED BY <2>3, <2>4, <2>5, <2>6 DEF TierInv
  <1> QED BY <1>1, <1>2

LEMMA TierStep == CacheInv /\ TierInv /\ [CacheNext]_cacheVars => TierInv'
  <1> SUFFICES ASSUME CacheInv, TierInv, [CacheNext]_cacheVars PROVE TierInv'
    OBVIOUS
  <1>1. CASE UNCHANGED cacheVars
    BY <1>1 DEF cacheVars, TierInv, QueuesOK, TasksRight, RowsRight, LimitKept, total_bytes, RowKey
  <1>2. ASSUME NEW t \in Tasks, Step(t) PROVE TierInv'
    BY <1>2, LoadTier, EarlyTier, CodeTier, StoreTier, EvictTier, FinishTier DEF Step
  <1>3. ASSUME NEW h \in Hosts, component_cache_purge(h) \/ Killed(h) PROVE TierInv'
    BY <1>3, HostTier
  <1> QED BY <1>1, <1>2, <1>3 DEF CacheNext

(* The invariant of the two tiers holds in every reachable state.           *)
THEOREM TierInvHolds == CacheSpec => []TierInv
  BY TierInit, TierStep, CacheInvHolds, PTL DEF CacheSpec

(* component_for_digest never returns, and C1 never keeps, code that is not *)
(* the compilation of those bytes by this host's engine, whatever foreign   *)
(* or replaced rows C2 holds and however loads, purges and restarts race.   *)
THEOREM RightCodeHolds == CacheSpec => []RightCode
  <1>1. TierInv => RightCode
    BY DEF TierInv, TasksRight, QueuesOK, QueueOK, RightCode, RowKey, Code, Compiled, At
  <1> QED BY <1>1, TierInvHolds, PTL

(* ComponentCache::insert keeps C1 within its capacity and free of          *)
(* duplicates, and evict_to keeps C2 within its byte limit whenever no      *)
(* eviction is under way or was cut short, for any number of hosts.         *)
THEOREM CachesBoundedHolds == CacheSpec => []CachesBounded
  <1>1. TierInv => C1Bounded
    BY DEF TierInv, QueuesOK, QueueOK, C1Bounded
  <1>2. TierInv => C2Bounded
    BY DEF TierInv, LimitKept, C2Bounded, Evicting
  <1>3. TierInv => CachesBounded
    BY <1>1, <1>2 DEF CachesBounded
  <1> QED BY <1>3, TierInvHolds, PTL
=============================================================================
