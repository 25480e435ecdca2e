----------------------------- MODULE MCCasStore -----------------------------
(***************************************************************************)
(* CasStore with the instances TLC explores, and the programs its processes *)
(* run: all of Work, or one of two selections of it.                        *)
(***************************************************************************)
EXTENDS CasStore, TLC

CONSTANTS b1, b2, u1, p1, p2, Programs

\* @@ and :> build the finite functions the configurations name
SizeOfTwo == b1 :> 1 @@ b2 :> 2
OneImport == {[art |-> {b1, b2}, sha |-> {b2}, uri |-> u1 :> b1]}
NoLegacy == {}
NoImports == {}
Sym == Permutations({p1, p2})

VARIABLE program    \* the operations the processes call

ByName == {"put", "resolve_uri", "purge", "merge_from", "evict_lru"}
ByDigest == {"put", "get", "blob_delete"}
NameOrDigest == {ByName, ByDigest}
AnyWork == {Work}

ProgramInit == Init /\ program \in Programs
ProgramNext ==
    /\ UNCHANGED program
    /\ \/ \E p \in Procs : open_external(p) \/ Exit(p) \/ Step(p)
       \/ \E p \in Procs : Call(p) /\ pc'[p] \in program
ProgramSpec ==
    /\ ProgramInit /\ [][ProgramNext]_<<vars, program>>
    /\ \A p \in Procs : WF_vars(Step(p))
=============================================================================
