---------------------------- MODULE BundleAlone ----------------------------
(***************************************************************************)
(* BundleRegistry with a choice made at the start: all processes work and   *)
(* may be killed, or one of them works alone and is not killed.  What the   *)
(* registry promises a process depends on which of the two it is.           *)
(***************************************************************************)
EXTENDS BundleRegistry

CONSTANTS
    Nobody,
    OwnName     \* bound: a name that only a process alone uses

ASSUME NobodyAssumption == Nobody \notin Procs

VARIABLE alone      \* the only process that works, or Nobody

AloneInit == Init /\ alone \in Procs \cup {Nobody}

(* Bounds: together the processes leave out a name, delete, which is a gc   *)
(* of one row, and launch, which only reads.                                *)
Together(j) == j.name # OwnName /\ j.at \notin {"delete", "launch"}

AloneNext ==
    /\ UNCHANGED alone
    /\ \/ \E p \in Procs : alone \in {p, Nobody} /\ Step(p)
       \/ \E p \in Procs : alone = p /\ Call(p)
       \/ \E p \in Procs : alone = Nobody /\ Call(p) /\ Together(job'[p])
       \/ \E p \in Procs : alone = Nobody /\ Exit(p)

AloneSpec == AloneInit /\ [][AloneNext]_<<vars, alone>>

(* The calls of one process that is never killed, in any order and with row *)
(* ids used again after deletions, keep the registry exact: one row per set *)
(* of members, members and binary those of the set, and a launch by name    *)
(* runs the set the name stands for, no more and no fewer (bundle_save,     *)
(* resolve_bundle_launch).                                                  *)
ExactWhenAlone ==
    alone # Nobody => OneRowPerSet /\ RowsMatchHash /\ LaunchRunsTheSet
=============================================================================
