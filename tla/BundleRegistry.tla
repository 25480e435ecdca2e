--------------------------- MODULE BundleRegistry ---------------------------
(***************************************************************************)
(* The bundle registry of sqlite-cas-cache (bundles_exec.rs): named sets of *)
(* extensions, kept in four tables of the database every sqlink process     *)
(* shares.  An operation is a sequence of SQL statements, none of them in a *)
(* transaction with another; statements of different processes interleave,  *)
(* and a process may be killed between two of its own.                      *)
(*                                                                         *)
(* Abstractions.  Timestamps are left out: bundle_touch changes nothing     *)
(* else, and the rows a gc policy selects are any rows.  One target triple. *)
(* The path of a baked binary stands for the set it was built from, since   *)
(* it is builds/<set_hash>/... (default_builds_dir).                        *)
(***************************************************************************)
EXTENDS Naturals, FiniteSetsExt

CONSTANTS
    Procs,
    Names, NoName,      \* short names, and an anonymous save
    Sets, NoSet,        \* set hashes, and "none"
    Members,            \* (extension_name, content_hash) pairs
    Ext,                \* Ext[m]: the extension name of m
    MembersOf,          \* the pairs a set hash was computed from
    MaxId,              \* bound on the row ids the model hands out
    Work                \* what the processes do

VARIABLES
    bundle,   \* __cas_bundle: id -> row
    member,   \* __cas_bundle_member: id -> its member rows
    alias,    \* __cas_bundle_alias: name -> id, 0 for no row
    bin,      \* __cas_bundle_binary: id -> set its binary was built from
    job,      \* job[p]: the statement p is at, and its local variables
    ret       \* ret[p]: how p's latest operation ended

tables == <<bundle, member, alias, bin>>
vars == <<bundle, member, alias, bin, job, ret>>

Ids == 1..MaxId
Row == [name : Names \cup {NoName}, set : Sets]
NoRow == [name |-> NoName, set |-> NoSet]

Statements == {"idle", "save_name", "save_hash", "save_insert", "alias_find",
    "alias_insert", "members", "remove_alias", "delete", "gc_select",
    "gc_delete", "record_binary", "launch"}

(* todo: members still to insert; left: gc victims still to delete.         *)
Job == [at : Statements, name : Names \cup {NoName}, set : Sets \cup {NoSet},
        id : Ids \cup {0}, todo : SUBSET Members, left : SUBSET Ids]
Idle == [at |-> "idle", name |-> NoName, set |-> NoSet, id |-> 0,
         todo |-> {}, left |-> {}]
Ret == [how : {"none", "ok", "saved", "ran", "conflict", "taken", "fk",
               "not_found", "no_binary"},
        set : Sets \cup {NoSet}, id : Ids \cup {0}, got : SUBSET Members]
NoRet == [how |-> "none", set |-> NoSet, id |-> 0, got |-> {}]

ASSUME RegistryAssumption ==
    /\ MaxId \in Nat \ {0}
    /\ NoName \notin Names /\ NoSet \notin Sets
    /\ MembersOf \in [Sets -> SUBSET Members]
    /\ \A s \in Sets : \A m, n \in MembersOf[s] : Ext[m] = Ext[n] => m = n

Rows == {i \in Ids : bundle[i] # NoRow}

(* ORDER BY id LIMIT 1: the first of S, 0 when there is none.               *)
IsFirst(i, S) == IF S = {} THEN i = 0 ELSE i \in S /\ \A k \in S : i <= k

(* FIND_BY_NAME_SQL: the alias row; without one, a row of that legacy name. *)
bundle_find_by_name(n, i) ==
    IF alias[n] # 0 THEN i = alias[n]
    ELSE IsFirst(i, {k \in Rows : bundle[k].name = n})

(* FIND_FIRST_BY_HASH_SQL *)
bundle_find_first_by_hash(s, i) == IsFirst(i, {k \in Rows : bundle[k].set = s})

(* INTEGER PRIMARY KEY without AUTOINCREMENT: one more than the largest id  *)
(* in use, so the id of a deleted last row is given out again.              *)
NextId(i) == i - 1 \in Rows \cup {0} /\ \A k \in Rows : k < i

Init ==
    /\ bundle = [i \in Ids |-> NoRow]
    /\ member = [i \in Ids |-> {}]
    /\ alias = [n \in Names |-> 0]
    /\ bin = [i \in Ids |-> NoSet]
    /\ job = [p \in Procs |-> Idle]
    /\ ret = [p \in Procs |-> NoRet]
-----------------------------------------------------------------------------
At(p, s) == job[p].at = s
Goto(p, j) == job' = [job EXCEPT ![p] = j] /\ UNCHANGED ret
Return(p, r) ==
    /\ job' = [job EXCEPT ![p] = Idle]
    /\ ret' = [ret EXCEPT ![p] = r]
Fail(p, why) == Return(p, [NoRet EXCEPT !.how = why]) /\ UNCHANGED tables

Start(p, w, j) ==
    /\ At(p, "idle") /\ w \in Work
    /\ w = "save" => \E i \in Ids : NextId(i)       \* the bound, not the code
    /\ job' = [job EXCEPT ![p] = j]
    /\ ret' = [ret EXCEPT ![p] = NoRet]
    /\ UNCHANGED tables

(* bundle_show precedes the operations that take an id.                     *)
Call(p) ==
    \/ \E n \in Names, s \in Sets :
          Start(p, "save", [Idle EXCEPT !.at = "save_name", !.name = n, !.set = s])
    \/ \E s \in Sets :
          Start(p, "save", [Idle EXCEPT !.at = "save_hash", !.set = s])
    \/ \E n \in Names, i \in Rows :
          Start(p, "add_alias", [Idle EXCEPT !.at = "alias_find", !.name = n,
                                             !.set = bundle[i].set, !.id = i])
    \/ \E n \in Names :
          Start(p, "remove_alias", [Idle EXCEPT !.at = "remove_alias", !.name = n])
    \/ \E i \in Rows : Start(p, "delete", [Idle EXCEPT !.at = "delete", !.id = i])
    \/ Start(p, "gc", [Idle EXCEPT !.at = "gc_select"])
    \/ \E i \in Rows :
          Start(p, "record_binary", [Idle EXCEPT !.at = "record_binary",
                                                 !.set = bundle[i].set, !.id = i])
    \/ \E n \in Names :
          Start(p, "launch", [Idle EXCEPT !.at = "launch", !.name = n])

(* The process is killed between two statements.                            *)
Exit(p) ==
    /\ "exit" \in Work /\ ~At(p, "idle")
    /\ Return(p, NoRet)
    /\ UNCHANGED tables
-----------------------------------------------------------------------------
Saved(p, i) == Return(p, [how |-> "saved", set |-> job[p].set, id |-> i,
                          got |-> {}])

(* bundle_save, first lookup: a name that is taken must mean the same set.  *)
bundle_save_name(p) ==
    /\ At(p, "save_name")
    /\ \E i \in Ids \cup {0} :
         /\ bundle_find_by_name(job[p].name, i)
         /\ \/ i = 0 /\ Goto(p, [job[p] EXCEPT !.at = "save_hash"])
            \/ i # 0 /\ bundle[i].set # job[p].set /\ Fail(p, "conflict")
            \/ i # 0 /\ bundle[i].set = job[p].set /\ Saved(p, i)
    /\ UNCHANGED tables

(* MUTANT of bundle_save_hash: the row for the set is not looked for.       *)
bundle_save_hash_always_insert(p) ==
    /\ At(p, "save_hash")
    /\ Goto(p, [job[p] EXCEPT !.at = "save_insert"])
    /\ UNCHANGED tables

(* Second lookup: a row for the set exists, so only the name is added.      *)
bundle_save_hash(p) ==
    /\ At(p, "save_hash")
    /\ \E i \in Ids \cup {0} :
         /\ bundle_find_first_by_hash(job[p].set, i)
         /\ \/ i = 0 /\ Goto(p, [job[p] EXCEPT !.at = "save_insert"])
            \/ i # 0 /\ job[p].name = NoName /\ Saved(p, i)
            \/ /\ i # 0 /\ job[p].name # NoName
               /\ Goto(p, [job[p] EXCEPT !.at = "alias_find", !.id = i])
    /\ UNCHANGED tables

(* BUNDLE_INSERT_SQL; the members follow, after the alias if there is one.  *)
bundle_save_insert(p) ==
    /\ At(p, "save_insert")
    /\ \E i \in Ids :
         /\ NextId(i)
         /\ bundle' = [bundle EXCEPT ![i] = [name |-> job[p].name, set |-> job[p].set]]
         /\ Goto(p, [job[p] EXCEPT
                       !.at = IF job[p].name = NoName THEN "members" ELSE "alias_find",
                       !.id = i, !.todo = MembersOf[job[p].set]])
    /\ UNCHANGED <<member, alias, bin>>

(* bundle_add_alias, by itself or as part of bundle_save.                   *)
bundle_add_alias_find(p) ==
    /\ At(p, "alias_find")
    /\ LET i == alias[job[p].name] IN
       \/ i = 0 /\ Goto(p, [job[p] EXCEPT !.at = "alias_insert"])
       \/ i = job[p].id /\ Goto(p, [job[p] EXCEPT !.at = "members"])
       \/ i \notin {0, job[p].id} /\ Return(p, [NoRet EXCEPT !.how = "conflict"])
    /\ UNCHANGED tables

(* MUTANT of bundle_add_alias_insert: INSERT OR REPLACE.                    *)
bundle_add_alias_insert_or_replace(p) ==
    /\ At(p, "alias_insert") /\ job[p].id \in Rows
    /\ alias' = [alias EXCEPT ![job[p].name] = job[p].id]
    /\ Goto(p, [job[p] EXCEPT !.at = "members"])
    /\ UNCHANGED <<bundle, member, bin>>

(* The name may be taken and the bundle may be gone since they were read.   *)
bundle_add_alias_insert(p) ==
    /\ At(p, "alias_insert")
    /\ LET n == job[p].name IN
       \/ /\ alias[n] = 0 /\ job[p].id \in Rows
          /\ alias' = [alias EXCEPT ![n] = job[p].id]
          /\ Goto(p, [job[p] EXCEPT !.at = "members"])
          /\ UNCHANGED <<bundle, member, bin>>
       \/ alias[n] # 0 /\ Fail(p, "taken")
       \/ alias[n] = 0 /\ job[p].id \notin Rows /\ Fail(p, "fk")

(* MEMBER_INSERT_SQL once per member, then the id is returned.  The row may *)
(* be gone, and another bundle may have got its id.                         *)
bundle_save_members(p) ==
    /\ At(p, "members")
    /\ LET i == job[p].id
           taken(m) == \E x \in member[i] : Ext[x] = Ext[m]
       IN
       \/ job[p].todo = {} /\ Saved(p, i) /\ UNCHANGED tables
       \/ \E m \in job[p].todo :
             /\ i \in Rows /\ ~taken(m)
             /\ member' = [member EXCEPT ![i] = @ \cup {m}]
             /\ Goto(p, [job[p] EXCEPT !.todo = @ \ {m}])
             /\ UNCHANGED <<bundle, alias, bin>>
       \/ i \in Rows /\ (\E m \in job[p].todo : taken(m)) /\ Fail(p, "taken")
       \/ i \notin Rows /\ job[p].todo # {} /\ Fail(p, "fk")

bundle_remove_alias(p) ==
    /\ At(p, "remove_alias")
    /\ alias' = [alias EXCEPT ![job[p].name] = 0]
    /\ Return(p, [NoRet EXCEPT !.how = "ok"])
    /\ UNCHANGED <<bundle, member, bin>>

(* MUTANT of DeleteCascade: foreign_keys is off on this connection.         *)
DeleteCascade_without_fk(i) ==
    /\ bundle' = [bundle EXCEPT ![i] = NoRow]
    /\ UNCHANGED <<member, alias, bin>>

(* DELETE_SQL and the three ON DELETE CASCADE.                              *)
DeleteCascade(i) ==
    /\ bundle' = [bundle EXCEPT ![i] = NoRow]
    /\ member' = [member EXCEPT ![i] = {}]
    /\ bin' = [bin EXCEPT ![i] = NoSet]
    /\ alias' = [n \in Names |-> IF alias[n] = i THEN 0 ELSE alias[n]]

bundle_delete(p) ==
    /\ At(p, "delete")
    /\ DeleteCascade(job[p].id)
    /\ Return(p, [NoRet EXCEPT !.how = "ok"])

(* bundle_gc: the victims are read first, then deleted one by one.          *)
bundle_gc_select(p) ==
    /\ At(p, "gc_select")
    /\ \E V \in SUBSET Rows : Goto(p, [job[p] EXCEPT !.at = "gc_delete", !.left = V])
    /\ UNCHANGED tables

bundle_gc_delete(p) ==
    /\ At(p, "gc_delete")
    /\ \/ /\ job[p].left = {}
          /\ Return(p, [NoRet EXCEPT !.how = "ok"])
          /\ UNCHANGED tables
       \/ \E i \in job[p].left :
             /\ DeleteCascade(i)
             /\ Goto(p, [job[p] EXCEPT !.left = @ \ {i}])

(* RECORD_BINARY_SQL, after the build that was started for the set.         *)
bundle_record_binary(p) ==
    /\ At(p, "record_binary")
    /\ \/ /\ job[p].id \in Rows
          /\ bin' = [bin EXCEPT ![job[p].id] = job[p].set]
          /\ Return(p, [NoRet EXCEPT !.how = "ok"])
          /\ UNCHANGED <<bundle, member, alias>>
       \/ job[p].id \notin Rows /\ Fail(p, "fk")

(* resolve_bundle_launch: run the baked binary (Auto, Baked) or load the    *)
(* members (Auto without a binary, Load).  It reads through SqliteCasStore, *)
(* whose cached SELECTs stay open, so that all of its reads see one state.  *)
resolve_bundle_launch(p) ==
    /\ At(p, "launch")
    /\ \E i \in Ids \cup {0} :
         LET run(got) == Return(p, [how |-> "ran", set |-> bundle[i].set,
                                    id |-> i, got |-> got])
         IN
         /\ bundle_find_by_name(job[p].name, i)
         /\ \/ i = 0 /\ Fail(p, "not_found")
            \/ i # 0 /\ bin[i] = NoSet /\ Fail(p, "no_binary")
            \/ i # 0 /\ bin[i] # NoSet /\ run(MembersOf[bin[i]])
            \/ i # 0 /\ run(member[i])
    /\ UNCHANGED tables

Step(p) ==
    \/ bundle_save_name(p) \/ bundle_save_hash(p) \/ bundle_save_insert(p)
    \/ bundle_add_alias_find(p) \/ bundle_add_alias_insert(p)
    \/ bundle_save_members(p) \/ bundle_remove_alias(p) \/ bundle_delete(p)
    \/ bundle_gc_select(p) \/ bundle_gc_delete(p)
    \/ bundle_record_binary(p) \/ resolve_bundle_launch(p)

Next == \E p \in Procs : Call(p) \/ Exit(p) \/ Step(p)

Spec == Init /\ [][Next]_vars
-----------------------------------------------------------------------------
(* Every variable keeps to its type. *)
RegistryTypeOK ==
    /\ bundle \in [Ids -> Row \cup {NoRow}]
    /\ member \in [Ids -> SUBSET Members]
    /\ alias \in [Names -> Ids \cup {0}]
    /\ bin \in [Ids -> Sets \cup {NoSet}]
    /\ job \in [Procs -> Job]
    /\ ret \in [Procs -> Ret]

(* Members, aliases and binaries belong to a bundle that exists, whatever   *)
(* saves, deletions and gc of several processes do between each other's     *)
(* statements.                                                              *)
NoOrphans ==
    /\ \A i \in Ids : bundle[i] = NoRow => member[i] = {} /\ bin[i] = NoSet
    /\ \A n \in Names : alias[n] # 0 => alias[n] \in Rows

(* "refusing to rebind": while a name is taken it keeps its bundle, and the *)
(* bundle keeps its set; the find and the insert of bundle_add_alias are    *)
(* two statements, and another process may take the name in between.        *)
AliasNeverRebinds ==
    [][\A n \in Names :
         alias[n] # 0 /\ alias'[n] # 0 =>
            alias'[n] = alias[n] /\ bundle'[alias[n]] = bundle[alias[n]]]_vars

(* Two bundles with the same members share the same row.                    *)
OneRowPerSet ==
    \A i, j \in Rows : bundle[i].set = bundle[j].set => i = j

(* A member row belongs to the set its bundle's hash was computed from, and *)
(* a baked binary was built from that set.                                  *)
RowsMatchHash ==
    \A i \in Rows :
        /\ member[i] \subseteq MembersOf[bundle[i].set]
        /\ bin[i] \in {NoSet, bundle[i].set}

(* bundle_save inserts a fresh row and populates its members, or reuses the *)
(* row: either way the id it returns is that of a bundle with the members   *)
(* that were saved.  Stated of the instant it returns.                      *)
SaveStoresMembers ==
    [][\A p \in Procs :
         ret'[p].how = "saved" /\ ret[p].how # "saved" =>
            LET i == ret'[p].id IN
            bundle'[i].set = ret'[p].set /\ member'[i] = MembersOf[ret'[p].set]]_vars

(* A launch by name runs the extensions of the set the name stands for, no  *)
(* more and no fewer, from a baked binary or one by one.                    *)
LaunchRunsTheSet ==
    \A p \in Procs : ret[p].how = "ran" => ret[p].got = MembersOf[ret[p].set]
=============================================================================
