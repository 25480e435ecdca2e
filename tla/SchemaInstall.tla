--------------------------- MODULE SchemaInstall ----------------------------
(***************************************************************************)
(* Opening the shared cache database (SqliteCasStore::open_external): every *)
(* process brings the schema up to date before it uses the file.  Several   *)
(* may do so at once, on a file of any age.                                 *)
(*                                                                         *)
(* A batch BEGIN ... COMMIT is one step: it takes effect as a whole, or it  *)
(* is refused by SQLite's locks, or one of its statements fails, and then   *)
(* the transaction it began stays open.  Reading the version is a step of   *)
(* its own, before the batch it selects.                                    *)
(***************************************************************************)
EXTENDS Naturals, FiniteSets

CONSTANTS
    Openers,        \* the processes that open the file
    Starts,         \* the versions the file may have to begin with
    MaxAttempts     \* retries of open_external (60 in the code)

SCHEMA_VERSION == 4
Versions == 0..5            \* 0: no version row; 5: written by newer code

ASSUME InstallAssumption == Starts \subseteq Versions /\ MaxAttempts \in Nat

VARIABLES
    file,       \* the schema and what the bundle tables hold
    pc,         \* pc[p]: the step p is at
    observed,   \* observed[p]: the version p read
    attempt,    \* attempt[p]: retries made
    err,        \* err[p]: why the current attempt failed
    intxn       \* the processes whose connection is inside a transaction

schemaVars == <<file, pc, observed, attempt, err, intxn>>
local == <<observed, attempt>>

(* sha: __cas_artifact has the column.  bundle: the shape of __cas_bundle   *)
(* (v3 has name UNIQUE).  alias: __cas_bundle_alias exists.  The rest is    *)
(* one named bundle saved by an earlier version: its member rows and its    *)
(* alias row.                                                               *)
Files == [ver : Versions, sha : BOOLEAN, bundle : {"none", "v3", "v4"},
          alias : BOOLEAN, saved : BOOLEAN, members : BOOLEAN, aliasRow : BOOLEAN]

FileOf(v) == [ver |-> v, sha |-> v >= 2,
              bundle |-> IF v >= 4 THEN "v4" ELSE IF v = 3 THEN "v3" ELSE "none",
              alias |-> v >= 4, saved |-> v >= 3, members |-> v >= 3,
              aliasRow |-> v >= 4]

(* What each batch makes of file f.  The ladder's batches set the version   *)
(* row they find; INSTALL_SCHEMA creates what is missing.  MIGRATE_V3_TO_V4 *)
(* copies the names to the alias table, then copies, drops and replaces     *)
(* __cas_bundle; foreign_keys is on, so DROP TABLE first deletes its rows,  *)
(* and the three ON DELETE CASCADE take the member, binary and alias rows.  *)
MIGRATE_V1_TO_V2(f) ==
    [ver |-> 2, sha |-> TRUE, bundle |-> f.bundle, alias |-> f.alias,
     saved |-> f.saved, members |-> f.members, aliasRow |-> f.aliasRow]
MIGRATE_V2_TO_V3(f) ==
    [ver |-> 3, sha |-> f.sha, bundle |-> IF f.bundle = "none" THEN "v3" ELSE f.bundle,
     alias |-> f.alias, saved |-> f.saved, members |-> f.members,
     aliasRow |-> f.aliasRow]
MIGRATE_V3_TO_V4(f) ==
    [ver |-> 4, sha |-> f.sha, bundle |-> "v4", alias |-> TRUE,
     saved |-> f.saved, members |-> FALSE, aliasRow |-> FALSE]
INSTALL_SCHEMA(f) ==
    [ver |-> 4, sha |-> TRUE, bundle |-> IF f.bundle = "none" THEN "v4" ELSE f.bundle,
     alias |-> TRUE, saved |-> f.saved, members |-> f.members,
     aliasRow |-> f.aliasRow]

Running == {"bootstrap", "read", "migrate", "install"}
Ended == {"open", "busy", "error", "killed"}

SchemaInit ==
    /\ file \in {FileOf(v) : v \in Starts}
    /\ pc = [p \in Openers |-> "closed"]
    /\ observed = [p \in Openers |-> 0]
    /\ attempt = [p \in Openers |-> 0]
    /\ err = [p \in Openers |-> "none"]
    /\ intxn = {}
-----------------------------------------------------------------------------
MoveTo(p, l) == pc' = [pc EXCEPT ![p] = l]

(* A statement of p fails; began: it was inside the batch's transaction.    *)
Fails(p, why, began) ==
    /\ err' = [err EXCEPT ![p] = why]
    /\ intxn' = IF began THEN intxn \cup {p} ELSE intxn
    /\ MoveTo(p, "failed")
    /\ UNCHANGED <<file, local>>

(* SQLite may refuse a write with "database is locked" while another        *)
(* process is at work on the file.                                          *)
Contended(p) == \E q \in Openers \ {p} : pc[q] \in Running

(* A batch: BEGIN inside a transaction is an error.                         *)
Batch(p, f, next) ==
    /\ p \notin intxn
    /\ file' = f
    /\ MoveTo(p, next)
    /\ UNCHANGED <<local, err, intxn>>

NestedBegin(p) == p \in intxn /\ Fails(p, "error", TRUE)
Refused(p) == Contended(p) /\ p \notin intxn /\ Fails(p, "busy", TRUE)

open(p) ==
    /\ pc[p] = "closed"
    /\ MoveTo(p, "bootstrap")
    /\ UNCHANGED <<file, local, err, intxn>>

(* The process is killed; SQLite undoes its unfinished transaction.         *)
Killed(p) ==
    /\ pc[p] \in Running \cup {"failed"}
    /\ MoveTo(p, "killed")
    /\ intxn' = intxn \ {p}
    /\ UNCHANGED <<file, local, err>>

(* The PRAGMAs, of which none is fatal, and CREATE TABLE ... __cas_meta.    *)
bootstrap(p) ==
    /\ pc[p] = "bootstrap"
    /\ \/ /\ MoveTo(p, "read")
          /\ UNCHANGED <<file, local, err, intxn>>
       \/ Contended(p) /\ Fails(p, "busy", FALSE)

(* try_read_schema_version, and the test of the migration loop.             *)
read_schema_version(p) ==
    /\ pc[p] = "read"
    /\ \/ /\ file.ver \in {0, SCHEMA_VERSION}
          /\ observed' = [observed EXCEPT ![p] = file.ver]
          /\ MoveTo(p, "install")
          /\ UNCHANGED <<file, attempt, err, intxn>>
       \/ /\ file.ver \in {1, 2, 3}
          /\ observed' = [observed EXCEPT ![p] = file.ver]
          /\ MoveTo(p, "migrate")
          /\ UNCHANGED <<file, attempt, err, intxn>>
       \/ file.ver > SCHEMA_VERSION /\ Fails(p, "error", FALSE)

(* MIGRATE_V1_TO_V2: ALTER TABLE ADD COLUMN fails if the column is there.   *)
migrate_v1_to_v2(p) ==
    /\ pc[p] = "migrate" /\ observed[p] = 1
    /\ \/ ~file.sha /\ Batch(p, MIGRATE_V1_TO_V2(file), "read")
       \/ file.sha /\ p \notin intxn /\ Fails(p, "error", TRUE)
       \/ NestedBegin(p) \/ Refused(p)

(* MUTANT of migrate_v2_to_v3: the version row is set to '4'.               *)
migrate_v2_to_v3_skips(p) ==
    /\ pc[p] = "migrate" /\ observed[p] = 2
    /\ Batch(p, [file EXCEPT !.bundle = IF @ = "none" THEN "v3" ELSE @, !.ver = 4],
             "read")

migrate_v2_to_v3(p) ==
    /\ pc[p] = "migrate" /\ observed[p] = 2
    /\ \/ Batch(p, MIGRATE_V2_TO_V3(file), "read")
       \/ NestedBegin(p) \/ Refused(p)

migrate_v3_to_v4(p) ==
    /\ pc[p] = "migrate" /\ observed[p] = 3
    /\ \/ Batch(p, MIGRATE_V3_TO_V4(file), "read")
       \/ NestedBegin(p) \/ Refused(p)

(* INSTALL_SCHEMA's index on sha256 needs the column.                                    *)
install(p) ==
    /\ pc[p] = "install"
    /\ \/ (file.sha \/ file.ver = 0) /\ Batch(p, INSTALL_SCHEMA(file), "open")
       \/ ~file.sha /\ file.ver # 0 /\ p \notin intxn /\ Fails(p, "error", TRUE)
       \/ NestedBegin(p) \/ Refused(p)

(* MUTANT of retry: the transaction the failed batch began is not ended.    *)
retry_without_rollback(p) ==
    /\ pc[p] = "failed"
    /\ IF attempt[p] < MaxAttempts /\ err[p] = "busy"
       THEN MoveTo(p, "bootstrap") /\ attempt' = [attempt EXCEPT ![p] = @ + 1]
       ELSE MoveTo(p, err[p]) /\ UNCHANGED attempt
    /\ UNCHANGED <<file, observed, err, intxn>>

(* MUTANT of retry: attempts are not counted.                               *)
retry_uncounted(p) ==
    /\ pc[p] = "failed"
    /\ intxn' = intxn \ {p}
    /\ MoveTo(p, IF err[p] = "busy" THEN "bootstrap" ELSE "error")
    /\ UNCHANGED <<file, local, err>>

(* The loop of open_external: ROLLBACK, then again or give up.              *)
retry(p) ==
    /\ pc[p] = "failed"
    /\ intxn' = intxn \ {p}
    /\ IF attempt[p] < MaxAttempts /\ err[p] = "busy"
       THEN MoveTo(p, "bootstrap") /\ attempt' = [attempt EXCEPT ![p] = @ + 1]
       ELSE MoveTo(p, err[p]) /\ UNCHANGED attempt
    /\ UNCHANGED <<file, observed, err>>

OpenerStep(p) ==
    \/ bootstrap(p) \/ read_schema_version(p) \/ migrate_v1_to_v2(p)
    \/ migrate_v2_to_v3(p) \/ migrate_v3_to_v4(p) \/ install(p) \/ retry(p)

SchemaNext == \E p \in Openers : open(p) \/ Killed(p) \/ OpenerStep(p)

(* Nothing in an opener waits for another one: its steps are always taken.  *)
SchemaSpec ==
    /\ SchemaInit /\ [][SchemaNext]_schemaVars
    /\ \A p \in Openers : WF_schemaVars(OpenerStep(p))
-----------------------------------------------------------------------------
(* Every variable keeps to its type. *)
InstallTypeOK ==
    /\ file \in Files
    /\ pc \in [Openers -> Running \cup Ended \cup {"closed", "failed"}]
    /\ observed \in [Openers -> 0..4]
    /\ attempt \in [Openers -> 0..MaxAttempts]
    /\ err \in [Openers -> {"none", "busy", "error"}]
    /\ intxn \subseteq Openers

(* From the moment an opener has returned, every table and column the SQL   *)
(* of the crate names is there, in the shape of the current version, also   *)
(* while slower openers still migrate or are killed doing so.               *)
OpenHasSchema ==
    (\E p \in Openers : pc[p] = "open") =>
        file.sha /\ file.bundle = "v4" /\ file.alias

(* Parallel openers succeed: none is turned away with an error other than   *)
(* lock contention that outlasted every retry, unless the file was written  *)
(* by newer code, or is so old that its openers add the sha256 column.      *)
OpenersSucceed ==
    \A p \in Openers : pc[p] = "error" => file.ver > SCHEMA_VERSION \/ observed[p] = 1

(* A file of newer code is left as it is, and the version is taken back by  *)
(* nobody but an opener that had read version 2 before another migrated.    *)
OnlyV2Lowers ==
    [][file'.ver < file.ver =>
         \E p \in Openers : pc[p] = "migrate" /\ observed[p] = 2]_schemaVars

(* The bundle a v3 file holds is still known by its name, with its members, *)
(* once the file is v4: names are copied to the alias table.                *)
MigrationKeepsBundles ==
    file.ver = 4 /\ file.saved => file.aliasRow /\ file.members

(* Every opener ends: with the file open, with an error, or killed.         *)
OpenersFinish ==
    \A p \in Openers : pc[p] = "bootstrap" ~> pc[p] \in Ended
=============================================================================
