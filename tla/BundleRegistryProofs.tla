------------------------ MODULE BundleRegistryProofs ------------------------
(***************************************************************************)
(* Proofs about the bundle side of the cache database.  First the opening   *)
(* of the file, for any number of openers and retries and files of any age: *)
(* InstallInv.  Then the bundle tables, for any number of processes, names, *)
(* sets and row ids: RegistryInv for all processes together, AdditiveInv    *)
(* while nothing is deleted, AloneInv for a process that works alone.       *)
(***************************************************************************)
EXTENDS SchemaInstall, BundleAlone, TLAPS

(* What an opener knows of the file at each of its steps, whatever the      *)
(* others did since it read the version.                                    *)
ColumnThere == \A p \in Openers : pc[p] = "migrate" /\ observed[p] # 1 => file.sha
FreshOrCurrent ==
    \A p \in Openers : pc[p] = "install" /\ observed[p] = 0 =>
        /\ file.ver \in {0, 4} /\ file.bundle # "v3"
        /\ \A q \in Openers : pc[q] # "migrate"
CurrentIsComplete ==
    \A p \in Openers : pc[p] = "install" /\ observed[p] = 4 =>
        file.sha /\ file.bundle = "v4" /\ file.alias

(* What the version row says of the tables. *)
VersionIsTrue ==
    /\ file.ver >= 2 => file.sha
    /\ file.ver >= 4 => file.bundle = "v4" /\ file.alias
    /\ file.ver = 0 => /\ file.bundle = "none"
                       /\ \A q \in Openers : pc[q] # "migrate"

(* The control state: a version read is one that leads on, a failure has a  *)
(* reason, and only a failed attempt is inside a transaction.               *)
Control ==
    /\ \A p \in Openers : pc[p] = "migrate" => observed[p] \in {1, 2, 3}
    /\ \A p \in Openers : pc[p] = "install" => observed[p] \in {0, 4}
    /\ \A p \in Openers : pc[p] = "failed" => err[p] # "none"
    /\ \A p \in intxn : pc[p] = "failed"

(* A file of newer code is nobody's to change. *)
NewerUntouched ==
    file.ver = 5 => \A p \in Openers : pc[p] \notin {"migrate", "install"}

InstallInv == /\ InstallTypeOK /\ Control /\ ColumnThere /\ FreshOrCurrent
              /\ CurrentIsComplete /\ VersionIsTrue /\ NewerUntouched
              /\ OpenHasSchema

(* Every file a process may find satisfies the invariant. *)
LEMMA InstallInit == SchemaInit => InstallInv
<1> SUFFICES ASSUME SchemaInit PROVE InstallInv
  OBVIOUS
<1>1. PICK v \in Starts : file = FileOf(v)
  BY DEF SchemaInit
<1>2. v \in 0..5
  BY <1>1, InstallAssumption DEF Versions
<1>3. /\ file \in Files /\ file.ver = v /\ (v >= 2 => file.sha)
      /\ v >= 4 => file.bundle = "v4" /\ file.alias
      /\ v = 0 => file.bundle = "none"
  <2> DEFINE b2 == v >= 2  b3 == v >= 3  b4 == v >= 4
             t == IF b4 THEN "v4" ELSE IF v = 3 THEN "v3" ELSE "none"
  <2>1. /\ b2 \in BOOLEAN /\ b3 \in BOOLEAN /\ b4 \in BOOLEAN
        /\ t \in {"none", "v3", "v4"} /\ (b4 => t = "v4") /\ (v = 0 => t = "none")
    BY <1>2
  <2>2. file = [ver |-> v, sha |-> b2, bundle |-> t, alias |-> b4, saved |-> b3,
                members |-> b3, aliasRow |-> b4]
    BY <1>1 DEF FileOf
  <2>3. v \in Versions
    BY <1>2 DEF Versions
  <2> HIDE DEF b2, b3, b4, t
  <2>4. file \in Files
    BY <2>1, <2>2, <2>3 DEF Files
  <2>5. /\ file.ver = v /\ (b2 => file.sha) /\ (v = 0 => file.bundle = "none")
        /\ b4 => file.bundle = "v4" /\ file.alias
    BY <2>1, <2>2
  <2> QED  BY <2>4, <2>5 DEF b2, b4
<1> QED
  BY <1>2, <1>3, InstallAssumption DEF SchemaInit, InstallInv, InstallTypeOK, Control,
     ColumnThere, FreshOrCurrent, CurrentIsComplete, VersionIsTrue, NewerUntouched,
     OpenHasSchema

(* A step in which a batch of p takes effect. *)
LEMMA BatchKeepsInv ==
    ASSUME InstallInv, NEW p \in Openers, NEW f \in Files,
           NEW l \in {"read", "open"}, pc[p] \in {"migrate", "install"},
           Batch(p, f, l),
           f.sha, f.ver \in {2, 3, 4}, f.ver = 4 => f.bundle = "v4" /\ f.alias,
           file.ver # 5,
           file.bundle = "v4" => f.bundle = "v4", file.alias => f.alias,
           l = "open" => f.ver = 4,
           (\E q \in Openers : q # p /\ pc[q] = "install" /\ observed[q] = 0) => f.ver = 4
    PROVE  InstallInv'
<1> USE DEF InstallInv, Batch, MoveTo, local
<1>1. InstallTypeOK'
  BY DEF InstallTypeOK, Ended, Running
<1>2. Control'
  BY DEF InstallTypeOK, Control
<1>3. ColumnThere' /\ CurrentIsComplete'
  BY DEF InstallTypeOK, ColumnThere, CurrentIsComplete
<1>4. FreshOrCurrent'
  BY DEF InstallTypeOK, FreshOrCurrent
<1>5. VersionIsTrue' /\ NewerUntouched'
  BY DEF InstallTypeOK, VersionIsTrue, NewerUntouched
<1>6. OpenHasSchema'
  BY DEF InstallTypeOK, OpenHasSchema
<1> QED  BY <1>1, <1>2, <1>3, <1>4, <1>5, <1>6

(* A step in which an attempt of p fails. *)
LEMMA FailsKeepsInv ==
    ASSUME InstallInv, NEW p \in Openers, NEW why \in {"busy", "error"},
           NEW b \in BOOLEAN, Fails(p, why, b)
    PROVE  InstallInv'
BY DEF InstallInv, Fails, MoveTo, local, InstallTypeOK, Control, ColumnThere,
   FreshOrCurrent, CurrentIsComplete, VersionIsTrue, NewerUntouched,
   OpenHasSchema, Running, Ended

(* A refused batch, and a BEGIN inside a transaction, only fail. *)
LEMMA RefusalKeepsInv ==
    ASSUME InstallInv, NEW p \in Openers, NestedBegin(p) \/ Refused(p)
    PROVE  InstallInv'
BY FailsKeepsInv DEF NestedBegin, Refused

(* Steps of p that change neither the file nor what others know of it. *)
LEMMA QuietKeepsInv ==
    ASSUME InstallInv, NEW p \in Openers, NEW l \in {"killed", "bootstrap", "read", "busy", "error"},
           MoveTo(p, l), UNCHANGED <<file, observed, err>>,
           attempt' \in [Openers -> 0..MaxAttempts],
           intxn' \subseteq intxn, p \notin intxn'
    PROVE  InstallInv'
<1> USE DEF InstallInv, MoveTo, InstallTypeOK
<1>1. InstallTypeOK' /\ Control'
  BY DEF Control, Running, Ended
<1>2. ColumnThere' /\ CurrentIsComplete' /\ FreshOrCurrent'
  BY DEF ColumnThere, CurrentIsComplete, FreshOrCurrent
<1>3. VersionIsTrue' /\ NewerUntouched' /\ OpenHasSchema'
  BY DEF VersionIsTrue, NewerUntouched, OpenHasSchema
<1> QED  BY <1>1, <1>2, <1>3

(* Opening, being killed, the bootstrap and the retry loop. *)
LEMMA ControlKeepsInv ==
    ASSUME InstallInv, NEW p \in Openers,
           open(p) \/ Killed(p) \/ bootstrap(p) \/ retry(p)
    PROVE  InstallInv'
<1> attempt \in [Openers -> 0..MaxAttempts]
  BY DEF InstallInv, InstallTypeOK
<1>1. CASE open(p)
  <2>1. p \notin intxn
    BY <1>1 DEF open, InstallInv, Control
  <2> QED  BY <1>1, <2>1, QuietKeepsInv DEF open, local
<1>2. CASE Killed(p)
  BY <1>2, QuietKeepsInv DEF Killed, local
<1>3. CASE bootstrap(p)
  <2>1. p \notin intxn
    BY <1>3 DEF bootstrap, InstallInv, Control
  <2> QED  BY <1>3, <2>1, QuietKeepsInv, FailsKeepsInv DEF bootstrap, local
<1>4. CASE retry(p)
  <2>1. err[p] \in {"busy", "error"}
    BY <1>4 DEF retry, InstallInv, InstallTypeOK, Control
  <2>2. attempt' \in [Openers -> 0..MaxAttempts]
    BY <1>4, InstallAssumption DEF retry
  <2> QED  BY <1>4, <2>1, <2>2, QuietKeepsInv DEF retry
<1> QED  BY <1>1, <1>2, <1>3, <1>4

(* Reading the version. *)
LEMMA ReadKeepsInv ==
    ASSUME InstallInv, NEW p \in Openers, read_schema_version(p)
    PROVE  InstallInv'
<1>1. CASE Fails(p, "error", FALSE)
  BY <1>1, FailsKeepsInv
<1>2. ASSUME NEW l \in {"install", "migrate"}, pc[p] = "read", MoveTo(p, l),
             file.ver \in {0, 1, 2, 3, 4},
             file.ver \in IF l = "install" THEN {0, 4} ELSE {1, 2, 3},
             observed' = [observed EXCEPT ![p] = file.ver],
             UNCHANGED <<file, attempt, err, intxn>>
      PROVE  InstallInv'
  <2> USE <1>2 DEF InstallInv, InstallTypeOK, MoveTo
  <2>1. InstallTypeOK' /\ Control'
    BY DEF Control, Running
  <2>2. ColumnThere' /\ CurrentIsComplete'
    BY DEF ColumnThere, CurrentIsComplete, VersionIsTrue
  <2>3. FreshOrCurrent'
    <3> SUFFICES ASSUME NEW q \in Openers, pc'[q] = "install", observed'[q] = 0
                 PROVE  /\ file.ver \in {0, 4} /\ file.bundle # "v3"
                        /\ \A r \in Openers : pc'[r] # "migrate"
      BY DEF FreshOrCurrent
    <3>1. CASE q = p
      BY <3>1 DEF VersionIsTrue
    <3>2. CASE q # p
      BY <3>2 DEF FreshOrCurrent
    <3> QED  BY <3>1, <3>2
  <2>4. VersionIsTrue' /\ NewerUntouched'
    BY DEF VersionIsTrue, NewerUntouched
  <2>5. OpenHasSchema'
    BY DEF OpenHasSchema
  <2> QED  BY <2>1, <2>2, <2>3, <2>4, <2>5
<1>3. CASE file.ver \in {0, 4}
  <2>1. /\ pc[p] = "read" /\ MoveTo(p, "install") /\ observed' = [observed EXCEPT ![p] = file.ver]
        /\ UNCHANGED <<file, attempt, err, intxn>>
    BY <1>3 DEF read_schema_version, SCHEMA_VERSION, MoveTo, Fails
  <2>2. file.ver \in {0, 1, 2, 3, 4}
    BY <1>3
  <2> QED  BY <1>2, <1>3, <2>1, <2>2
<1>4. CASE file.ver \in {1, 2, 3}
  <2>1. /\ pc[p] = "read" /\ MoveTo(p, "migrate") /\ observed' = [observed EXCEPT ![p] = file.ver]
        /\ UNCHANGED <<file, attempt, err, intxn>>
    BY <1>4 DEF read_schema_version, SCHEMA_VERSION, MoveTo, Fails
  <2>2. file.ver \in {0, 1, 2, 3, 4}
    BY <1>4
  <2> QED  BY <1>2, <1>4, <2>1, <2>2
<1>5. file.ver \in 0..5
  BY DEF InstallInv, InstallTypeOK, Files, Versions
<1>6. CASE file.ver = 5
  BY <1>1, <1>6 DEF read_schema_version, SCHEMA_VERSION
<1> QED  BY <1>3, <1>4, <1>5, <1>6

(* What the batches make of a file. *)
LEMMA BatchResults ==
    ASSUME NEW f \in Files
    PROVE  /\ /\ MIGRATE_V1_TO_V2(f) \in Files /\ MIGRATE_V1_TO_V2(f).sha
              /\ MIGRATE_V1_TO_V2(f).ver = 2 /\ MIGRATE_V1_TO_V2(f).bundle = f.bundle
              /\ MIGRATE_V1_TO_V2(f).alias = f.alias
           /\ /\ MIGRATE_V2_TO_V3(f) \in Files /\ MIGRATE_V2_TO_V3(f).sha = f.sha
              /\ MIGRATE_V2_TO_V3(f).ver = 3 /\ MIGRATE_V2_TO_V3(f).alias = f.alias
              /\ f.bundle = "v4" => MIGRATE_V2_TO_V3(f).bundle = "v4"
           /\ /\ MIGRATE_V3_TO_V4(f) \in Files /\ MIGRATE_V3_TO_V4(f).sha = f.sha
              /\ MIGRATE_V3_TO_V4(f).ver = 4 /\ MIGRATE_V3_TO_V4(f).alias
              /\ MIGRATE_V3_TO_V4(f).bundle = "v4"
           /\ /\ INSTALL_SCHEMA(f) \in Files /\ INSTALL_SCHEMA(f).sha
              /\ INSTALL_SCHEMA(f).ver = 4 /\ INSTALL_SCHEMA(f).alias
              /\ f.bundle # "v3" => INSTALL_SCHEMA(f).bundle = "v4"
BY DEF MIGRATE_V1_TO_V2, MIGRATE_V2_TO_V3, MIGRATE_V3_TO_V4, INSTALL_SCHEMA, Files,
   Versions

(* Who is at a migration found no fresh file, and nobody who did is left.   *)
LEMMA MigrateAlone ==
    ASSUME InstallInv, NEW p \in Openers, pc[p] = "migrate"
    PROVE  /\ file.ver \in 1..4
           /\ \A q \in Openers : ~(pc[q] = "install" /\ observed[q] = 0)
BY DEF InstallInv, InstallTypeOK, VersionIsTrue, NewerUntouched, FreshOrCurrent,
   Files, Versions

(* The three migrations and INSTALL_SCHEMA. *)
LEMMA WriteKeepsInv ==
    ASSUME InstallInv, NEW p \in Openers,
           \/ migrate_v1_to_v2(p) \/ migrate_v2_to_v3(p) \/ migrate_v3_to_v4(p)
           \/ install(p)
    PROVE  InstallInv'
<1> file \in Files  BY DEF InstallInv, InstallTypeOK
<1>1. CASE migrate_v1_to_v2(p)
  <2>1. CASE pc[p] = "migrate" /\ Batch(p, MIGRATE_V1_TO_V2(file), "read")
    BY <2>1, BatchKeepsInv, BatchResults, MigrateAlone
  <2> QED  BY <1>1, <2>1, FailsKeepsInv, RefusalKeepsInv DEF migrate_v1_to_v2
<1>2. CASE migrate_v2_to_v3(p)
  <2>1. CASE /\ pc[p] = "migrate" /\ observed[p] = 2
             /\ Batch(p, MIGRATE_V2_TO_V3(file), "read")
    <3>1. file.sha
      BY <2>1 DEF InstallInv, ColumnThere
    <3> QED
      BY <2>1, <3>1, BatchKeepsInv, BatchResults, MigrateAlone
  <2> QED  BY <1>2, <2>1, RefusalKeepsInv DEF migrate_v2_to_v3
<1>3. CASE migrate_v3_to_v4(p)
  <2>1. CASE /\ pc[p] = "migrate" /\ observed[p] = 3
             /\ Batch(p, MIGRATE_V3_TO_V4(file), "read")
    <3>1. file.sha
      BY <2>1 DEF InstallInv, ColumnThere
    <3> QED
      BY <2>1, <3>1, BatchKeepsInv, BatchResults, MigrateAlone
  <2> QED  BY <1>3, <2>1, RefusalKeepsInv DEF migrate_v3_to_v4
<1>4. CASE install(p)
  <2>1. CASE pc[p] = "install" /\ Batch(p, INSTALL_SCHEMA(file), "open")
    <3>1. file.bundle # "v3"
      BY <2>1 DEF InstallInv, Control, FreshOrCurrent, CurrentIsComplete
    <3>2. file.ver # 5
      BY <2>1 DEF InstallInv, NewerUntouched
    <3> QED
      BY <2>1, <3>1, <3>2, BatchKeepsInv, BatchResults
  <2> QED  BY <1>4, <2>1, FailsKeepsInv, RefusalKeepsInv DEF install
<1> QED  BY <1>1, <1>2, <1>3, <1>4

(* The invariant is inductive. *)
LEMMA InstallNext == InstallInv /\ [SchemaNext]_schemaVars => InstallInv'
<1> SUFFICES ASSUME InstallInv, [SchemaNext]_schemaVars PROVE InstallInv'
  OBVIOUS
<1>1. CASE UNCHANGED schemaVars
  BY <1>1 DEF schemaVars, InstallInv, InstallTypeOK, Control, ColumnThere, FreshOrCurrent,
     CurrentIsComplete, VersionIsTrue, NewerUntouched, OpenHasSchema
<1>2. ASSUME NEW p \in Openers, open(p) \/ Killed(p) \/ OpenerStep(p) PROVE InstallInv'
  BY <1>2, ControlKeepsInv, ReadKeepsInv, WriteKeepsInv DEF OpenerStep
<1> QED  BY <1>1, <1>2 DEF SchemaNext

(* What holds of every opener of every file.  *)
THEOREM InstallInvHolds == SchemaSpec => []InstallInv
BY InstallInit, InstallNext, PTL DEF SchemaSpec

(* The variables keep their types; the retry loop makes MaxAttempts at most *)
(* (InstallTypeOK, the loop of open_external).                              *)
THEOREM InstallTypeCorrect == SchemaSpec => []InstallTypeOK
<1>1. InstallInv => InstallTypeOK  BY DEF InstallInv
<1> QED  BY <1>1, InstallInvHolds, PTL

(* Once one opener has returned, the file has the current schema, whatever  *)
(* its age was and whoever still migrates it (OpenHasSchema).               *)
THEOREM OpenHasSchemaHolds == SchemaSpec => []OpenHasSchema
<1>1. InstallInv => OpenHasSchema  BY DEF InstallInv
<1> QED  BY <1>1, InstallInvHolds, PTL
-----------------------------------------------------------------------------
(* An error that is not lock contention is about a newer file, or that of   *)
(* an opener that read version 1.                                           *)
ErrorsAreOfEnds ==
    \A p \in Openers : (pc[p] = "failed" /\ err[p] = "error") \/ pc[p] = "error"
        => file.ver = 5 \/ observed[p] = 1

(* A step of p keeps ErrorsAreOfEnds. *)
LEMMA ErrorsAreOfEndsStep ==
    ASSUME InstallInv, ErrorsAreOfEnds, NEW p \in Openers,
           open(p) \/ Killed(p) \/ OpenerStep(p)
    PROVE  ErrorsAreOfEnds'
<1> /\ file \in Files /\ file.ver \in 0..5
    /\ pc \in [Openers -> Running \cup Ended \cup {"closed", "failed"}]
  BY DEF InstallInv, InstallTypeOK, Files, Versions
<1> observed \in [Openers -> 0..4] /\ err \in [Openers -> {"none", "busy", "error"}]
  BY DEF InstallInv, InstallTypeOK
<1>1. CASE open(p) \/ Killed(p) \/ bootstrap(p) \/ retry(p)
  BY <1>1 DEF open, Killed, bootstrap, retry, Fails, MoveTo, local, ErrorsAreOfEnds
<1>2. CASE read_schema_version(p)
  BY <1>2 DEF read_schema_version, Fails, MoveTo, local, ErrorsAreOfEnds, SCHEMA_VERSION
<1>3. ASSUME NestedBegin(p) \/ Refused(p), pc[p] \in {"migrate", "install"}
      PROVE  ErrorsAreOfEnds'
  <2>1. p \notin intxn
    BY <1>3 DEF InstallInv, Control
  <2> QED  BY <1>3, <2>1 DEF NestedBegin, Refused, Fails, MoveTo, local, ErrorsAreOfEnds
<1>4. ASSUME NEW f \in Files, NEW l \in {"read", "open"}, Batch(p, f, l),
             pc[p] \in {"migrate", "install"}
      PROVE  ErrorsAreOfEnds'
  <2>1. file.ver # 5
    BY <1>4 DEF InstallInv, NewerUntouched
  <2> QED  BY <1>4, <2>1 DEF Batch, MoveTo, local, ErrorsAreOfEnds
<1>5. CASE migrate_v1_to_v2(p)
  <2>1. CASE observed[p] = 1 /\ Fails(p, "error", TRUE)
    BY <2>1 DEF Fails, MoveTo, local, ErrorsAreOfEnds
  <2> QED  BY <1>3, <1>4, <1>5, <2>1, BatchResults DEF migrate_v1_to_v2
<1>6. CASE migrate_v2_to_v3(p)
  BY <1>3, <1>4, <1>6, BatchResults DEF migrate_v2_to_v3
<1>7. CASE migrate_v3_to_v4(p)
  BY <1>3, <1>4, <1>7, BatchResults DEF migrate_v3_to_v4
<1>8. CASE install(p)
  <2>1. file.sha \/ file.ver = 0
    BY <1>8 DEF install, InstallInv, Control, CurrentIsComplete, FreshOrCurrent, VersionIsTrue
  <2> QED  BY <1>3, <1>4, <1>8, <2>1, BatchResults DEF install
<1> QED  BY <1>1, <1>2, <1>5, <1>6, <1>7, <1>8 DEF OpenerStep

(* However many open at once, no opener fails with anything but lock        *)
(* contention unless the file is newer, or it read version 1                *)
(* (OpenersSucceed, the promise above the loop of open_external).           *)
THEOREM OpenersSucceedHolds == SchemaSpec => []OpenersSucceed
<1>1. SchemaInit => ErrorsAreOfEnds
  BY DEF SchemaInit, ErrorsAreOfEnds
<1>2. InstallInv /\ ErrorsAreOfEnds /\ [SchemaNext]_schemaVars => ErrorsAreOfEnds'
  <2>1. ASSUME UNCHANGED schemaVars, ErrorsAreOfEnds PROVE ErrorsAreOfEnds'
    BY <2>1 DEF schemaVars, ErrorsAreOfEnds
  <2> QED  BY <2>1, ErrorsAreOfEndsStep DEF SchemaNext
<1>3. ErrorsAreOfEnds => OpenersSucceed
  BY DEF ErrorsAreOfEnds, OpenersSucceed, SCHEMA_VERSION
<1> QED  BY <1>1, <1>2, <1>3, InstallInvHolds, PTL DEF SchemaSpec
-----------------------------------------------------------------------------
(* A step of p that lowers the version is MIGRATE_V2_TO_V3. *)
LEMMA LoweringStep ==
    ASSUME InstallInv, NEW p \in Openers, open(p) \/ Killed(p) \/ OpenerStep(p),
           file'.ver < file.ver
    PROVE  pc[p] = "migrate" /\ observed[p] = 2
<1> file \in Files /\ file.ver \in 0..5
  BY DEF InstallInv, InstallTypeOK, Files, Versions
<1>1. UNCHANGED file => FALSE
  OBVIOUS
<1>2. ~(open(p) \/ Killed(p) \/ bootstrap(p) \/ retry(p) \/ read_schema_version(p))
  BY <1>1 DEF open, Killed, bootstrap, retry, read_schema_version, Fails
<1>3. ~NestedBegin(p) /\ ~Refused(p) /\ ~Fails(p, "error", TRUE)
  BY <1>1 DEF NestedBegin, Refused, Fails
<1>4. ASSUME NEW f, NEW l, Batch(p, f, l) PROVE file' = f
  BY <1>4 DEF Batch
<1>5. ~migrate_v1_to_v2(p)
  <2> SUFFICES ASSUME pc[p] = "migrate", ~file.sha,
                      Batch(p, MIGRATE_V1_TO_V2(file), "read") PROVE FALSE
    BY <1>3 DEF migrate_v1_to_v2
  <2>1. file'.ver = 2
    BY <1>4, BatchResults
  <2>2. file.ver < 2
    BY DEF InstallInv, VersionIsTrue
  <2> QED  BY <2>1, <2>2
<1>6. ~migrate_v3_to_v4(p)
  <2> SUFFICES ASSUME pc[p] = "migrate", Batch(p, MIGRATE_V3_TO_V4(file), "read")
               PROVE FALSE
    BY <1>3 DEF migrate_v3_to_v4
  <2>1. file'.ver = 4
    BY <1>4, BatchResults
  <2> QED  BY <2>1, MigrateAlone
<1>7. ~install(p)
  <2> SUFFICES ASSUME pc[p] = "install", Batch(p, INSTALL_SCHEMA(file), "open")
               PROVE FALSE
    BY <1>3 DEF install
  <2>1. file'.ver = 4
    BY <1>4, BatchResults
  <2>2. file.ver # 5
    BY DEF InstallInv, NewerUntouched
  <2> QED  BY <2>1, <2>2
<1> QED  BY <1>2, <1>5, <1>6, <1>7 DEF OpenerStep, migrate_v2_to_v3

(* No opener changes a file of newer code or takes the version of any file  *)
(* back, except one that read version 2 and migrates after another did      *)
(* (OnlyV2Lowers, the version guard of install_schema).                     *)
THEOREM OnlyV2LowersHolds == SchemaSpec => OnlyV2Lowers
<1> DEFINE A == file'.ver < file.ver =>
                  \E p \in Openers : pc[p] = "migrate" /\ observed[p] = 2
<1>1. InstallInv /\ [SchemaNext]_schemaVars => [A]_schemaVars
  <2> SUFFICES ASSUME InstallInv, SchemaNext PROVE A
    OBVIOUS
  <2>1. PICK p \in Openers : open(p) \/ Killed(p) \/ OpenerStep(p)
    BY DEF SchemaNext
  <2> QED  BY <2>1, LoweringStep
<1> QED  BY <1>1, InstallInvHolds, PTL DEF SchemaSpec, OnlyV2Lowers
-----------------------------------------------------------------------------

(* The statements of bundle_save run with the set they were called with.    *)
JobOK == \A p \in Procs :
    job[p].at \in {"save_name", "save_hash", "save_insert"} => job[p].set \in Sets

RegistryInv == RegistryTypeOK /\ JobOK /\ NoOrphans

TablesTypeOK ==
    /\ bundle \in [Ids -> Row \cup {NoRow}]
    /\ member \in [Ids -> SUBSET Members]
    /\ alias \in [Names -> Ids \cup {0}]
    /\ bin \in [Ids -> Sets \cup {NoSet}]

(* A job may be set to j when j is a job and its saves know their set.      *)
GoodJob(j) ==
    /\ j \in Job
    /\ j.at \in {"save_name", "save_hash", "save_insert"} => j.set \in Sets

(* The constant records have the types of the variables they are given to. *)
LEMMA ConstantsTyped == GoodJob(Idle) /\ NoRet \in Ret
  BY DEF GoodJob, Idle, Job, Statements, NoRet, Ret

(* A step that moves one process to a good job keeps the jobs well formed.  *)
LEMMA GotoSafe ==
    ASSUME RegistryInv, NEW p \in Procs, NEW j, GoodJob(j), Goto(p, j)
    PROVE  job' \in [Procs -> Job] /\ ret' \in [Procs -> Ret] /\ JobOK'
  BY DEF RegistryInv, RegistryTypeOK, JobOK, GoodJob, Goto

(* So does the return of an operation.                                      *)
LEMMA ReturnSafe ==
    ASSUME RegistryInv, NEW p \in Procs, NEW r \in Ret, Return(p, r)
    PROVE  job' \in [Procs -> Job] /\ ret' \in [Procs -> Ret] /\ JobOK'
  BY ConstantsTyped DEF RegistryInv, RegistryTypeOK, JobOK, GoodJob, Return

(* Return codes that carry nothing but the code.                            *)
LEMMA CodeTyped ==
    ASSUME NEW h \in {"ok", "conflict", "taken", "fk", "not_found", "no_binary"}
    PROVE  [NoRet EXCEPT !.how = h] \in Ret
  BY DEF NoRet, Ret

(* An operation that ends in an error changes no table.                     *)
LEMMA FailSafe ==
    ASSUME RegistryInv, NEW p \in Procs,
           NEW h \in {"conflict", "taken", "fk", "not_found", "no_binary"}, Fail(p, h)
    PROVE  RegistryInv'
  <1>1. job' \in [Procs -> Job] /\ ret' \in [Procs -> Ret] /\ JobOK'
    BY CodeTyped, ReturnSafe DEF Fail
  <1> QED
    BY <1>1 DEF Fail, tables, RegistryInv, RegistryTypeOK, NoOrphans, Rows

(* Saving returns an id and the set that was saved.                         *)
LEMMA SavedSafe ==
    ASSUME RegistryInv, NEW p \in Procs, NEW i \in Ids \cup {0}, Saved(p, i)
    PROVE  job' \in [Procs -> Job] /\ ret' \in [Procs -> Ret] /\ JobOK'
  <1>1. [how |-> "saved", set |-> job[p].set, id |-> i, got |-> {}] \in Ret
    BY DEF RegistryInv, RegistryTypeOK, Job, Ret
  <1> QED
    BY <1>1, ReturnSafe DEF Saved

(* With the tables untouched, only the process's own state matters.         *)
LEMMA TablesSame ==
    ASSUME RegistryInv, UNCHANGED tables,
           job' \in [Procs -> Job], ret' \in [Procs -> Ret], JobOK'
    PROVE  RegistryInv'
  BY DEF tables, RegistryInv, RegistryTypeOK, NoOrphans, Rows

(* A DELETE with its cascades leaves no orphan.                             *)
LEMMA CascadeSafe ==
    ASSUME RegistryInv, NEW i \in Ids \cup {0}, DeleteCascade(i)
    PROVE  TablesTypeOK' /\ NoOrphans'
  BY DEF RegistryInv, RegistryTypeOK, TablesTypeOK, NoOrphans, Rows, DeleteCascade

(* A call starts from a good job.                                           *)
LEMMA StartSafe ==
    ASSUME RegistryInv, NEW p \in Procs, NEW w, NEW j, GoodJob(j), Start(p, w, j)
    PROVE  RegistryInv'
  <1>1. job' \in [Procs -> Job] /\ ret' \in [Procs -> Ret] /\ JobOK'
    BY ConstantsTyped
    DEF Start, RegistryInv, RegistryTypeOK, JobOK, GoodJob
  <1> QED
    BY <1>1, TablesSame DEF Start

(* Every job a call starts with is a good one.                              *)
LEMMA CallSafe ==
    ASSUME RegistryInv, NEW p \in Procs, Call(p)
    PROVE  RegistryInv'
  <1>0. \A i \in Rows : i \in Ids /\ bundle[i].set \in Sets
    BY DEF RegistryInv, RegistryTypeOK, Rows, Row, NoRow
  <1>1. CASE \E n \in Names, s \in Sets :
          Start(p, "save", [Idle EXCEPT !.at = "save_name", !.name = n, !.set = s])
    <2>1. PICK n \in Names, s \in Sets :
          Start(p, "save", [Idle EXCEPT !.at = "save_name", !.name = n, !.set = s])
      BY <1>1
    <2>2. GoodJob([Idle EXCEPT !.at = "save_name", !.name = n, !.set = s])
      BY DEF GoodJob, Idle, Job, Statements
    <2> QED BY <2>1, <2>2, StartSafe
  <1>2. CASE \E s \in Sets :
          Start(p, "save", [Idle EXCEPT !.at = "save_hash", !.set = s])
    <2>1. PICK s \in Sets : Start(p, "save", [Idle EXCEPT !.at = "save_hash", !.set = s])
      BY <1>2
    <2>2. GoodJob([Idle EXCEPT !.at = "save_hash", !.set = s])
      BY DEF GoodJob, Idle, Job, Statements
    <2> QED BY <2>1, <2>2, StartSafe
  <1>3. CASE \E n \in Names, i \in Rows :
          Start(p, "add_alias", [Idle EXCEPT !.at = "alias_find", !.name = n,
                                             !.set = bundle[i].set, !.id = i])
    <2>1. PICK n \in Names, i \in Rows :
          Start(p, "add_alias", [Idle EXCEPT !.at = "alias_find", !.name = n,
                                             !.set = bundle[i].set, !.id = i])
      BY <1>3
    <2>2. GoodJob([Idle EXCEPT !.at = "alias_find", !.name = n,
                               !.set = bundle[i].set, !.id = i])
      BY <1>0 DEF GoodJob, Idle, Job, Statements
    <2> QED BY <2>1, <2>2, StartSafe
  <1>4. CASE \E n \in Names :
          Start(p, "remove_alias", [Idle EXCEPT !.at = "remove_alias", !.name = n])
    <2>1. PICK n \in Names :
          Start(p, "remove_alias", [Idle EXCEPT !.at = "remove_alias", !.name = n])
      BY <1>4
    <2>2. GoodJob([Idle EXCEPT !.at = "remove_alias", !.name = n])
      BY DEF GoodJob, Idle, Job, Statements
    <2> QED BY <2>1, <2>2, StartSafe
  <1>5. CASE \E i \in Rows : Start(p, "delete", [Idle EXCEPT !.at = "delete", !.id = i])
    <2>1. PICK i \in Rows : Start(p, "delete", [Idle EXCEPT !.at = "delete", !.id = i])
      BY <1>5
    <2>2. GoodJob([Idle EXCEPT !.at = "delete", !.id = i])
      BY <1>0 DEF GoodJob, Idle, Job, Statements
    <2> QED BY <2>1, <2>2, StartSafe
  <1>6. CASE Start(p, "gc", [Idle EXCEPT !.at = "gc_select"])
    <2>1. GoodJob([Idle EXCEPT !.at = "gc_select"])
      BY DEF GoodJob, Idle, Job, Statements
    <2> QED BY <1>6, <2>1, StartSafe
  <1>7. CASE \E i \in Rows :
          Start(p, "record_binary", [Idle EXCEPT !.at = "record_binary",
                                                 !.set = bundle[i].set, !.id = i])
    <2>1. PICK i \in Rows :
          Start(p, "record_binary", [Idle EXCEPT !.at = "record_binary",
                                                 !.set = bundle[i].set, !.id = i])
      BY <1>7
    <2>2. GoodJob([Idle EXCEPT !.at = "record_binary", !.set = bundle[i].set, !.id = i])
      BY <1>0 DEF GoodJob, Idle, Job, Statements
    <2> QED BY <2>1, <2>2, StartSafe
  <1>8. CASE \E n \in Names : Start(p, "launch", [Idle EXCEPT !.at = "launch", !.name = n])
    <2>1. PICK n \in Names : Start(p, "launch", [Idle EXCEPT !.at = "launch", !.name = n])
      BY <1>8
    <2>2. GoodJob([Idle EXCEPT !.at = "launch", !.name = n])
      BY DEF GoodJob, Idle, Job, Statements
    <2> QED BY <2>1, <2>2, StartSafe
  <1> QED
    BY <1>1, <1>2, <1>3, <1>4, <1>5, <1>6, <1>7, <1>8 DEF Call

(* bundle_save up to its members, the alias included.                       *)
LEMMA SaveSafe ==
    ASSUME RegistryInv, NEW p \in Procs,
           \/ bundle_save_name(p) \/ bundle_save_hash(p) \/ bundle_save_insert(p)
           \/ bundle_add_alias_find(p) \/ bundle_add_alias_insert(p)
    PROVE  RegistryInv'
  <1>0. job[p] \in Job /\ job \in [Procs -> Job]
    BY DEF RegistryInv, RegistryTypeOK
  <1>1. CASE bundle_save_name(p)
    <2>1. PICK i \in Ids \cup {0} :
            \/ Goto(p, [job[p] EXCEPT !.at = "save_hash"])
            \/ Fail(p, "conflict")
            \/ Saved(p, i)
      BY <1>1 DEF bundle_save_name
    <2>2. UNCHANGED tables
      BY <1>1 DEF bundle_save_name
    <2>3. GoodJob([job[p] EXCEPT !.at = "save_hash"])
      BY <1>0, <1>1 DEF bundle_save_name, At, GoodJob, Job, Statements, RegistryInv, JobOK
    <2> QED BY <2>1, <2>2, <2>3, GotoSafe, FailSafe, SavedSafe, TablesSame
  <1>2. CASE bundle_save_hash(p)
    <2>1. PICK i \in Ids \cup {0} :
            \/ Goto(p, [job[p] EXCEPT !.at = "save_insert"])
            \/ Saved(p, i)
            \/ Goto(p, [job[p] EXCEPT !.at = "alias_find", !.id = i])
      BY <1>2 DEF bundle_save_hash
    <2>2. UNCHANGED tables
      BY <1>2 DEF bundle_save_hash
    <2>3. GoodJob([job[p] EXCEPT !.at = "save_insert"])
      BY <1>0, <1>2 DEF bundle_save_hash, At, GoodJob, Job, Statements, RegistryInv, JobOK
    <2>4. GoodJob([job[p] EXCEPT !.at = "alias_find", !.id = i])
      BY <1>0, <1>2 DEF GoodJob, Job, Statements
    <2> QED BY <2>1, <2>2, <2>3, <2>4, GotoSafe, SavedSafe, TablesSame
  <1>3. CASE bundle_save_insert(p)
    <2> DEFINE next(i) == [job[p] EXCEPT
             !.at = IF job[p].name = NoName THEN "members" ELSE "alias_find",
             !.id = i, !.todo = MembersOf[job[p].set]]
    <2>1. PICK i \in Ids :
            /\ bundle' = [bundle EXCEPT ![i] = [name |-> job[p].name, set |-> job[p].set]]
            /\ Goto(p, next(i))
      BY <1>3 DEF bundle_save_insert
    <2>2. job[p].set \in Sets
      BY <1>3 DEF bundle_save_insert, At, RegistryInv, JobOK
    <2>3. GoodJob(next(i))
      BY <1>0, <2>2, RegistryAssumption DEF GoodJob, Job, Statements
    <2>4. job' \in [Procs -> Job] /\ ret' \in [Procs -> Ret] /\ JobOK'
      BY <2>1, <2>3, GotoSafe
    <2>5. [name |-> job[p].name, set |-> job[p].set] \in Row
      BY <1>0, <2>2 DEF Job, Row
    <2>6. [name |-> job[p].name, set |-> job[p].set] # NoRow
      BY <2>2, RegistryAssumption DEF NoRow
    <2>7. UNCHANGED <<member, alias, bin>>
      BY <1>3 DEF bundle_save_insert
    <2> QED
      BY <2>1, <2>4, <2>5, <2>6, <2>7
      DEF RegistryInv, RegistryTypeOK, NoOrphans, Rows
  <1>4. CASE bundle_add_alias_find(p)
    <2>1. UNCHANGED tables
      BY <1>4 DEF bundle_add_alias_find
    <2>2. \/ Goto(p, [job[p] EXCEPT !.at = "alias_insert"])
          \/ Goto(p, [job[p] EXCEPT !.at = "members"])
          \/ Fail(p, "conflict")
      BY <1>4 DEF bundle_add_alias_find, Fail
    <2>3. GoodJob([job[p] EXCEPT !.at = "alias_insert"])
          /\ GoodJob([job[p] EXCEPT !.at = "members"])
      BY <1>0 DEF GoodJob, Job, Statements
    <2> QED BY <2>1, <2>2, <2>3, GotoSafe, FailSafe, TablesSame
  <1>5. CASE bundle_add_alias_insert(p)
    <2>1. CASE /\ job[p].id \in Rows
               /\ alias' = [alias EXCEPT ![job[p].name] = job[p].id]
               /\ Goto(p, [job[p] EXCEPT !.at = "members"])
               /\ UNCHANGED <<bundle, member, bin>>
      <3>1. GoodJob([job[p] EXCEPT !.at = "members"])
        BY <1>0 DEF GoodJob, Job, Statements
      <3>2. job' \in [Procs -> Job] /\ ret' \in [Procs -> Ret] /\ JobOK'
        BY <2>1, <3>1, GotoSafe
      <3> QED
        BY <2>1, <3>2 DEF RegistryInv, RegistryTypeOK, NoOrphans, Rows
    <2>2. CASE Fail(p, "taken") \/ Fail(p, "fk")
      BY <2>2, FailSafe
    <2> QED BY <1>5, <2>1, <2>2 DEF bundle_add_alias_insert
  <1> QED BY <1>1, <1>2, <1>3, <1>4, <1>5

(* The members of a save, the deletions, and what reads a bundle.           *)
LEMMA OtherStepsSafe ==
    ASSUME RegistryInv, NEW p \in Procs,
           \/ bundle_save_members(p) \/ bundle_remove_alias(p) \/ bundle_delete(p)
           \/ bundle_gc_select(p) \/ bundle_gc_delete(p)
           \/ bundle_record_binary(p) \/ resolve_bundle_launch(p)
    PROVE  RegistryInv'
  <1>0. job[p] \in Job /\ job \in [Procs -> Job]
    BY DEF RegistryInv, RegistryTypeOK
  <1>ok. [NoRet EXCEPT !.how = "ok"] \in Ret
    BY CodeTyped
  <1>1. CASE bundle_save_members(p)
    <2>1. CASE Saved(p, job[p].id) /\ UNCHANGED tables
      BY <1>0, <2>1, SavedSafe, TablesSame DEF Job
    <2>2. CASE \E m \in job[p].todo :
                 /\ job[p].id \in Rows
                 /\ member' = [member EXCEPT ![job[p].id] = @ \cup {m}]
                 /\ Goto(p, [job[p] EXCEPT !.todo = @ \ {m}])
                 /\ UNCHANGED <<bundle, alias, bin>>
      <3>1. PICK m \in job[p].todo :
                 /\ job[p].id \in Rows
                 /\ member' = [member EXCEPT ![job[p].id] = @ \cup {m}]
                 /\ Goto(p, [job[p] EXCEPT !.todo = @ \ {m}])
                 /\ UNCHANGED <<bundle, alias, bin>>
        BY <2>2
      <3>2. GoodJob([job[p] EXCEPT !.todo = @ \ {m}])
        BY <1>0 DEF GoodJob, Job, RegistryInv, JobOK
      <3>3. job' \in [Procs -> Job] /\ ret' \in [Procs -> Ret] /\ JobOK'
        BY <3>1, <3>2, GotoSafe
      <3>4. m \in Members
        BY <1>0 DEF Job
      <3> QED
        BY <3>1, <3>3, <3>4 DEF RegistryInv, RegistryTypeOK, NoOrphans, Rows
    <2>3. CASE Fail(p, "taken") \/ Fail(p, "fk")
      BY <2>3, FailSafe
    <2> QED BY <1>1, <2>1, <2>2, <2>3 DEF bundle_save_members
  <1>2. CASE bundle_remove_alias(p)
    <2>1. job' \in [Procs -> Job] /\ ret' \in [Procs -> Ret] /\ JobOK'
      BY <1>2, <1>ok, ReturnSafe DEF bundle_remove_alias
    <2> QED
      BY <1>2, <2>1
      DEF bundle_remove_alias, RegistryInv, RegistryTypeOK, NoOrphans, Rows
  <1>3. CASE bundle_delete(p)
    <2>1. job' \in [Procs -> Job] /\ ret' \in [Procs -> Ret] /\ JobOK'
      BY <1>3, <1>ok, ReturnSafe DEF bundle_delete
    <2>2. TablesTypeOK' /\ NoOrphans'
      BY <1>0, <1>3, CascadeSafe DEF bundle_delete, Job
    <2> QED
      BY <2>1, <2>2 DEF RegistryInv, RegistryTypeOK, TablesTypeOK
  <1>4. CASE bundle_gc_select(p)
    <2>1. PICK V \in SUBSET Rows :
            Goto(p, [job[p] EXCEPT !.at = "gc_delete", !.left = V])
      BY <1>4 DEF bundle_gc_select
    <2>2. GoodJob([job[p] EXCEPT !.at = "gc_delete", !.left = V])
      BY <1>0 DEF GoodJob, Job, Statements, Rows
    <2> QED BY <1>4, <2>1, <2>2, GotoSafe, TablesSame DEF bundle_gc_select
  <1>5. CASE bundle_gc_delete(p)
    <2>1. CASE Return(p, [NoRet EXCEPT !.how = "ok"]) /\ UNCHANGED tables
      BY <1>ok, <2>1, ReturnSafe, TablesSame
    <2>2. CASE \E i \in job[p].left :
                 DeleteCascade(i) /\ Goto(p, [job[p] EXCEPT !.left = @ \ {i}])
      <3>1. PICK i \in job[p].left :
                 DeleteCascade(i) /\ Goto(p, [job[p] EXCEPT !.left = @ \ {i}])
        BY <2>2
      <3>2. GoodJob([job[p] EXCEPT !.left = @ \ {i}])
        BY <1>0 DEF GoodJob, Job, RegistryInv, JobOK
      <3>3. job' \in [Procs -> Job] /\ ret' \in [Procs -> Ret] /\ JobOK'
        BY <3>1, <3>2, GotoSafe
      <3>4. TablesTypeOK' /\ NoOrphans'
        BY <1>0, <3>1, CascadeSafe DEF Job
      <3> QED
        BY <3>3, <3>4 DEF RegistryInv, RegistryTypeOK, TablesTypeOK
    <2> QED BY <1>5, <2>1, <2>2 DEF bundle_gc_delete
  <1>6. CASE bundle_record_binary(p)
    <2>1. CASE /\ job[p].id \in Rows
               /\ bin' = [bin EXCEPT ![job[p].id] = job[p].set]
               /\ Return(p, [NoRet EXCEPT !.how = "ok"])
               /\ UNCHANGED <<bundle, member, alias>>
      <3>1. job' \in [Procs -> Job] /\ ret' \in [Procs -> Ret] /\ JobOK'
        BY <1>ok, <2>1, ReturnSafe
      <3>2. job[p].set \in Sets \cup {NoSet}
        BY <1>0 DEF Job
      <3> QED
        BY <2>1, <3>1, <3>2 DEF RegistryInv, RegistryTypeOK, NoOrphans, Rows
    <2>2. CASE Fail(p, "fk")
      BY <2>2, FailSafe
    <2> QED BY <1>6, <2>1, <2>2 DEF bundle_record_binary
  <1>7. CASE resolve_bundle_launch(p)
    <2> DEFINE ran(i, got) ==
          [how |-> "ran", set |-> bundle[i].set, id |-> i, got |-> got]
    <2>1. PICK i \in Ids \cup {0} :
            \/ Fail(p, "not_found")
            \/ Fail(p, "no_binary")
            \/ i # 0 /\ bin[i] # NoSet /\ Return(p, ran(i, MembersOf[bin[i]]))
            \/ i # 0 /\ Return(p, ran(i, member[i]))
      BY <1>7 DEF resolve_bundle_launch
    <2>2. ASSUME i # 0
          PROVE  /\ bundle[i].set \in Sets \cup {NoSet}
                 /\ member[i] \in SUBSET Members
                 /\ bin[i] # NoSet => MembersOf[bin[i]] \in SUBSET Members
      BY <2>2, RegistryAssumption DEF RegistryInv, RegistryTypeOK, Row, NoRow
    <2>3. i # 0 => ran(i, member[i]) \in Ret
      BY <2>2 DEF Ret
    <2>4. i # 0 /\ bin[i] # NoSet => ran(i, MembersOf[bin[i]]) \in Ret
      BY <2>2 DEF Ret
    <2> HIDE DEF ran
    <2> QED
      BY <1>7, <2>1, <2>3, <2>4, FailSafe, ReturnSafe, TablesSame
      DEF resolve_bundle_launch
  <1> QED BY <1>1, <1>2, <1>3, <1>4, <1>5, <1>6, <1>7

(* The invariant holds at first and every step keeps it.                    *)
LEMMA RegistryInit == Init => RegistryInv
  BY ConstantsTyped
  DEF Init, RegistryInv, RegistryTypeOK, JobOK, GoodJob, NoOrphans, Rows

(* Every step, and a stutter, keeps it.                                      *)
LEMMA RegistryNext == RegistryInv /\ [Next]_vars => RegistryInv'
  <1> SUFFICES ASSUME RegistryInv, [Next]_vars PROVE RegistryInv'
    OBVIOUS
  <1>1. ASSUME NEW p \in Procs, Call(p) PROVE RegistryInv'
    BY <1>1, CallSafe
  <1>2. ASSUME NEW p \in Procs, Exit(p) PROVE RegistryInv'
    BY <1>2, ConstantsTyped, ReturnSafe, TablesSame DEF Exit
  <1>3. ASSUME NEW p \in Procs, Step(p) PROVE RegistryInv'
    BY <1>3, SaveSafe, OtherStepsSafe DEF Step
  <1>4. CASE UNCHANGED vars
    BY <1>4 DEF vars, RegistryInv, RegistryTypeOK, JobOK, NoOrphans, Rows
  <1> QED BY <1>1, <1>2, <1>3, <1>4 DEF Next

(* The inductive invariant holds throughout.                                *)
THEOREM RegistryInvHolds == Spec => []RegistryInv
  BY RegistryInit, RegistryNext, PTL DEF Spec

(* The tables and the processes' variables keep their types.                *)
THEOREM RegistryTypeCorrect == Spec => []RegistryTypeOK
  <1>1. RegistryInv => RegistryTypeOK
    BY DEF RegistryInv
  <1> QED BY <1>1, RegistryInvHolds, PTL

(* No statement of any process, in whatever order, leaves a member, alias   *)
(* or binary row whose bundle is gone.                                      *)
THEOREM NoOrphansHolds == Spec => []NoOrphans
  <1>1. RegistryInv => NoOrphans
    BY DEF RegistryInv
  <1> QED BY <1>1, RegistryInvHolds, PTL

(***************************************************************************)
(* A name keeps its bundle while it has one.  A fresh row cannot take the   *)
(* id of the bundle a name refers to, because that bundle is there          *)
(* (NoOrphans) and the fresh id is above every id in use.                   *)
(***************************************************************************)
KeepsBundle(n) ==
    alias[n] # 0 /\ alias'[n] # 0 =>
        alias'[n] = alias[n] /\ bundle'[alias[n]] = bundle[alias[n]]

(* The only statements that could rebind a name are the insertions.          *)
LEMMA KeepsBundleStep ==
    ASSUME RegistryInv, Next, NEW n \in Names
    PROVE  KeepsBundle(n)
  <1>0. alias[n] # 0 => alias[n] \in Rows
    BY DEF RegistryInv, NoOrphans
  <1>1. ASSUME UNCHANGED tables PROVE KeepsBundle(n)
    BY <1>1 DEF tables, KeepsBundle
  <1>2. ASSUME NEW i, DeleteCascade(i) PROVE KeepsBundle(n)
    BY <1>2, <1>0 DEF DeleteCascade, KeepsBundle, RegistryInv, RegistryTypeOK
  <1>3. PICK p \in Procs : Call(p) \/ Exit(p) \/ Step(p)
    BY DEF Next
  <1>4. CASE Call(p) \/ Exit(p)
    BY <1>4, <1>1 DEF Call, Start, Exit
  <1>5. CASE bundle_save_name(p) \/ bundle_save_hash(p) \/ bundle_add_alias_find(p)
             \/ bundle_gc_select(p) \/ resolve_bundle_launch(p)
    BY <1>5, <1>1 DEF bundle_save_name, bundle_save_hash, bundle_add_alias_find,
                      bundle_gc_select, resolve_bundle_launch
  <1>6. CASE bundle_save_insert(p)
    <2>1. PICK i \in Ids :
            /\ NextId(i)
            /\ bundle' = [bundle EXCEPT ![i] = [name |-> job[p].name, set |-> job[p].set]]
      BY <1>6 DEF bundle_save_insert
    <2>2. alias' = alias
      BY <1>6 DEF bundle_save_insert
    <2>3. alias[n] # 0 => alias[n] < i /\ alias[n] \in Ids
      BY <1>0, <2>1 DEF NextId, Rows
    <2>4. \A k \in Ids : k < i => bundle'[k] = bundle[k]
      BY <2>1 DEF RegistryInv, RegistryTypeOK, Ids
    <2> QED BY <2>2, <2>3, <2>4 DEF KeepsBundle
  <1>7. CASE bundle_add_alias_insert(p)
    BY <1>7, <1>1
    DEF bundle_add_alias_insert, Fail, KeepsBundle, RegistryInv, RegistryTypeOK
  <1>8. CASE bundle_save_members(p)
    BY <1>8, <1>1 DEF bundle_save_members, Fail, KeepsBundle
  <1>9. CASE bundle_remove_alias(p)
    BY <1>9 DEF bundle_remove_alias, KeepsBundle, RegistryInv, RegistryTypeOK
  <1>10. CASE bundle_delete(p)
    BY <1>10, <1>2 DEF bundle_delete
  <1>11. CASE bundle_gc_delete(p)
    BY <1>11, <1>1, <1>2 DEF bundle_gc_delete
  <1>12. CASE bundle_record_binary(p)
    BY <1>12, <1>1 DEF bundle_record_binary, Fail, KeepsBundle
  <1> QED
    BY <1>3, <1>4, <1>5, <1>6, <1>7, <1>8, <1>9, <1>10, <1>11, <1>12 DEF Step

(* "refusing to rebind": a name that is taken keeps its bundle and its set, *)
(* although bundle_add_alias looks and inserts in two statements.           *)
THEOREM AliasNeverRebindsHolds == Spec => AliasNeverRebinds
  <1>1. RegistryInv /\ [Next]_vars => [\A n \in Names : KeepsBundle(n)]_vars
    BY KeepsBundleStep
  <1>2. Spec => [][\A n \in Names : KeepsBundle(n)]_vars
    BY <1>1, RegistryInvHolds, PTL DEF Spec
  <1> QED BY <1>2 DEF AliasNeverRebinds, KeepsBundle

(***************************************************************************)
(* Without deletions the rows of a bundle are its own: an id that was read  *)
(* still names the same bundle when it is written to.                       *)
(***************************************************************************)
NoDeletion == "delete" \notin Work /\ "gc" \notin Work

(* What a process remembers of a bundle is still true of it.                *)
AboutRow(j, R, b) ==
    /\ j.at \notin {"delete", "gc_select", "gc_delete"}
    /\ j.at \in {"save_name", "save_hash"} => j.todo = {}
    /\ j.at \in {"alias_find", "alias_insert", "members", "record_binary"} =>
          j.id \in R /\ b[j.id].set = j.set /\ j.todo \subseteq MembersOf[j.set]

JobsAboutRows == \A p \in Procs : AboutRow(job[p], Rows, bundle)
AdditiveInv == RowsMatchHash /\ JobsAboutRows

(* Initially there is no row and nobody knows of one.                        *)
LEMMA AdditiveInit == Init => AdditiveInv
  BY DEF Init, JobsAboutRows, AdditiveInv, RowsMatchHash, AboutRow, Rows, Idle

(* Rows that were there are there still, with the same set: what the        *)
(* processes know stays true.                                               *)
LEMMA KnownStaysTrue ==
    ASSUME JobsAboutRows, RegistryInv, NEW p \in Procs, NEW j,
           job' = [job EXCEPT ![p] = j], AboutRow(j, Rows', bundle'),
           \A i \in Rows : bundle'[i] = bundle[i]
    PROVE  JobsAboutRows'
  <1>1. \A i \in Rows : i \in Rows'
    BY DEF Rows
  <1>2. \A q \in Procs : job'[q] = IF q = p THEN j ELSE job[q]
    BY DEF RegistryInv, RegistryTypeOK
  <1>3. ASSUME NEW k, AboutRow(k, Rows, bundle) PROVE AboutRow(k, Rows', bundle')
    BY <1>1, <1>3 DEF AboutRow
  <1> QED BY <1>2, <1>3 DEF JobsAboutRows

(* A step that leaves the tables alone needs a job that is true of them.    *)
LEMMA AdditiveStay ==
    ASSUME AdditiveInv, RegistryInv, NEW p \in Procs, NEW j,
           job' = [job EXCEPT ![p] = j], UNCHANGED tables, AboutRow(j, Rows, bundle)
    PROVE  AdditiveInv'
  <1>1. Rows' = Rows /\ bundle' = bundle
    BY DEF tables, Rows
  <1>2. JobsAboutRows'
    BY <1>1, KnownStaysTrue DEF AdditiveInv
  <1>3. RowsMatchHash'
    BY <1>1 DEF AdditiveInv, RowsMatchHash, tables
  <1> QED BY <1>2, <1>3 DEF AdditiveInv

(* A process that returned knows of no row.                                 *)
LEMMA AdditiveReturn ==
    ASSUME AdditiveInv, RegistryInv, NEW p \in Procs, NEW r, Return(p, r), UNCHANGED tables
    PROVE  AdditiveInv'
  <1>1. AboutRow(Idle, Rows, bundle)
    BY DEF AboutRow, Idle
  <1> QED BY <1>1, AdditiveStay DEF Return

(* No deletion is called when the work to do has none.                      *)
LEMMA AdditiveCall ==
    ASSUME NoDeletion, AdditiveInv, RegistryInv, NEW p \in Procs, Call(p)
    PROVE  AdditiveInv'
  <1>1. ASSUME NEW w, NEW j, Start(p, w, j), AboutRow(j, Rows, bundle) PROVE AdditiveInv'
    BY <1>1, AdditiveStay DEF Start
  <1>2. ASSUME NEW n, NEW s
        PROVE  /\ AboutRow([Idle EXCEPT !.at = "save_name", !.name = n, !.set = s], Rows, bundle)
               /\ AboutRow([Idle EXCEPT !.at = "save_hash", !.set = s], Rows, bundle)
               /\ AboutRow([Idle EXCEPT !.at = "remove_alias", !.name = n], Rows, bundle)
               /\ AboutRow([Idle EXCEPT !.at = "launch", !.name = n], Rows, bundle)
    BY DEF AboutRow, Idle
  <1>3. ASSUME NEW n, NEW i \in Rows
        PROVE  /\ AboutRow([Idle EXCEPT !.at = "alias_find", !.name = n,
                                         !.set = bundle[i].set, !.id = i], Rows, bundle)
               /\ AboutRow([Idle EXCEPT !.at = "record_binary",
                                         !.set = bundle[i].set, !.id = i], Rows, bundle)
    BY DEF AboutRow, Idle
  <1>4. ASSUME NEW j PROVE ~Start(p, "delete", j) /\ ~Start(p, "gc", j)
    BY DEF Start, NoDeletion
  <1> QED BY <1>1, <1>2, <1>3, <1>4 DEF Call

(* Every statement writes to the row it read, or to a fresh one.             *)
LEMMA AdditiveStep ==
    ASSUME NoDeletion, AdditiveInv, RegistryInv, NEW p \in Procs, Step(p)
    PROVE  AdditiveInv'
  <1>0. /\ job \in [Procs -> Job] /\ job[p] \in Job /\ AboutRow(job[p], Rows, bundle)
        /\ RowsMatchHash
    BY DEF RegistryInv, RegistryTypeOK, AdditiveInv, JobsAboutRows
  <1>f. ASSUME NEW h, Fail(p, h) PROVE AdditiveInv'
    BY <1>f, AdditiveReturn DEF Fail
  <1>1. CASE bundle_save_name(p)
    <2>1. UNCHANGED tables
      BY <1>1 DEF bundle_save_name
    <2>2. \/ Goto(p, [job[p] EXCEPT !.at = "save_hash"])
          \/ Fail(p, "conflict")
          \/ \E i \in Ids \cup {0} : Saved(p, i)
      BY <1>1 DEF bundle_save_name
    <2>3. AboutRow([job[p] EXCEPT !.at = "save_hash"], Rows, bundle)
      BY <1>0, <1>1 DEF Job, AboutRow, bundle_save_name, At
    <2> QED BY <2>1, <2>2, <2>3, <1>f, AdditiveStay, AdditiveReturn DEF Goto, Saved
  <1>2. CASE bundle_save_hash(p)
    <2>1. UNCHANGED tables
      BY <1>2 DEF bundle_save_hash
    <2>2. PICK i \in Ids \cup {0} :
            /\ bundle_find_first_by_hash(job[p].set, i)
            /\ \/ Goto(p, [job[p] EXCEPT !.at = "save_insert"])
               \/ Saved(p, i)
               \/ i # 0 /\ Goto(p, [job[p] EXCEPT !.at = "alias_find", !.id = i])
      BY <1>2 DEF bundle_save_hash
    <2>3. AboutRow([job[p] EXCEPT !.at = "save_insert"], Rows, bundle)
      BY <1>0 DEF Job, AboutRow
    <2>4. i # 0 => i \in Rows /\ bundle[i].set = job[p].set
      BY <2>2 DEF bundle_find_first_by_hash, IsFirst, Rows, Ids
    <2>5. i # 0 => AboutRow([job[p] EXCEPT !.at = "alias_find", !.id = i], Rows, bundle)
      BY <1>0, <1>2, <2>4 DEF Job, AboutRow, bundle_save_hash, At
    <2> QED
      BY <2>1, <2>2, <2>3, <2>5, AdditiveStay, AdditiveReturn DEF Goto, Saved
  <1>3. CASE bundle_save_insert(p)
    <2> DEFINE next(i) == [job[p] EXCEPT
             !.at = IF job[p].name = NoName THEN "members" ELSE "alias_find",
             !.id = i, !.todo = MembersOf[job[p].set]]
               row == [name |-> job[p].name, set |-> job[p].set]
    <2>1. PICK i \in Ids :
            NextId(i) /\ bundle' = [bundle EXCEPT ![i] = row] /\ Goto(p, next(i))
      BY <1>3 DEF bundle_save_insert
    <2>2. i \notin Rows
      BY <2>1 DEF NextId, Rows, Ids
    <2>3. bundle'[i] = row /\ \A k \in Ids : k # i => bundle'[k] = bundle[k]
      BY <2>1 DEF RegistryInv, RegistryTypeOK
    <2>4. job[p].set \in Sets
      BY <1>3 DEF bundle_save_insert, At, RegistryInv, JobOK
    <2>5. Rows' = Rows \cup {i}
      BY <2>3, <2>4, RegistryAssumption DEF Rows, NoRow
    <2>6. /\ next(i).at \in {"members", "alias_find"} /\ next(i).id = i
          /\ next(i).set = job[p].set /\ next(i).todo = MembersOf[job[p].set]
      BY <1>0 DEF Job
    <2> HIDE DEF next
    <2>7. JobsAboutRows'
      <3>1. AboutRow(next(i), Rows', bundle')
        BY <2>3, <2>5, <2>6 DEF AboutRow
      <3>2. \A k \in Rows : bundle'[k] = bundle[k]
        BY <2>2, <2>3 DEF Rows
      <3> QED BY <2>1, <3>1, <3>2, KnownStaysTrue DEF Goto, AdditiveInv
    <2>8. member[i] = {} /\ bin[i] = NoSet /\ member' = member /\ bin' = bin
      BY <1>3, <2>2 DEF bundle_save_insert, RegistryInv, NoOrphans, Rows
    <2>9. RowsMatchHash'
      BY <1>0, <2>2, <2>3, <2>5, <2>8 DEF RowsMatchHash, Rows
    <2> QED BY <2>7, <2>9 DEF AdditiveInv
  <1>4. CASE bundle_add_alias_find(p)
    <2>1. UNCHANGED tables
      BY <1>4 DEF bundle_add_alias_find
    <2>2. \/ Goto(p, [job[p] EXCEPT !.at = "alias_insert"])
          \/ Goto(p, [job[p] EXCEPT !.at = "members"])
          \/ Fail(p, "conflict")
      BY <1>4 DEF bundle_add_alias_find, Fail
    <2>3. AboutRow([job[p] EXCEPT !.at = "alias_insert"], Rows, bundle)
          /\ AboutRow([job[p] EXCEPT !.at = "members"], Rows, bundle)
      BY <1>0, <1>4 DEF Job, AboutRow, bundle_add_alias_find, At
    <2> QED BY <2>1, <2>2, <2>3, <1>f, AdditiveStay DEF Goto
  <1>5. CASE bundle_add_alias_insert(p)
    <2>1. CASE /\ Goto(p, [job[p] EXCEPT !.at = "members"])
               /\ UNCHANGED <<bundle, member, bin>>
      <3>1. AboutRow([job[p] EXCEPT !.at = "members"], Rows, bundle)
        BY <1>0, <1>5 DEF Job, AboutRow, bundle_add_alias_insert, At
      <3>2. Rows' = Rows
        BY <2>1 DEF Rows
      <3>3. JobsAboutRows'
        BY <2>1, <3>1, <3>2, KnownStaysTrue DEF Goto, AdditiveInv
      <3>4. RowsMatchHash'
        BY <1>0, <2>1, <3>2 DEF RowsMatchHash
      <3> QED BY <3>3, <3>4 DEF AdditiveInv
    <2> QED BY <1>5, <1>f, <2>1 DEF bundle_add_alias_insert
  <1>6. CASE bundle_save_members(p)
    <2>1. CASE \E m \in job[p].todo :
                 /\ member' = [member EXCEPT ![job[p].id] = @ \cup {m}]
                 /\ Goto(p, [job[p] EXCEPT !.todo = @ \ {m}])
                 /\ UNCHANGED <<bundle, alias, bin>>
      <3>1. PICK m \in job[p].todo :
                 /\ member' = [member EXCEPT ![job[p].id] = @ \cup {m}]
                 /\ Goto(p, [job[p] EXCEPT !.todo = @ \ {m}])
                 /\ UNCHANGED <<bundle, alias, bin>>
        BY <2>1
      <3>2. /\ job[p].id \in Rows /\ bundle[job[p].id].set = job[p].set
            /\ job[p].todo \subseteq MembersOf[job[p].set]
        BY <1>0, <1>6 DEF AboutRow, bundle_save_members, At
      <3>3. AboutRow([job[p] EXCEPT !.todo = @ \ {m}], Rows, bundle)
        BY <1>0, <1>6, <3>2 DEF Job, AboutRow, bundle_save_members, At
      <3>4. Rows' = Rows
        BY <3>1 DEF Rows
      <3>5. JobsAboutRows'
        BY <3>1, <3>3, <3>4, KnownStaysTrue DEF Goto, AdditiveInv
      <3>6. \A i \in Rows : member'[i] \subseteq MembersOf[bundle[i].set]
        BY <1>0, <3>1, <3>2 DEF RowsMatchHash, RegistryInv, RegistryTypeOK, Rows
      <3>7. RowsMatchHash'
        BY <1>0, <3>1, <3>4, <3>6 DEF RowsMatchHash
      <3> QED BY <3>5, <3>7 DEF AdditiveInv
    <2> QED
      BY <1>6, <1>f, <2>1, AdditiveReturn DEF bundle_save_members, Saved
  <1>7. CASE bundle_remove_alias(p)
    <2>1. AboutRow(Idle, Rows, bundle)
      BY DEF AboutRow, Idle
    <2>2. Rows' = Rows /\ bundle' = bundle /\ member' = member /\ bin' = bin
      BY <1>7 DEF bundle_remove_alias, Rows
    <2>3. JobsAboutRows'
      BY <1>7, <2>1, <2>2, KnownStaysTrue DEF bundle_remove_alias, Return, AdditiveInv
    <2> QED BY <1>0, <2>2, <2>3 DEF AdditiveInv, RowsMatchHash
  <1>8. CASE bundle_delete(p) \/ bundle_gc_select(p) \/ bundle_gc_delete(p)
    BY <1>0, <1>8 DEF AboutRow, bundle_delete, bundle_gc_select, bundle_gc_delete, At
  <1>9. CASE bundle_record_binary(p)
    <2>1. CASE /\ bin' = [bin EXCEPT ![job[p].id] = job[p].set]
               /\ Return(p, [NoRet EXCEPT !.how = "ok"])
               /\ UNCHANGED <<bundle, member, alias>>
      <3>1. job[p].id \in Rows /\ bundle[job[p].id].set = job[p].set
        BY <1>0, <1>9 DEF AboutRow, bundle_record_binary, At
      <3>2. AboutRow(Idle, Rows, bundle)
        BY DEF AboutRow, Idle
      <3>3. Rows' = Rows
        BY <2>1 DEF Rows
      <3>4. JobsAboutRows'
        BY <2>1, <3>2, <3>3, KnownStaysTrue DEF Return, AdditiveInv
      <3>5. \A i \in Rows : bin'[i] \in {NoSet, bundle[i].set}
        BY <1>0, <2>1, <3>1 DEF RowsMatchHash, RegistryInv, RegistryTypeOK, Rows
      <3>6. RowsMatchHash'
        BY <1>0, <2>1, <3>3, <3>5 DEF RowsMatchHash
      <3> QED BY <3>4, <3>6 DEF AdditiveInv
    <2> QED BY <1>9, <1>f, <2>1 DEF bundle_record_binary
  <1>10. CASE resolve_bundle_launch(p)
    BY <1>10, <1>f, AdditiveReturn DEF resolve_bundle_launch
  <1> QED
    BY <1>1, <1>2, <1>3, <1>4, <1>5, <1>6, <1>7, <1>8, <1>9, <1>10 DEF Step

(* As long as nothing is deleted, the member rows and the baked binary of a *)
(* bundle are those of the set its hash names, whatever else the processes  *)
(* do between each other's statements and wherever they are killed.         *)
THEOREM RowsMatchHashHolds == NoDeletion => (Spec => []RowsMatchHash)
  <1> SUFFICES ASSUME NoDeletion PROVE Spec => []RowsMatchHash
    OBVIOUS
  <1>1. AdditiveInv /\ RegistryInv /\ [Next]_vars => AdditiveInv'
    <2> SUFFICES ASSUME AdditiveInv, RegistryInv, [Next]_vars PROVE AdditiveInv'
      OBVIOUS
    <2>1. ASSUME NEW p \in Procs, Call(p) PROVE AdditiveInv'
      BY <2>1, AdditiveCall
    <2>2. ASSUME NEW p \in Procs, Exit(p) PROVE AdditiveInv'
      BY <2>2, AdditiveReturn DEF Exit
    <2>3. ASSUME NEW p \in Procs, Step(p) PROVE AdditiveInv'
      BY <2>3, AdditiveStep
    <2>4. CASE UNCHANGED vars
      BY <2>4 DEF vars, AdditiveInv, RowsMatchHash, JobsAboutRows, AboutRow, Rows
    <2> QED BY <2>1, <2>2, <2>3, <2>4 DEF Next
  <1>2. AdditiveInv => RowsMatchHash
    BY DEF AdditiveInv
  <1> QED BY <1>1, <1>2, AdditiveInit, RegistryInvHolds, PTL DEF Spec
-----------------------------------------------------------------------------
(***************************************************************************)
(* One process alone.  AloneInv says what its operation in progress still   *)
(* has to do (Pending) and that every other row is complete: row ids may be *)
(* used again after a deletion, but nobody deletes while it saves.          *)
(***************************************************************************)

(* The statements that follow the row's, while members may be missing.      *)
AtHand(j) == j.at \in {"alias_find", "alias_insert", "members"}

(* The row an operation has at hand is that of its set, and the members it  *)
(* has still to insert are those the row does not have.                     *)
RowAtHand(j) ==
    /\ j.id \in Rows /\ bundle[j.id].set = j.set
    /\ j.todo = MembersOf[j.set] \ member[j.id]

(* The name was looked for and found free, the set found new.               *)
Pending(j) ==
    /\ j.at \in {"save_hash", "save_insert"} /\ j.name # NoName => alias[j.name] = 0
    /\ j.at = "alias_find" /\ j.todo # {} => alias[j.name] = 0
    /\ j.at = "alias_insert" => alias[j.name] = 0
    /\ j.at \in {"save_name", "save_hash"} => j.todo = {}
    /\ j.at = "save_insert" => \A i \in Rows : bundle[i].set # j.set
    /\ AtHand(j) => RowAtHand(j)
    /\ j.at = "launch" => j.name \in Names
    /\ j.at = "record_binary" => j.id \in Rows /\ bundle[j.id].set = j.set

(* Every other row has all the members of its set.                          *)
Complete(j) ==
    \A i \in Rows : member[i] = MembersOf[bundle[i].set] \/ (AtHand(j) /\ i = j.id)

AloneInv ==
    alone # Nobody =>
        /\ Pending(job[alone]) /\ Complete(job[alone])
        /\ OneRowPerSet /\ RowsMatchHash /\ LaunchRunsTheSet

LEMMA AloneStart == AloneInit => AloneInv
  BY DEF AloneInit, Init, AloneInv, Pending, Complete, AtHand, Idle, NoRet, Rows,
         OneRowPerSet, RowsMatchHash, LaunchRunsTheSet

(* A step that leaves the tables alone: what it goes to has to be true.     *)
LEMMA AloneStays ==
    ASSUME RegistryInv, AloneInv, NEW p \in Procs, alone = p, alone' = alone,
           UNCHANGED tables, NEW j, Pending(j), Complete(j),
           job' = [job EXCEPT ![p] = j], LaunchRunsTheSet'
    PROVE  AloneInv'
  <1>1. job'[p] = j
    BY DEF RegistryInv, RegistryTypeOK
  <1>2. Rows' = Rows /\ bundle' = bundle /\ member' = member /\ alias' = alias /\ bin' = bin
    BY DEF tables, Rows
  <1>3. Pending(j)' /\ Complete(j)'
    BY <1>2 DEF Pending, Complete, RowAtHand
  <1>4. OneRowPerSet' /\ RowsMatchHash'
    BY <1>2, NobodyAssumption DEF AloneInv, OneRowPerSet, RowsMatchHash
  <1> QED BY <1>1, <1>3, <1>4 DEF AloneInv

LEMMA AloneGoes ==
    ASSUME RegistryInv, AloneInv, NEW p \in Procs, alone = p, alone' = alone,
           UNCHANGED tables, NEW j, Pending(j), Complete(j), Goto(p, j)
    PROVE  AloneInv'
  <1>1. LaunchRunsTheSet'
    BY NobodyAssumption DEF AloneInv, LaunchRunsTheSet, Goto
  <1> QED BY <1>1, AloneStays DEF Goto

LEMMA IdleIsPending == Pending(Idle)
  BY DEF Pending, Idle, AtHand

LEMMA AloneReturns ==
    ASSUME RegistryInv, AloneInv, NEW p \in Procs, alone = p, alone' = alone,
           UNCHANGED tables, Complete(Idle),
           NEW r, Return(p, r), r.how = "ran" => r.got = MembersOf[r.set]
    PROVE  AloneInv'
  <1>1. LaunchRunsTheSet'
    <2>1. ret' = [ret EXCEPT ![p] = r] /\ ret \in [Procs -> Ret]
      BY DEF Return, RegistryInv, RegistryTypeOK
    <2>2. LaunchRunsTheSet
      BY NobodyAssumption DEF AloneInv
    <2> QED BY <2>1, <2>2 DEF LaunchRunsTheSet
  <1> QED BY <1>1, IdleIsPending, AloneStays DEF Return

(* An operation that ends with nothing at hand has left every row complete. *)
LEMMA AloneEnds ==
    ASSUME RegistryInv, AloneInv, NEW p \in Procs, alone = p, alone' = alone,
           UNCHANGED tables, AtHand(job[p]) => job[p].todo = {},
           NEW r, Return(p, r), r.how # "ran"
    PROVE  AloneInv'
  <1>1. Complete(job[p]) /\ Pending(job[p]) /\ RowsMatchHash
    BY NobodyAssumption DEF AloneInv
  <1>2. ASSUME NEW i \in Rows PROVE member[i] = MembersOf[bundle[i].set]
    <2>1. member[i] \subseteq MembersOf[bundle[i].set]
      BY <1>1 DEF RowsMatchHash
    <2>2. CASE AtHand(job[p]) /\ i = job[p].id
      BY <1>1, <2>1, <2>2 DEF Pending, RowAtHand
    <2> QED BY <1>1, <2>2 DEF Complete
  <1>3. Complete(Idle)
    BY <1>2 DEF Complete
  <1> QED BY <1>3, AloneReturns

(* A call starts when every row is complete.                                *)
LEMMA AloneCall ==
    ASSUME RegistryInv, AloneInv, NEW p \in Procs, alone = p, alone' = alone, Call(p)
    PROVE  AloneInv'
  <1>0. At(p, "idle") /\ UNCHANGED tables
    BY DEF Call, Start
  <1>1. Complete(Idle) /\ RowsMatchHash
    BY <1>0, NobodyAssumption DEF AloneInv, Complete, At, AtHand
  <1>2. ASSUME NEW w, NEW j, Start(p, w, j), Pending(j) PROVE AloneInv'
    <2>1. Complete(j)
      BY <1>1 DEF Complete, AtHand, Idle
    <2>2. LaunchRunsTheSet'
      <3>1. ret' = [ret EXCEPT ![p] = NoRet] /\ ret \in [Procs -> Ret]
        BY <1>2 DEF Start, RegistryInv, RegistryTypeOK
      <3>2. LaunchRunsTheSet
        BY NobodyAssumption DEF AloneInv
      <3> QED BY <3>1, <3>2 DEF LaunchRunsTheSet, NoRet
    <2> QED BY <1>2, <2>1, <2>2, AloneStays DEF Start
  <1>3. ASSUME NEW n, NEW s
        PROVE  /\ Pending([Idle EXCEPT !.at = "save_name", !.name = n, !.set = s])
               /\ Pending([Idle EXCEPT !.at = "save_hash", !.set = s])
               /\ Pending([Idle EXCEPT !.at = "remove_alias", !.name = n])
               /\ n \in Names => Pending([Idle EXCEPT !.at = "launch", !.name = n])
               /\ Pending([Idle EXCEPT !.at = "delete", !.id = n])
               /\ Pending([Idle EXCEPT !.at = "gc_select"])
    BY DEF Pending, Idle, AtHand
  <1>4. ASSUME NEW n, NEW i \in Rows
        PROVE  /\ Pending([Idle EXCEPT !.at = "alias_find", !.name = n,
                                       !.set = bundle[i].set, !.id = i])
               /\ Pending([Idle EXCEPT !.at = "record_binary",
                                       !.set = bundle[i].set, !.id = i])
    <2>1. member[i] = MembersOf[bundle[i].set]
      BY <1>1 DEF Complete, AtHand, Idle
    <2> QED BY <2>1 DEF Pending, RowAtHand, Idle, AtHand
  <1> QED BY <1>2, <1>3, <1>4 DEF Call

(* The lookups of bundle_save find what is there.                           *)
LEMMA AloneFinds ==
    ASSUME RegistryInv, AloneInv, NEW p \in Procs, alone = p, alone' = alone,
           bundle_save_name(p) \/ bundle_save_hash(p) \/ bundle_add_alias_find(p)
    PROVE  AloneInv'
  <1>0. /\ job[p] \in Job /\ UNCHANGED tables
        /\ Pending(job[p]) /\ Complete(job[p])
    BY NobodyAssumption
    DEF RegistryInv, RegistryTypeOK, AloneInv, bundle_save_name, bundle_save_hash, bundle_add_alias_find
  <1>1. CASE bundle_save_name(p)
    <2>1. job[p].at = "save_name" /\ ~AtHand(job[p])
      BY <1>1 DEF bundle_save_name, At, AtHand
    <2>2. ASSUME NEW j, j = [job[p] EXCEPT !.at = "save_hash"], alias[job[p].name] = 0, Goto(p, j)
          PROVE  AloneInv'
      <3>1. j.at = "save_hash" /\ j.name = job[p].name /\ j.todo = job[p].todo
        BY <1>0, <2>2 DEF Job
      <3>2. Pending(j) /\ Complete(j)
        BY <1>0, <2>1, <2>2, <3>1 DEF Pending, Complete, AtHand
      <3> QED BY <1>0, <2>2, <3>2, AloneGoes
    <2>3. ASSUME NEW h, h # "ran", Fail(p, h) PROVE AloneInv'
      <3>1. [NoRet EXCEPT !.how = h].how = h
        BY DEF NoRet
      <3> QED BY <1>0, <2>1, <2>3, <3>1, AloneEnds DEF Fail
    <2>4. ASSUME NEW i, Saved(p, i) PROVE AloneInv'
      BY <1>0, <2>1, <2>4, AloneEnds DEF Saved
    <2>5. bundle_find_by_name(job[p].name, 0) => alias[job[p].name] = 0
      BY DEF bundle_find_by_name
    <2> QED BY <1>1, <2>2, <2>3, <2>4, <2>5 DEF bundle_save_name
  <1>2. CASE bundle_save_hash(p)
    <2>1. job[p].at = "save_hash" /\ ~AtHand(job[p]) /\ job[p].todo = {}
      BY <1>0, <1>2 DEF bundle_save_hash, At, AtHand, Pending
    <2>2. PICK i \in Ids \cup {0} :
            /\ bundle_find_first_by_hash(job[p].set, i)
            /\ \/ i = 0 /\ Goto(p, [job[p] EXCEPT !.at = "save_insert"])
               \/ i # 0 /\ Saved(p, i)
               \/ i # 0 /\ Goto(p, [job[p] EXCEPT !.at = "alias_find", !.id = i])
      BY <1>2 DEF bundle_save_hash
    <2>3. ASSUME i = 0, NEW j, j = [job[p] EXCEPT !.at = "save_insert"], Goto(p, j)
          PROVE  AloneInv'
      <3>1. j.at = "save_insert" /\ j.name = job[p].name /\ j.set = job[p].set
        BY <1>0, <2>3 DEF Job
      <3>2. \A k \in Rows : bundle[k].set # j.set
        BY <2>2, <2>3, <3>1 DEF bundle_find_first_by_hash, IsFirst, Rows, Ids
      <3>3. Pending(j) /\ Complete(j)
        BY <1>0, <2>1, <3>1, <3>2 DEF Pending, Complete, AtHand
      <3> QED BY <1>0, <2>3, <3>3, AloneGoes
    <2>4. ASSUME i # 0, NEW j, j = [job[p] EXCEPT !.at = "alias_find", !.id = i], Goto(p, j)
          PROVE  AloneInv'
      <3>1. /\ j.at = "alias_find" /\ j.name = job[p].name /\ j.set = job[p].set
            /\ j.id = i /\ j.todo = {}
        BY <1>0, <2>1, <2>4 DEF Job
      <3>2. i \in Rows /\ bundle[i].set = j.set
        BY <2>2, <2>4, <3>1 DEF bundle_find_first_by_hash, IsFirst, Rows, Ids
      <3>3. RowAtHand(j)
        BY <1>0, <2>1, <3>1, <3>2 DEF RowAtHand, Complete
      <3>4. Pending(j) /\ Complete(j)
        BY <1>0, <2>1, <3>1, <3>3 DEF Pending, Complete
      <3> QED BY <1>0, <2>4, <3>4, AloneGoes
    <2>5. ASSUME Saved(p, i) PROVE AloneInv'
      BY <1>0, <2>1, <2>5, AloneEnds DEF Saved
    <2> QED BY <2>2, <2>3, <2>4, <2>5
  <1>3. CASE bundle_add_alias_find(p)
    <2>1. job[p].at = "alias_find" /\ RowAtHand(job[p]) /\ AtHand(job[p])
      BY <1>0, <1>3 DEF bundle_add_alias_find, At, AtHand, Pending
    <2>2. ASSUME NEW j, NEW s \in {"alias_insert", "members"}, j = [job[p] EXCEPT !.at = s],
                 s = "alias_insert" => alias[job[p].name] = 0, Goto(p, j)
          PROVE  AloneInv'
      <3>1. /\ j.at = s /\ j.name = job[p].name /\ j.set = job[p].set
            /\ j.id = job[p].id /\ j.todo = job[p].todo
        BY <1>0, <2>2 DEF Job
      <3>2. RowAtHand(j)
        BY <2>1, <3>1 DEF RowAtHand
      <3>3. Pending(j) /\ Complete(j)
        BY <1>0, <2>2, <3>1, <3>2 DEF Pending, Complete, AtHand
      <3> QED BY <1>0, <2>2, <3>3, AloneGoes
    <2>3. ASSUME alias[job[p].name] # 0, Return(p, [NoRet EXCEPT !.how = "conflict"])
          PROVE  AloneInv'
      <3>1. job[p].todo = {}
        BY <1>0, <2>1, <2>3 DEF Pending
      <3>2. [NoRet EXCEPT !.how = "conflict"].how = "conflict"
        BY DEF NoRet
      <3> QED BY <1>0, <2>3, <3>1, <3>2, AloneEnds
    <2> QED BY <1>3, <2>2, <2>3 DEF bundle_add_alias_find
  <1> QED BY <1>1, <1>2, <1>3

(* bundle_save inserts the row of a set that has none.                      *)
LEMMA AloneInserts ==
    ASSUME RegistryInv, AloneInv, NEW p \in Procs, alone = p, alone' = alone,
           bundle_save_insert(p)
    PROVE  AloneInv'
  <1>0. /\ job[p] \in Job /\ job[p].at = "save_insert" /\ ~AtHand(job[p])
        /\ Pending(job[p]) /\ Complete(job[p])
        /\ OneRowPerSet /\ RowsMatchHash /\ LaunchRunsTheSet
    BY NobodyAssumption
    DEF RegistryInv, RegistryTypeOK, AloneInv, bundle_save_insert, At, AtHand
  <1> DEFINE row == [name |-> job[p].name, set |-> job[p].set]
  <1>a. PICK i \in Ids : \E j :
          /\ NextId(i)
          /\ bundle' = [bundle EXCEPT ![i] = row]
          /\ j = [job[p] EXCEPT !.at = IF job[p].name = NoName THEN "members" ELSE "alias_find",
                                !.id = i, !.todo = MembersOf[job[p].set]]
          /\ Goto(p, j)
    BY DEF bundle_save_insert
  <1>1. PICK j :
          /\ NextId(i)
          /\ bundle' = [bundle EXCEPT ![i] = row]
          /\ j = [job[p] EXCEPT !.at = IF job[p].name = NoName THEN "members" ELSE "alias_find",
                                !.id = i, !.todo = MembersOf[job[p].set]]
          /\ Goto(p, j)
    BY <1>a
  <1>2. job[p].set \in Sets /\ row.set = job[p].set /\ row # NoRow
    BY <1>0, RegistryAssumption DEF RegistryInv, JobOK, NoRow
  <1>3. /\ j.at = IF job[p].name = NoName THEN "members" ELSE "alias_find"
        /\ j.name = job[p].name /\ j.set = job[p].set
        /\ j.id = i /\ j.todo = MembersOf[job[p].set]
    BY <1>0, <1>1 DEF Job
  <1> HIDE DEF row
  <1>4. UNCHANGED <<member, alias, bin>>
    BY DEF bundle_save_insert
  <1>5. i \notin Rows
    BY <1>1 DEF NextId, Rows, Ids
  <1>6. member[i] = {} /\ bin[i] = NoSet
    BY <1>1, <1>5 DEF RegistryInv, NoOrphans, Rows
  <1>7. Rows' = Rows \cup {i} /\ bundle'[i] = row
    BY <1>1, <1>2 DEF Rows, RegistryInv, RegistryTypeOK
  <1>8. \A k \in Rows : bundle'[k] = bundle[k] /\ k # i
    BY <1>1, <1>5 DEF Rows, RegistryInv, RegistryTypeOK
  <1>9. Pending(j)'
    <2>1. RowAtHand(j)'
      BY <1>2, <1>3, <1>4, <1>6, <1>7 DEF RowAtHand
    <2>2. job[p].name # NoName => alias[job[p].name] = 0
      BY <1>0 DEF Pending
    <2> QED BY <1>3, <1>4, <2>1, <2>2 DEF Pending
  <1>10. Complete(j)'
    BY <1>0, <1>3, <1>4, <1>7, <1>8 DEF Complete, AtHand
  <1>11. OneRowPerSet'
    BY <1>0, <1>2, <1>7, <1>8 DEF OneRowPerSet, Pending
  <1>12. RowsMatchHash'
    BY <1>0, <1>2, <1>4, <1>6, <1>7, <1>8 DEF RowsMatchHash
  <1>13. LaunchRunsTheSet'
    BY <1>0, <1>1 DEF LaunchRunsTheSet, Goto
  <1>14. job'[p] = j
    BY <1>1 DEF Goto, RegistryInv, RegistryTypeOK
  <1> QED BY <1>9, <1>10, <1>11, <1>12, <1>13, <1>14 DEF AloneInv

(* The name was free when it was looked for, and is; the members are those  *)
(* the row does not have, so that none of them is taken.                    *)
LEMMA AloneFills ==
    ASSUME RegistryInv, AloneInv, NEW p \in Procs, alone = p, alone' = alone,
           bundle_add_alias_insert(p) \/ bundle_save_members(p)
    PROVE  AloneInv'
  <1>0. /\ job[p] \in Job /\ job[p].at \in {"alias_insert", "members"} /\ AtHand(job[p])
        /\ Pending(job[p]) /\ Complete(job[p]) /\ RowAtHand(job[p])
        /\ OneRowPerSet /\ RowsMatchHash /\ LaunchRunsTheSet
    BY NobodyAssumption
    DEF RegistryInv, RegistryTypeOK, AloneInv, bundle_add_alias_insert, bundle_save_members,
        At, AtHand, Pending
  <1> DEFINE i == job[p].id
  <1>1. /\ i \in Rows /\ i \in Ids /\ bundle[i].set = job[p].set
        /\ job[p].todo = MembersOf[job[p].set] \ member[i]
    BY <1>0 DEF RowAtHand, Rows
  <1>2. CASE bundle_add_alias_insert(p)
    <2>1. alias[job[p].name] = 0
      BY <1>0, <1>2 DEF Pending, bundle_add_alias_insert, At
    <2>2. PICK j : /\ j = [job[p] EXCEPT !.at = "members"] /\ Goto(p, j)
                   /\ UNCHANGED <<bundle, member, bin>>
      BY <1>1, <1>2, <2>1 DEF bundle_add_alias_insert
    <2>3. /\ j.at = "members" /\ j.set = job[p].set
          /\ j.id = job[p].id /\ j.todo = job[p].todo
      BY <1>0, <2>2 DEF Job
    <2>4. Rows' = Rows
      BY <2>2 DEF Rows
    <2>5. Pending(j)' /\ Complete(j)'
      BY <1>0, <2>2, <2>3, <2>4 DEF Pending, Complete, AtHand, RowAtHand
    <2>6. OneRowPerSet' /\ RowsMatchHash' /\ LaunchRunsTheSet'
      BY <1>0, <2>2, <2>4 DEF OneRowPerSet, RowsMatchHash, LaunchRunsTheSet, Goto
    <2>7. job'[p] = j
      BY <2>2 DEF Goto, RegistryInv, RegistryTypeOK
    <2> QED BY <2>5, <2>6, <2>7 DEF AloneInv
  <1>3. CASE bundle_save_members(p)
    <2>1. ASSUME job[p].todo = {}, Saved(p, i), UNCHANGED tables PROVE AloneInv'
      BY <2>1, AloneEnds DEF Saved
    <2>2. ASSUME NEW m \in job[p].todo, NEW x \in member[i] PROVE Ext[x] # Ext[m]
      <3>1. bundle[i].set \in Sets
        BY <1>1 DEF RegistryInv, RegistryTypeOK, Rows, Row, NoRow
      <3>2. x \in MembersOf[bundle[i].set] /\ m \in MembersOf[bundle[i].set] /\ x # m
        BY <1>0, <1>1, <2>2 DEF RowsMatchHash
      <3> QED BY <3>1, <3>2, RegistryAssumption
    <2>3. ASSUME NEW m \in job[p].todo,
                 member' = [member EXCEPT ![i] = @ \cup {m}],
                 NEW j, j = [job[p] EXCEPT !.todo = @ \ {m}], Goto(p, j),
                 UNCHANGED <<bundle, alias, bin>>
          PROVE  AloneInv'
      <3>1. /\ j.at = job[p].at /\ j.set = job[p].set /\ j.name = job[p].name
            /\ j.id = job[p].id /\ j.todo = job[p].todo \ {m}
        BY <1>0, <2>3 DEF Job
      <3>2. Rows' = Rows
        BY <2>3 DEF Rows
      <3>3. /\ member'[i] = member[i] \cup {m}
            /\ \A k \in Rows : k # i => member'[k] = member[k]
        BY <1>1, <2>3 DEF RegistryInv, RegistryTypeOK, Rows
      <3>4. RowAtHand(j)'
        BY <1>1, <2>3, <3>1, <3>2, <3>3 DEF RowAtHand
      <3>5. Pending(j)'
        BY <1>0, <1>3, <2>3, <3>1, <3>4 DEF Pending, bundle_save_members, At
      <3>6. Complete(j)'
        BY <1>0, <2>3, <3>1, <3>2, <3>3 DEF Complete, AtHand
      <3>7. RowsMatchHash'
        BY <1>0, <1>1, <2>3, <3>2, <3>3 DEF RowsMatchHash
      <3>8. OneRowPerSet' /\ LaunchRunsTheSet'
        BY <1>0, <2>3, <3>2 DEF OneRowPerSet, LaunchRunsTheSet, Goto
      <3>9. job'[p] = j
        BY <2>3 DEF Goto, RegistryInv, RegistryTypeOK
      <3> QED BY <3>5, <3>6, <3>7, <3>8, <3>9 DEF AloneInv
    <2> QED BY <1>1, <1>3, <2>1, <2>2, <2>3 DEF bundle_save_members
  <1> QED BY <1>2, <1>3

(* Deleting a row leaves the others as they are.                            *)
RestStays ==
    \A k \in Rows' : /\ k \in Rows /\ bundle'[k] = bundle[k]
                     /\ member'[k] = member[k] /\ bin'[k] = bin[k]

LEMMA AloneDeletes ==
    ASSUME RegistryInv, AloneInv, NEW p \in Procs, alone = p, alone' = alone,
           bundle_remove_alias(p) \/ bundle_delete(p) \/ bundle_gc_select(p) \/ bundle_gc_delete(p)
    PROVE  AloneInv'
  <1>0. /\ job[p] \in Job /\ ~AtHand(job[p]) /\ Complete(job[p])
        /\ job[p].at \in {"remove_alias", "delete", "gc_select", "gc_delete"}
        /\ OneRowPerSet /\ RowsMatchHash /\ LaunchRunsTheSet
    BY NobodyAssumption
    DEF RegistryInv, RegistryTypeOK, AloneInv, bundle_remove_alias, bundle_delete,
        bundle_gc_select, bundle_gc_delete, At, AtHand
  <1>1. \A i \in Rows : member[i] = MembersOf[bundle[i].set]
    BY <1>0 DEF Complete
  <1>2. ASSUME job'[p].at \in {"idle", "gc_delete"}, RestStays, LaunchRunsTheSet'
        PROVE  AloneInv'
    <2>1. PICK j : j = job'[p]
      OBVIOUS
    <2>2. Pending(j)'
      BY <1>2, <2>1 DEF Pending, AtHand
    <2>3. Complete(j)'
      BY <1>1, <1>2 DEF RestStays, Complete
    <2>4. OneRowPerSet'
      BY <1>0, <1>2 DEF RestStays, OneRowPerSet
    <2>5. RowsMatchHash'
      BY <1>0, <1>2 DEF RestStays, RowsMatchHash
    <2> QED BY <1>2, <2>1, <2>2, <2>3, <2>4, <2>5 DEF AloneInv
  <1>3. ASSUME NEW j, j.at = "gc_delete", RestStays, Goto(p, j) PROVE AloneInv'
    <2>1. LaunchRunsTheSet'
      BY <1>0, <1>3 DEF LaunchRunsTheSet, Goto
    <2>2. job'[p] = j
      BY <1>3 DEF Goto, RegistryInv, RegistryTypeOK
    <2> QED BY <1>2, <1>3, <2>1, <2>2
  <1>4. ASSUME RestStays, Return(p, [NoRet EXCEPT !.how = "ok"]) PROVE AloneInv'
    <2>1. [NoRet EXCEPT !.how = "ok"].how = "ok"
      BY DEF NoRet
    <2>2. PICK r : r.how = "ok" /\ ret' = [ret EXCEPT ![p] = r]
      BY <1>4, <2>1 DEF Return
    <2>3. LaunchRunsTheSet'
      BY <1>0, <2>2 DEF LaunchRunsTheSet, RegistryInv, RegistryTypeOK
    <2>4. job'[p].at = "idle"
      BY <1>4 DEF Idle, Return, RegistryInv, RegistryTypeOK
    <2> QED BY <1>2, <1>4, <2>3, <2>4
  <1>5. ASSUME NEW i, DeleteCascade(i) PROVE RestStays
    BY <1>5 DEF RestStays, DeleteCascade, Rows, RegistryInv, RegistryTypeOK
  <1>6. UNCHANGED <<bundle, member, bin>> => RestStays
    BY DEF RestStays, Rows
  <1>7. CASE bundle_remove_alias(p)
    <2>1. UNCHANGED <<bundle, member, bin>> /\ Return(p, [NoRet EXCEPT !.how = "ok"])
      BY <1>7 DEF bundle_remove_alias
    <2> QED BY <1>4, <1>6, <2>1
  <1>8. CASE bundle_delete(p)
    <2>1. DeleteCascade(job[p].id) /\ Return(p, [NoRet EXCEPT !.how = "ok"])
      BY <1>8 DEF bundle_delete
    <2> QED BY <1>4, <1>5, <2>1
  <1>9. CASE bundle_gc_select(p)
    <2>1. PICK V \in SUBSET Rows : \E j :
              j = [job[p] EXCEPT !.at = "gc_delete", !.left = V] /\ Goto(p, j)
      BY <1>9 DEF bundle_gc_select
    <2>2. PICK j : j = [job[p] EXCEPT !.at = "gc_delete", !.left = V] /\ Goto(p, j)
      BY <2>1
    <2>3. j.at = "gc_delete"
      BY <1>0, <2>2 DEF Job
    <2>4. UNCHANGED <<bundle, member, bin>>
      BY <1>9 DEF bundle_gc_select, tables
    <2> QED BY <1>3, <1>6, <2>2, <2>3, <2>4
  <1>10. CASE bundle_gc_delete(p)
    <2>1. CASE Return(p, [NoRet EXCEPT !.how = "ok"]) /\ UNCHANGED tables
      <3>1. UNCHANGED <<bundle, member, bin>>
        BY <2>1 DEF tables
      <3> QED BY <1>4, <1>6, <2>1, <3>1
    <2>2. ASSUME NEW i \in job[p].left, DeleteCascade(i),
                 NEW j, j = [job[p] EXCEPT !.left = @ \ {i}], Goto(p, j)
          PROVE  AloneInv'
      <3>1. j.at = "gc_delete"
        BY <1>0, <1>10, <2>2 DEF Job, bundle_gc_delete, At
      <3> QED BY <1>3, <1>5, <2>2, <3>1
    <2> QED BY <1>10, <2>1, <2>2 DEF bundle_gc_delete
  <1> QED BY <1>7, <1>8, <1>9, <1>10

(* The binary was built from the set of the bundle, and a launch runs it or *)
(* the members.                                                             *)
LEMMA AloneUses ==
    ASSUME RegistryInv, AloneInv, NEW p \in Procs, alone = p, alone' = alone,
           bundle_record_binary(p) \/ resolve_bundle_launch(p)
    PROVE  AloneInv'
  <1>0. /\ job[p] \in Job /\ ~AtHand(job[p]) /\ Complete(job[p]) /\ Pending(job[p])
        /\ OneRowPerSet /\ RowsMatchHash /\ LaunchRunsTheSet
    BY NobodyAssumption
    DEF RegistryInv, RegistryTypeOK, AloneInv, bundle_record_binary, resolve_bundle_launch, At, AtHand
  <1>1. ASSUME NEW h, h # "ran", Fail(p, h) PROVE AloneInv'
    <2>1. [NoRet EXCEPT !.how = h].how = h
      BY DEF NoRet
    <2> QED BY <1>0, <1>1, <2>1, AloneEnds DEF Fail
  <1>2. \A i \in Rows : member[i] = MembersOf[bundle[i].set]
    BY <1>0 DEF Complete
  <1>3. CASE bundle_record_binary(p)
    <2>1. job[p].id \in Rows /\ bundle[job[p].id].set = job[p].set
      BY <1>0, <1>3 DEF bundle_record_binary, At, Pending
    <2>2. CASE /\ bin' = [bin EXCEPT ![job[p].id] = job[p].set]
               /\ Return(p, [NoRet EXCEPT !.how = "ok"])
               /\ UNCHANGED <<bundle, member, alias>>
      <3>1. Rows' = Rows
        BY <2>2 DEF Rows
      <3>2. RowsMatchHash'
        BY <1>0, <2>1, <2>2, <3>1 DEF RowsMatchHash, RegistryInv, RegistryTypeOK, Rows
      <3>3. OneRowPerSet'
        BY <1>0, <2>2, <3>1 DEF OneRowPerSet
      <3>4. LaunchRunsTheSet'
        <4>1. [NoRet EXCEPT !.how = "ok"].how = "ok"
          BY DEF NoRet
        <4>2. PICK r : r.how = "ok" /\ ret' = [ret EXCEPT ![p] = r]
          BY <2>2, <4>1 DEF Return
        <4> QED BY <1>0, <4>2 DEF LaunchRunsTheSet, RegistryInv, RegistryTypeOK
      <3>5. job'[p] = Idle
        BY <2>2 DEF Return, RegistryInv, RegistryTypeOK
      <3>6. Pending(Idle)' /\ Complete(Idle)'
        BY <1>2, <2>2, <3>1 DEF Pending, Complete, Idle, AtHand
      <3> QED BY <3>2, <3>3, <3>4, <3>5, <3>6 DEF AloneInv
    <2> QED BY <1>1, <1>3, <2>2 DEF bundle_record_binary
  <1>4. CASE resolve_bundle_launch(p)
    <2>1. Complete(Idle) /\ UNCHANGED tables
      BY <1>2, <1>4 DEF Complete, resolve_bundle_launch
    <2>2. PICK i \in Ids \cup {0} :
            LET run(got) == Return(p, [how |-> "ran", set |-> bundle[i].set,
                                       id |-> i, got |-> got]) IN
            /\ bundle_find_by_name(job[p].name, i)
            /\ \/ i = 0 /\ Fail(p, "not_found")
               \/ i # 0 /\ bin[i] = NoSet /\ Fail(p, "no_binary")
               \/ i # 0 /\ bin[i] # NoSet /\ run(MembersOf[bin[i]])
               \/ i # 0 /\ run(member[i])
      BY <1>4 DEF resolve_bundle_launch
    <2>3. i # 0 => i \in Rows
      <3>1. job[p].name \in Names /\ alias[job[p].name] # 0 => alias[job[p].name] \in Rows
        BY DEF RegistryInv, NoOrphans
      <3>2. CASE alias[job[p].name] # 0 /\ job[p].name \notin Names
        BY <1>0, <1>4, <3>2 DEF Pending, resolve_bundle_launch, At
      <3> QED BY <2>2, <3>1, <3>2 DEF bundle_find_by_name, IsFirst, Rows
    <2>4. ASSUME NEW got, i # 0, got = MembersOf[bundle[i].set],
                 Return(p, [how |-> "ran", set |-> bundle[i].set, id |-> i, got |-> got])
          PROVE  AloneInv'
      BY <2>1, <2>4, AloneReturns
    <2>5. i # 0 /\ bin[i] # NoSet => MembersOf[bin[i]] = MembersOf[bundle[i].set]
      BY <1>0, <2>3 DEF RowsMatchHash
    <2> QED BY <1>1, <1>2, <2>2, <2>3, <2>4, <2>5
  <1> QED BY <1>3, <1>4

LEMMA AloneStep == RegistryInv /\ AloneInv /\ [AloneNext]_<<vars, alone>> => AloneInv'
  <1> SUFFICES ASSUME RegistryInv, AloneInv, [AloneNext]_<<vars, alone>> PROVE AloneInv'
    OBVIOUS
  <1>1. CASE UNCHANGED <<vars, alone>>
    BY <1>1 DEF vars, AloneInv, Pending, Complete, RowAtHand, Rows,
                OneRowPerSet, RowsMatchHash, LaunchRunsTheSet
  <1>2. CASE AloneNext /\ alone = Nobody
    BY <1>2 DEF AloneNext, AloneInv
  <1>3. CASE AloneNext /\ alone # Nobody
    <2>1. PICK p \in Procs : alone = p /\ (Call(p) \/ Step(p))
      BY <1>3 DEF AloneNext
    <2>2. alone' = alone
      BY <1>3 DEF AloneNext
    <2> QED
      BY <2>1, <2>2, AloneCall, AloneFinds, AloneInserts, AloneFills, AloneDeletes, AloneUses
      DEF Step
  <1> QED BY <1>1, <1>2, <1>3

(* The calls of one process that is not disturbed and not killed, in any    *)
(* order, with row ids used again after a deletion, keep the registry       *)
(* exact: one row per set, with the members and the binary of the set, and  *)
(* a launch runs them (bundle_save, resolve_bundle_launch).                 *)
THEOREM ExactWhenAloneHolds == AloneSpec => []ExactWhenAlone
  <1>1. AloneInit => RegistryInv
    BY RegistryInit DEF AloneInit
  <1>2. [AloneNext]_<<vars, alone>> => [Next]_vars
    BY DEF AloneNext, Next
  <1>3. RegistryInv /\ AloneInv => ExactWhenAlone
    BY DEF AloneInv, ExactWhenAlone
  <1> QED BY <1>1, <1>2, <1>3, RegistryNext, AloneStart, AloneStep, PTL DEF AloneSpec
=============================================================================
