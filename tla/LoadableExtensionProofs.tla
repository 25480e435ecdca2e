----------------------- MODULE LoadableExtensionProofs -----------------------
(***************************************************************************)
(* Proofs, for any number of connections, extensions, statements and        *)
(* faults, of what the loadable extension promises: whatever is registered  *)
(* is loaded, cells survive the conversions, groups are kept apart, tables  *)
(* have the rows their writers were told of, and cursors deliver them as    *)
(* VtabScan has it.                                                         *)
(***************************************************************************)
EXTENDS LoadableExtension, SequenceTheorems, FiniteSetTheorems, TLAPS

(* Types.  A guest keeps its memory in functions from the ids it was given. *)
Rows == Conns \X Nat \X Slots \X Nat
Instances == [rows : Seq(Nat), saved : Seq(Seq(Nat))]
Positions == [inst : Nat, left : Seq(Nat)]
Partial(T) == UNION {[D -> T] : D \in SUBSET Nat}
GuestT == [acc : Partial(Seq(Rows)), inst : Partial(Instances),
           cur : Partial(Positions), dead : BOOLEAN]
AggT == [host : Conns \cup {None}, next_id : Nat]
VtabT == [inst : Nat, gen : Nat, view : Seq(Nat), saved : Seq(Seq(Nat))]
TagT == Conns \X Nat \X Slots
DbT == [host : Conns \cup {None}, scalar : [Exts -> Conns \cup {None}],
        agg : [Exts -> AggT], module : SUBSET Exts, vtab : [Exts -> VtabT],
        open : SUBSET TagT]
TaskPcs == {"idle", "new", "set", "register", "install", "group", "scan", "write",
            "commit"}
TaskT == [todo : Seq(Statements), pc : TaskPcs, err : BOOLEAN]
GroupT == [id : Nat, gen : Nat, n : Nat, rows : Seq(Rows), hurt : BOOLEAN,
           done : BOOLEAN]
CursorPcs == {"closed", "open", "at", "row", "read", "over", "failed", "done"}
CursorT == [pc : CursorPcs, id : Nat, want : Seq(Nat), got : Seq(Nat),
            hurt : BOOLEAN, again : BOOLEAN]

HostTypes ==
    /\ HOST \in Conns \cup {None} /\ GLOBALS \in {None, HOST}
    /\ loaded \in [Conns -> [Exts -> Nat]]
    /\ next \in [inst : Nat, cur : Nat] /\ next.inst # 0 /\ next.cur # 0
    /\ faults \in 0..MaxFaults
ConnTypes ==
    /\ db \in [Conns -> DbT]
    /\ task \in [Conns -> TaskT]
    /\ grp \in [Conns -> [Slots -> GroupT]]
    /\ cur \in [Conns -> [Slots -> CursorT]]
Types == HostTypes /\ guests \in Seq(GuestT) /\ ConnTypes

(* Where a connection is in its statement, and what it has by then.         *)
AttachOnce(c) == \A i \in DOMAIN task[c].todo : task[c].todo[i].op = "attach" => i = 1
Place(c) ==
    /\ task[c].todo = <<>> => task[c].pc = "idle"
    /\ task[c].pc \in {"new", "set", "register"} => Stmt(c).op = "attach"
    /\ task[c].pc = "register" => db[c].host # None
    /\ task[c].pc = "install" => Stmt(c).op = "load"
    /\ task[c].pc = "group" =>
          Stmt(c).op \in {"group", "window"} /\ db[c].agg[Stmt(c).ext] # NoAgg
    /\ task[c].pc = "scan" => Stmt(c).op = "scan" /\ Vtab(c) # NoVtab
    /\ task[c].pc \in {"write", "commit"} => Stmt(c).op = "write" /\ Vtab(c) # NoVtab
Hosted(c) ==
    /\ db[c].host \in {None, HOST}
    /\ db[c].host = None /\ task[c].todo # <<>> =>
          Stmt(c).op = "attach" /\ task[c].pc \in {"idle", "new", "set"}

(* Nothing is registered, built or connected that is not loaded in the one  *)
(* Host.                                                                    *)
Behind(c, e) ==
    /\ db[c].scalar[e] # None => db[c].scalar[e] = HOST /\ loaded[HOST][e] # 0
    /\ db[c].agg[e] # NoAgg =>
          db[c].agg[e].host = HOST /\ HOST # None /\ loaded[HOST][e] # 0 /\ db[c].agg[e].next_id # 0
    /\ e \in db[c].module => GLOBALS # None /\ loaded[HOST][e] # 0
    /\ db[c].vtab[e] # NoVtab => e \in db[c].module
LoadedIds ==
    /\ \A h \in Conns, e \in Exts : loaded[h][e] <= Len(guests)
    /\ \A h, k \in Conns, e, f \in Exts :
          loaded[h][e] = loaded[k][f] /\ loaded[h][e] # 0 => h = k /\ e = f
    /\ \A h \in Conns, e \in Exts : loaded[h][e] # 0 => h = HOST
Installing(c) ==
    task[c].pc = "install" => db[c].host # None /\ loaded[db[c].host][Stmt(c).ext] # 0

BaseInv ==
    /\ Types /\ LoadedIds
    /\ \A c \in Conns :
          /\ AttachOnce(c) /\ Place(c) /\ Hosted(c) /\ Installing(c)
          /\ \A e \in Exts : Behind(c, e)
-----------------------------------------------------------------------------
(* A group has an id of its own in its registration.  Rows of its number    *)
(* are in the guest under that id, those of older groups under others.      *)
Level(c) == IF task[c].pc = "group" THEN Len(task[c].todo) ELSE Len(task[c].todo) + 1
IsOf(r, c, s) == r[1] = c /\ r[2] = Len(task[c].todo) /\ r[3] = s
Grouping(c, e) == task[c].pc = "group" /\ Stmt(c).ext = e

GroupIds(c) ==
    /\ \A s \in Slots :
          LET k == grp[c][s] IN
          /\ k # NoGroup => task[c].pc = "group"
          /\ k.id = 0 => k.rows = <<>>
          /\ k.id # 0 => k.id < db[c].agg[Stmt(c).ext].next_id
          /\ k.gen <= Len(guests)
          /\ \A i \in DOMAIN k.rows : IsOf(k.rows[i], c, s)
          /\ k.id # 0 /\ ~k.done => Tag(c, s) \in db[c].open
          /\ k.id # 0 /\ ~k.hurt => Others(c) = {}
    /\ \A s, t \in Slots : grp[c][s].id = grp[c][t].id /\ grp[c][s].id # 0 => s = t

(* A row in a guest is of a group that is open, under the id of that group. *)
KnownRow(e, id, r) ==
    LET c == r[1] IN
    /\ id < db[c].agg[e].next_id
    /\ r[2] >= Level(c)
    /\ task[c].todo # <<>> => Stmt(c).op # "attach"
    /\ <<r[1], r[2], r[3]>> \in db[c].open
    /\ task[c].pc = "group" /\ r[2] = Len(task[c].todo) => 
          Stmt(c).ext = e /\ grp[c][r[3]].id = id
    /\ \A s \in Slots : Grouping(c, e) /\ grp[c][s].id = id => IsOf(r, c, s)
Kept(g, e) ==
    \A id \in DOMAIN guests[g].acc :
        /\ id # 0
        /\ \A i \in DOMAIN guests[g].acc[id] : KnownRow(e, id, guests[g].acc[id][i])
GuestRows == \A e \in Exts : Guest(HOST, e) # 0 => Kept(Guest(HOST, e), e)

(* What the guest has for a group nobody disturbed.                         *)
Match(c, s) ==
    LET k == grp[c][s]
        g == Guest(HOST, Stmt(c).ext) IN
    task[c].pc = "group" /\ ~task[c].err /\ k.id # 0 /\ ~k.hurt /\ ~k.done /\ k.gen = g
        => At(guests[g].acc, k.id, <<>>) = k.rows

GroupInv ==
    /\ GuestRows /\ GroupsApart
    /\ \A c \in Conns : GroupIds(c) /\ \A s \in Slots : Match(c, s)

(* A table a connection is connected to has an instance of its own, in the  *)
(* guest it was made in and in no other.                                    *)
InstIds ==
    /\ \A g \in DOMAIN guests : \A i \in DOMAIN guests[g].inst : i # 0 /\ i < next.inst
    /\ \A c \in Conns, e \in Exts :
          LET v == db[c].vtab[e] IN
          /\ v # NoVtab => v.inst # 0 /\ v.inst < next.inst /\ v.gen # 0 /\ v.gen <= Len(guests)
          /\ \A g \in DOMAIN guests : v # NoVtab /\ v.inst \in DOMAIN guests[g].inst => v.gen = g
          /\ \A d \in Conns, f \in Exts :
                v # NoVtab /\ db[d].vtab[f] # NoVtab /\ v.inst = db[d].vtab[f].inst => c = d /\ e = f
SameSaved(c) ==
    task[c].pc \in {"write", "commit"} =>
        /\ Vtab(c).saved # <<>>
        /\ Vtab(c).gen = Guest(GLOBALS, Stmt(c).ext) =>
              guests[Vtab(c).gen].inst[Vtab(c).inst].saved = Vtab(c).saved
TableInv == InstIds /\ TableAsTold /\ \A c \in Conns : SameSaved(c)

(* A cursor has an id of its own; where a guest knows that id it has left   *)
(* of the table what the statement has not got yet.                         *)
CurIds ==
    /\ \A g \in DOMAIN guests : \A k \in DOMAIN guests[g].cur : k # 0 /\ k < next.cur
    /\ \A c \in Conns, s \in Slots :
          /\ cur[c][s] # NoCursor => task[c].pc = "scan"
          /\ cur[c][s].pc \in {"closed", "done"} <=> cur[c][s].id = 0
          /\ cur[c][s].id < next.cur
    /\ \A c, d \in Conns, s, t \in Slots :
          cur[c][s].id = cur[d][t].id /\ cur[c][s].id # 0 => c = d /\ s = t
Reads(c, s, k) ==
    LET u == cur[c][s] IN
    /\ u.pc \in {"at", "row"} => u.want = u.got \o k.left
    /\ u.pc = "row" => k.left # <<>>
    /\ u.pc = "read" => k.left # <<>> /\ u.want = u.got \o Tail(k.left)
Scanned(c, s) ==
    \A g \in DOMAIN guests :
        cur[c][s].id \in DOMAIN guests[g].cur =>
            LET k == guests[g].cur[cur[c][s].id] IN
            k.inst = Vtab(c).inst /\ g = Vtab(c).gen /\ Reads(c, s, k)
ScanInv == CurIds /\ \A c \in Conns, s \in Slots : Scanned(c, s)
-----------------------------------------------------------------------------
(* Functions from ids.                                                      *)
LEMMA PutType ==
    ASSUME NEW T, NEW f \in Partial(T), NEW k \in Nat, NEW v \in T
    PROVE  Put(f, k, v) \in Partial(T)
<1>1. PICK D \in SUBSET Nat : f \in [D -> T]
  BY DEF Partial
<1>2. Put(f, k, v) \in [D \cup {k} -> T]
  BY <1>1 DEF Put
<1> QED
  BY <1>2 DEF Partial

LEMMA DropType ==
    ASSUME NEW T, NEW f \in Partial(T), NEW k
    PROVE  Drop(f, k) \in Partial(T)
<1>1. PICK D \in SUBSET Nat : f \in [D -> T]
  BY DEF Partial
<1>2. Drop(f, k) \in [D \ {k} -> T]
  BY Zenon, <1>1 DEF Drop
<1> QED
  BY <1>2 DEF Partial

LEMMA ReplaceType ==
    ASSUME NEW T, NEW f \in Partial(T), NEW k, NEW v \in T
    PROVE  [f EXCEPT ![k] = v] \in Partial(T)
<1>1. PICK D \in SUBSET Nat : f \in [D -> T]
  BY DEF Partial
<1>2. [f EXCEPT ![k] = v] \in [D -> T]
  BY Zenon, <1>1
<1> QED
  BY <1>2 DEF Partial

LEMMA ReadType ==
    ASSUME NEW T, NEW f \in Partial(T), NEW k \in DOMAIN f
    PROVE  f[k] \in T /\ k \in Nat
BY Zenon DEF Partial

LEMMA PutReads ==
    ASSUME NEW f, NEW k, NEW v
    PROVE  /\ DOMAIN Put(f, k, v) = DOMAIN f \cup {k} /\ Put(f, k, v)[k] = v
           /\ \A x \in DOMAIN f : x # k => Put(f, k, v)[x] = f[x]
BY DEF Put

LEMMA DropReads ==
    ASSUME NEW f, NEW k
    PROVE  /\ DOMAIN Drop(f, k) = DOMAIN f \ {k}
           /\ \A x \in DOMAIN f \ {k} : Drop(f, k)[x] = f[x]
BY DEF Drop
-----------------------------------------------------------------------------
(* What a step does to the memories of the guests.                          *)
SameGuests == guests' \in Seq(GuestT) /\ Len(guests') = Len(guests)
SameAcc == \A i \in DOMAIN guests : guests'[i].acc = guests[i].acc
SameInst == \A i \in DOMAIN guests : guests'[i].inst = guests[i].inst
SameCur == \A i \in DOMAIN guests : guests'[i].cur = guests[i].cur
Unmoved == SameGuests /\ SameAcc /\ SameInst /\ SameCur

LEMMA UnchangedGuests ==
    ASSUME guests \in Seq(GuestT), guests' = guests PROVE Unmoved
BY DEF Unmoved, SameGuests, SameAcc, SameInst, SameCur

LEMMA SeqReplace ==
    ASSUME NEW T, NEW q \in Seq(T), NEW g \in DOMAIN q, NEW v \in T
    PROVE  /\ [q EXCEPT ![g] = v] \in Seq(T) /\ Len([q EXCEPT ![g] = v]) = Len(q)
           /\ [q EXCEPT ![g] = v][g] = v
           /\ \A i \in DOMAIN q : i # g => [q EXCEPT ![g] = v][i] = q[i]
OBVIOUS

LEMMA SetGuest ==
    ASSUME guests \in Seq(GuestT), NEW g \in DOMAIN guests, NEW v \in GuestT,
           guests' = [guests EXCEPT ![g] = v]
    PROVE  /\ SameGuests /\ guests'[g] = v
           /\ \A i \in DOMAIN guests : i # g => guests'[i] = guests[i]
BY SeqReplace DEF SameGuests

LEMMA GuestOf ==
    ASSUME guests \in Seq(GuestT), NEW g \in DOMAIN guests
    PROVE  guests[g] \in GuestT
OBVIOUS

LEMMA TrappedGuest ==
    ASSUME guests \in Seq(GuestT), NEW g \in DOMAIN guests,
           guests' = [guests EXCEPT ![g].dead = TRUE]
    PROVE  Unmoved
<1> DEFINE v == [guests[g] EXCEPT !.dead = TRUE]
<1>1. /\ v \in GuestT /\ v.acc = guests[g].acc /\ v.inst = guests[g].inst
      /\ v.cur = guests[g].cur
  BY Zenon, GuestOf DEF GuestT
<1>2. guests' = [guests EXCEPT ![g] = v]
  OBVIOUS
<1> HIDE DEF v
<1> QED
  BY Zenon, <1>1, <1>2, SetGuest DEF Unmoved, SameAcc, SameInst, SameCur

LEMMA SetAcc ==
    ASSUME guests \in Seq(GuestT), NEW g \in DOMAIN guests,
           NEW f \in Partial(Seq(Rows)), guests' = [guests EXCEPT ![g].acc = f]
    PROVE  /\ SameGuests /\ SameInst /\ SameCur /\ guests'[g].acc = f
           /\ \A i \in DOMAIN guests : i # g => guests'[i].acc = guests[i].acc
<1> DEFINE v == [guests[g] EXCEPT !.acc = f]
<1>1. /\ v \in GuestT /\ v.acc = f /\ v.inst = guests[g].inst
      /\ v.cur = guests[g].cur
  BY GuestOf DEF GuestT
<1>2. guests' = [guests EXCEPT ![g] = v]
  OBVIOUS
<1> HIDE DEF v
<1> QED
  BY Zenon, <1>1, <1>2, SetGuest DEF SameInst, SameCur

LEMMA SetInsts ==
    ASSUME guests \in Seq(GuestT), NEW g \in DOMAIN guests,
           NEW f \in Partial(Instances), guests' = [guests EXCEPT ![g].inst = f]
    PROVE  /\ SameGuests /\ SameAcc /\ SameCur /\ guests'[g].inst = f
           /\ \A i \in DOMAIN guests : i # g => guests'[i].inst = guests[i].inst
<1> DEFINE v == [guests[g] EXCEPT !.inst = f]
<1>1. /\ v \in GuestT /\ v.inst = f /\ v.acc = guests[g].acc
      /\ v.cur = guests[g].cur
  BY GuestOf DEF GuestT
<1>2. guests' = [guests EXCEPT ![g] = v]
  OBVIOUS
<1> HIDE DEF v
<1> QED
  BY Zenon, <1>1, <1>2, SetGuest DEF SameAcc, SameCur

LEMMA SetCurs ==
    ASSUME guests \in Seq(GuestT), NEW g \in DOMAIN guests,
           NEW f \in Partial(Positions), guests' = [guests EXCEPT ![g].cur = f]
    PROVE  /\ SameGuests /\ SameAcc /\ SameInst /\ guests'[g].cur = f
           /\ \A i \in DOMAIN guests : i # g => guests'[i].cur = guests[i].cur
<1> DEFINE v == [guests[g] EXCEPT !.cur = f]
<1>1. /\ v \in GuestT /\ v.cur = f /\ v.acc = guests[g].acc
      /\ v.inst = guests[g].inst
  BY GuestOf DEF GuestT
<1>2. guests' = [guests EXCEPT ![g] = v]
  OBVIOUS
<1> HIDE DEF v
<1> QED
  BY Zenon, <1>1, <1>2, SetGuest DEF SameAcc, SameInst

LEMMA FaultCounted ==
    ASSUME faults \in 0..MaxFaults, Fine \/ MayFail PROVE faults' \in 0..MaxFaults
BY ExtensionAssumption DEF Fine, MayFail

(* The callbacks of a guest that does not answer change no memory.          *)
LEMMA Refusal ==
    ASSUME Types, NEW g \in 0..Len(guests), NEW c, NEW s,
           Refuses(g) \/ InstRefuses(g, c) \/ CurRefuses(g, c, s)
    PROVE  Unmoved /\ faults' \in 0..MaxFaults
<1> USE DEF Types, HostTypes
<1>1. Refuses(g) \/ (Fine /\ UNCHANGED guests)
  BY DEF InstRefuses, CurRefuses
<1>2. CASE Refuses(g)
  <2>1. UNCHANGED guests \/ (g \in DOMAIN guests /\ guests' = [guests EXCEPT ![g].dead = TRUE])
    BY <1>2 DEF Refuses, Alive
  <2>2. Fine \/ MayFail
    BY <1>2 DEF Refuses
  <2> QED
    BY <2>1, <2>2, UnchangedGuests, TrappedGuest, FaultCounted
<1>3. CASE Fine /\ UNCHANGED guests
  BY <1>3, UnchangedGuests, FaultCounted
<1> QED
  BY <1>1, <1>2, <1>3

LEMMA GuestIs ==
    ASSUME BaseInv, NEW h \in Conns \cup {None}, NEW e \in Exts
    PROVE  Guest(h, e) \in 0..Len(guests) /\ (Guest(h, e) # 0 => Guest(h, e) \in DOMAIN guests)
BY DEF BaseInv, LoadedIds, Types, HostTypes, Guest

-----------------------------------------------------------------------------
(* What a step of c does to its statement and to its connection.            *)
OthersKept(c) == \A d \in Conns \ {c} : task'[d] = task[d] /\ db'[d] = db[d]

LEMMA StmtIs ==
    ASSUME task \in [Conns -> TaskT], NEW c \in Conns, task[c].todo # <<>>
    PROVE  /\ task[c].todo \in Seq(Statements) /\ Len(task[c].todo) >= 1
           /\ Stmt(c) = task[c].todo[1] /\ Stmt(c) \in Statements /\ Stmt(c).ext \in Exts
           /\ Tail(task[c].todo) \in Seq(Statements)
           /\ Len(Tail(task[c].todo)) = Len(task[c].todo) - 1
           /\ \A i \in 1..Len(task[c].todo) - 1 : Tail(task[c].todo)[i] = task[c].todo[i + 1]
<1>1. task[c].todo \in Seq(Statements)
  BY DEF TaskT
<1>2. /\ Len(task[c].todo) >= 1 /\ Stmt(c) = task[c].todo[1] /\ Stmt(c) \in Statements
  BY <1>1 DEF Stmt
<1>3. Stmt(c).ext \in Exts
  BY <1>2 DEF Statements
<1> QED
  BY <1>1, <1>2, <1>3

LEMMA FailEffect ==
    ASSUME task \in [Conns -> TaskT], NEW c \in Conns, Fail(c)
    PROVE  /\ task' \in [Conns -> TaskT] /\ \A d \in Conns \ {c} : task'[d] = task[d]
           /\ task'[c].todo = task[c].todo /\ task'[c].pc = task[c].pc /\ task'[c].err
BY Zenon DEF Fail, TaskT

LEMMA GotoEffect ==
    ASSUME task \in [Conns -> TaskT], NEW c \in Conns, NEW pc \in TaskPcs, Goto(c, pc)
    PROVE  /\ task' \in [Conns -> TaskT] /\ \A d \in Conns \ {c} : task'[d] = task[d]
           /\ task'[c].todo = task[c].todo /\ task'[c].pc = pc /\ task'[c].err = task[c].err
BY Zenon DEF Goto, TaskT

LEMMA EndWithEffect ==
    ASSUME task \in [Conns -> TaskT], NEW c \in Conns, NEW rest \in Seq(Statements),
           EndWith(c, rest)
    PROVE  /\ task' \in [Conns -> TaskT] /\ \A d \in Conns \ {c} : task'[d] = task[d]
           /\ task'[c].todo = rest /\ task'[c].pc = "idle" /\ ~task'[c].err
BY DEF EndWith, TaskT, TaskPcs

LEMMA EndEffect ==
    ASSUME task \in [Conns -> TaskT], NEW c \in Conns, task[c].todo # <<>>, End(c)
    PROVE  /\ task' \in [Conns -> TaskT] /\ \A d \in Conns \ {c} : task'[d] = task[d]
           /\ task'[c].todo = Tail(task[c].todo) /\ task'[c].pc = "idle" /\ ~task'[c].err
BY Zenon, StmtIs, EndWithEffect DEF End

LEMMA SetVtabEffect ==
    ASSUME db \in [Conns -> DbT], NEW c \in Conns, Stmt(c).ext \in Exts, NEW v \in VtabT,
           SetVtab(c, v)
    PROVE  /\ db' \in [Conns -> DbT] /\ \A d \in Conns \ {c} : db'[d] = db[d]
           /\ db'[c].host = db[c].host /\ db'[c].scalar = db[c].scalar
           /\ db'[c].agg = db[c].agg /\ db'[c].module = db[c].module
           /\ db'[c].open = db[c].open
           /\ db'[c].vtab[Stmt(c).ext] = v
           /\ \A e \in Exts \ {Stmt(c).ext} : db'[c].vtab[e] = db[c].vtab[e]
<1> DEFINE f == [db[c].vtab EXCEPT ![Stmt(c).ext] = v]
           x == [db[c] EXCEPT !.vtab = f]
<1>1. f \in [Exts -> VtabT] /\ db[c] \in DbT
  BY DEF DbT
<1>2. f[Stmt(c).ext] = v /\ \A e \in Exts \ {Stmt(c).ext} : f[e] = db[c].vtab[e]
  BY <1>1 DEF DbT
<1> HIDE DEF f
<1>3. /\ x \in DbT /\ x.host = db[c].host /\ x.scalar = db[c].scalar /\ x.agg = db[c].agg
      /\ x.module = db[c].module /\ x.open = db[c].open /\ x.vtab = f
  BY <1>1 DEF DbT
<1>4. db' = [db EXCEPT ![c] = x]
  BY DEF SetVtab, f
<1> HIDE DEF x
<1> QED
  BY <1>1, <1>2, <1>3, <1>4

LEMMA NoVtabIs == NoVtab \in VtabT
BY DEF NoVtab, VtabT

LEMMA VtabIs ==
    ASSUME Types, NEW c \in Conns, task[c].todo # <<>>
    PROVE  Vtab(c) = db[c].vtab[Stmt(c).ext] /\ Vtab(c) \in VtabT
BY StmtIs DEF Types, ConnTypes, DbT, Vtab
-----------------------------------------------------------------------------
(* A step of c that loads and registers nothing.                            *)
Own(c) == AttachOnce(c) /\ Place(c) /\ Hosted(c) /\ Installing(c)

SameRegistered(c) ==
    /\ db'[c].host = db[c].host /\ db'[c].scalar = db[c].scalar
    /\ db'[c].module = db[c].module
    /\ \A e \in Exts : /\ db'[c].agg[e].host = db[c].agg[e].host
                       /\ db'[c].agg[e].next_id >= db[c].agg[e].next_id
                       /\ db[c].agg[e] = NoAgg => db'[c].agg[e] = NoAgg

LEMMA OthersOwn ==
    ASSUME BaseInv, NEW c \in Conns, OthersKept(c), NEW d \in Conns, d # c,
           HOST' = HOST \/ HOST = None,
           \A h \in Conns, e \in Exts : loaded[h][e] # 0 => loaded'[h][e] # 0
    PROVE  Own(d)'
<1>1. task'[d] = task[d] /\ db'[d] = db[d] /\ Stmt(d)' = Stmt(d) /\ Vtab(d)' = Vtab(d)
  BY DEF OthersKept, Stmt, Vtab
<1>2. AttachOnce(d) /\ Place(d) /\ Hosted(d) /\ Installing(d)
  BY DEF BaseInv
<1>3. (AttachOnce(d) /\ Place(d))'
  BY <1>1, <1>2 DEF AttachOnce, Place
<1>4. Hosted(d)'
  BY <1>1, <1>2 DEF Hosted
<1>5. Installing(d)'
  <2>1. CASE task[d].pc = "install"
    <3>1. task[d].todo # <<>>
      BY <2>1, <1>2 DEF Place
    <3>2. Stmt(d).ext \in Exts /\ db[d].host \in Conns
      BY <3>1, <2>1, <1>2, StmtIs DEF BaseInv, Types, ConnTypes, DbT, Installing
    <3> QED
      BY <1>1, <1>2, <2>1, <3>2 DEF Installing
  <2>2. CASE task[d].pc # "install"
    BY <1>1, <2>2 DEF Installing
  <2> QED
    BY <2>1, <2>2
<1> QED
  BY <1>3, <1>4, <1>5 DEF Own

LEMMA QuietBase ==
    ASSUME BaseInv, Types', Len(guests') = Len(guests), UNCHANGED <<HOST, GLOBALS, loaded>>,
           NEW c \in Conns, OthersKept(c), SameRegistered(c), Own(c)',
           \A e \in Exts : db'[c].vtab[e] # NoVtab => e \in db[c].module
    PROVE  BaseInv'
<1>1. LoadedIds'
  BY DEF BaseInv, LoadedIds
<1>2. ASSUME NEW d \in Conns PROVE Own(d)'
  <2>1. CASE d = c
    BY <2>1
  <2>2. CASE d # c
    BY <2>2, OthersOwn
  <2> QED
    BY <2>1, <2>2
<1>3. ASSUME NEW d \in Conns, NEW e \in Exts PROVE Behind(d, e)'
  <2>1. Behind(d, e)
    BY DEF BaseInv
  <2>2. CASE d # c
    <3>1. db'[d] = db[d]
      BY <2>2 DEF OthersKept
    <3> QED
      BY <2>1, <3>1 DEF Behind
  <2>3. CASE d = c
    <3>1. db[c].agg[e].next_id \in Nat /\ db'[c].agg[e].next_id \in Nat
      BY DEF BaseInv, Types, ConnTypes, DbT, AggT
    <3>2. db'[c].agg[e] # NoAgg =>
             db'[c].agg[e].host = HOST /\ HOST # None /\ loaded[HOST][e] # 0 /\ db'[c].agg[e].next_id # 0
      BY <2>1, <2>3, <3>1 DEF Behind, SameRegistered
    <3> QED
      BY <2>1, <2>3, <3>2 DEF Behind, SameRegistered
  <2> QED
    BY <2>2, <2>3
<1> QED
  BY <1>1, <1>2, <1>3 DEF BaseInv, Own

LEMMA EndOwn ==
    ASSUME BaseInv, NEW c \in Conns, task[c].todo # <<>>, Stmt(c).op # "attach", End(c),
           HOST' = HOST, db'[c].host = db[c].host
    PROVE  Own(c)'
<1> USE DEF BaseInv
<1>1. /\ task'[c].todo = Tail(task[c].todo) /\ task'[c].pc = "idle"
  BY EndEffect DEF Types, ConnTypes
<1>2. AttachOnce(c)'
  <2> SUFFICES ASSUME NEW i \in DOMAIN Tail(task[c].todo),
                      Tail(task[c].todo)[i].op = "attach"
               PROVE  FALSE
    BY <1>1 DEF AttachOnce
  <2>1. /\ task[c].todo \in Seq(Statements) /\ Tail(task[c].todo) \in Seq(Statements)
        /\ i \in 1..Len(task[c].todo) - 1 /\ task[c].todo[i + 1].op = "attach"
    BY StmtIs DEF Types, ConnTypes
  <2>2. i + 1 \in DOMAIN task[c].todo /\ i + 1 # 1
    BY <2>1
  <2> QED
    BY <2>1, <2>2 DEF AttachOnce
<1>3. (Place(c) /\ Installing(c))'
  BY <1>1 DEF Place, Installing
<1>4. Hosted(c)'
  BY <1>1 DEF Hosted
<1> QED
  BY <1>2, <1>3, <1>4 DEF Own

LEMMA AggStays ==
    ASSUME BaseInv, NEW c \in Conns, SameRegistered(c), Types', NEW e \in Exts,
           db[c].agg[e] # NoAgg
    PROVE  db'[c].agg[e] # NoAgg
<1>1. db[c].agg[e].next_id \in Nat /\ db'[c].agg[e].next_id \in Nat
  BY DEF BaseInv, Types, ConnTypes, DbT, AggT
<1>2. db[c].agg[e].next_id # 0
  BY DEF BaseInv, Behind
<1> QED
  BY <1>1, <1>2 DEF SameRegistered, NoAgg

LEMMA StayOwn ==
    ASSUME BaseInv, NEW c \in Conns, task[c].todo # <<>>, SameRegistered(c), Types',
           task'[c].todo = task[c].todo, task'[c].pc = task[c].pc, HOST' = HOST,
           loaded' = loaded,
           task[c].pc \in {"scan", "write", "commit"} => db'[c].vtab[Stmt(c).ext] # NoVtab
    PROVE  Own(c)'
<1> USE DEF BaseInv
<1>1. Stmt(c)' = Stmt(c) /\ Stmt(c).ext \in Exts
  BY StmtIs DEF Stmt, Types, ConnTypes
<1>2. db[c].agg[Stmt(c).ext] # NoAgg => db'[c].agg[Stmt(c).ext] # NoAgg
  BY <1>1, AggStays
<1>3. db'[c].host = db[c].host
  BY DEF SameRegistered
<1>4. AttachOnce(c)' /\ Hosted(c)' /\ Installing(c)'
  BY <1>1, <1>3 DEF AttachOnce, Hosted, Installing
<1>5. Place(c)'
  BY <1>1, <1>2, <1>3 DEF Place, Vtab
<1> QED
  BY <1>4, <1>5 DEF Own

LEMMA GotoOwn ==
    ASSUME BaseInv, NEW c \in Conns, task[c].todo # <<>>, Stmt(c).op # "attach",
           SameRegistered(c), Types', task'[c].todo = task[c].todo, HOST' = HOST,
           \/ /\ task'[c].pc = "group" /\ Stmt(c).op \in {"group", "window"}
              /\ db[c].agg[Stmt(c).ext] # NoAgg
           \/ /\ task'[c].pc = "scan" /\ Stmt(c).op = "scan"
              /\ db'[c].vtab[Stmt(c).ext] # NoVtab
           \/ /\ task'[c].pc \in {"write", "commit"} /\ Stmt(c).op = "write"
              /\ db'[c].vtab[Stmt(c).ext] # NoVtab
    PROVE  Own(c)'
<1> USE DEF BaseInv
<1>1. Stmt(c)' = Stmt(c) /\ Stmt(c).ext \in Exts
  BY StmtIs DEF Stmt, Types, ConnTypes
<1>2. db[c].agg[Stmt(c).ext] # NoAgg => db'[c].agg[Stmt(c).ext] # NoAgg
  BY <1>1, AggStays
<1>3. db'[c].host = db[c].host
  BY DEF SameRegistered
<1>4. AttachOnce(c)' /\ Hosted(c)' /\ Installing(c)'
  BY <1>1, <1>3 DEF AttachOnce, Hosted, Installing
<1>5. Place(c)'
  BY <1>1, <1>2, <1>3 DEF Place, Vtab
<1> QED
  BY <1>4, <1>5 DEF Own

-----------------------------------------------------------------------------
(* The callbacks of tables other than those of cursors.                     *)
SameBeside(c) ==
    /\ db'[c].host = db[c].host /\ db'[c].scalar = db[c].scalar
    /\ db'[c].module = db[c].module
    /\ db'[c].agg = db[c].agg /\ db'[c].open = db[c].open
TableMoves(c) ==
    \/ task'[c].todo = task[c].todo /\ task'[c].pc \in {"idle", "scan", "write", "commit"}
    \/ task'[c].todo = Tail(task[c].todo) /\ task'[c].pc = "idle"
TableFrame(c) ==
    /\ UNCHANGED <<HOST, GLOBALS, loaded, grp, cur, seen>>
    /\ SameGuests /\ SameAcc /\ SameCur
    /\ OthersKept(c) /\ SameBeside(c)
    /\ task[c].todo # <<>> /\ Stmt(c).op \in {"scan", "write", "drop"}
    /\ task[c].pc \in {"idle", "write", "commit"} /\ TableMoves(c)

(* The guest rewrote the instance behind the table as i, sqlite3 knows the  *)
(* table as v from now on.                                                  *)
Rewritten(c, i, v) ==
    LET g == Vtab(c).gen IN
    /\ Vtab(c) # NoVtab /\ g \in DOMAIN guests /\ g = TableGuest(c)
    /\ Vtab(c).inst \in DOMAIN guests[g].inst
    /\ guests'[g].inst = [guests[g].inst EXCEPT ![Vtab(c).inst] = i]
    /\ \A k \in DOMAIN guests : k # g => guests'[k].inst = guests[k].inst
    /\ db'[c].vtab[Stmt(c).ext] = v
    /\ \A e \in Exts \ {Stmt(c).ext} : db'[c].vtab[e] = db[c].vtab[e]

(* The guest did nothing, and all sqlite3 may forget are its savepoints.    *)
Ignored(c) ==
    /\ SameInst
    /\ \A e \in Exts \ {Stmt(c).ext} : db'[c].vtab[e] = db[c].vtab[e]
    /\ \/ /\ db'[c].vtab[Stmt(c).ext] = Vtab(c)
          /\ task'[c].pc \in {"write", "commit"} => task[c].pc \in {"write", "commit"}
       \/ /\ Vtab(c) # NoVtab /\ task'[c].pc = "idle"
          /\ db'[c].vtab[Stmt(c).ext] = [Vtab(c) EXCEPT !.saved = <<>>]

(* What is written is what is told.                                         *)
Accounted(c, i, v) ==
    /\ v.inst = Vtab(c).inst /\ v.gen = Vtab(c).gen /\ i.rows = v.view
    /\ task'[c].pc \in {"write", "commit"} => v.saved # <<>> /\ i.saved = v.saved
Written(c) == \E i \in Instances, v \in VtabT : Rewritten(c, i, v) /\ Accounted(c, i, v)

LEMMA TableGuestIs ==
    ASSUME BaseInv, NEW c \in Conns, task[c].todo # <<>>
    PROVE  /\ TableGuest(c) \in 0..Len(guests)
           /\ TableGuest(c) # 0 => TableGuest(c) \in DOMAIN guests
BY Zenon, GuestIs, StmtIs DEF BaseInv, Types, HostTypes, ConnTypes, TableGuest

(* An instance the guest answers about is that of the table's guest.        *)
LEMMA AnsweringGuest ==
    ASSUME BaseInv, TableInv, NEW c \in Conns, task[c].todo # <<>>, Vtab(c) # NoVtab,
           Knows(TableGuest(c), c)
    PROVE  /\ TableGuest(c) \in DOMAIN guests /\ Vtab(c).gen = TableGuest(c)
           /\ Vtab(c).inst \in DOMAIN guests[TableGuest(c)].inst
           /\ Inst(TableGuest(c), c) \in Instances
           /\ guests[TableGuest(c)].inst \in Partial(Instances)
           /\ Inst(TableGuest(c), c).rows = Vtab(c).view
           /\ task[c].pc \in {"write", "commit"} =>
                 Vtab(c).saved # <<>> /\ Inst(TableGuest(c), c).saved = Vtab(c).saved
<1> DEFINE g == TableGuest(c)
<1>1. g \in DOMAIN guests /\ Vtab(c).inst \in DOMAIN guests[g].inst
  BY TableGuestIs DEF Knows, Alive
<1>2. Stmt(c).ext \in Exts
  BY StmtIs DEF BaseInv, Types, ConnTypes
<1>3. Vtab(c).gen = g
  BY <1>1, <1>2 DEF TableInv, InstIds, Vtab
<1>4. guests[g].inst \in Partial(Instances)
  BY <1>1, GuestOf DEF BaseInv, Types, GuestT
<1>5. Inst(g, c) \in Instances
  BY <1>1, <1>4, ReadType DEF Inst
<1>6. Inst(g, c).rows = Vtab(c).view
  BY <1>1, <1>2, <1>3 DEF TableInv, TableAsTold, Inst, Vtab, TableGuest
<1>7. task[c].pc \in {"write", "commit"} =>
         Vtab(c).saved # <<>> /\ Inst(g, c).saved = Vtab(c).saved
  BY <1>1, <1>3 DEF TableInv, SameSaved, Inst, TableGuest
<1> QED
  BY <1>1, <1>3, <1>4, <1>5, <1>6, <1>7

LEMMA ToldEffect ==
    ASSUME BaseInv, TableInv, NEW c \in Conns, task[c].todo # <<>>, Vtab(c) # NoVtab,
           NEW i \in Instances, NEW v \in VtabT, Told(TableGuest(c), c, i, v)
    PROVE  /\ Rewritten(c, i, v) /\ SameGuests /\ SameAcc /\ SameCur
           /\ faults' \in 0..MaxFaults /\ db' \in [Conns -> DbT] /\ SameBeside(c)
           /\ \A d \in Conns \ {c} : db'[d] = db[d]
<1> DEFINE g == TableGuest(c)
<1> USE DEF BaseInv, Types, ConnTypes, HostTypes
<1>1. Knows(g, c) /\ SetInst(g, c, i) /\ SetVtab(c, v) /\ Fine
  BY DEF Told, InstAnswers
<1>2. /\ g \in DOMAIN guests /\ Vtab(c).gen = g
      /\ Vtab(c).inst \in DOMAIN guests[g].inst
      /\ guests[g].inst \in Partial(Instances)
  BY <1>1, AnsweringGuest
<1> DEFINE f == [guests[g].inst EXCEPT ![Vtab(c).inst] = i]
<1>3. f \in Partial(Instances)
  BY <1>2, ReplaceType
<1>4. guests' = [guests EXCEPT ![g].inst = f]
  BY <1>1 DEF SetInst
<1> HIDE DEF f, g
<1>5. /\ SameGuests /\ SameAcc /\ SameCur /\ guests'[g].inst = f
      /\ \A k \in DOMAIN guests : k # g => guests'[k].inst = guests[k].inst
  BY Zenon, <1>2, <1>3, <1>4, SetInsts
<1>6. Stmt(c).ext \in Exts
  BY StmtIs
<1>7. /\ db' \in [Conns -> DbT] /\ SameBeside(c) /\ \A d \in Conns \ {c} : db'[d] = db[d]
      /\ db'[c].vtab[Stmt(c).ext] = v
      /\ \A e \in Exts \ {Stmt(c).ext} : db'[c].vtab[e] = db[c].vtab[e]
  BY <1>1, <1>6, SetVtabEffect DEF SameBeside
<1>8. faults' \in 0..MaxFaults
  BY <1>1, FaultCounted
<1>9. Rewritten(c, i, v)
  BY <1>2, <1>5, <1>7 DEF Rewritten, f, g
<1> QED
  BY <1>5, <1>7, <1>8, <1>9

(* The statement goes on, to its callbacks, or ends.                        *)
TaskGoes(c) ==
    /\ task' \in [Conns -> TaskT] /\ \A d \in Conns \ {c} : task'[d] = task[d]
    /\ \/ task'[c].todo = task[c].todo /\ task'[c].pc = task[c].pc
       \/ /\ task'[c].todo = task[c].todo
          /\ \/ task'[c].pc = "scan" /\ Stmt(c).op = "scan"
             \/ task'[c].pc \in {"write", "commit"} /\ Stmt(c).op = "write"
       \/ End(c)

LEMMA TaskGoesOn ==
    ASSUME BaseInv, NEW c \in Conns, task[c].todo # <<>>,
           \/ UNCHANGED task \/ Fail(c) \/ End(c)
           \/ Goto(c, "scan") /\ Stmt(c).op = "scan"
           \/ Goto(c, "write") /\ Stmt(c).op = "write"
           \/ Goto(c, "commit") /\ Stmt(c).op = "write"
    PROVE  TaskGoes(c)
<1> USE DEF BaseInv, Types, ConnTypes
<1>1. {"scan", "write", "commit"} \subseteq TaskPcs
  BY DEF TaskPcs
<1> QED
  BY <1>1, FailEffect, EndEffect, GotoEffect DEF TaskGoes

LEMMA TableStepBase ==
    ASSUME BaseInv, NEW c \in Conns, task[c].todo # <<>>,
           Stmt(c).op \in {"scan", "write", "drop"},
           task[c].pc \in {"idle", "write", "commit"},
           UNCHANGED <<HOST, GLOBALS, loaded, grp, cur, seen>>,
           next' \in [inst : Nat, cur : Nat] /\ next'.inst # 0 /\ next'.cur # 0,
           SameGuests, SameAcc, SameCur, faults' \in 0..MaxFaults,
           TaskGoes(c), db' \in [Conns -> DbT], SameBeside(c),
           \A d \in Conns \ {c} : db'[d] = db[d],
           End(c) \/ db'[c].vtab[Stmt(c).ext] # NoVtab
    PROVE  Types' /\ TableFrame(c) /\ Own(c)'
<1>1. Types'
  BY DEF BaseInv, Types, HostTypes, ConnTypes, SameGuests, TaskGoes
<1>2. TableMoves(c) /\ OthersKept(c)
  BY EndEffect DEF TaskGoes, OthersKept, TableMoves, BaseInv, Types, ConnTypes
<1>3. SameRegistered(c)
  BY DEF SameRegistered, SameBeside, BaseInv, Types, ConnTypes, DbT, AggT
<1>4. Own(c)'
  <2>1. CASE End(c)
    BY <2>1, EndOwn DEF SameBeside
  <2>2. CASE db'[c].vtab[Stmt(c).ext] # NoVtab /\ task'[c].pc = task[c].pc
               /\ task'[c].todo = task[c].todo
    BY <2>2, <1>1, <1>3, StayOwn
  <2>3. CASE /\ db'[c].vtab[Stmt(c).ext] # NoVtab
             /\ task'[c].todo = task[c].todo
             /\ \/ task'[c].pc = "scan" /\ Stmt(c).op = "scan"
                \/ task'[c].pc \in {"write", "commit"} /\ Stmt(c).op = "write"
    BY <2>3, <1>1, <1>3, GotoOwn
  <2> QED
    BY <2>1, <2>2, <2>3 DEF TaskGoes
<1> QED
  BY <1>1, <1>2, <1>4 DEF TableFrame

LEMMA NothingSaved ==
    ASSUME NEW v \in VtabT PROVE [v EXCEPT !.saved = <<>>] \in VtabT
<1>1. <<>> \in Seq(Seq(Nat))
  OBVIOUS
<1> QED
  BY Zenon, <1>1 DEF VtabT

(* A callback the guest refused, or one that changes nothing.               *)
LEMMA IgnoredStep ==
    ASSUME BaseInv, NEW c \in Conns, task[c].todo # <<>>, Vtab(c) # NoVtab,
           Stmt(c).op \in {"scan", "write", "drop"},
           task[c].pc \in {"idle", "write", "commit"},
           UNCHANGED <<HOST, GLOBALS, loaded, next, grp, cur, seen>>,
           Unmoved, faults' \in 0..MaxFaults, TaskGoes(c),
           \/ /\ UNCHANGED db
              /\ task'[c].pc \in {"write", "commit"} => task[c].pc \in {"write", "commit"}
           \/ SetVtab(c, [Vtab(c) EXCEPT !.saved = <<>>]) /\ End(c)
    PROVE  Types' /\ TableFrame(c) /\ Own(c)' /\ Ignored(c)
<1> USE DEF BaseInv, Types, ConnTypes
<1>1. SameGuests /\ SameAcc /\ SameCur /\ SameInst
  BY DEF Unmoved
<1>2. Vtab(c) = db[c].vtab[Stmt(c).ext] /\ Vtab(c) \in VtabT /\ Stmt(c).ext \in Exts
  BY VtabIs, StmtIs
<1>3. CASE /\ UNCHANGED db
           /\ task'[c].pc \in {"write", "commit"} => task[c].pc \in {"write", "commit"}
  <2>1. SameBeside(c) /\ Ignored(c)
    BY <1>1, <1>2, <1>3 DEF SameBeside, Ignored
  <2> QED
    BY <1>1, <1>2, <1>3, <2>1, TableStepBase DEF HostTypes
<1>4. CASE SetVtab(c, [Vtab(c) EXCEPT !.saved = <<>>]) /\ End(c)
  <2> DEFINE v == [Vtab(c) EXCEPT !.saved = <<>>]
  <2>1. v \in VtabT
    BY <1>2, NothingSaved
  <2> HIDE DEF v
  <2>2. /\ db' \in [Conns -> DbT] /\ SameBeside(c) /\ \A d \in Conns \ {c} : db'[d] = db[d]
        /\ db'[c].vtab[Stmt(c).ext] = v
        /\ \A e \in Exts \ {Stmt(c).ext} : db'[c].vtab[e] = db[c].vtab[e]
    BY <1>2, <1>4, <2>1, SetVtabEffect DEF SameBeside, v
  <2>3. task'[c].pc = "idle"
    BY <1>4, EndEffect
  <2>4. Ignored(c)
    BY <1>1, <2>2, <2>3 DEF Ignored, v
  <2> QED
    BY Zenon, <1>1, <1>4, <2>2, <2>4, TableStepBase DEF HostTypes
<1> QED
  BY <1>3, <1>4

(* A callback the guest answered.                                           *)
LEMMA WrittenStep ==
    ASSUME BaseInv, TableInv, NEW c \in Conns, task[c].todo # <<>>, Vtab(c) # NoVtab,
           Stmt(c).op \in {"scan", "write", "drop"},
           task[c].pc \in {"idle", "write", "commit"},
           UNCHANGED <<HOST, GLOBALS, loaded, next, grp, cur, seen>>, TaskGoes(c),
           NEW i \in Instances, NEW v \in VtabT, Told(TableGuest(c), c, i, v),
           Accounted(c, i, v)
    PROVE  Types' /\ TableFrame(c) /\ Own(c)' /\ Written(c)
<1>1. /\ Rewritten(c, i, v) /\ SameGuests /\ SameAcc /\ SameCur
      /\ faults' \in 0..MaxFaults /\ db' \in [Conns -> DbT] /\ SameBeside(c)
      /\ \A d \in Conns \ {c} : db'[d] = db[d]
  BY ToldEffect
<1>2. Stmt(c).ext \in Exts /\ Vtab(c).inst # 0
  BY StmtIs DEF BaseInv, Types, ConnTypes, TableInv, InstIds, Vtab
<1>3. db'[c].vtab[Stmt(c).ext] # NoVtab
  BY <1>1, <1>2 DEF Rewritten, Accounted, NoVtab
<1> QED
  BY Zenon, <1>1, <1>3, TableStepBase DEF Written, BaseInv, Types, HostTypes

(* The records an update or a savepoint makes.                              *)
LEMMA InstanceUpdates ==
    ASSUME NEW i \in Instances, NEW r \in Seq(Nat), NEW q \in Seq(Seq(Nat))
    PROVE  /\ [i EXCEPT !.rows = r] \in Instances /\ [i EXCEPT !.saved = q] \in Instances
           /\ [i EXCEPT !.rows = r].rows = r /\ [i EXCEPT !.rows = r].saved = i.saved
           /\ [i EXCEPT !.saved = q].rows = i.rows /\ [i EXCEPT !.saved = q].saved = q
           /\ [i EXCEPT !.saved = q, !.rows = r] \in Instances
           /\ [i EXCEPT !.saved = q, !.rows = r].rows = r
           /\ [i EXCEPT !.saved = q, !.rows = r].saved = q
BY Zenon DEF Instances

LEMMA VtabUpdates ==
    ASSUME NEW v \in VtabT, NEW r \in Seq(Nat), NEW q \in Seq(Seq(Nat))
    PROVE  /\ [v EXCEPT !.view = r] \in VtabT /\ [v EXCEPT !.saved = q] \in VtabT
           /\ [v EXCEPT !.view = r].view = r /\ [v EXCEPT !.view = r].saved = v.saved
           /\ [v EXCEPT !.saved = q].view = v.view /\ [v EXCEPT !.saved = q].saved = q
           /\ [v EXCEPT !.view = r].inst = v.inst /\ [v EXCEPT !.view = r].gen = v.gen
           /\ [v EXCEPT !.saved = q].inst = v.inst /\ [v EXCEPT !.saved = q].gen = v.gen
           /\ [v EXCEPT !.saved = q, !.view = r] \in VtabT
           /\ [v EXCEPT !.saved = q, !.view = r].view = r
           /\ [v EXCEPT !.saved = q, !.view = r].saved = q
           /\ [v EXCEPT !.saved = q, !.view = r].inst = v.inst
           /\ [v EXCEPT !.saved = q, !.view = r].gen = v.gen
BY Zenon DEF VtabT

LEMMA CutIs ==
    ASSUME NEW q \in Seq(Seq(Nat)), NEW n \in 1..Len(q)
    PROVE  Cut(q, n) \in Seq(Seq(Nat)) /\ Len(Cut(q, n)) = n /\ Cut(q, n) # <<>>
<1>1. Cut(q, n) \in Seq(Seq(Nat)) /\ Len(Cut(q, n)) = n
  BY DEF Cut
<1> QED
  BY <1>1

LEMMA SavedOnce ==
    ASSUME NEW q \in Seq(Seq(Nat)), NEW r \in Seq(Nat)
    PROVE  /\ <<r>> \in Seq(Seq(Nat)) /\ <<r>> # <<>> /\ <<>> \in Seq(Seq(Nat))
           /\ Append(q, r) \in Seq(Seq(Nat)) /\ Append(q, r) # <<>>
<1>1. Append(q, r) \in Seq(Seq(Nat)) /\ Len(Append(q, r)) = Len(q) + 1
  OBVIOUS
<1>2. Append(q, r) # <<>>
  <2>1. Len(q) \in Nat /\ Len(<<>>) = 0
    OBVIOUS
  <2> QED
    BY <1>1, <2>1
<1>3. <<r>> \in Seq(Seq(Nat)) /\ Len(<<r>>) = 1
  OBVIOUS
<1>4. <<r>> # <<>>
  OBVIOUS
<1>5. <<>> \in Seq(Seq(Nat))
  OBVIOUS
<1> QED
  BY <1>1, <1>2, <1>3, <1>4, <1>5

TableStep(c) ==
    /\ Types' /\ TableFrame(c) /\ Own(c)' /\ next' = next
    /\ Ignored(c) \/ Written(c)

(* Every callback of a table but those that make and unmake its instance.   *)
LEMMA TableSteps ==
    ASSUME BaseInv, TableInv, NEW c \in Conns,
           \/ x_best_index(c) \/ x_begin(c) \/ x_update(c) \/ x_savepoint(c)
           \/ x_release(c) \/ x_rollback_to(c) \/ x_sync(c) \/ x_commit(c) \/ x_rollback(c)
    PROVE  TableStep(c)
<1> DEFINE g == TableGuest(c)
           old == Vtab(c)
           inst == Inst(g, c)
<1> USE DEF BaseInv
<1>1. /\ task[c].todo # <<>> /\ Stmt(c).op \in {"scan", "write", "drop"}
      /\ task[c].pc \in {"idle", "write", "commit"}
      /\ UNCHANGED <<HOST, GLOBALS, loaded, next, grp, cur, seen>>
  BY Zenon DEF x_best_index, x_begin, x_update, x_savepoint, x_release, x_rollback_to, x_sync,
         x_commit, x_rollback, Writing, Busy
<1>2. old # NoVtab
  BY Zenon, <1>1 DEF x_best_index, x_begin, x_update, x_savepoint, x_release, x_rollback_to,
              x_sync, x_commit, x_rollback, Writing, Busy, Connected, Place
<1>3. old \in VtabT /\ g \in 0..Len(guests)
  BY <1>1, VtabIs, TableGuestIs
<1>4. old.view \in Seq(Nat) /\ old.saved \in Seq(Seq(Nat))
  BY <1>3 DEF VtabT
<1>5. Types /\ task \in [Conns -> TaskT]
  BY DEF Types, ConnTypes
<1>6. ASSUME Unmoved, faults' \in 0..MaxFaults, TaskGoes(c),
             \/ /\ UNCHANGED db
                /\ task'[c].pc \in {"write", "commit"} => task[c].pc \in {"write", "commit"}
             \/ SetVtab(c, [Vtab(c) EXCEPT !.saved = <<>>]) /\ End(c)
      PROVE  TableStep(c)
  BY <1>1, <1>2, <1>6, IgnoredStep DEF TableStep
<1>7. ASSUME InstRefuses(g, c) PROVE Unmoved /\ faults' \in 0..MaxFaults
  BY <1>3, <1>5, <1>7, Refusal
<1>8. ASSUME Fail(c), UNCHANGED db, InstRefuses(g, c) PROVE TableStep(c)
  <2>1. TaskGoes(c) /\ task'[c].pc = task[c].pc
    BY <1>1, <1>5, <1>8, TaskGoesOn, FailEffect
  <2> QED
    BY <1>6, <1>7, <1>8, <2>1
<1>9. ASSUME End(c), UNCHANGED db, InstRefuses(g, c) PROVE TableStep(c)
  <2>1. TaskGoes(c) /\ task'[c].pc = "idle"
    BY <1>1, <1>5, <1>9, TaskGoesOn, EndEffect
  <2> QED
    BY <1>6, <1>7, <1>9, <2>1
<1>10. ASSUME End(c), SetVtab(c, [Vtab(c) EXCEPT !.saved = <<>>]), InstRefuses(g, c)
       PROVE  TableStep(c)
  <2>1. TaskGoes(c)
    BY <1>1, <1>10, TaskGoesOn
  <2> QED
    BY <1>6, <1>7, <1>10, <2>1
<1>11. ASSUME NEW i \in Instances, NEW v \in VtabT, Told(g, c, i, v), TaskGoes(c),
              Accounted(c, i, v)
       PROVE  TableStep(c)
  BY <1>1, <1>2, <1>11, WrittenStep DEF TableStep
<1>12. ASSUME Knows(g, c)
       PROVE  /\ inst \in Instances /\ inst.rows = old.view
              /\ inst.rows \in Seq(Nat) /\ inst.saved \in Seq(Seq(Nat))
              /\ task[c].pc \in {"write", "commit"} =>
                    old.saved # <<>> /\ inst.saved = old.saved
  <2>1. /\ inst \in Instances /\ inst.rows = old.view
        /\ task[c].pc \in {"write", "commit"} => old.saved # <<>> /\ inst.saved = old.saved
    BY <1>1, <1>2, <1>12, AnsweringGuest
  <2> QED
    BY <2>1 DEF Instances
<1>13. ASSUME NEW i, NEW v, Told(g, c, i, v) PROVE Knows(g, c)
  BY <1>13 DEF Told, InstAnswers
<1>14. Vtab(c) = old
  OBVIOUS
<1> HIDE DEF g, old, inst
<1>20. CASE x_best_index(c)
  <2>1. TaskGoes(c)
    BY <1>1, <1>20, TaskGoesOn DEF x_best_index, Busy
  <2>2. CASE InstAnswers(g, c) /\ Goto(c, "scan") /\ UNCHANGED guests
    <3>1. Unmoved /\ faults' \in 0..MaxFaults
      BY <2>2, <1>5, UnchangedGuests, FaultCounted DEF InstAnswers, Types, HostTypes
    <3>2. UNCHANGED db /\ task'[c].pc = "scan"
      BY <1>5, <1>20, <2>2, GotoEffect DEF x_best_index, TaskPcs
    <3> QED
      BY <1>6, <2>1, <3>1, <3>2
  <2> QED
    BY <1>9, <1>20, <2>2 DEF x_best_index, g
<1>21. CASE x_sync(c)
  <2>2. CASE InstAnswers(g, c) /\ Goto(c, "commit") /\ UNCHANGED guests
    <3>1. Unmoved /\ faults' \in 0..MaxFaults
      BY <2>2, <1>5, UnchangedGuests, FaultCounted DEF InstAnswers, Types, HostTypes
    <3>2. UNCHANGED db /\ task'[c].pc = "commit" /\ task[c].pc = "write" /\ TaskGoes(c)
      BY <1>1, <1>5, <1>21, <2>2, GotoEffect, TaskGoesOn DEF x_sync, TaskPcs, Writing, Busy
    <3> QED
      BY <1>6, <3>1, <3>2
  <2> QED
    BY <1>8, <1>21, <2>2 DEF x_sync, g
<1>22. CASE x_begin(c)
  <2>1. CASE Told(g, c, begin(inst), [old EXCEPT !.saved = <<old.view>>]) /\ Goto(c, "write")
    <3> DEFINE q == <<old.view>>
    <3>1. TaskGoes(c) /\ q \in Seq(Seq(Nat)) /\ q # <<>>
      BY <1>1, <1>4, <1>22, <2>1, TaskGoesOn, SavedOnce DEF x_begin, Busy
    <3>2. /\ inst \in Instances /\ inst.rows = old.view
      BY <1>12, <1>13, <2>1
    <3>3. Told(g, c, [inst EXCEPT !.saved = q], [old EXCEPT !.saved = q])
      BY <2>1, <3>2 DEF begin
    <3> HIDE DEF q
    <3>4. Accounted(c, [inst EXCEPT !.saved = q], [old EXCEPT !.saved = q])
      BY <1>3, <1>4, <3>1, <3>2, <1>14 DEF Accounted, Instances, VtabT
    <3> QED
      BY Zenon, <1>3, <1>4, <1>11, <3>1, <3>2, <3>3, <3>4, InstanceUpdates, VtabUpdates
  <2> QED
    BY <1>9, <1>22, <2>1 DEF x_begin, g, NotTold, old, inst
<1>23. CASE x_update(c)
  <2>1. CASE /\ Told(g, c, [inst EXCEPT !.rows = Append(@, 100 + Len(old.view))],
                     [old EXCEPT !.view = Append(@, 100 + Len(old.view))])
             /\ UNCHANGED task
    <3> DEFINE r == Append(old.view, 100 + Len(old.view))
    <3>1. TaskGoes(c) /\ r \in Seq(Nat)
      BY <1>1, <1>4, <2>1, TaskGoesOn
    <3>2. /\ inst \in Instances /\ inst.rows = old.view
          /\ old.saved # <<>> /\ inst.saved = old.saved
      BY <1>12, <1>13, <1>23, <2>1 DEF x_update, Writing, Busy
    <3>3. Told(g, c, [inst EXCEPT !.rows = r], [old EXCEPT !.view = r])
      BY <2>1, <3>2
    <3> HIDE DEF r
    <3>4. Accounted(c, [inst EXCEPT !.rows = r], [old EXCEPT !.view = r])
      BY <1>3, <1>4, <3>1, <3>2, <1>14 DEF Accounted, Instances, VtabT
    <3> QED
      BY Zenon, <1>3, <1>4, <1>11, <3>1, <3>2, <3>3, <3>4, InstanceUpdates, VtabUpdates
  <2> QED
    BY <1>8, <1>23, <2>1 DEF x_update, g, NotTold, old, inst
<1>24. CASE x_savepoint(c)
  <2>1. CASE /\ Told(g, c, savepoint(inst), [old EXCEPT !.saved = Append(@, old.view)])
             /\ UNCHANGED task
    <3> DEFINE q == Append(old.saved, old.view)
    <3>1. TaskGoes(c) /\ q \in Seq(Seq(Nat)) /\ q # <<>>
      BY Zenon, <1>1, <1>4, <2>1, TaskGoesOn, SavedOnce
    <3>2. /\ inst \in Instances /\ inst.rows = old.view /\ inst.saved = old.saved
      BY <1>12, <1>13, <1>24, <2>1 DEF x_savepoint, Writing, Busy
    <3>3. Told(g, c, [inst EXCEPT !.saved = q], [old EXCEPT !.saved = q])
      BY <2>1, <3>2 DEF savepoint
    <3> HIDE DEF q
    <3>4. Accounted(c, [inst EXCEPT !.saved = q], [old EXCEPT !.saved = q])
      BY <1>3, <1>4, <3>1, <3>2, <1>14 DEF Accounted, Instances, VtabT
    <3> QED
      BY Zenon, <1>3, <1>4, <1>11, <3>1, <3>2, <3>3, <3>4, InstanceUpdates, VtabUpdates
  <2> QED
    BY <1>8, <1>24, <2>1 DEF x_savepoint, g, NotTold, old, inst
<1>25. CASE x_release(c)
  <2>1. PICK n \in 2..Len(old.saved) :
           \/ /\ Told(g, c, release(inst, n), [old EXCEPT !.saved = Cut(@, n - 1)])
              /\ UNCHANGED task
           \/ NotTold(g, c) /\ Fail(c)
    BY <1>25 DEF x_release, Depth, g, old, inst
  <2>2. CASE /\ Told(g, c, release(inst, n), [old EXCEPT !.saved = Cut(@, n - 1)])
             /\ UNCHANGED task
    <3> DEFINE q == Cut(old.saved, n - 1)
    <3>1. TaskGoes(c) /\ q \in Seq(Seq(Nat)) /\ q # <<>>
      <4>1. n - 1 \in 1..Len(old.saved)
        BY <1>4
      <4>2. TaskGoes(c)
        BY <1>1, <2>2, TaskGoesOn
      <4> QED
        BY Zenon, <1>4, <4>1, <4>2, CutIs
    <3>2. /\ inst \in Instances /\ inst.rows = old.view /\ inst.saved = old.saved
      BY <1>12, <1>13, <1>25, <2>2 DEF x_release, Writing, Busy
    <3>3. Told(g, c, [inst EXCEPT !.saved = q], [old EXCEPT !.saved = q])
      BY <2>2, <3>2 DEF release
    <3> HIDE DEF q
    <3>4. Accounted(c, [inst EXCEPT !.saved = q], [old EXCEPT !.saved = q])
      BY <1>3, <1>4, <3>1, <3>2, <1>14 DEF Accounted, Instances, VtabT
    <3> QED
      BY Zenon, <1>3, <1>4, <1>11, <3>1, <3>2, <3>3, <3>4, InstanceUpdates, VtabUpdates
  <2> QED
    BY <1>8, <2>1, <2>2 DEF NotTold
<1>26. CASE x_rollback_to(c)
  <2>1. PICK n \in 2..Len(old.saved) :
           \/ /\ Told(g, c, rollback_to(inst, n),
                      [old EXCEPT !.saved = Cut(@, n), !.view = old.saved[n]])
              /\ UNCHANGED task
           \/ NotTold(g, c) /\ Fail(c)
    BY Zenon, <1>26 DEF x_rollback_to, Depth, g, old, inst
  <2>2. CASE /\ Told(g, c, rollback_to(inst, n),
                     [old EXCEPT !.saved = Cut(@, n), !.view = old.saved[n]])
             /\ UNCHANGED task
    <3> DEFINE q == Cut(old.saved, n)
               r == old.saved[n]
    <3>1. TaskGoes(c) /\ q \in Seq(Seq(Nat)) /\ q # <<>> /\ r \in Seq(Nat)
      BY <1>1, <1>4, <2>2, TaskGoesOn, CutIs
    <3>2. /\ inst \in Instances /\ inst.rows = old.view /\ inst.saved = old.saved
      BY Zenon, <1>12, <1>13, <1>26, <2>2 DEF x_rollback_to, Writing, Busy
    <3>3. Told(g, c, [inst EXCEPT !.saved = q, !.rows = r], [old EXCEPT !.saved = q, !.view = r])
      BY <2>2, <3>2 DEF rollback_to
    <3> HIDE DEF q, r
    <3>4. Accounted(c, [inst EXCEPT !.saved = q, !.rows = r], [old EXCEPT !.saved = q, !.view = r])
      BY <1>3, <1>4, <3>1, <3>2, <1>14 DEF Accounted, Instances, VtabT
    <3> QED
      BY Zenon, <1>3, <1>4, <1>11, <3>1, <3>2, <3>3, <3>4, InstanceUpdates, VtabUpdates
  <2> QED
    BY <1>8, <2>1, <2>2 DEF NotTold
<1>27. CASE x_commit(c)
  <2>1. CASE Told(g, c, [inst EXCEPT !.saved = <<>>], [old EXCEPT !.saved = <<>>])
    <3> DEFINE q == <<>>
    <3>1. TaskGoes(c) /\ q \in Seq(Seq(Nat)) /\ task'[c].pc = "idle"
      BY <1>1, <1>4, <1>5, <1>27, TaskGoesOn, SavedOnce, EndEffect DEF x_commit
    <3>2. /\ inst \in Instances /\ inst.rows = old.view
      BY <1>12, <1>13, <2>1
    <3>3. Told(g, c, [inst EXCEPT !.saved = q], [old EXCEPT !.saved = q])
      BY <2>1
    <3> HIDE DEF q
    <3>4. Accounted(c, [inst EXCEPT !.saved = q], [old EXCEPT !.saved = q])
      BY <1>3, <1>4, <3>1, <3>2, <1>14 DEF Accounted, Instances, VtabT
    <3> QED
      BY Zenon, <1>3, <1>4, <1>11, <3>1, <3>2, <3>3, <3>4, InstanceUpdates, VtabUpdates
  <2> QED
    BY <1>10, <1>27, <2>1 DEF x_commit, g, old, inst
<1>28. CASE x_rollback(c)
  <2>1. CASE Told(g, c, rollback(inst), [old EXCEPT !.view = old.saved[1], !.saved = <<>>])
    <3> DEFINE q == <<>>
               r == old.saved[1]
    <3>2. /\ inst \in Instances /\ inst.rows = old.view /\ inst.saved = old.saved
          /\ old.saved # <<>>
      BY <1>12, <1>13, <1>28, <2>1 DEF x_rollback, Busy
    <3>1. TaskGoes(c) /\ q \in Seq(Seq(Nat)) /\ task'[c].pc = "idle" /\ r \in Seq(Nat)
      BY <1>1, <1>4, <1>5, <1>28, <3>2, TaskGoesOn, SavedOnce, EndEffect DEF x_rollback
    <3>3. Told(g, c, [inst EXCEPT !.saved = q, !.rows = r], [old EXCEPT !.saved = q, !.view = r])
      BY Zenon, <2>1, <3>2, <1>3 DEF rollback, Instances, VtabT
    <3> HIDE DEF q, r
    <3>4. Accounted(c, [inst EXCEPT !.saved = q, !.rows = r], [old EXCEPT !.saved = q, !.view = r])
      BY <1>3, <1>4, <3>1, <3>2, <1>14 DEF Accounted, Instances, VtabT
    <3> QED
      BY Zenon, <1>3, <1>4, <1>11, <3>1, <3>2, <3>3, <3>4, InstanceUpdates, VtabUpdates
  <2> QED
    BY <1>10, <1>28, <2>1 DEF x_rollback, g, old, inst
<1> QED
  BY <1>20, <1>21, <1>22, <1>23, <1>24, <1>25, <1>26, <1>27, <1>28

(* An instance that is made, and one that is given back.                    *)
SameTables(c) == \A e \in Exts \ {Stmt(c).ext} : db'[c].vtab[e] = db[c].vtab[e]
NewInst(c) == [NoInst EXCEPT !.rows = Initial[c]]
NewVtab(c, g) == [NoVtab EXCEPT !.inst = next.inst, !.gen = g, !.view = Initial[c]]
InstsOnly(g, f) ==
    /\ g \in DOMAIN guests /\ guests'[g].inst = f
    /\ \A i \in DOMAIN guests : i # g => guests'[i].inst = guests[i].inst
Created(c) ==
    LET g == TableGuest(c) IN
    /\ Vtab(c) = NoVtab /\ next'.inst = next.inst + 1 /\ next'.cur = next.cur
    /\ task'[c].pc = "idle" /\ SameTables(c)
    /\ \/ SameInst /\ db'[c].vtab[Stmt(c).ext] = NoVtab
       \/ /\ InstsOnly(g, Put(guests[g].inst, next.inst, NewInst(c)))
          /\ db'[c].vtab[Stmt(c).ext] \in {NoVtab, NewVtab(c, g)}
Removed(c) ==
    LET g == TableGuest(c) IN
    /\ next' = next /\ task'[c].pc = "idle" /\ SameTables(c)
    /\ db'[c].vtab[Stmt(c).ext] = NoVtab
    /\ \/ SameInst
       \/ Vtab(c) # NoVtab /\ InstsOnly(g, Drop(guests[g].inst, Vtab(c).inst))

LEMMA NewRecords ==
    ASSUME Types, NEW c \in Conns, NEW g \in Nat
    PROVE  /\ NewInst(c) \in Instances /\ NewVtab(c, g) \in VtabT
           /\ NewVtab(c, g).inst = next.inst /\ NewVtab(c, g).gen = g
           /\ NewVtab(c, g).view = Initial[c] /\ NewInst(c).rows = Initial[c]
           /\ NewVtab(c, g) # NoVtab
<1>1. Initial[c] \in Seq(Nat) /\ next.inst \in Nat /\ next.inst # 0
  BY ExtensionAssumption DEF Types, HostTypes
<1>2. <<>> \in Seq(Seq(Nat))
  OBVIOUS
<1> QED
  BY Zenon, <1>1, <1>2 DEF NewInst, NoInst, Instances, NewVtab, NoVtab, VtabT

LEMMA Counted ==
    ASSUME NEW n \in [inst : Nat, cur : Nat], n.inst # 0, n.cur # 0
    PROVE  /\ n.inst \in Nat /\ n.cur \in Nat
           /\ [n EXCEPT !.inst = @ + 1] \in [inst : Nat, cur : Nat]
           /\ [n EXCEPT !.inst = @ + 1].inst = n.inst + 1
           /\ [n EXCEPT !.inst = @ + 1].cur = n.cur
           /\ [n EXCEPT !.inst = @ + 1].inst # 0
           /\ [n EXCEPT !.cur = @ + 1] \in [inst : Nat, cur : Nat]
           /\ [n EXCEPT !.cur = @ + 1].cur = n.cur + 1
           /\ [n EXCEPT !.cur = @ + 1].inst = n.inst
           /\ [n EXCEPT !.cur = @ + 1].cur # 0
<1>1. n.inst \in Nat /\ n.cur \in Nat
  OBVIOUS
<1>2. n.inst + 1 \in Nat /\ n.inst + 1 # 0 /\ n.cur + 1 \in Nat /\ n.cur + 1 # 0
  BY <1>1
<1> QED
  BY <1>1, <1>2

LEMMA CreateStep ==
    ASSUME BaseInv, NEW c \in Conns, create_or_connect(c)
    PROVE  Types' /\ TableFrame(c) /\ Own(c)' /\ Created(c)
<1> DEFINE g == TableGuest(c)
<1> USE DEF BaseInv
<1>1. /\ task[c].todo # <<>> /\ Stmt(c).op \in {"scan", "write", "drop"}
      /\ task[c].pc \in {"idle", "write", "commit"} /\ task[c].pc = "idle"
      /\ UNCHANGED <<HOST, GLOBALS, loaded, grp, cur, seen>> /\ Vtab(c) = NoVtab
      /\ next' = [next EXCEPT !.inst = @ + 1]
  BY DEF create_or_connect, Doing
<1>2. next' \in [inst : Nat, cur : Nat] /\ next'.inst = next.inst + 1 /\ next'.cur = next.cur
      /\ next.inst \in Nat /\ next'.inst # 0 /\ next'.cur # 0
  <2>1. next \in [inst : Nat, cur : Nat] /\ next.inst # 0 /\ next.cur # 0
    BY DEF Types, HostTypes
  <2> QED
    BY <1>1, <2>1, Counted
<1>3. /\ g \in 0..Len(guests) /\ Vtab(c) = db[c].vtab[Stmt(c).ext] /\ Stmt(c).ext \in Exts
      /\ Types /\ guests \in Seq(GuestT) /\ task \in [Conns -> TaskT] /\ db \in [Conns -> DbT]
  BY <1>1, VtabIs, TableGuestIs, StmtIs DEF Types, ConnTypes
<1>4. NewInst(c) \in Instances /\ NewVtab(c, g) \in VtabT /\ NewVtab(c, g) # NoVtab
  BY <1>3, NewRecords
<1> DEFINE made == [guests EXCEPT ![g].inst = Put(@, next.inst, NewInst(c))]
<1>5. \/ Answers(g) /\ guests' = made /\ SetVtab(c, NewVtab(c, g)) /\ UNCHANGED task
      \/ Alive(g) /\ MayFail /\ guests' = made /\ End(c) /\ UNCHANGED db
      \/ Refuses(g) /\ End(c) /\ UNCHANGED db
  BY DEF create_or_connect, alloc_instance_id, NewInst, NewVtab
<1>6. ASSUME Alive(g), guests' = made
      PROVE  /\ SameGuests /\ SameAcc /\ SameCur
             /\ InstsOnly(g, Put(guests[g].inst, next.inst, NewInst(c)))
  <2>1. g \in DOMAIN guests
    BY <1>3, <1>6 DEF Alive
  <2>2. guests[g].inst \in Partial(Instances)
    BY <1>3, <2>1, GuestOf DEF GuestT
  <2> DEFINE f == Put(guests[g].inst, next.inst, NewInst(c))
  <2>3. f \in Partial(Instances)
    BY <1>2, <1>4, <2>2, PutType
  <2>4. guests' = [guests EXCEPT ![g].inst = f]
    BY <1>6
  <2> HIDE DEF f
  <2> QED
    BY Zenon, <1>3, <2>1, <2>3, <2>4, SetInsts DEF InstsOnly, f
<1> HIDE DEF made, g
<1>7. CASE Answers(g) /\ guests' = made /\ SetVtab(c, NewVtab(c, g)) /\ UNCHANGED task
  <2>1. TaskGoes(c) /\ task'[c].pc = "idle"
    BY <1>1, <1>7, TaskGoesOn
  <2>2. faults' \in 0..MaxFaults /\ Alive(g)
    BY <1>3, <1>7, FaultCounted DEF Answers, Types, HostTypes
  <2>3. /\ db' \in [Conns -> DbT] /\ SameBeside(c) /\ \A d \in Conns \ {c} : db'[d] = db[d]
        /\ db'[c].vtab[Stmt(c).ext] = NewVtab(c, g) /\ SameTables(c)
    BY <1>3, <1>4, <1>7, SetVtabEffect DEF SameBeside, SameTables
  <2>4. Created(c)
    BY <1>1, <1>2, <1>6, <1>7, <2>1, <2>2, <2>3 DEF Created, g
  <2> QED
    BY <1>1, <1>2, <1>4, <1>6, <1>7, <2>1, <2>2, <2>3, <2>4, TableStepBase
<1>8. CASE Alive(g) /\ MayFail /\ guests' = made /\ End(c) /\ UNCHANGED db
  <2>1. TaskGoes(c) /\ task'[c].pc = "idle"
    BY <1>1, <1>3, <1>8, TaskGoesOn, EndEffect
  <2>2. faults' \in 0..MaxFaults
    BY <1>3, <1>8, FaultCounted DEF Types, HostTypes
  <2>3. SameBeside(c) /\ SameTables(c) /\ db'[c].vtab[Stmt(c).ext] = NoVtab
    BY <1>1, <1>3, <1>8 DEF SameBeside, SameTables
  <2>4. Created(c)
    BY <1>1, <1>2, <1>6, <1>8, <2>1, <2>3 DEF Created, g
  <2> QED
    BY <1>1, <1>2, <1>3, <1>6, <1>8, <2>1, <2>2, <2>3, <2>4, TableStepBase
<1>9. CASE Refuses(g) /\ End(c) /\ UNCHANGED db
  <2>1. TaskGoes(c) /\ task'[c].pc = "idle"
    BY <1>1, <1>3, <1>9, TaskGoesOn, EndEffect
  <2>2. faults' \in 0..MaxFaults /\ Unmoved
    BY <1>3, <1>9, Refusal DEF g
  <2>3. SameBeside(c) /\ SameTables(c) /\ db'[c].vtab[Stmt(c).ext] = NoVtab
    BY <1>1, <1>3, <1>9 DEF SameBeside, SameTables
  <2>4. Created(c)
    BY <1>1, <1>2, <2>1, <2>2, <2>3 DEF Created, Unmoved
  <2> QED
    BY <1>1, <1>2, <1>3, <1>9, <2>1, <2>2, <2>3, <2>4, TableStepBase DEF Unmoved
<1> QED
  BY <1>5, <1>7, <1>8, <1>9

LEMMA RemoveStep ==
    ASSUME BaseInv, NEW c \in Conns, x_disconnect(c)
    PROVE  Types' /\ TableFrame(c) /\ Own(c)' /\ Removed(c)
<1> DEFINE g == TableGuest(c)
<1> USE DEF BaseInv
<1>1. /\ task[c].todo # <<>> /\ Stmt(c).op \in {"scan", "write", "drop"}
      /\ task[c].pc \in {"idle", "write", "commit"} /\ task[c].pc = "idle"
      /\ UNCHANGED <<HOST, GLOBALS, loaded, next, grp, cur, seen>> /\ End(c)
  BY DEF x_disconnect, Busy
<1>2. next' \in [inst : Nat, cur : Nat] /\ next'.inst # 0 /\ next'.cur # 0
  BY <1>1 DEF Types, HostTypes
<1>3. /\ g \in 0..Len(guests) /\ Vtab(c) = db[c].vtab[Stmt(c).ext] /\ Stmt(c).ext \in Exts
      /\ Types /\ guests \in Seq(GuestT) /\ task \in [Conns -> TaskT] /\ db \in [Conns -> DbT]
  BY <1>1, VtabIs, TableGuestIs, StmtIs DEF Types, ConnTypes
<1>4. TaskGoes(c) /\ task'[c].pc = "idle"
  BY <1>1, <1>3, TaskGoesOn, EndEffect
<1>5. CASE Vtab(c) = NoVtab
  <2>1. Fine /\ UNCHANGED <<guests, db>>
    BY <1>5 DEF x_disconnect
  <2>2. Unmoved /\ faults' \in 0..MaxFaults
    BY <1>3, <2>1, UnchangedGuests, FaultCounted DEF Types, HostTypes
  <2>3. SameBeside(c) /\ SameTables(c) /\ db'[c].vtab[Stmt(c).ext] = NoVtab
    BY Zenon, <1>3, <1>5, <2>1 DEF SameBeside, SameTables
  <2>4. Removed(c)
    BY <1>1, <1>4, <2>2, <2>3 DEF Removed, Unmoved
  <2> QED
    BY <1>1, <1>2, <1>3, <1>4, <2>1, <2>2, <2>3, <2>4, TableStepBase DEF Unmoved
<1>6. CASE Vtab(c) # NoVtab
  <2>1. /\ SetVtab(c, NoVtab)
        /\ \/ Answers(g) /\ guests' = [guests EXCEPT ![g].inst = Drop(@, Vtab(c).inst)]
           \/ Refuses(g)
    BY <1>6 DEF x_disconnect
  <2>2. /\ db' \in [Conns -> DbT] /\ SameBeside(c) /\ \A d \in Conns \ {c} : db'[d] = db[d]
        /\ db'[c].vtab[Stmt(c).ext] = NoVtab /\ SameTables(c)
    BY <1>3, <2>1, NoVtabIs, SetVtabEffect DEF SameBeside, SameTables
  <2>3. /\ SameGuests /\ SameAcc /\ SameCur /\ faults' \in 0..MaxFaults
        /\ SameInst \/ InstsOnly(g, Drop(guests[g].inst, Vtab(c).inst))
    <3>1. CASE Answers(g) /\ guests' = [guests EXCEPT ![g].inst = Drop(@, Vtab(c).inst)]
      <4>1. g \in DOMAIN guests /\ faults' \in 0..MaxFaults
        BY <1>3, <3>1, FaultCounted DEF Answers, Alive, Types, HostTypes
      <4>2. guests[g].inst \in Partial(Instances)
        BY <1>3, <4>1, GuestOf DEF GuestT
      <4> DEFINE f == Drop(guests[g].inst, Vtab(c).inst)
      <4>3. f \in Partial(Instances)
        BY <4>2, DropType
      <4>4. guests' = [guests EXCEPT ![g].inst = f]
        BY <3>1
      <4> HIDE DEF f
      <4> QED
        BY Zenon, <1>3, <4>1, <4>3, <4>4, SetInsts DEF InstsOnly, f
    <3>2. CASE Refuses(g)
      BY <1>3, <3>2, Refusal DEF Unmoved
    <3> QED
      BY <2>1, <3>1, <3>2
  <2>4. Removed(c)
    BY <1>1, <1>4, <1>6, <2>2, <2>3 DEF Removed
  <2> QED
    BY <1>1, <1>2, <1>4, <2>2, <2>3, <2>4, TableStepBase
<1> QED
  BY <1>5, <1>6

-----------------------------------------------------------------------------
(* Tables stay as they were told.                                           *)
Table(d, f) == db[d].vtab[f]

LEMMA TableFrameFacts ==
    ASSUME BaseInv, NEW c \in Conns, Types', TableFrame(c), SameTables(c)
    PROVE  /\ Stmt(c).ext \in Exts /\ DOMAIN guests' = DOMAIN guests
           /\ Len(guests') = Len(guests)
           /\ \A d \in Conns, f \in Exts :
                 d # c \/ f # Stmt(c).ext => Table(d, f)' = Table(d, f)
           /\ \A e \in Exts : Guest(GLOBALS, e)' = Guest(GLOBALS, e)
           /\ \A d \in Conns : d # c =>
                 task'[d] = task[d] /\ Stmt(d)' = Stmt(d) /\ Vtab(d)' = Vtab(d)
           /\ task'[c].pc \in {"write", "commit"} =>
                 Stmt(c)' = Stmt(c) /\ Vtab(c)' = Table(c, Stmt(c).ext)'
           /\ Vtab(c) = Table(c, Stmt(c).ext)
<1>1. Stmt(c).ext \in Exts
  BY StmtIs DEF BaseInv, Types, ConnTypes, TableFrame
<1>2. DOMAIN guests' = DOMAIN guests /\ Len(guests') = Len(guests)
  BY DEF TableFrame, SameGuests, BaseInv, Types
<1>3. \A d \in Conns, f \in Exts : d # c \/ f # Stmt(c).ext => Table(d, f)' = Table(d, f)
  BY DEF SameTables, TableFrame, OthersKept, Table
<1>4. \A e \in Exts : Guest(GLOBALS, e)' = Guest(GLOBALS, e)
  BY DEF TableFrame, Guest
<1>5. \A d \in Conns : d # c =>
         task'[d] = task[d] /\ Stmt(d)' = Stmt(d) /\ Vtab(d)' = Vtab(d)
  BY DEF TableFrame, OthersKept, Stmt, Vtab
<1>6. task'[c].pc \in {"write", "commit"} =>
         Stmt(c)' = Stmt(c) /\ Vtab(c)' = Table(c, Stmt(c).ext)'
  BY DEF TableFrame, TableMoves, Stmt, Vtab, Table
<1>7. Vtab(c) = Table(c, Stmt(c).ext)
  BY DEF Vtab, Table
<1> QED
  BY <1>1, <1>2, <1>3, <1>4, <1>5, <1>6, <1>7

LEMMA SavedTable ==
    ASSUME BaseInv, TableInv, NEW d \in Conns, task[d].pc \in {"write", "commit"}
    PROVE  /\ Stmt(d).ext \in Exts /\ Vtab(d) = Table(d, Stmt(d).ext) /\ Vtab(d) # NoVtab
           /\ Vtab(d).gen \in DOMAIN guests /\ Vtab(d).saved # <<>>
           /\ Vtab(d).gen = Guest(GLOBALS, Stmt(d).ext) =>
                 /\ Vtab(d).inst \in DOMAIN guests[Vtab(d).gen].inst
                 /\ guests[Vtab(d).gen].inst[Vtab(d).inst].saved = Vtab(d).saved
<1>1. task[d].todo # <<>> /\ Vtab(d) # NoVtab
  BY DEF BaseInv, Place
<1>2. Stmt(d).ext \in Exts /\ Vtab(d) = Table(d, Stmt(d).ext) /\ Vtab(d) \in VtabT
  BY <1>1, StmtIs, VtabIs DEF BaseInv, Types, ConnTypes, Table
<1>3. Vtab(d).gen # 0 /\ Vtab(d).gen <= Len(guests) /\ Vtab(d).gen \in Nat
  BY <1>1, <1>2 DEF TableInv, InstIds, Table, VtabT
<1>4. Vtab(d).gen \in DOMAIN guests
  BY <1>3 DEF BaseInv, Types
<1> QED
  BY Zenon, <1>1, <1>2, <1>4 DEF TableInv, SameSaved, TableAsTold, Table

(* No callback, or one that the guest did nothing for.                      *)
LEMMA IgnoredTables ==
    ASSUME BaseInv, TableInv, NEW c \in Conns, Types', TableFrame(c), next' = next, Ignored(c)
    PROVE  TableInv'
<1> DEFINE E == Stmt(c).ext
<1>0. SameTables(c)
  BY DEF Ignored, SameTables
<1>1. /\ E \in Exts /\ DOMAIN guests' = DOMAIN guests /\ Len(guests') = Len(guests)
      /\ \A e \in Exts : Guest(GLOBALS, e)' = Guest(GLOBALS, e)
      /\ \A g \in DOMAIN guests : guests'[g].inst = guests[g].inst
      /\ Vtab(c) = Table(c, E)
  BY <1>0, TableFrameFacts DEF Ignored, SameInst
<1>2. ASSUME NEW d \in Conns, NEW f \in Exts
      PROVE  /\ Table(d, f)' # NoVtab => Table(d, f) # NoVtab
             /\ Table(d, f)'.inst = Table(d, f).inst /\ Table(d, f)'.gen = Table(d, f).gen
             /\ Table(d, f)'.view = Table(d, f).view
  <2>1. CASE d # c \/ f # E
    BY <1>0, <2>1, TableFrameFacts
  <2>2. CASE d = c /\ f = E
    <3>1. Table(c, E) \in VtabT
      BY <1>1 DEF Table, BaseInv, Types, ConnTypes, DbT
    <3> QED
      BY Zenon, <1>1, <2>2, <3>1 DEF Ignored, VtabT, Table
  <2> QED
    BY <2>1, <2>2
<1>3. InstIds'
  BY <1>1, <1>2 DEF TableInv, InstIds, Table
<1>4. TableAsTold'
  <2> SUFFICES ASSUME NEW d \in Conns, NEW f \in Exts, Table(d, f)' # NoVtab,
                      Table(d, f)'.gen = Guest(GLOBALS, f)'
               PROVE  /\ Table(d, f)'.inst \in DOMAIN guests'[Guest(GLOBALS, f)'].inst
                      /\ guests'[Guest(GLOBALS, f)'].inst[Table(d, f)'.inst].rows = Table(d, f)'.view
    BY DEF TableAsTold, Table
  <2>1. /\ Table(d, f) # NoVtab /\ Table(d, f).gen = Guest(GLOBALS, f)
    BY <1>1, <1>2
  <2>2. Guest(GLOBALS, f) \in DOMAIN guests
    <3>1. Guest(GLOBALS, f) # 0
      BY <2>1 DEF TableInv, InstIds, Table
    <3> QED
      BY Zenon, <3>1, GuestIs DEF BaseInv, Types, HostTypes
  <2>3. /\ Table(d, f).inst \in DOMAIN guests[Guest(GLOBALS, f)].inst
        /\ guests[Guest(GLOBALS, f)].inst[Table(d, f).inst].rows = Table(d, f).view
    BY <2>1 DEF TableInv, TableAsTold, Table
  <2> QED
    BY <1>1, <1>2, <2>2, <2>3
<1>5. ASSUME NEW d \in Conns PROVE SameSaved(d)'
  <2> SUFFICES ASSUME task'[d].pc \in {"write", "commit"} PROVE SameSaved(d)'
    BY DEF SameSaved
  <2>1. task[d].pc \in {"write", "commit"} /\ Stmt(d)' = Stmt(d) /\ Vtab(d)' = Vtab(d)
    <3>1. CASE d # c
      BY <1>0, <3>1, TableFrameFacts
    <3>2. CASE d = c
      BY <1>0, <1>1, <3>2, TableFrameFacts DEF Ignored, Table
    <3> QED
      BY <3>1, <3>2
  <2> QED
    BY <1>1, <2>1, SavedTable DEF SameSaved
<1> QED
  BY <1>3, <1>4, <1>5 DEF TableInv

LEMMA WrittenTables ==
    ASSUME BaseInv, TableInv, NEW c \in Conns, Types', TableFrame(c), next' = next, Written(c)
    PROVE  TableInv'
<1>a. Stmt(c).ext \in Exts
  BY StmtIs DEF TableFrame, BaseInv, Types, ConnTypes
<1>b. PICK E \in Exts : E = Stmt(c).ext
  BY <1>a
<1>c. PICK g : g = TableGuest(c)
  OBVIOUS
<1>d. PICK n : n = Vtab(c).inst
  OBVIOUS
<1>0. PICK i \in Instances, v \in VtabT : Rewritten(c, i, v) /\ Accounted(c, i, v)
  BY DEF Written
<1>1. /\ g \in DOMAIN guests /\ n \in DOMAIN guests[g].inst /\ Vtab(c).gen = g
      /\ guests'[g].inst = [guests[g].inst EXCEPT ![n] = i]
      /\ \A k \in DOMAIN guests : k # g => guests'[k].inst = guests[k].inst
      /\ SameTables(c) /\ Table(c, E)' = v /\ Vtab(c) # NoVtab
  BY <1>0, <1>b, <1>c, <1>d DEF Rewritten, SameTables, Table
<1>2. /\ v.inst = n /\ v.gen = g /\ i.rows = v.view
      /\ task'[c].pc \in {"write", "commit"} => v.saved # <<>> /\ i.saved = v.saved
  BY <1>0, <1>1, <1>d DEF Accounted
<1>3. /\ E \in Exts /\ DOMAIN guests' = DOMAIN guests /\ Len(guests') = Len(guests)
      /\ \A e \in Exts : Guest(GLOBALS, e)' = Guest(GLOBALS, e)
      /\ Vtab(c) = Table(c, E)
  BY <1>1, <1>b, TableFrameFacts
<1>4. /\ \A k \in DOMAIN guests : DOMAIN guests'[k].inst = DOMAIN guests[k].inst
      /\ \A k \in DOMAIN guests : \A j \in DOMAIN guests[k].inst :
            k # g \/ j # n => guests'[k].inst[j] = guests[k].inst[j]
      /\ guests'[g].inst[n] = i
  BY <1>1
<1>5. ASSUME NEW d \in Conns, NEW f \in Exts
      PROVE  /\ Table(d, f)' # NoVtab => Table(d, f) # NoVtab
             /\ Table(d, f)'.inst = Table(d, f).inst /\ Table(d, f)'.gen = Table(d, f).gen
             /\ d # c \/ f # E => Table(d, f)' = Table(d, f)
             /\ Table(d, f) # NoVtab /\ (d # c \/ f # E) => Table(d, f).inst # n
  <2>1. CASE d # c \/ f # E
    <3>1. Table(d, f)' = Table(d, f)
      BY <1>1, <1>b, <2>1, TableFrameFacts
    <3>2. Table(d, f) # NoVtab => Table(d, f).inst # n
      BY <1>1, <1>3, <1>d, <2>1 DEF TableInv, InstIds, Table
    <3> QED
      BY <3>1, <3>2
  <2>2. CASE d = c /\ f = E
    BY <1>1, <1>2, <1>3, <1>d, <2>2 DEF Table
  <2> QED
    BY <2>1, <2>2
<1>6. InstIds'
  BY <1>3, <1>4, <1>5 DEF TableInv, InstIds, Table
<1>7. TableAsTold'
  <2> SUFFICES ASSUME NEW d \in Conns, NEW f \in Exts, Table(d, f)' # NoVtab,
                      Table(d, f)'.gen = Guest(GLOBALS, f)'
               PROVE  /\ Table(d, f)'.inst \in DOMAIN guests'[Guest(GLOBALS, f)'].inst
                      /\ guests'[Guest(GLOBALS, f)'].inst[Table(d, f)'.inst].rows = Table(d, f)'.view
    BY DEF TableAsTold, Table
  <2>1. /\ Table(d, f) # NoVtab /\ Table(d, f).gen = Guest(GLOBALS, f)
    BY <1>3, <1>5
  <2>2. Guest(GLOBALS, f) \in DOMAIN guests
    <3>1. Guest(GLOBALS, f) # 0
      BY <2>1 DEF TableInv, InstIds, Table
    <3> QED
      BY Zenon, <3>1, GuestIs DEF BaseInv, Types, HostTypes
  <2>3. /\ Table(d, f).inst \in DOMAIN guests[Guest(GLOBALS, f)].inst
        /\ guests[Guest(GLOBALS, f)].inst[Table(d, f).inst].rows = Table(d, f).view
    BY <2>1 DEF TableInv, TableAsTold, Table
  <2>4. CASE d # c \/ f # E
    BY <1>3, <1>4, <1>5, <2>1, <2>2, <2>3, <2>4
  <2>5. CASE d = c /\ f = E
    <3>1. Guest(GLOBALS, f) = g /\ Table(d, f)'.inst = n /\ Table(d, f)'.view = v.view
      BY <1>1, <1>2, <1>3, <1>b, <1>c, <2>5 DEF Table, TableGuest
    <3> QED
      BY <1>1, <1>2, <1>3, <1>4, <3>1
  <2> QED
    BY <2>4, <2>5
<1>8. ASSUME NEW d \in Conns PROVE SameSaved(d)'
  <2> SUFFICES ASSUME task'[d].pc \in {"write", "commit"} PROVE SameSaved(d)'
    BY DEF SameSaved
  <2>1. CASE d # c
    <3>1. task[d].pc \in {"write", "commit"} /\ Stmt(d)' = Stmt(d) /\ Vtab(d)' = Vtab(d)
      BY <1>1, <1>b, <2>1, TableFrameFacts
    <3>2. /\ Stmt(d).ext \in Exts /\ Vtab(d) = Table(d, Stmt(d).ext) /\ Vtab(d) # NoVtab
          /\ Vtab(d).gen \in DOMAIN guests /\ Vtab(d).saved # <<>>
          /\ Vtab(d).gen = Guest(GLOBALS, Stmt(d).ext) =>
                /\ Vtab(d).inst \in DOMAIN guests[Vtab(d).gen].inst
                /\ guests[Vtab(d).gen].inst[Vtab(d).inst].saved = Vtab(d).saved
      BY <3>1, SavedTable
    <3>3. Vtab(d).inst # n
      BY <1>5, <2>1, <3>2
    <3> QED
      BY <1>3, <1>4, <3>1, <3>2, <3>3 DEF SameSaved
  <2>2. CASE d = c
    <3>1. Stmt(c)' = Stmt(c) /\ Vtab(c)' = v
      BY <1>1, <1>b, <2>2, TableFrameFacts DEF Table
    <3> QED
      BY <1>2, <1>4, <2>2, <3>1 DEF SameSaved
  <2> QED
    BY <2>1, <2>2
<1> QED
  BY <1>6, <1>7, <1>8 DEF TableInv

(* A step that touches one instance, new or given back, and no other table  *)
(* than that of c.                                                          *)
Touched(id) ==
    /\ \A k \in DOMAIN guests : \A j \in (DOMAIN guests'[k].inst \cup DOMAIN guests[k].inst) :
          j # id => /\ j \in DOMAIN guests'[k].inst /\ j \in DOMAIN guests[k].inst
                    /\ guests'[k].inst[j] = guests[k].inst[j]

LEMMA TablesApart ==
    ASSUME TableInv, NEW d \in Conns, NEW f \in Exts, NEW a \in Conns, NEW b \in Exts,
           Table(d, f) # NoVtab, Table(a, b) # NoVtab, Table(d, f).inst = Table(a, b).inst
    PROVE  d = a /\ f = b
<1>1. \A x, y \in Conns, u, v \in Exts :
         Table(x, u) # NoVtab /\ Table(y, v) # NoVtab /\ Table(x, u).inst = Table(y, v).inst
            => x = y /\ u = v
  <2>1. InstIds
    BY DEF TableInv
  <2> QED
    BY <2>1, Zenon DEF InstIds, Table
<1> QED
  BY <1>1

LEMMA TouchedTables ==
    ASSUME BaseInv, TableInv, NEW c \in Conns, Types', TableFrame(c), SameTables(c),
           task'[c].pc = "idle", NEW id, Touched(id),
           next.inst \in Nat, next'.inst \in Nat, next'.inst >= next.inst,
           \A k \in DOMAIN guests : id \in DOMAIN guests'[k].inst => id # 0 /\ id < next'.inst,
           NEW E \in Exts, E = Stmt(c).ext,
           \A d \in Conns, f \in Exts :
                (d # c \/ f # E) /\ Table(d, f) # NoVtab => Table(d, f).inst # id,
           \/ Table(c, E)' = NoVtab
           \/ /\ Table(c, E)'.inst = id /\ id # 0 /\ id < next'.inst
              /\ Table(c, E)'.gen \in DOMAIN guests
              /\ \A k \in DOMAIN guests :
                    id \in DOMAIN guests'[k].inst <=> k = Table(c, E)'.gen
              /\ guests'[Table(c, E)'.gen].inst[id].rows = Table(c, E)'.view
    PROVE  TableInv'
<1>1. /\ DOMAIN guests' = DOMAIN guests /\ Len(guests') = Len(guests)
      /\ \A e \in Exts : Guest(GLOBALS, e)' = Guest(GLOBALS, e)
      /\ DOMAIN guests = 1..Len(guests) /\ Len(guests) \in Nat
  BY TableFrameFacts DEF BaseInv, Types
<1>2. ASSUME NEW d \in Conns, NEW f \in Exts, d # c \/ f # E
      PROVE  /\ Table(d, f)' = Table(d, f)
             /\ Table(d, f) # NoVtab => Table(d, f).inst # id
  BY <1>2, TableFrameFacts
<1>3. ASSUME NEW d \in Conns, NEW f \in Exts, Table(d, f) # NoVtab
      PROVE  /\ Table(d, f).inst # 0 /\ Table(d, f).inst < next.inst
             /\ Table(d, f).inst \in Nat
             /\ Table(d, f).gen \in DOMAIN guests
             /\ \A k \in DOMAIN guests :
                   Table(d, f).inst \in DOMAIN guests[k].inst => Table(d, f).gen = k
             /\ \A a \in Conns, b \in Exts :
                   Table(a, b) # NoVtab /\ Table(d, f).inst = Table(a, b).inst => d = a /\ f = b
  <2>1. Table(d, f) \in VtabT
    BY DEF Table, BaseInv, Types, ConnTypes, DbT
  <2>2. Table(d, f).gen \in Nat /\ Table(d, f).inst \in Nat
    BY <2>1 DEF VtabT
  <2>3. /\ Table(d, f).inst # 0 /\ Table(d, f).inst < next.inst
        /\ Table(d, f).gen # 0 /\ Table(d, f).gen <= Len(guests)
    BY Zenon, <1>3 DEF TableInv, InstIds, Table
  <2>4. \A k \in DOMAIN guests :
           Table(d, f).inst \in DOMAIN guests[k].inst => Table(d, f).gen = k
    BY Zenon, <1>3 DEF TableInv, InstIds, Table
  <2>5. \A a \in Conns, b \in Exts :
           Table(a, b) # NoVtab /\ Table(d, f).inst = Table(a, b).inst => d = a /\ f = b
    BY <1>3, TablesApart
  <2>6. Table(d, f).gen \in DOMAIN guests
    BY <1>1, <2>2, <2>3
  <2> QED
    BY <2>2, <2>3, <2>4, <2>5, <2>6
<1>4. ASSUME NEW k \in DOMAIN guests, NEW j \in DOMAIN guests'[k].inst
      PROVE  j # 0 /\ j < next'.inst
  <2>1. CASE j = id
    BY <2>1, <1>4
  <2>2. CASE j # id
    <3>1. j \in DOMAIN guests[k].inst
      BY <2>2 DEF Touched
    <3>2. j \in Nat
      BY <3>1, ReadType, GuestOf DEF BaseInv, Types, GuestT
    <3> QED
      BY <3>1, <3>2 DEF TableInv, InstIds
  <2> QED
    BY <2>1, <2>2
<1>5. ASSUME NEW d \in Conns, NEW f \in Exts, Table(d, f)' # NoVtab
      PROVE  /\ Table(d, f)'.inst # 0 /\ Table(d, f)'.inst < next'.inst
             /\ Table(d, f)'.gen \in DOMAIN guests
             /\ \A k \in DOMAIN guests :
                   Table(d, f)'.inst \in DOMAIN guests'[k].inst => Table(d, f)'.gen = k
             /\ \A a \in Conns, b \in Exts :
                   Table(a, b)' # NoVtab /\ Table(d, f)'.inst = Table(a, b)'.inst => d = a /\ f = b
             /\ Table(d, f)'.gen = Guest(GLOBALS, f)' =>
                   /\ Table(d, f)'.inst \in DOMAIN guests'[Guest(GLOBALS, f)'].inst
                   /\ guests'[Guest(GLOBALS, f)'].inst[Table(d, f)'.inst].rows = Table(d, f)'.view
  <2>1. CASE d # c \/ f # E
    <3>1. /\ Table(d, f)' = Table(d, f) /\ Table(d, f) # NoVtab
          /\ Table(d, f).inst # id
      BY <1>2, <1>5, <2>1
    <3>2. ASSUME NEW k \in DOMAIN guests, Table(d, f).inst \in DOMAIN guests'[k].inst
          PROVE  Table(d, f).gen = k
      BY <1>3, <3>1, <3>2 DEF Touched
    <3>3. ASSUME NEW a \in Conns, NEW b \in Exts, Table(a, b)' # NoVtab,
                 Table(d, f).inst = Table(a, b)'.inst
          PROVE  d = a /\ f = b
      <4>1. CASE a # c \/ b # E
        BY <1>2, <1>3, <3>1, <3>3, <4>1
      <4>2. CASE a = c /\ b = E
        BY <3>1, <3>3, <4>2
      <4> QED
        BY <4>1, <4>2
    <3>4. ASSUME Table(d, f).gen = Guest(GLOBALS, f)
          PROVE  /\ Table(d, f).inst \in DOMAIN guests'[Guest(GLOBALS, f)].inst
                 /\ guests'[Guest(GLOBALS, f)].inst[Table(d, f).inst].rows = Table(d, f).view
      <4>1. /\ Table(d, f).inst \in DOMAIN guests[Guest(GLOBALS, f)].inst
            /\ guests[Guest(GLOBALS, f)].inst[Table(d, f).inst].rows = Table(d, f).view
        BY Zenon, <3>1, <3>4 DEF TableInv, TableAsTold, Table
      <4>2. Guest(GLOBALS, f) \in DOMAIN guests
        BY <1>3, <3>1, <3>4
      <4> QED
        BY <3>1, <4>1, <4>2 DEF Touched
    <3>5. Table(d, f).inst # 0 /\ Table(d, f).inst < next'.inst /\ Table(d, f).gen \in DOMAIN guests
      BY <1>3, <3>1
    <3> QED
      BY <1>1, <3>1, <3>2, <3>3, <3>4, <3>5
  <2>2. CASE d = c /\ f = E
    <3>1. ASSUME NEW a \in Conns, NEW b \in Exts, Table(a, b)' # NoVtab,
                 Table(d, f)'.inst = Table(a, b)'.inst
          PROVE  d = a /\ f = b
      BY <1>2, <1>5, <2>2, <3>1
    <3> QED
      BY <1>1, <1>5, <2>2, <3>1
  <2> QED
    BY <2>1, <2>2
<1>6. InstIds'
  <2>1. \A k \in DOMAIN guests' : \A j \in DOMAIN guests'[k].inst : j # 0 /\ j < next'.inst
    BY <1>1, <1>4
  <2>2. ASSUME NEW d \in Conns, NEW f \in Exts, Table(d, f)' # NoVtab
        PROVE  Table(d, f)'.gen # 0 /\ Table(d, f)'.gen <= Len(guests')
    BY <1>1, <1>5, <2>2
  <2>3. ASSUME NEW d \in Conns, NEW f \in Exts
        PROVE  /\ Table(d, f)' # NoVtab => /\ Table(d, f)'.inst # 0
                                          /\ Table(d, f)'.inst < next'.inst
                                          /\ Table(d, f)'.gen # 0
                                          /\ Table(d, f)'.gen <= Len(guests')
               /\ \A k \in DOMAIN guests' :
                     Table(d, f)' # NoVtab /\ Table(d, f)'.inst \in DOMAIN guests'[k].inst
                        => Table(d, f)'.gen = k
               /\ \A a \in Conns, b \in Exts :
                     Table(d, f)' # NoVtab /\ Table(a, b)' # NoVtab
                     /\ Table(d, f)'.inst = Table(a, b)'.inst => d = a /\ f = b
    BY <1>1, <1>5, <2>2
  <2> QED
    BY Zenon, <2>1, <2>3 DEF InstIds, Table
<1>7. TableAsTold'
  <2> SUFFICES ASSUME NEW d \in Conns, NEW f \in Exts, Table(d, f)' # NoVtab,
                      Table(d, f)'.gen = Guest(GLOBALS, f)'
               PROVE  /\ Table(d, f)'.inst \in DOMAIN guests'[Guest(GLOBALS, f)'].inst
                      /\ guests'[Guest(GLOBALS, f)'].inst[Table(d, f)'.inst].rows = Table(d, f)'.view
    BY Zenon DEF TableAsTold, Table
  <2> QED
    BY <1>5
<1>8. ASSUME NEW d \in Conns PROVE SameSaved(d)'
  <2> SUFFICES ASSUME task'[d].pc \in {"write", "commit"} PROVE SameSaved(d)'
    BY DEF SameSaved
  <2>0. d # c
    OBVIOUS
  <2>1. task[d].pc \in {"write", "commit"} /\ Stmt(d)' = Stmt(d) /\ Vtab(d)' = Vtab(d)
    BY <2>0, TableFrameFacts
  <2>2. /\ Stmt(d).ext \in Exts /\ Vtab(d) = Table(d, Stmt(d).ext) /\ Vtab(d) # NoVtab
        /\ Vtab(d).gen \in DOMAIN guests /\ Vtab(d).saved # <<>>
        /\ Vtab(d).gen = Guest(GLOBALS, Stmt(d).ext) =>
              /\ Vtab(d).inst \in DOMAIN guests[Vtab(d).gen].inst
              /\ guests[Vtab(d).gen].inst[Vtab(d).inst].saved = Vtab(d).saved
    BY <2>1, SavedTable
  <2>3. Vtab(d).inst # id
    BY <2>0, <2>2
  <2> QED
    BY <1>1, <2>1, <2>2, <2>3 DEF SameSaved, Touched
<1> QED
  BY <1>6, <1>7, <1>8 DEF TableInv

LEMMA TouchedOne ==
    ASSUME BaseInv, Types', SameGuests, NEW g, NEW f, NEW id, InstsOnly(g, f),
           \A j \in (DOMAIN f \cup DOMAIN guests[g].inst) :
              j # id => /\ j \in DOMAIN f /\ j \in DOMAIN guests[g].inst
                        /\ f[j] = guests[g].inst[j]
    PROVE  Touched(id)
BY DEF Touched, InstsOnly

LEMMA CreatedTables ==
    ASSUME BaseInv, TableInv, NEW c \in Conns, Types', TableFrame(c), Created(c)
    PROVE  TableInv'
<1>1. Stmt(c).ext \in Exts
  BY StmtIs DEF TableFrame, BaseInv, Types, ConnTypes
<1>2. PICK E \in Exts : E = Stmt(c).ext
  BY <1>1
<1>3. PICK g : g = TableGuest(c)
  OBVIOUS
<1>4. PICK id : id = next.inst
  OBVIOUS
<1>5. PICK new : new = NewVtab(c, g)
  OBVIOUS
<1>6. /\ Table(c, E) = NoVtab /\ next'.inst = id + 1 /\ SameTables(c) /\ task'[c].pc = "idle"
      /\ \/ SameInst /\ Table(c, E)' = NoVtab
         \/ /\ InstsOnly(g, Put(guests[g].inst, id, NewInst(c)))
            /\ Table(c, E)' \in {NoVtab, new}
  BY <1>2, <1>3, <1>4, <1>5 DEF Created, Table, Vtab
<1>7. id \in Nat /\ id # 0 /\ next'.inst \in Nat /\ next'.inst >= id /\ id < next'.inst
  BY <1>4, <1>6 DEF BaseInv, Types, HostTypes
<1>8. \A k \in DOMAIN guests : id \notin DOMAIN guests[k].inst
  BY <1>4, <1>7 DEF TableInv, InstIds
<1>9. ASSUME NEW d \in Conns, NEW f \in Exts, Table(d, f) # NoVtab PROVE Table(d, f).inst # id
  <2>1. Table(d, f).inst < next.inst
    BY <1>9 DEF TableInv, InstIds, Table
  <2> QED
    BY <1>4, <1>7, <2>1
<1>10. \A k \in DOMAIN guests : id \in DOMAIN guests'[k].inst => id # 0 /\ id < next'.inst
  BY <1>7
<1>11. CASE SameInst /\ Table(c, E)' = NoVtab
  <2>1. Touched(id)
    BY <1>11 DEF Touched, SameInst
  <2> QED
    BY <1>2, <1>4, <1>6, <1>7, <1>9, <1>10, <1>11, <2>1, TouchedTables
<1>12. CASE /\ InstsOnly(g, Put(guests[g].inst, id, NewInst(c)))
            /\ Table(c, E)' \in {NoVtab, new}
  <2> DEFINE f == Put(guests[g].inst, id, NewInst(c))
  <2>1. /\ DOMAIN f = DOMAIN guests[g].inst \cup {id} /\ f[id] = NewInst(c)
        /\ \A j \in DOMAIN guests[g].inst : j # id => f[j] = guests[g].inst[j]
    BY Zenon DEF Put
  <2> HIDE DEF f
  <2>2. InstsOnly(g, f)
    BY <1>12 DEF f
  <2>3. Touched(id)
    BY <2>1, <2>2, TouchedOne DEF TableFrame
  <2>4. /\ g \in DOMAIN guests /\ \A k \in DOMAIN guests : id \in DOMAIN guests'[k].inst <=> k = g
        /\ guests'[g].inst[id] = NewInst(c)
    BY <1>8, <2>1, <2>2 DEF InstsOnly
  <2>5. /\ new.inst = id /\ new.gen = g /\ NewInst(c).rows = new.view
    BY <1>4, <1>5, <2>4, NewRecords DEF BaseInv, Types
  <2>6. CASE Table(c, E)' = NoVtab
    BY <1>2, <1>4, <1>6, <1>7, <1>9, <1>10, <2>3, <2>6, TouchedTables
  <2>7. CASE Table(c, E)' = new
    <3>1. /\ Table(c, E)'.inst = id /\ Table(c, E)'.gen = g
          /\ guests'[Table(c, E)'.gen].inst[id].rows = Table(c, E)'.view
      BY <2>4, <2>5, <2>7
    <3>2. \/ Table(c, E)' = NoVtab
          \/ /\ Table(c, E)'.inst = id /\ id # 0 /\ id < next'.inst
             /\ Table(c, E)'.gen \in DOMAIN guests
             /\ \A k \in DOMAIN guests :
                   id \in DOMAIN guests'[k].inst <=> k = Table(c, E)'.gen
             /\ guests'[Table(c, E)'.gen].inst[id].rows = Table(c, E)'.view
      BY <1>7, <2>4, <3>1
    <3> QED
      BY <1>2, <1>4, <1>6, <1>7, <1>9, <1>10, <2>3, <3>2, TouchedTables
  <2> QED
    BY <1>12, <2>6, <2>7
<1> QED
  BY <1>6, <1>11, <1>12

LEMMA RemovedTables ==
    ASSUME BaseInv, TableInv, NEW c \in Conns, Types', TableFrame(c), Removed(c)
    PROVE  TableInv'
<1>1. Stmt(c).ext \in Exts
  BY StmtIs DEF TableFrame, BaseInv, Types, ConnTypes
<1>2. PICK E \in Exts : E = Stmt(c).ext
  BY <1>1
<1>3. PICK g : g = TableGuest(c)
  OBVIOUS
<1>4. PICK id : id = IF Vtab(c) = NoVtab THEN 0 ELSE Vtab(c).inst
  OBVIOUS
<1>5. /\ next' = next /\ SameTables(c) /\ task'[c].pc = "idle" /\ Table(c, E)' = NoVtab
      /\ \/ SameInst
         \/ /\ Table(c, E) # NoVtab /\ Table(c, E).inst = id
            /\ InstsOnly(g, Drop(guests[g].inst, id))
  BY <1>2, <1>3, <1>4 DEF Removed, Table, Vtab
<1>6. next.inst \in Nat /\ next'.inst \in Nat /\ next'.inst >= next.inst
  BY <1>5 DEF BaseInv, Types, HostTypes
<1>7. Touched(id)
  <2>1. CASE SameInst
    BY <2>1 DEF SameInst, Touched
  <2>2. CASE InstsOnly(g, Drop(guests[g].inst, id))
    <3> DEFINE f == Drop(guests[g].inst, id)
    <3>1. /\ DOMAIN f = DOMAIN guests[g].inst \ {id}
          /\ \A j \in DOMAIN guests[g].inst \ {id} : f[j] = guests[g].inst[j]
      BY Zenon, DropReads
    <3> HIDE DEF f
    <3> QED
      BY <2>2, <3>1, TouchedOne DEF TableFrame, f
  <2> QED
    BY <1>5, <2>1, <2>2
<1>8. ASSUME NEW d \in Conns, NEW f \in Exts, d # c \/ f # E, Table(d, f) # NoVtab
      PROVE  Table(d, f).inst # id
  <2>1. CASE Vtab(c) = NoVtab
    BY <1>4, <1>8, <2>1 DEF TableInv, InstIds, Table
  <2>2. CASE Vtab(c) # NoVtab
    BY <1>2, <1>4, <1>8, <2>2, TablesApart DEF Table, Vtab
  <2> QED
    BY <2>1, <2>2
<1>9. ASSUME NEW k \in DOMAIN guests, id \in DOMAIN guests'[k].inst
      PROVE  id # 0 /\ id < next'.inst
  <2>1. id \in DOMAIN guests[k].inst
    BY <1>5, <1>9 DEF SameInst, InstsOnly, Drop
  <2> QED
    BY <1>5, <2>1 DEF TableInv, InstIds
<1> QED
  BY <1>2, <1>5, <1>6, <1>7, <1>8, <1>9, TouchedTables

-----------------------------------------------------------------------------
(* What the steps that are not about tables, groups or cursors leave alone. *)
Grown == Len(guests') \in Nat /\ Len(guests') >= Len(guests)
QuietTables(c) ==
    /\ \A d \in Conns, f \in Exts : Table(d, f)' = Table(d, f)
    /\ next'.inst \in Nat /\ next'.inst >= next.inst
    /\ DOMAIN guests' = 1..Len(guests') /\ Grown
    /\ \A i \in DOMAIN guests : guests'[i].inst = guests[i].inst
    /\ \A i \in DOMAIN guests' \ DOMAIN guests : guests'[i].inst = <<>>
    /\ \A f \in Exts : \/ Guest(GLOBALS, f)' = Guest(GLOBALS, f)
                       \/ GLOBALS = None
                       \/ Guest(GLOBALS, f)' = Len(guests) + 1
    /\ \A d \in Conns \ {c} : task'[d] = task[d]
    /\ task'[c].pc \notin {"write", "commit"}

LEMMA QuietTablesKept ==
    ASSUME BaseInv, TableInv, NEW c \in Conns, QuietTables(c)
    PROVE  TableInv'
<1>0. /\ DOMAIN guests = 1..Len(guests) /\ Len(guests) \in Nat /\ guests \in Seq(GuestT)
      /\ next.inst \in Nat
  BY DEF BaseInv, Types, HostTypes
<1>1. ASSUME NEW d \in Conns, NEW f \in Exts
      PROVE  /\ Table(d, f)' = Table(d, f) /\ Table(d, f).inst \in Nat /\ Table(d, f).gen \in Nat
  <2>1. Table(d, f) \in VtabT
    BY DEF Table, BaseInv, Types, ConnTypes, DbT
  <2> QED
    BY <2>1 DEF VtabT, QuietTables
<1>2. ASSUME NEW d \in Conns, NEW f \in Exts, Table(d, f) # NoVtab
      PROVE  /\ Table(d, f).inst # 0 /\ Table(d, f).inst < next.inst
             /\ Table(d, f).gen \in DOMAIN guests
             /\ \A k \in DOMAIN guests :
                   Table(d, f).inst \in DOMAIN guests[k].inst => Table(d, f).gen = k
  <2>1. /\ Table(d, f).inst # 0 /\ Table(d, f).inst < next.inst
        /\ Table(d, f).gen # 0 /\ Table(d, f).gen <= Len(guests)
        /\ \A k \in DOMAIN guests :
              Table(d, f).inst \in DOMAIN guests[k].inst => Table(d, f).gen = k
    BY <1>2 DEF TableInv, InstIds, Table
  <2> QED
    BY <1>0, <1>1, <2>1
<1>3. ASSUME NEW k \in DOMAIN guests', NEW j \in DOMAIN guests'[k].inst
      PROVE  /\ k \in DOMAIN guests /\ j \in DOMAIN guests[k].inst
             /\ guests'[k].inst = guests[k].inst /\ j # 0 /\ j < next'.inst
  <2>1. k \in DOMAIN guests /\ guests'[k].inst = guests[k].inst
    BY <1>3 DEF QuietTables
  <2>2. j \in Nat
    BY <2>1, <1>0, ReadType, GuestOf DEF GuestT
  <2>3. j # 0 /\ j < next.inst
    BY <2>1 DEF TableInv, InstIds
  <2> QED
    BY <1>0, <2>1, <2>2, <2>3 DEF QuietTables
<1>4. DOMAIN guests \subseteq DOMAIN guests'
  BY <1>0 DEF QuietTables, Grown
<1>5. InstIds'
  <2>1. ASSUME NEW d \in Conns, NEW f \in Exts
        PROVE  /\ Table(d, f)' # NoVtab => /\ Table(d, f)'.inst # 0
                                          /\ Table(d, f)'.inst < next'.inst
                                          /\ Table(d, f)'.gen # 0
                                          /\ Table(d, f)'.gen <= Len(guests')
               /\ \A k \in DOMAIN guests' :
                     Table(d, f)' # NoVtab /\ Table(d, f)'.inst \in DOMAIN guests'[k].inst
                        => Table(d, f)'.gen = k
               /\ \A a \in Conns, b \in Exts :
                     Table(d, f)' # NoVtab /\ Table(a, b)' # NoVtab
                     /\ Table(d, f)'.inst = Table(a, b)'.inst => d = a /\ f = b
    <3>1. \A k \in DOMAIN guests' :
             Table(d, f)' # NoVtab /\ Table(d, f)'.inst \in DOMAIN guests'[k].inst
                => Table(d, f)'.gen = k
      BY <1>1, <1>2, <1>3
    <3>2. \A a \in Conns, b \in Exts :
             Table(d, f)' # NoVtab /\ Table(a, b)' # NoVtab
             /\ Table(d, f)'.inst = Table(a, b)'.inst => d = a /\ f = b
      BY <1>1, TablesApart
    <3>3. ASSUME Table(d, f)' # NoVtab
          PROVE  /\ Table(d, f)'.inst # 0 /\ Table(d, f)'.inst < next'.inst
                 /\ Table(d, f)'.gen # 0 /\ Table(d, f)'.gen <= Len(guests')
      BY <1>0, <1>1, <1>2, <3>3 DEF QuietTables, Grown
    <3> QED
      BY <3>1, <3>2, <3>3
  <2>2. \A k \in DOMAIN guests' : \A j \in DOMAIN guests'[k].inst : j # 0 /\ j < next'.inst
    BY <1>3
  <2> QED
    BY <2>1, <2>2 DEF InstIds, Table
<1>6. ASSUME NEW d \in Conns, NEW f \in Exts, Table(d, f) # NoVtab,
             Table(d, f).gen = Guest(GLOBALS, f)'
      PROVE  Guest(GLOBALS, f)' = Guest(GLOBALS, f)
  <2>1. GLOBALS # None
    BY <1>6 DEF BaseInv, Behind, Table
  <2>2. Table(d, f).gen # Len(guests) + 1
    BY <1>0, <1>2, <1>6
  <2> QED
    BY <1>6, <2>1, <2>2 DEF QuietTables
<1>7. TableAsTold'
  <2> SUFFICES ASSUME NEW d \in Conns, NEW f \in Exts, Table(d, f)' # NoVtab,
                      Table(d, f)'.gen = Guest(GLOBALS, f)'
               PROVE  /\ Table(d, f)'.inst \in DOMAIN guests'[Guest(GLOBALS, f)'].inst
                      /\ guests'[Guest(GLOBALS, f)'].inst[Table(d, f)'.inst].rows = Table(d, f)'.view
    BY DEF TableAsTold, Table
  <2>1. /\ Table(d, f)' = Table(d, f) /\ Guest(GLOBALS, f)' = Guest(GLOBALS, f)
        /\ Guest(GLOBALS, f) \in DOMAIN guests
    BY <1>1, <1>2, <1>6
  <2>2. guests'[Guest(GLOBALS, f)].inst = guests[Guest(GLOBALS, f)].inst
    BY <2>1 DEF QuietTables
  <2>3. /\ Table(d, f).inst \in DOMAIN guests[Guest(GLOBALS, f)].inst
        /\ guests[Guest(GLOBALS, f)].inst[Table(d, f).inst].rows = Table(d, f).view
    BY <2>1 DEF TableInv, TableAsTold, Table
  <2> QED
    BY <2>1, <2>2, <2>3
<1>8. ASSUME NEW d \in Conns PROVE SameSaved(d)'
  <2> SUFFICES ASSUME task'[d].pc \in {"write", "commit"} PROVE SameSaved(d)'
    BY DEF SameSaved
  <2>0. d # c /\ task'[d] = task[d]
    BY DEF QuietTables
  <2>1. /\ Stmt(d).ext \in Exts /\ Vtab(d) = Table(d, Stmt(d).ext) /\ Vtab(d) # NoVtab
        /\ Vtab(d).gen \in DOMAIN guests /\ Vtab(d).saved # <<>>
        /\ Vtab(d).gen = Guest(GLOBALS, Stmt(d).ext) =>
              /\ Vtab(d).inst \in DOMAIN guests[Vtab(d).gen].inst
              /\ guests[Vtab(d).gen].inst[Vtab(d).inst].saved = Vtab(d).saved
    BY <2>0, SavedTable
  <2>2. PICK F \in Exts : F = Stmt(d).ext
    BY <2>1
  <2>3. Stmt(d)' = Stmt(d) /\ Vtab(d)' = Table(d, F)'
    BY <2>0, <2>2 DEF Stmt, Vtab, Table
  <2>4. Vtab(d)' = Vtab(d)
    BY <1>1, <2>1, <2>2, <2>3
  <2>5. guests'[Vtab(d).gen].inst = guests[Vtab(d).gen].inst
    BY <2>1 DEF QuietTables
  <2> SUFFICES ASSUME Vtab(d).gen = Guest(GLOBALS, F)'
               PROVE  guests'[Vtab(d).gen].inst[Vtab(d).inst].saved = Vtab(d).saved
    BY <2>1, <2>2, <2>3, <2>4 DEF SameSaved
  <2>6. Guest(GLOBALS, F)' = Guest(GLOBALS, F)
    BY <1>6, <2>1, <2>2
  <2> QED
    BY <2>1, <2>2, <2>5, <2>6
<1> QED
  BY <1>5, <1>7, <1>8 DEF TableInv

QuietScans(c) ==
    /\ cur' = cur /\ task[c].pc # "scan"
    /\ \A d \in Conns \ {c} : task'[d] = task[d] /\ db'[d] = db[d]
    /\ next'.cur \in Nat /\ next'.cur >= next.cur
    /\ DOMAIN guests' = 1..Len(guests') /\ Grown
    /\ \A i \in DOMAIN guests : guests'[i].cur = guests[i].cur
    /\ \A i \in DOMAIN guests' \ DOMAIN guests : guests'[i].cur = <<>>

LEMMA QuietScansKept ==
    ASSUME BaseInv, ScanInv, NEW c \in Conns, QuietScans(c)
    PROVE  ScanInv'
<1>0. /\ DOMAIN guests = 1..Len(guests) /\ Len(guests) \in Nat /\ guests \in Seq(GuestT)
      /\ next.cur \in Nat /\ cur \in [Conns -> [Slots -> CursorT]]
  BY DEF BaseInv, Types, HostTypes, ConnTypes
<1>1. ASSUME NEW k \in DOMAIN guests', NEW j \in DOMAIN guests'[k].cur
      PROVE  /\ k \in DOMAIN guests /\ j \in DOMAIN guests[k].cur
             /\ guests'[k].cur = guests[k].cur /\ j # 0 /\ j < next'.cur
  <2>1. k \in DOMAIN guests /\ guests'[k].cur = guests[k].cur
    BY <1>1 DEF QuietScans
  <2>2. j \in Nat
    BY <2>1, <1>0, ReadType, GuestOf DEF GuestT
  <2>3. j # 0 /\ j < next.cur
    BY <2>1 DEF ScanInv, CurIds
  <2> QED
    BY <1>0, <2>1, <2>2, <2>3 DEF QuietScans
<1>2. ASSUME NEW s \in Slots PROVE cur[c][s] = NoCursor
  BY DEF ScanInv, CurIds, QuietScans
<1>3. CurIds'
  <2>1. ASSUME NEW d \in Conns, NEW s \in Slots
        PROVE  /\ cur'[d][s] # NoCursor => task'[d].pc = "scan"
               /\ cur'[d][s].pc \in {"closed", "done"} <=> cur'[d][s].id = 0
               /\ cur'[d][s].id < next'.cur
    <3>1. cur'[d][s] = cur[d][s] /\ cur[d][s].id \in Nat
      BY <1>0 DEF QuietScans, CursorT
    <3>2. cur[d][s] # NoCursor => task'[d].pc = "scan"
      BY <1>2 DEF QuietScans, ScanInv, CurIds
    <3>3. /\ cur[d][s].pc \in {"closed", "done"} <=> cur[d][s].id = 0
          /\ cur[d][s].id < next.cur
      BY DEF ScanInv, CurIds
    <3> QED
      BY <1>0, <3>1, <3>2, <3>3 DEF QuietScans
  <2>2. \A k \in DOMAIN guests' : \A j \in DOMAIN guests'[k].cur : j # 0 /\ j < next'.cur
    BY <1>1
  <2>3. \A d, b \in Conns, s, t \in Slots :
           cur'[d][s].id = cur'[b][t].id /\ cur'[d][s].id # 0 => d = b /\ s = t
    <3>1. cur' = cur
      BY DEF QuietScans
    <3> QED
      BY <3>1 DEF ScanInv, CurIds
  <2> QED
    BY <2>1, <2>2, <2>3 DEF CurIds
<1>4. ASSUME NEW d \in Conns, NEW s \in Slots PROVE Scanned(d, s)'
  <2> SUFFICES ASSUME NEW k \in DOMAIN guests', cur'[d][s].id \in DOMAIN guests'[k].cur
               PROVE  /\ guests'[k].cur[cur'[d][s].id].inst = Vtab(d)'.inst
                      /\ k = Vtab(d)'.gen
                      /\ Reads(d, s, guests[k].cur[cur[d][s].id])'
    BY DEF Scanned
  <2>1. /\ k \in DOMAIN guests /\ cur[d][s].id \in DOMAIN guests[k].cur /\ cur' = cur
        /\ guests'[k].cur = guests[k].cur /\ cur[d][s].id # 0
    BY <1>1 DEF QuietScans
  <2>2. d # c
    <3>1. d = c => cur[d][s] = NoCursor
      BY <1>2
    <3> QED
      BY <2>1, <3>1 DEF NoCursor
  <2>3. Vtab(d)' = Vtab(d)
    BY <2>2 DEF QuietScans, Vtab, Stmt
  <2>4. /\ guests[k].cur[cur[d][s].id].inst = Vtab(d).inst /\ k = Vtab(d).gen
        /\ Reads(d, s, guests[k].cur[cur[d][s].id])
    BY <2>1 DEF ScanInv, Scanned
  <2>5. PICK p : p = guests[k].cur[cur[d][s].id]
    OBVIOUS
  <2>6. guests'[k].cur[cur'[d][s].id] = p
    BY <2>1, <2>5
  <2>7. Reads(d, s, p)'
    BY Zenon, <2>1, <2>4, <2>5 DEF Reads
  <2> QED
    BY Zenon, <2>1, <2>3, <2>4, <2>5, <2>6, <2>7 DEF Reads
<1> QED
  BY <1>3, <1>4 DEF ScanInv

QuietGroups(c) ==
    /\ grp' = grp /\ task[c].todo # <<>>
    /\ task[c].pc # "group" /\ task'[c].pc # "group"
    /\ Stmt(c).op = "attach" \/ Len(task'[c].todo) <= Len(task[c].todo)
    /\ task'[c].todo # <<>> /\ Stmt(c).op # "attach" => Stmt(c)'.op # "attach"
    /\ \A d \in Conns \ {c} : task'[d] = task[d] /\ db'[d] = db[d]
    /\ db'[c].open = db[c].open
    /\ \A e \in Exts : db'[c].agg[e].next_id >= db[c].agg[e].next_id
    /\ DOMAIN guests' = 1..Len(guests') /\ Grown
    /\ \A i \in DOMAIN guests : guests'[i].acc = guests[i].acc
    /\ \A i \in DOMAIN guests' \ DOMAIN guests : guests'[i].acc = <<>>
    /\ \A e \in Exts : \/ Guest(HOST, e)' = Guest(HOST, e)
                       \/ Guest(HOST, e)' = Len(guests) + 1 /\ Len(guests') = Len(guests) + 1
    /\ \A d \in Conns : seen'[d].kind = "group" => seen'[d] = seen[d]

(* A row that is known stays known.                                         *)
LEMMA QuietRow ==
    ASSUME BaseInv, Types', NEW c \in Conns, QuietGroups(c), NEW e \in Exts,
           NEW id \in Nat, NEW r \in Rows, KnownRow(e, id, r)
    PROVE  KnownRow(e, id, r)'
<1>1. r[1] \in Conns /\ r[2] \in Nat /\ r[3] \in Slots
  BY DEF Rows
<1>2. PICK d \in Conns : d = r[1]
  BY <1>1
<1>3. /\ id < db[d].agg[e].next_id /\ r[2] >= Level(d)
      /\ task[d].todo # <<>> => Stmt(d).op # "attach"
      /\ <<r[1], r[2], r[3]>> \in db[d].open
      /\ task[d].pc = "group" /\ r[2] = Len(task[d].todo) =>
            Stmt(d).ext = e /\ grp[d][r[3]].id = id
      /\ \A s \in Slots : Grouping(d, e) /\ grp[d][s].id = id => IsOf(r, d, s)
  BY <1>2 DEF KnownRow
<1>4. CASE d # c
  <2>1. task'[d] = task[d] /\ db'[d] = db[d] /\ grp' = grp /\ Stmt(d)' = Stmt(d)
    BY Zenon, <1>4 DEF QuietGroups, Stmt
  <2>2. Level(d)' = Level(d) /\ Grouping(d, e)' = Grouping(d, e)
    BY <2>1 DEF Level, Grouping
  <2>3. \A s \in Slots : IsOf(r, d, s)' = IsOf(r, d, s)
    BY <2>1 DEF IsOf
  <2> QED
    BY <1>2, <1>3, <2>1, <2>2, <2>3 DEF KnownRow
<1>5. CASE d = c
  <2>1. Stmt(c).op # "attach" /\ Len(task'[c].todo) <= Len(task[c].todo)
    BY Zenon, <1>3, <1>5 DEF QuietGroups
  <2>2. Len(task'[c].todo) \in Nat /\ Len(task[c].todo) \in Nat
    BY DEF BaseInv, Types, ConnTypes, TaskT
  <2>3. r[2] >= Len(task[c].todo) + 1
    BY Zenon, <1>3, <1>5 DEF Level, QuietGroups
  <2>4. r[2] >= Level(c)'
    <3>1. Level(c)' = Len(task'[c].todo) + 1
      BY Zenon DEF Level, QuietGroups
    <3> DEFINE n == r[2]  m == Len(task[c].todo)  k == Len(task'[c].todo)
    <3>2. n >= k + 1
      <4>1. n \in Nat /\ m \in Nat /\ k \in Nat /\ k <= m /\ n >= m + 1
        BY <1>1, <2>1, <2>2, <2>3
      <4> HIDE DEF n, m, k
      <4> QED
        BY <4>1
    <3>3. n >= Level(c)'
      BY <3>1, <3>2
    <3> QED
      BY <3>3
  <2>5. db[c].agg[e].next_id \in Nat /\ db'[c].agg[e].next_id \in Nat
    BY DEF BaseInv, Types, ConnTypes, DbT, AggT
  <2>6. id < db'[c].agg[e].next_id
    <3>1. db'[c].agg[e].next_id >= db[c].agg[e].next_id
      BY Zenon DEF QuietGroups
    <3>2. id < db[c].agg[e].next_id
      BY <1>3, <1>5
    <3> QED
      BY <2>5, <3>1, <3>2
  <2>7. task'[c].todo # <<>> => Stmt(c)'.op # "attach"
    BY Zenon, <2>1 DEF QuietGroups
  <2>8. <<r[1], r[2], r[3]>> \in db'[c].open /\ task'[c].pc # "group"
    BY Zenon, <1>3, <1>5 DEF QuietGroups
  <2> QED
    BY <1>2, <1>5, <2>4, <2>6, <2>7, <2>8 DEF KnownRow, Grouping
<1> QED
  BY <1>4, <1>5

LEMMA KeptRows ==
    ASSUME BaseInv, NEW g \in DOMAIN guests, NEW id \in DOMAIN guests[g].acc
    PROVE  /\ id \in Nat /\ guests[g].acc[id] \in Seq(Rows)
           /\ \A i \in DOMAIN guests[g].acc[id] : guests[g].acc[id][i] \in Rows
<1>1. guests[g].acc \in Partial(Seq(Rows))
  BY GuestOf DEF BaseInv, Types, GuestT
<1>2. id \in Nat /\ guests[g].acc[id] \in Seq(Rows)
  BY <1>1, ReadType
<1> QED
  BY <1>2

LEMMA HostGuest ==
    ASSUME BaseInv, NEW e \in Exts
    PROVE  /\ Guest(HOST, e) # 0 => Guest(HOST, e) \in DOMAIN guests
           /\ Guest(GLOBALS, e) # 0 => Guest(GLOBALS, e) \in DOMAIN guests
<1>1. HOST \in Conns \cup {None} /\ GLOBALS \in Conns \cup {None}
  BY DEF BaseInv, Types, HostTypes
<1> QED
  BY <1>1, GuestIs

LEMMA GroupIs ==
    ASSUME BaseInv, GroupInv, NEW d \in Conns, NEW s \in Slots
    PROVE  /\ grp[d][s] \in GroupT /\ grp[d][s].id \in Nat /\ grp[d][s].gen \in Nat
           /\ grp[d][s].gen <= Len(guests)
<1>1. grp[d][s] \in GroupT
  BY DEF BaseInv, Types, ConnTypes
<1>2. grp[d][s].gen <= Len(guests)
  BY DEF GroupInv, GroupIds
<1> QED
  BY <1>1, <1>2 DEF GroupT

LEMMA QuietGroupsKept ==
    ASSUME BaseInv, GroupInv, Types', NEW c \in Conns, QuietGroups(c)
    PROVE  GroupInv'
<1>0. /\ DOMAIN guests = 1..Len(guests) /\ Len(guests) \in Nat
      /\ grp \in [Conns -> [Slots -> GroupT]]
  BY DEF BaseInv, Types, ConnTypes
<1>a. Len(guests') \in Nat /\ Len(guests') >= Len(guests)
  BY Zenon DEF QuietGroups, Grown
<1>1. ASSUME NEW e \in Exts, Guest(HOST, e)' # 0 PROVE Kept(Guest(HOST, e), e)'
  <2>1. CASE Guest(HOST, e)' = Len(guests) + 1 /\ Len(guests') = Len(guests) + 1
    <3>1. Guest(HOST, e)' \in DOMAIN guests' \ DOMAIN guests
      BY <1>0, <2>1 DEF QuietGroups
    <3>2. guests'[Guest(HOST, e)'].acc = <<>>
      BY Zenon, <3>1 DEF QuietGroups
    <3> QED
      BY <3>2 DEF Kept
  <2>2. CASE Guest(HOST, e)' = Guest(HOST, e)
    <3>1. PICK g : g = Guest(HOST, e)
      OBVIOUS
    <3>2. g \in DOMAIN guests /\ Kept(g, e)
      BY <1>1, <2>2, <3>1, GuestIs DEF GroupInv, GuestRows, BaseInv, Types, HostTypes
    <3>3. guests'[g].acc = guests[g].acc
      BY Zenon, <3>2 DEF QuietGroups
    <3>4. ASSUME NEW id \in DOMAIN guests[g].acc
          PROVE  /\ id # 0
                 /\ \A i \in DOMAIN guests[g].acc[id] : KnownRow(e, id, guests[g].acc[id][i])'
      <4>1. id # 0 /\ \A i \in DOMAIN guests[g].acc[id] : KnownRow(e, id, guests[g].acc[id][i])
        BY <3>2 DEF Kept
      <4>2. ASSUME NEW i \in DOMAIN guests[g].acc[id]
            PROVE  KnownRow(e, id, guests[g].acc[id][i])'
        <5>1. guests[g].acc[id][i] \in Rows /\ id \in Nat
          BY <3>2, KeptRows
        <5>2. PICK r \in Rows : r = guests[g].acc[id][i]
          BY <5>1
        <5>3. KnownRow(e, id, r)'
          BY <4>1, <5>1, <5>2, QuietRow
        <5>4. r = guests'[g].acc[id][i]
          BY <3>3, <5>2
        <5> QED
          BY Zenon, <3>3, <5>3, <5>4 DEF KnownRow
      <4> QED
        BY <4>1, <4>2
    <3>5. Guest(HOST, e)' = g
      BY <2>2, <3>1
    <3> QED
      BY <3>3, <3>4, <3>5 DEF Kept
  <2> QED
    BY Zenon, <2>1, <2>2 DEF QuietGroups
<1>2. GroupsApart'
  <2> SUFFICES ASSUME NEW d \in Conns, seen'[d].kind = "group"
               PROVE  /\ ~seen'[d].hurt => seen'[d].got = seen'[d].sent
                      /\ \A i \in DOMAIN seen'[d].got, j \in DOMAIN seen'[d].sent :
                            seen'[d].got[i][1] = d =>
                               /\ seen'[d].got[i][2] = seen'[d].sent[j][2]
                               /\ seen'[d].got[i][3] = seen'[d].sent[j][3]
    BY DEF GroupsApart
  <2>1. seen'[d] = seen[d]
    BY Zenon DEF QuietGroups
  <2> QED
    BY <2>1 DEF GroupInv, GroupsApart
<1>3. ASSUME NEW d \in Conns, NEW s \in Slots, d = c PROVE grp'[d][s] = NoGroup
  BY Zenon, <1>3 DEF GroupInv, GroupIds, QuietGroups
<1>4. ASSUME NEW d \in Conns, d # c
      PROVE  /\ task'[d] = task[d] /\ db'[d] = db[d] /\ grp'[d] = grp[d]
             /\ Stmt(d)' = Stmt(d) /\ Others(d)' = Others(d)
             /\ \A s \in Slots : Tag(d, s)' = Tag(d, s)
             /\ \A r, s : IsOf(r, d, s)' = IsOf(r, d, s)
  <2>1. task'[d] = task[d] /\ db'[d] = db[d] /\ grp'[d] = grp[d]
    BY Zenon, <1>4 DEF QuietGroups
  <2>2. \A a \in Conns : db'[a].open = db[a].open
    BY Zenon DEF QuietGroups
  <2> QED
    BY <2>1, <2>2 DEF Stmt, Others, Tag, IsOf
<1>5. ASSUME NEW d \in Conns PROVE GroupIds(d)'
  <2>1. CASE d = c
    <3>1. \A s \in Slots : grp'[d][s] = NoGroup
      BY <1>3, <2>1
    <3>2. Len(guests') >= 0
      BY <1>a
    <3> QED
      BY <3>1, <3>2 DEF GroupIds, NoGroup
  <2>2. CASE d # c
    <3>1. ASSUME NEW s \in Slots
          PROVE  grp[d][s].gen <= Len(guests')
      <4>1. grp[d][s].gen \in Nat /\ grp[d][s].gen <= Len(guests)
        BY GroupIs
      <4> QED
        BY <1>0, <1>a, <4>1
    <3> QED
      BY <1>4, <2>2, <3>1 DEF GroupInv, GroupIds
  <2> QED
    BY <2>1, <2>2
<1>6. ASSUME NEW d \in Conns, NEW s \in Slots PROVE Match(d, s)'
  <2>1. CASE d = c
    BY Zenon, <2>1 DEF Match, QuietGroups
  <2>2. CASE d # c
    <3> SUFFICES ASSUME task[d].pc = "group", ~task[d].err, grp[d][s].id # 0, ~grp[d][s].hurt,
                        ~grp[d][s].done, grp[d][s].gen = Guest(HOST, Stmt(d).ext)'
                 PROVE  At(guests'[grp[d][s].gen].acc, grp[d][s].id, <<>>) = grp[d][s].rows
      BY <1>4, <2>2 DEF Match, Guest, Stmt
    <3>1. task[d].todo # <<>> /\ Stmt(d).op \in {"group", "window"} /\ db[d].agg[Stmt(d).ext] # NoAgg
      BY DEF BaseInv, Place
    <3>2. Stmt(d).ext \in Exts
      BY <3>1, StmtIs DEF BaseInv, Types, ConnTypes
    <3>3. PICK e \in Exts : e = Stmt(d).ext
      BY <3>2
    <3>4. Guest(HOST, e)' = grp[d][s].gen
      BY <1>4, <2>2, <3>3 DEF Guest
    <3>5. grp[d][s].gen \in Nat /\ grp[d][s].gen <= Len(guests)
      BY GroupIs
    <3>6. Guest(HOST, e) = grp[d][s].gen
      <4>1. Guest(HOST, e)' = Guest(HOST, e) \/ Guest(HOST, e)' = Len(guests) + 1
        BY Zenon DEF QuietGroups
      <4>2. grp[d][s].gen # Len(guests) + 1
        BY <1>0, <3>5
      <4> QED
        BY <3>4, <4>1, <4>2
    <3>7. Guest(HOST, e) # 0
      BY <3>1, <3>3 DEF BaseInv, Behind, Guest
    <3>8. grp[d][s].gen \in DOMAIN guests
      BY <3>6, <3>7, HostGuest
    <3>9. guests'[grp[d][s].gen].acc = guests[grp[d][s].gen].acc
      BY Zenon, <3>8 DEF QuietGroups
    <3> QED
      BY <3>3, <3>6, <3>9 DEF GroupInv, Match
  <2> QED
    BY <2>1, <2>2
<1>7. GuestRows'
  BY <1>1 DEF GuestRows
<1> QED
  BY <1>2, <1>5, <1>6, <1>7 DEF GroupInv

-----------------------------------------------------------------------------
(* Statements that attach, load and call functions.                         *)
LEMMA StillGoing ==
    ASSUME BaseInv, NEW c \in Conns, task[c].todo # <<>>,
           task'[c].todo = task[c].todo \/ task'[c].todo = Tail(task[c].todo)
    PROVE  /\ Len(task'[c].todo) <= Len(task[c].todo)
           /\ task'[c].todo # <<>> /\ Stmt(c).op # "attach" => Stmt(c)'.op # "attach"
<1>1. /\ Len(task[c].todo) \in Nat /\ Len(task[c].todo) >= 1
      /\ Tail(task[c].todo) \in Seq(Statements)
      /\ Len(Tail(task[c].todo)) = Len(task[c].todo) - 1
      /\ \A i \in 1..Len(task[c].todo) - 1 : Tail(task[c].todo)[i] = task[c].todo[i + 1]
      /\ DOMAIN task[c].todo = 1..Len(task[c].todo)
  BY StmtIs DEF BaseInv, Types, ConnTypes
<1>2. CASE task'[c].todo = task[c].todo
  BY <1>1, <1>2 DEF Stmt
<1>3. CASE task'[c].todo = Tail(task[c].todo)
  <2>1. Len(task'[c].todo) <= Len(task[c].todo)
    BY <1>1, <1>3
  <2>2. ASSUME task'[c].todo # <<>> PROVE Stmt(c)'.op # "attach"
    <3>1. Len(task'[c].todo) >= 1
      BY <1>1, <1>3, <2>2
    <3>2. Stmt(c)' = Tail(task[c].todo)[1]
      BY <1>1, <1>3, <2>2 DEF Stmt
    <3>3. Tail(task[c].todo)[1] = task[c].todo[2] /\ 2 \in DOMAIN task[c].todo
      BY <1>1, <1>3, <3>1
    <3> QED
      BY <3>2, <3>3 DEF BaseInv, AttachOnce
  <2> QED
    BY <2>1, <2>2
<1> QED
  BY <1>2, <1>3

Quiet(c) == QuietTables(c) /\ QuietGroups(c) /\ QuietScans(c)

LEMMA QuietCall ==
    ASSUME BaseInv, Types', NEW c \in Conns, task[c].todo # <<>>,
           task[c].pc \notin {"group", "scan"},
           task'[c].pc \notin {"group", "write", "commit"},
           \/ task'[c].todo = task[c].todo \/ task'[c].todo = Tail(task[c].todo)
           \/ Stmt(c).op = "attach",
           OthersKept(c), HOST' = HOST \/ HOST = None, HOST' \in Conns \cup {None},
           UNCHANGED <<GLOBALS, loaded, next, grp, cur>>, Unmoved,
           db'[c].agg = db[c].agg, db'[c].open = db[c].open, db'[c].vtab = db[c].vtab,
           \A d \in Conns : seen'[d].kind = "group" => seen'[d] = seen[d]
    PROVE  Quiet(c)
<1>1. /\ next.inst \in Nat /\ next.cur \in Nat /\ guests \in Seq(GuestT)
      /\ DOMAIN guests = 1..Len(guests) /\ Len(guests) \in Nat
  BY DEF BaseInv, Types, HostTypes
<1>2. /\ DOMAIN guests' = 1..Len(guests') /\ Grown /\ DOMAIN guests' = DOMAIN guests
      /\ \A i \in DOMAIN guests : /\ guests'[i].inst = guests[i].inst
                                  /\ guests'[i].acc = guests[i].acc
                                  /\ guests'[i].cur = guests[i].cur
  BY <1>1 DEF Unmoved, SameGuests, SameAcc, SameInst, SameCur, Grown
<1>3. \A f \in Exts : Guest(GLOBALS, f)' = Guest(GLOBALS, f) /\ Guest(HOST, f)' = Guest(HOST, f)
  <2>1. HOST = None => \A h \in Conns, e \in Exts : loaded[h][e] = 0
    BY ExtensionAssumption DEF BaseInv, LoadedIds
  <2> QED
    BY <2>1 DEF Guest
<1>4. QuietTables(c)
  <2>1. \A d \in Conns, f \in Exts : Table(d, f)' = Table(d, f)
    BY DEF OthersKept, Table
  <2> QED
    BY <1>1, <1>2, <1>3, <2>1 DEF QuietTables, OthersKept
<1>5. QuietScans(c)
  BY <1>1, <1>2 DEF QuietScans, OthersKept
<1>6. /\ Stmt(c).op = "attach" \/ Len(task'[c].todo) <= Len(task[c].todo)
      /\ task'[c].todo # <<>> /\ Stmt(c).op # "attach" => Stmt(c)'.op # "attach"
  BY StillGoing
<1>7. \A e \in Exts : db'[c].agg[e].next_id >= db[c].agg[e].next_id
  <2>1. \A e \in Exts : db[c].agg[e].next_id \in Nat
    BY DEF BaseInv, Types, ConnTypes, DbT, AggT
  <2> QED
    BY <2>1
<1>8. QuietGroups(c)
  BY Zenon, <1>2, <1>3, <1>6, <1>7 DEF QuietGroups, OthersKept
<1> QED
  BY <1>4, <1>5, <1>8 DEF Quiet

LEMMA EndTypes ==
    ASSUME BaseInv, NEW c \in Conns, task[c].todo # <<>>, End(c), SameGuests,
           faults' \in 0..MaxFaults, UNCHANGED <<HOST, GLOBALS, loaded, next, db, grp, cur>>
    PROVE  Types'
BY EndEffect DEF BaseInv, Types, HostTypes, ConnTypes, SameGuests

(* A statement that ends with nothing registered.                           *)
LEMMA EndsQuietly ==
    ASSUME BaseInv, NEW c \in Conns, task[c].todo # <<>>, Stmt(c).op # "attach", End(c),
           Unmoved, faults' \in 0..MaxFaults, task[c].pc \notin {"group", "scan"},
           UNCHANGED <<HOST, GLOBALS, loaded, next, db, grp, cur>>,
           \A d \in Conns : seen'[d].kind = "group" => seen'[d] = seen[d]
    PROVE  BaseInv' /\ Quiet(c)
<1>1. Types'
  BY EndTypes DEF Unmoved
<1>2. /\ task'[c].pc = "idle" /\ task'[c].todo = Tail(task[c].todo)
      /\ \A d \in Conns \ {c} : task'[d] = task[d]
  BY EndEffect DEF BaseInv, Types, ConnTypes
<1>3. Own(c)'
  BY EndOwn
<1>4. SameRegistered(c)
  BY DEF SameRegistered, BaseInv, Types, ConnTypes, DbT, AggT
<1>5. BaseInv'
  <2>1. \A e \in Exts : db'[c].vtab[e] # NoVtab => e \in db[c].module
    BY DEF BaseInv, Behind
  <2>2. Len(guests') = Len(guests)
    BY DEF Unmoved, SameGuests
  <2> QED
    BY <1>1, <1>2, <1>3, <1>4, <2>1, <2>2, QuietBase DEF OthersKept
<1>6. Quiet(c)
  BY Zenon, <1>1, <1>2, QuietCall DEF OthersKept, Types, HostTypes
<1> QED
  BY <1>5, <1>6

LEMMA NoSuchNameStep ==
    ASSUME BaseInv, NEW c \in Conns, NoSuchName(c)
    PROVE  BaseInv' /\ Quiet(c) /\ seen' = seen
<1>1. /\ task[c].todo # <<>> /\ task[c].pc = "idle" /\ ~Registered(c) /\ End(c)
      /\ UNCHANGED <<HOST, GLOBALS, loaded, guests, next, db, grp, cur, faults, seen>>
  BY DEF NoSuchName
<1>2. Stmt(c).op # "attach"
  BY <1>1 DEF Registered
<1>3. Unmoved /\ faults' \in 0..MaxFaults
  BY <1>1, UnchangedGuests DEF BaseInv, Types, HostTypes
<1> QED
  BY <1>1, <1>2, <1>3, EndsQuietly

(* The history of the last answered calls.                                  *)
SeenInv == DOMAIN seen = Conns /\ CellsSurvive
LEMMA CellBack ==
    ASSUME NEW e \in Exts, NEW x \in Cells, NEW y \in Carried(e, "echo", x)
    PROVE  y = IF x = "badtext" THEN "lossy" ELSE x
<1>1. x \in {"null", "int", "real", "text", "badtext", "empty", "blob", "frame"}
  BY DEF Cells
<1> DEFINE v == read_value_lifted(x)
<1>2. v = IF x = "badtext" THEN "lossy" ELSE x
  BY DEF read_value_lifted, read_value, typed_values
<1>3. v \notin {"wit", "nan"}
  BY <1>1, <1>2
<1> HIDE DEF v
<1>4. Returns("echo", v) = v /\ write_result(v) = v
  BY <1>3 DEF Returns, write_result
<1>5. CASE e \in Bridged
  <2>1. y = v
    BY <1>4, <1>5 DEF Carried, v
  <2> QED
    BY <1>2, <2>1
<1>6. CASE e \notin Bridged
  <2>1. PICK z \in Encoded(v) :
           y = IF cbor_to_sqlval(z) = "error" THEN "error" ELSE write_result(cbor_to_sqlval(z))
    BY <1>4, <1>6 DEF Carried, v, sqlval_to_cbor
  <2>2. z.val = v /\ z.tag # "wit"
    BY <1>3 DEF Encoded, sqlval_to_cbor
  <2>3. cbor_to_sqlval(z) = v
    BY <2>2 DEF cbor_to_sqlval
  <2>4. v # "error"
    BY <1>1, <1>2
  <2> QED
    BY <1>2, <1>4, <2>1, <2>3, <2>4
<1> QED
  BY <1>5, <1>6

LEMMA ScalarStep ==
    ASSUME BaseInv, SeenInv, NEW c \in Conns, scalar_xfunc(c)
    PROVE  BaseInv' /\ Quiet(c) /\ SeenInv'
<1> DEFINE st == Stmt(c)
           g == Guest(db[c].scalar[st.ext], st.ext)
<1>1. /\ task[c].todo # <<>> /\ task[c].pc = "idle" /\ st.op = "scalar" /\ End(c)
      /\ UNCHANGED <<HOST, GLOBALS, loaded, next, db, grp, cur>>
  BY DEF scalar_xfunc, Busy
<1>2. \/ /\ Answers(g) /\ UNCHANGED guests
         /\ \E x \in Carried(st.ext, st.fn, st.cell) :
               seen' = [seen EXCEPT ![c] =
                           [kind |-> st.fn, sent |-> <<st.cell>>, got |-> <<x>>, hurt |-> FALSE]]
      \/ /\ Refuses(g)
         /\ seen' = [seen EXCEPT ![c] =
                        [kind |-> st.fn, sent |-> <<st.cell>>, got |-> <<"error">>, hurt |-> TRUE]]
  BY DEF scalar_xfunc
<1>3. st \in Statements /\ st.ext \in Exts
  BY <1>1, StmtIs DEF BaseInv, Types, ConnTypes
<1>4. st.fn \in {"echo", "make", "nan"} /\ st.cell \in Cells
  BY <1>1, <1>3 DEF Statements
<1>5. g \in 0..Len(guests)
  <2>1. db[c].scalar[st.ext] \in Conns \cup {None}
    BY <1>3 DEF BaseInv, Types, ConnTypes, DbT
  <2> QED
    BY <1>3, <2>1, GuestIs
<1>6. Unmoved /\ faults' \in 0..MaxFaults
  <2>1. Types /\ guests \in Seq(GuestT) /\ faults \in 0..MaxFaults
    BY DEF BaseInv, Types, HostTypes
  <2>2. CASE Answers(g) /\ UNCHANGED guests
    BY <2>1, <2>2, UnchangedGuests, FaultCounted DEF Answers
  <2>3. CASE Refuses(g)
    BY <1>5, <2>1, <2>3, Refusal
  <2> QED
    BY <1>2, <2>2, <2>3
<1>a. PICK x : \E h \in BOOLEAN :
         /\ seen' = [seen EXCEPT ![c] =
                        [kind |-> st.fn, sent |-> <<st.cell>>, got |-> <<x>>, hurt |-> h]]
         /\ ~h => x \in Carried(st.ext, st.fn, st.cell)
  BY Zenon, <1>2
<1>7. PICK h \in BOOLEAN :
         /\ seen' = [seen EXCEPT ![c] =
                        [kind |-> st.fn, sent |-> <<st.cell>>, got |-> <<x>>, hurt |-> h]]
         /\ ~h => x \in Carried(st.ext, st.fn, st.cell)
  BY Zenon, <1>a
<1> HIDE DEF st, g
<1>8. /\ DOMAIN seen' = Conns /\ \A d \in Conns \ {c} : seen'[d] = seen[d]
      /\ seen'[c].kind = st.fn /\ seen'[c].sent = <<st.cell>> /\ seen'[c].got = <<x>>
      /\ seen'[c].hurt = h
  BY <1>7 DEF SeenInv
<1>9. CellsSurvive'
  <2> SUFFICES ASSUME NEW d \in Conns, seen'[d].kind = "echo", ~seen'[d].hurt
               PROVE  seen'[d].got[1] = IF seen'[d].sent[1] = "badtext" THEN "lossy"
                                        ELSE seen'[d].sent[1]
    BY DEF CellsSurvive
  <2>1. CASE d # c
    BY <1>8, <2>1 DEF SeenInv, CellsSurvive
  <2>2. CASE d = c
    <3>1. x = IF st.cell = "badtext" THEN "lossy" ELSE st.cell
      BY <1>3, <1>4, <1>7, <1>8, <2>2, CellBack
    <3> QED
      BY <1>8, <2>2, <3>1
  <2> QED
    BY <2>1, <2>2
<1>10. BaseInv' /\ Quiet(c)
  <2>1. \A d \in Conns : seen'[d].kind = "group" => seen'[d] = seen[d]
    BY <1>4, <1>8
  <2> QED
    BY <1>1, <1>6, <2>1, EndsQuietly DEF st
<1> QED
  BY <1>8, <1>9, <1>10 DEF SeenInv

(* Attaching.                                                               *)
LEMMA ConnSteps ==
    ASSUME BaseInv, NEW c \in Conns, Types', OthersKept(c), Own(c)',
           HOST' = HOST \/ HOST = None, GLOBALS' = GLOBALS, loaded' = loaded, guests' = guests,
           db'[c].scalar = db[c].scalar, db'[c].agg = db[c].agg,
           db'[c].module = db[c].module, db'[c].vtab = db[c].vtab
    PROVE  BaseInv'
<1>1. LoadedIds'
  <2>1. HOST = None => \A h \in Conns, e \in Exts : loaded[h][e] = 0
    BY ExtensionAssumption DEF BaseInv, LoadedIds
  <2> QED
    BY <2>1 DEF BaseInv, LoadedIds
<1>2. ASSUME NEW d \in Conns PROVE Own(d)'
  <2>1. CASE d = c
    BY <2>1
  <2>2. CASE d # c
    BY <2>2, OthersOwn
  <2> QED
    BY <2>1, <2>2
<1>3. ASSUME NEW d \in Conns, NEW e \in Exts PROVE Behind(d, e)'
  <2>1. Behind(d, e)
    BY DEF BaseInv
  <2>2. /\ db'[d].scalar = db[d].scalar /\ db'[d].agg = db[d].agg
        /\ db'[d].module = db[d].module /\ db'[d].vtab = db[d].vtab
    BY DEF OthersKept
  <2>3. GLOBALS # None => HOST' = HOST
    BY DEF BaseInv, Types, HostTypes
  <2> QED
    BY <2>1, <2>2, <2>3 DEF Behind
<1> QED
  BY <1>1, <1>2, <1>3 DEF BaseInv, Own

LEMMA AttachSteps ==
    ASSUME BaseInv, NEW c \in Conns, Attach(c) \/ HostNew(c) \/ HostSet(c)
    PROVE  BaseInv' /\ Quiet(c) /\ seen' = seen
<1> USE DEF BaseInv
<1>1. /\ task[c].todo # <<>> /\ Stmt(c).op = "attach" /\ task[c].pc \in {"idle", "new", "set"}
      /\ UNCHANGED <<GLOBALS, loaded, guests, next, grp, cur, seen>>
  BY DEF Attach, HostNew, HostSet, Busy
<1>2. /\ Types /\ db \in [Conns -> DbT] /\ task \in [Conns -> TaskT] /\ HOST \in Conns \cup {None}
      /\ guests \in Seq(GuestT) /\ faults \in 0..MaxFaults /\ None \notin Conns
      /\ {"new", "set", "register"} \subseteq TaskPcs
  BY ExtensionAssumption DEF Types, HostTypes, ConnTypes, TaskPcs
<1>3. Unmoved
  BY <1>1, <1>2, UnchangedGuests
<1>4. ASSUME NEW h \in Conns, db' = [db EXCEPT ![c].host = h]
      PROVE  /\ db' \in [Conns -> DbT] /\ \A d \in Conns \ {c} : db'[d] = db[d]
             /\ db'[c].scalar = db[c].scalar /\ db'[c].agg = db[c].agg
             /\ db'[c].module = db[c].module /\ db'[c].vtab = db[c].vtab
             /\ db'[c].open = db[c].open /\ db'[c].host = h
  BY Zenon, <1>2, <1>4 DEF DbT
<1> DEFINE Moved(pc) ==
             /\ task' \in [Conns -> TaskT] /\ \A d \in Conns \ {c} : task'[d] = task[d]
             /\ task'[c].pc = pc
             /\ task'[c].todo = task[c].todo \/ task'[c].todo = <<>>
             /\ task'[c].todo = <<>> => pc = "idle"
             /\ db' \in [Conns -> DbT] /\ \A d \in Conns \ {c} : db'[d] = db[d]
             /\ db'[c].scalar = db[c].scalar /\ db'[c].agg = db[c].agg
             /\ db'[c].module = db[c].module /\ db'[c].vtab = db[c].vtab
             /\ db'[c].open = db[c].open
             /\ HOST' = HOST \/ HOST = None
             /\ HOST' \in Conns \cup {None} /\ faults' \in 0..MaxFaults
             /\ db'[c].host = None \/ db'[c].host = HOST'
             /\ pc = "register" => db'[c].host # None
             /\ pc \in {"idle", "new", "set", "register"}
             /\ pc = "idle" => task'[c].todo = <<>>
<1>5. ASSUME NEW pc, Moved(pc) PROVE BaseInv' /\ Quiet(c)
  <2>1. Types'
    BY <1>1, <1>2, <1>5 DEF Types, HostTypes, ConnTypes
  <2>2. OthersKept(c)
    BY <1>5 DEF OthersKept
  <2>3. Own(c)'
    <3>1. AttachOnce(c)'
      BY <1>5 DEF AttachOnce
    <3>2. task'[c].todo # <<>> => Stmt(c)' = Stmt(c)
      BY <1>5 DEF Stmt
    <3>3. Place(c)' /\ Hosted(c)' /\ Installing(c)'
      BY <1>1, <1>5, <3>2 DEF Place, Hosted, Installing
    <3> QED
      BY <3>1, <3>3 DEF Own
  <2>4. BaseInv'
    BY <1>1, <1>5, <2>1, <2>2, <2>3, ConnSteps
  <2>5. Quiet(c)
    BY <1>1, <1>3, <1>5, <2>1, <2>2, QuietCall
  <2> QED
    BY <2>4, <2>5
<1>6. db[c].host = None \/ db[c].host = HOST
  BY DEF Hosted
<1>7. CASE Attach(c)
  <2>1. HOST' = HOST /\ faults' = faults
    BY <1>7 DEF Attach
  <2>2. CASE HOST # None
    <3>1. db' = [db EXCEPT ![c].host = HOST] /\ Goto(c, "register") /\ HOST \in Conns
      BY <1>2, <1>7, <2>2 DEF Attach
    <3>2. /\ db' \in [Conns -> DbT] /\ \A d \in Conns \ {c} : db'[d] = db[d]
          /\ db'[c].scalar = db[c].scalar /\ db'[c].agg = db[c].agg
          /\ db'[c].module = db[c].module /\ db'[c].vtab = db[c].vtab
          /\ db'[c].open = db[c].open /\ db'[c].host = HOST
      BY Zenon, <1>4, <3>1
    <3>3. /\ task' \in [Conns -> TaskT] /\ \A d \in Conns \ {c} : task'[d] = task[d]
          /\ task'[c].todo = task[c].todo /\ task'[c].pc = "register"
      BY <1>2, <3>1, GotoEffect
    <3>4. Moved("register")
      BY <1>1, <1>2, <2>1, <2>2, <3>2, <3>3
    <3> QED
      BY <1>1, <1>5, <3>4
  <2>3. CASE HOST = None
    <3>1. Goto(c, "new") /\ db' = db
      BY <1>7, <2>3 DEF Attach
    <3>2. Moved("new")
      BY <1>1, <1>2, <1>6, <2>1, <3>1, GotoEffect
    <3> QED
      BY <1>1, <1>5, <3>2
  <2> QED
    BY <2>2, <2>3
<1>8. CASE HostNew(c)
  <2>1. HOST' = HOST /\ db' = db /\ faults' \in 0..MaxFaults
    BY <1>2, <1>8, FaultCounted DEF HostNew
  <2>2. CASE Goto(c, "set")
    <3>1. Moved("set")
      BY <1>1, <1>2, <1>6, <2>1, <2>2, GotoEffect
    <3> QED
      BY <1>1, <1>5, <3>1
  <2>3. CASE EndWith(c, <<>>)
    <3>1. <<>> \in Seq(Statements)
      OBVIOUS
    <3>2. Moved("idle")
      BY Zenon, <1>1, <1>2, <1>6, <2>1, <2>3, <3>1, EndWithEffect
    <3> QED
      BY <1>1, <1>5, <3>2
  <2> QED
    BY <1>8, <2>2, <2>3 DEF HostNew
<1>9. CASE HostSet(c)
  <2>1. /\ HOST' = IF HOST = None THEN c ELSE HOST
        /\ db' = [db EXCEPT ![c].host = HOST'] /\ Goto(c, "register") /\ faults' = faults
    BY <1>9 DEF HostSet, host
  <2>2. HOST' \in Conns /\ (HOST' = HOST \/ HOST = None)
    BY <1>2, <2>1
  <2>3. PICK h \in Conns : h = HOST'
    BY <2>2
  <2>4. db' = [db EXCEPT ![c].host = h]
    BY <2>1, <2>3
  <2>5. /\ db' \in [Conns -> DbT] /\ \A d \in Conns \ {c} : db'[d] = db[d]
        /\ db'[c].scalar = db[c].scalar /\ db'[c].agg = db[c].agg
        /\ db'[c].module = db[c].module /\ db'[c].vtab = db[c].vtab
        /\ db'[c].open = db[c].open /\ db'[c].host = h
    BY Zenon, <1>4, <2>4
  <2>6. /\ task' \in [Conns -> TaskT] /\ \A d \in Conns \ {c} : task'[d] = task[d]
        /\ task'[c].todo = task[c].todo /\ task'[c].pc = "register"
    BY <1>2, <2>1, GotoEffect
  <2>7. Moved("register")
    BY <1>1, <1>2, <2>1, <2>2, <2>3, <2>5, <2>6
  <2> QED
    BY <1>1, <1>5, <2>7
<1> QED
  BY <1>1, <1>7, <1>8, <1>9

LEMMA EagerLoads ==
    ASSUME NEW t \in Seq(Statements)
    PROVE  LET q == [i \in DOMAIN Eager |-> [op |-> "load", ext |-> Eager[i], arg |-> "none"]] \o t IN
           /\ q \in Seq(Statements)
           /\ \A i \in DOMAIN q : q[i].op = "load" \/ (\E j \in DOMAIN t : q[i] = t[j])
<1> DEFINE l == [i \in DOMAIN Eager |-> [op |-> "load", ext |-> Eager[i], arg |-> "none"]]
<1>1. Eager \in Seq(Exts) /\ DOMAIN Eager = 1..Len(Eager) /\ Len(Eager) \in Nat
  BY ExtensionAssumption
<1>2. \A i \in 1..Len(Eager) : l[i] \in Statements /\ l[i].op = "load"
  BY <1>1 DEF Statements
<1>3. l \in Seq(Statements) /\ Len(l) = Len(Eager)
  <2>1. l \in [1..Len(Eager) -> Statements]
    BY <1>1, <1>2
  <2> HIDE DEF l
  <2> QED
    BY <1>1, <2>1
<1> HIDE DEF l
<1>4. /\ l \o t \in Seq(Statements) /\ Len(l \o t) = Len(l) + Len(t)
      /\ \A i \in 1..Len(l) + Len(t) :
            (l \o t)[i] = IF i <= Len(l) THEN l[i] ELSE t[i - Len(l)]
  BY Zenon, <1>3, ConcatProperties
<1>5. ASSUME NEW i \in DOMAIN (l \o t)
      PROVE  (l \o t)[i].op = "load" \/ (\E j \in DOMAIN t : (l \o t)[i] = t[j])
  <2>0. Len(t) \in Nat /\ Len(l) \in Nat /\ DOMAIN t = 1..Len(t) /\ i \in 1..Len(l) + Len(t)
    BY <1>3, <1>4
  <2>1. CASE i <= Len(l)
    BY <1>2, <1>3, <1>4, <2>0, <2>1
  <2>2. CASE ~(i <= Len(l))
    <3>1. i - Len(l) \in DOMAIN t
      BY <2>0, <2>2
    <3> QED
      BY <1>4, <2>0, <2>2, <3>1
  <2> QED
    BY <2>1, <2>2
<1> QED
  BY Zenon, <1>4, <1>5 DEF l

LEMMA RegisterStep ==
    ASSUME BaseInv, NEW c \in Conns, register_sqlink_load_ext(c)
    PROVE  BaseInv' /\ Quiet(c) /\ seen' = seen
<1> USE DEF BaseInv
<1>1. /\ task[c].todo # <<>> /\ Stmt(c).op = "attach" /\ task[c].pc = "register"
      /\ UNCHANGED <<HOST, GLOBALS, loaded, guests, next, db, grp, cur, seen>>
  BY DEF register_sqlink_load_ext, Busy
<1>2. /\ Types /\ db \in [Conns -> DbT] /\ task \in [Conns -> TaskT] /\ HOST \in Conns \cup {None}
      /\ guests \in Seq(GuestT) /\ faults \in 0..MaxFaults
  BY DEF Types, HostTypes, ConnTypes
<1>3. Unmoved /\ faults' \in 0..MaxFaults
  BY <1>1, <1>2, UnchangedGuests, FaultCounted DEF register_sqlink_load_ext
<1>4. PICK rest \in Seq(Statements) :
         EndWith(c, rest) /\ \A i \in DOMAIN rest : rest[i].op # "attach"
  <2> DEFINE t == Tail(task[c].todo)
             q == [i \in DOMAIN Eager |-> [op |-> "load", ext |-> Eager[i], arg |-> "none"]] \o t
  <2>1. /\ t \in Seq(Statements) /\ Len(t) = Len(task[c].todo) - 1
        /\ \A i \in 1..Len(task[c].todo) - 1 : t[i] = task[c].todo[i + 1]
        /\ task[c].todo \in Seq(Statements) /\ Len(task[c].todo) >= 1
    BY <1>1, <1>2, StmtIs
  <2>2. ASSUME NEW i \in DOMAIN t PROVE t[i].op # "attach"
    <3>1. i \in 1..Len(task[c].todo) - 1
      BY <2>1
    <3>2. i + 1 \in DOMAIN task[c].todo /\ i + 1 # 1 /\ t[i] = task[c].todo[i + 1]
      BY <2>1, <3>1
    <3> QED
      BY <3>2 DEF AttachOnce
  <2> HIDE DEF t
  <2>3. /\ q \in Seq(Statements)
        /\ \A i \in DOMAIN q : q[i].op = "load" \/ (\E j \in DOMAIN t : q[i] = t[j])
    BY <2>1, EagerLoads
  <2>4. EndWith(c, q) \/ EndWith(c, <<>>)
    BY DEF register_sqlink_load_ext, t
  <2> HIDE DEF q
  <2>5. \A i \in DOMAIN q : q[i].op # "attach"
    BY <2>2, <2>3
  <2>6. <<>> \in Seq(Statements) /\ DOMAIN <<>> = {}
    OBVIOUS
  <2> QED
    BY Zenon, <2>3, <2>4, <2>5, <2>6
<1>5. /\ task' \in [Conns -> TaskT] /\ \A d \in Conns \ {c} : task'[d] = task[d]
      /\ task'[c].todo = rest /\ task'[c].pc = "idle"
  BY <1>2, <1>4, EndWithEffect
<1>6. Types' /\ OthersKept(c)
  BY <1>1, <1>2, <1>3, <1>5 DEF Types, HostTypes, ConnTypes, OthersKept
<1>7. db[c].host # None
  BY <1>1 DEF Place
<1>8. Own(c)'
  <2>1. AttachOnce(c)'
    BY <1>4, <1>5 DEF AttachOnce
  <2>2. Place(c)' /\ Installing(c)'
    BY <1>5 DEF Place, Installing
  <2>3. Hosted(c)'
    BY <1>1, <1>7 DEF Hosted
  <2> QED
    BY <2>1, <2>2, <2>3 DEF Own
<1>9. BaseInv'
  BY <1>1, <1>6, <1>8, ConnSteps
<1>10. Quiet(c)
  BY <1>1, <1>2, <1>3, <1>5, <1>6, QuietCall
<1> QED
  BY <1>1, <1>9, <1>10

LEMMA NewGuest == NoGuest \in GuestT
<1>1. ASSUME NEW T PROVE <<>> \in Partial(T)
  <2>1. <<>> \in [{} -> T]
    OBVIOUS
  <2> QED
    BY Zenon, <2>1 DEF Partial
<1> QED
  BY <1>1 DEF NoGuest, GuestT

LEMMA LoadedOnce ==
    ASSUME BaseInv, NEW h \in Conns, NEW k \in Conns, NEW f \in Exts, NEW g \in Exts,
           loaded[h][f] = loaded[k][g], loaded[h][f] # 0
    PROVE  h = k /\ f = g
<1>1. \A a, b \in Conns, x, y \in Exts :
         loaded[a][x] = loaded[b][y] /\ loaded[a][x] # 0 => a = b /\ x = y
  BY Zenon DEF BaseInv, LoadedIds
<1> QED
  BY <1>1

(* A load puts a new guest behind its extension.                            *)
LEMMA Loading ==
    ASSUME BaseInv, NEW c \in Conns, task[c].todo # <<>>, Stmt(c).op = "load",
           task[c].pc = "idle", NEW e \in Exts, e = Stmt(c).ext,
           UNCHANGED <<HOST, GLOBALS, next, db, grp, cur, faults, seen>>,
           guests' = Append(guests, NoGuest), loaded' = load_extension(db[c].host, e),
           Goto(c, "install")
    PROVE  BaseInv' /\ Quiet(c)
<1>1. /\ Types /\ db \in [Conns -> DbT] /\ task \in [Conns -> TaskT] /\ HOST \in Conns \cup {None}
      /\ guests \in Seq(GuestT) /\ loaded \in [Conns -> [Exts -> Nat]] /\ "install" \in TaskPcs
      /\ Len(guests) \in Nat /\ DOMAIN guests = 1..Len(guests) /\ GLOBALS \in {None, HOST}
      /\ next.inst \in Nat /\ next.cur \in Nat
  BY DEF BaseInv, Types, HostTypes, ConnTypes, TaskPcs
<1>2. db[c].host = HOST /\ HOST \in Conns /\ HOST # None
  BY Zenon, <1>1, ExtensionAssumption DEF BaseInv, Hosted
<1>3. /\ guests' \in Seq(GuestT) /\ Len(guests') = Len(guests) + 1
      /\ \A i \in DOMAIN guests : guests'[i] = guests[i]
      /\ guests'[Len(guests) + 1] = NoGuest
      /\ DOMAIN guests' = 1..(Len(guests) + 1)
  BY <1>1, NewGuest, AppendProperties
<1>4. PICK n \in Nat : n = Len(guests) + 1
  BY <1>1
<1>5. /\ loaded' \in [Conns -> [Exts -> Nat]] /\ loaded'[HOST][e] = n
      /\ \A h \in Conns, f \in Exts : h # HOST \/ f # e => loaded'[h][f] = loaded[h][f]
  BY <1>1, <1>2, <1>4 DEF load_extension
<1>6. /\ task' \in [Conns -> TaskT] /\ \A d \in Conns \ {c} : task'[d] = task[d]
      /\ task'[c].todo = task[c].todo /\ task'[c].pc = "install"
  BY <1>1, GotoEffect
<1>7. Types' /\ OthersKept(c)
  BY Zenon, <1>3, <1>5, <1>6 DEF BaseInv, Types, HostTypes, ConnTypes, OthersKept
<1>8. ASSUME NEW h \in Conns, NEW f \in Exts
      PROVE  /\ loaded[h][f] \in Nat /\ loaded[h][f] <= Len(guests) /\ loaded[h][f] # n
             /\ loaded[h][f] # 0 => loaded'[h][f] # 0
             /\ loaded'[h][f] <= Len(guests')
             /\ loaded'[h][f] # 0 => h = HOST
  <2>1. loaded[h][f] \in Nat
    BY <1>1
  <2>2. loaded[h][f] <= Len(guests) /\ (loaded[h][f] # 0 => h = HOST)
    BY DEF BaseInv, LoadedIds
  <2>3. loaded[h][f] # n /\ n # 0 /\ n <= Len(guests') /\ loaded[h][f] <= Len(guests')
    BY <1>1, <1>3, <1>4, <2>1, <2>2
  <2> QED
    BY <1>5, <2>1, <2>2, <2>3
<1>9. LoadedIds'
  <2>1. ASSUME NEW h \in Conns, NEW k \in Conns, NEW f \in Exts, NEW g \in Exts,
               loaded'[h][f] = loaded'[k][g], loaded'[h][f] # 0
        PROVE  h = k /\ f = g
    <3>1. CASE loaded'[h][f] = n
      <4>1. h = HOST /\ f = e
        <5>1. loaded[h][f] # n
          BY <1>8
        <5> QED
          BY Zenon, <1>5, <3>1, <5>1
      <4>2. k = HOST /\ g = e
        <5>1. loaded[k][g] # n
          BY <1>8
        <5> QED
          BY Zenon, <1>5, <2>1, <3>1, <5>1
      <4> QED
        BY <4>1, <4>2
    <3>2. CASE loaded'[h][f] # n
      <4>1. loaded'[h][f] = loaded[h][f] /\ loaded'[k][g] = loaded[k][g]
        BY Zenon, <1>5, <2>1, <3>2
      <4>2. loaded[h][f] = loaded[k][g] /\ loaded[h][f] # 0
        BY Zenon, <2>1, <4>1
      <4> QED
        BY <4>2, LoadedOnce
    <3> QED
      BY <3>1, <3>2
  <2> QED
    BY <1>8, <2>1 DEF LoadedIds
<1>10. ASSUME NEW d \in Conns PROVE Own(d)'
  <2>1. CASE d # c
    BY <1>7, <1>8, <2>1, OthersOwn
  <2>2. CASE d = c
    <3>1. Stmt(c)' = Stmt(c)
      BY <1>6 DEF Stmt
    <3>2. AttachOnce(c)' /\ Place(c)' /\ Hosted(c)'
      BY <1>2, <1>6, <3>1, ExtensionAssumption DEF AttachOnce, Place, Hosted, BaseInv
    <3>3. Installing(c)'
      BY <1>2, <1>4, <1>5, <3>1, <1>1 DEF Installing
    <3> QED
      BY <2>2, <3>2, <3>3 DEF Own
  <2> QED
    BY <2>1, <2>2
<1>11. ASSUME NEW d \in Conns, NEW f \in Exts PROVE Behind(d, f)'
  <2>1. Behind(d, f)
    BY DEF BaseInv
  <2>2. loaded[HOST][f] # 0 => loaded'[HOST][f] # 0
    BY <1>2, <1>8
  <2> QED
    BY <2>1, <2>2 DEF Behind
<1>12. BaseInv'
  BY <1>7, <1>9, <1>10, <1>11 DEF BaseInv, Own
<1>13. /\ DOMAIN guests' = 1..Len(guests') /\ Grown
       /\ \A i \in DOMAIN guests' \ DOMAIN guests : guests'[i] = NoGuest
  <2>1. \A i \in DOMAIN guests' \ DOMAIN guests : i = Len(guests) + 1
    BY <1>1, <1>3
  <2> QED
    BY <1>1, <1>3, <2>1 DEF Grown
<1>14. /\ NoGuest.inst = <<>> /\ NoGuest.acc = <<>> /\ NoGuest.cur = <<>>
  BY DEF NoGuest
<1>15. \A f \in Exts : Guest(HOST, f)' = Guest(HOST, f) \/ Guest(HOST, f)' = Len(guests) + 1
  BY Zenon, <1>2, <1>4, <1>5 DEF Guest
<1>16. \A f \in Exts : \/ Guest(GLOBALS, f)' = Guest(GLOBALS, f) \/ GLOBALS = None
                       \/ Guest(GLOBALS, f)' = Len(guests) + 1
  BY <1>1, <1>2, <1>4, <1>5 DEF Guest
<1>17. QuietTables(c)
  BY <1>1, <1>3, <1>6, <1>13, <1>14, <1>16 DEF QuietTables, Table
<1>18. QuietScans(c)
  BY <1>1, <1>3, <1>6, <1>13, <1>14 DEF QuietScans
<1>19. QuietGroups(c)
  <2>1. /\ Len(task'[c].todo) <= Len(task[c].todo)
        /\ task'[c].todo # <<>> /\ Stmt(c).op # "attach" => Stmt(c)'.op # "attach"
    BY <1>6, StillGoing
  <2>2. \A f \in Exts : db'[c].agg[f].next_id >= db[c].agg[f].next_id
    <3>1. \A f \in Exts : db[c].agg[f].next_id \in Nat
      BY DEF BaseInv, Types, ConnTypes, DbT, AggT
    <3> QED
      BY <3>1
  <2> QED
    BY <1>3, <1>6, <1>13, <1>14, <1>15, <2>1, <2>2 DEF QuietGroups
<1> QED
  BY <1>12, <1>17, <1>18, <1>19 DEF Quiet

LEMMA LoadStep ==
    ASSUME BaseInv, NEW c \in Conns, sqlink_load_ext_xfunc(c)
    PROVE  BaseInv' /\ Quiet(c) /\ seen' = seen
<1>1. /\ task[c].todo # <<>> /\ Stmt(c).op = "load" /\ task[c].pc = "idle"
      /\ UNCHANGED <<HOST, GLOBALS, next, db, grp, cur, seen>>
  BY DEF sqlink_load_ext_xfunc, Busy
<1>2. \/ End(c) /\ (Fine \/ MayFail) /\ UNCHANGED <<guests, loaded>>
      \/ /\ guests' = Append(guests, NoGuest) /\ loaded' = load_extension(db[c].host, Stmt(c).ext)
         /\ Goto(c, "install") /\ Fine
  BY DEF sqlink_load_ext_xfunc
<1>3. Stmt(c).ext \in Exts
  BY <1>1, StmtIs DEF BaseInv, Types, ConnTypes
<1>4. CASE End(c) /\ (Fine \/ MayFail) /\ UNCHANGED <<guests, loaded>>
  <2>1. Unmoved /\ faults' \in 0..MaxFaults
    BY <1>4, UnchangedGuests, FaultCounted DEF BaseInv, Types, HostTypes
  <2> QED
    BY <1>1, <1>4, <2>1, EndsQuietly
<1>5. CASE /\ guests' = Append(guests, NoGuest)
           /\ loaded' = load_extension(db[c].host, Stmt(c).ext)
           /\ Goto(c, "install") /\ Fine
  <2>1. PICK e \in Exts : e = Stmt(c).ext
    BY <1>3
  <2>2. faults' = faults
    BY <1>5 DEF Fine
  <2> QED
    BY <1>1, <1>5, <2>1, <2>2, Loading
<1> QED
  BY <1>2, <1>4, <1>5

(* What there is when the installer is done: the old, or this Host's.       *)
Installed(c, e, h) ==
    /\ db' \in [Conns -> DbT] /\ \A d \in Conns \ {c} : db'[d] = db[d]
    /\ db'[c].host = db[c].host /\ db'[c].vtab = db[c].vtab /\ db'[c].open = db[c].open
    /\ db'[c].scalar[e] \in {db[c].scalar[e], h}
    /\ db'[c].agg[e] = db[c].agg[e]
       \/ (db[c].agg[e] = NoAgg /\ db'[c].agg[e] = register_aggregate(h))
    /\ \A f \in Exts : f # e =>
          db'[c].scalar[f] = db[c].scalar[f] /\ db'[c].agg[f] = db[c].agg[f]
    /\ db'[c].module \in {db[c].module, db[c].module \cup {e}}
Entry(x, e, a, b, m) == [x EXCEPT !.scalar = [@ EXCEPT ![e] = a],
                                  !.agg = [@ EXCEPT ![e] = b], !.module = m]
EntryOf(z, x, e, a, b, m) ==
    /\ z \in DbT /\ z.host = x.host /\ z.vtab = x.vtab /\ z.open = x.open
    /\ z.scalar[e] = a /\ z.agg[e] = b /\ z.module = m
    /\ \A f \in Exts : f # e => z.scalar[f] = x.scalar[f] /\ z.agg[f] = x.agg[f]
LEMMA EntryIs ==
    ASSUME NEW x \in DbT, NEW e \in Exts, NEW a \in Conns \cup {None}, NEW b \in AggT,
           NEW m \in SUBSET Exts
    PROVE  EntryOf(Entry(x, e, a, b, m), x, e, a, b, m)
<1>1. x.scalar \in [Exts -> Conns \cup {None}] /\ x.agg \in [Exts -> AggT]
  BY DEF DbT
<1> DEFINE q == [x.scalar EXCEPT ![e] = a]
           r == [x.agg EXCEPT ![e] = b]
<1>2. /\ q \in [Exts -> Conns \cup {None}] /\ q[e] = a
      /\ \A f \in Exts : f # e => q[f] = x.scalar[f]
  BY <1>1
<1>3. r \in [Exts -> AggT] /\ r[e] = b /\ \A f \in Exts : f # e => r[f] = x.agg[f]
  BY <1>1
<1> DEFINE z == [x EXCEPT !.scalar = q, !.agg = r, !.module = m]
<1>4. z = Entry(x, e, a, b, m)
  BY DEF Entry
<1> HIDE DEF q, r
<1>5. /\ z \in DbT /\ z.host = x.host /\ z.vtab = x.vtab /\ z.open = x.open
      /\ z.scalar = q /\ z.agg = r /\ z.module = m
  BY Zenon, <1>2, <1>3 DEF DbT
<1> HIDE DEF z
<1> QED
  BY <1>2, <1>3, <1>4, <1>5 DEF EntryOf

Registers(c, e, h, P, Q, R) ==
    db' = [db EXCEPT ![c].scalar[e] = IF P THEN h ELSE @,
                     ![c].agg[e] = IF Q THEN register_aggregate(h) ELSE @,
                     ![c].module = IF R THEN @ \cup {e} ELSE @]
LEMMA InstallEffect ==
    ASSUME db \in [Conns -> DbT], NEW c \in Conns, NEW e \in Exts, NEW h \in Conns,
           NEW P, NEW Q, NEW R, Q => db[c].agg[e] = NoAgg,
           Registers(c, e, h, P, Q, R)
    PROVE  Installed(c, e, h)
<1> DEFINE a == IF P THEN h ELSE db[c].scalar[e]
           b == IF Q THEN register_aggregate(h) ELSE db[c].agg[e]
           m == IF R THEN db[c].module \cup {e} ELSE db[c].module
           z == Entry(db[c], e, a, b, m)
<1>1. /\ db[c] \in DbT /\ db[c].scalar[e] \in Conns \cup {None} /\ db[c].agg[e] \in AggT
      /\ db[c].module \in SUBSET Exts /\ c \in DOMAIN db
  BY DEF DbT
<1>2. db' = [db EXCEPT ![c] = z]
  BY Zenon, <1>1 DEF Entry, Registers
<1>3. a \in Conns \cup {None} /\ a \in {db[c].scalar[e], h}
  BY <1>1
<1>4. /\ b \in AggT
      /\ b = db[c].agg[e] \/ (db[c].agg[e] = NoAgg /\ b = register_aggregate(h))
  BY <1>1 DEF register_aggregate, AggT
<1>5. m \in SUBSET Exts /\ m \in {db[c].module, db[c].module \cup {e}}
  BY <1>1
<1> HIDE DEF a, b, m
<1>6. /\ z \in DbT /\ z.host = db[c].host /\ z.vtab = db[c].vtab /\ z.open = db[c].open
      /\ z.scalar[e] = a /\ z.agg[e] = b /\ z.module = m
      /\ \A f \in Exts : f # e => z.scalar[f] = db[c].scalar[f] /\ z.agg[f] = db[c].agg[f]
  <2>1. EntryOf(z, db[c], e, a, b, m)
    BY <1>1, <1>3, <1>4, <1>5, EntryIs, Zenon
  <2> HIDE DEF z
  <2> QED
    BY <2>1 DEF EntryOf
<1> HIDE DEF z
<1>7. db'[c] = z /\ db' \in [Conns -> DbT] /\ \A d \in Conns \ {c} : db'[d] = db[d]
  BY <1>2, <1>6
<1> QED
  BY <1>3, <1>4, <1>5, <1>6, <1>7 DEF Installed

LEMMA FewTiers ==
    ASSUME NEW bad \in SUBSET {"scalar", "agg", "module"}
    PROVE  Cardinality(bad) \in Nat
<1>1. IsFiniteSet({"scalar", "agg", "module"})
  <2>1. IsFiniteSet({"scalar"})
    BY FS_Singleton
  <2>2. IsFiniteSet({"scalar"} \cup {"agg"})
    BY <2>1, FS_AddElement
  <2>3. IsFiniteSet({"scalar"} \cup {"agg"} \cup {"module"})
    BY <2>2, FS_AddElement
  <2>4. {"scalar"} \cup {"agg"} \cup {"module"} = {"scalar", "agg", "module"}
    OBVIOUS
  <2> QED
    BY <2>3, <2>4
<1>2. IsFiniteSet(bad)
  BY Zenon, <1>1, FS_Subset
<1> QED
  BY <1>2, FS_CardinalityType

LEMMA InstallStep ==
    ASSUME BaseInv, NEW c \in Conns, load_and_install(c)
    PROVE  BaseInv' /\ Quiet(c) /\ seen' = seen
<1>1. /\ task[c].todo # <<>> /\ Stmt(c).op = "load" /\ task[c].pc = "install"
      /\ End(c) /\ UNCHANGED <<HOST, loaded, guests, next, grp, cur, seen>>
  BY DEF load_and_install, Busy
<1>2. /\ Types /\ db \in [Conns -> DbT] /\ task \in [Conns -> TaskT] /\ HOST \in Conns \cup {None}
      /\ guests \in Seq(GuestT) /\ faults \in 0..MaxFaults /\ GLOBALS \in {None, HOST}
      /\ DOMAIN guests = 1..Len(guests) /\ Len(guests) \in Nat
      /\ next.inst \in Nat /\ next.cur \in Nat
  BY DEF BaseInv, Types, HostTypes, ConnTypes
<1>3. PICK e \in Exts : e = Stmt(c).ext
  BY <1>1, <1>2, StmtIs
<1>4. db[c].host # None /\ loaded[db[c].host][e] # 0
  BY <1>1, <1>3 DEF BaseInv, Installing
<1>5. db[c].host = HOST /\ HOST \in Conns
  BY <1>2, <1>4 DEF BaseInv, Hosted
<1>6. faults' \in 0..MaxFaults
  <2>1. PICK bad \in SUBSET {"scalar", "agg", "module"} :
           /\ faults + Cardinality(bad) <= MaxFaults
           /\ faults' = faults + Cardinality(bad)
    BY DEF load_and_install
  <2>2. Cardinality(bad) \in Nat
    BY FewTiers
  <2> QED
    BY <1>2, <2>1, <2>2, ExtensionAssumption
<1>7. GLOBALS' = IF GLOBALS = None THEN HOST ELSE GLOBALS
  BY <1>5 DEF load_and_install
<1>8. Installed(c, e, HOST)
  <2>1. PICK bad \in SUBSET {"scalar", "agg", "module"} :
           db' = [db EXCEPT
                    ![c].scalar[e] = IF "scalar" \notin bad /\ ~Taken(c, e, "scalar") THEN HOST ELSE @,
                    ![c].agg[e] = IF "agg" \notin bad /\ ~Taken(c, e, "agg")
                                  THEN register_aggregate(HOST) ELSE @,
                    ![c].module = IF "module" \notin bad /\ ~Taken(c, e, "module")
                                  THEN @ \cup {e} ELSE @]
    BY Zenon, <1>3, <1>5 DEF load_and_install
  <2>2. Registers(c, e, HOST, "scalar" \notin bad /\ ~Taken(c, e, "scalar"),
                  "agg" \notin bad /\ ~Taken(c, e, "agg"),
                  "module" \notin bad /\ ~Taken(c, e, "module"))
    BY <2>1 DEF Registers
  <2>3. ~Taken(c, e, "agg") => db[c].agg[e] = NoAgg
    BY DEF Taken
  <2> QED
    BY Zenon, <1>2, <1>5, <2>2, <2>3, InstallEffect
<1>9. /\ task' \in [Conns -> TaskT] /\ \A d \in Conns \ {c} : task'[d] = task[d]
      /\ task'[c].todo = Tail(task[c].todo) /\ task'[c].pc = "idle"
  BY <1>1, <1>2, EndEffect
<1>10. Types' /\ OthersKept(c)
  BY <1>1, <1>2, <1>5, <1>6, <1>7, <1>8, <1>9
  DEF Types, HostTypes, ConnTypes, Installed, OthersKept
<1>11. ASSUME NEW d \in Conns PROVE Own(d)'
  <2>1. CASE d = c
    BY <1>1, <1>8, <2>1, EndOwn DEF Installed
  <2>2. CASE d # c
    BY <1>1, <1>10, <2>2, OthersOwn
  <2> QED
    BY <2>1, <2>2
<1>12. ASSUME NEW d \in Conns, NEW f \in Exts PROVE Behind(d, f)'
  <2>1. Behind(d, f)
    BY DEF BaseInv
  <2>2. GLOBALS' # None /\ HOST # None /\ loaded[HOST][e] # 0
    BY <1>2, <1>4, <1>5, <1>7, ExtensionAssumption
  <2>3. CASE d # c
    <3>1. db'[d] = db[d]
      BY <1>8, <2>3 DEF Installed
    <3> QED
      BY <1>1, <2>1, <2>2, <3>1 DEF Behind
  <2>4. CASE d = c
    <3>1. db'[c].scalar[f] = db[c].scalar[f] \/ (f = e /\ db'[c].scalar[f] = HOST)
      BY <1>8 DEF Installed
    <3>2. db'[c].agg[f] = db[c].agg[f] \/ (f = e /\ db'[c].agg[f] = [host |-> HOST, next_id |-> 1])
      BY <1>8 DEF Installed, register_aggregate
    <3>3. /\ db'[c].vtab[f] = db[c].vtab[f] /\ db[c].module \subseteq db'[c].module
          /\ f \in db'[c].module => f = e \/ f \in db[c].module
      BY <1>8 DEF Installed
    <3> QED
      BY <1>1, <2>1, <2>2, <2>4, <3>1, <3>2, <3>3 DEF Behind
  <2> QED
    BY <2>3, <2>4
<1>13. BaseInv'
  <2>1. LoadedIds'
    BY <1>1 DEF BaseInv, LoadedIds
  <2> QED
    BY <1>10, <1>11, <1>12, <2>1 DEF BaseInv, Own
<1>14. /\ db'[c].vtab = db[c].vtab /\ db'[c].open = db[c].open
       /\ \A d \in Conns \ {c} : db'[d] = db[d]
  BY <1>8 DEF Installed
<1>15. QuietTables(c)
  <2>1. \A d \in Conns, f \in Exts : Table(d, f)' = Table(d, f)
    BY <1>14 DEF Table
  <2>2. \A f \in Exts : Guest(GLOBALS, f)' = Guest(GLOBALS, f) \/ GLOBALS = None
    BY <1>1, <1>7 DEF Guest
  <2> QED
    BY <1>1, <1>2, <1>9, <2>1, <2>2 DEF QuietTables, Grown
<1>16. QuietScans(c)
  BY <1>1, <1>2, <1>9, <1>14 DEF QuietScans, Grown
<1>17. QuietGroups(c)
  <2>1. /\ Len(task'[c].todo) <= Len(task[c].todo)
        /\ task'[c].todo # <<>> /\ Stmt(c).op # "attach" => Stmt(c)'.op # "attach"
    BY Zenon, <1>1, <1>9, StillGoing
  <2>2. ASSUME NEW f \in Exts PROVE db'[c].agg[f].next_id >= db[c].agg[f].next_id
    <3>1. db[c].agg[f].next_id \in Nat
      BY DEF BaseInv, Types, ConnTypes, DbT, AggT
    <3>2. db'[c].agg[f] = db[c].agg[f]
          \/ (db[c].agg[f] = NoAgg /\ db'[c].agg[f] = [host |-> HOST, next_id |-> 1])
      BY <1>8 DEF Installed, register_aggregate
    <3> QED
      BY <3>1, <3>2 DEF NoAgg
  <2>3. \A f \in Exts : Guest(HOST, f)' = Guest(HOST, f)
    BY <1>1 DEF Guest
  <2>4. \A f \in Exts : db'[c].agg[f].next_id >= db[c].agg[f].next_id
    BY <2>2
  <2>5. DOMAIN guests' = 1..Len(guests') /\ Grown /\ guests' = guests
    BY <1>1, <1>2 DEF Grown
  <2> QED
    BY Zenon, <1>1, <1>9, <1>14, <2>1, <2>3, <2>4, <2>5 DEF QuietGroups
<1> QED
  BY <1>1, <1>13, <1>15, <1>16, <1>17 DEF Quiet

-----------------------------------------------------------------------------
(* What the callbacks of a table leave alone.                               *)
LEMMA FrameKeeps ==
    ASSUME BaseInv, NEW c \in Conns, Types', TableFrame(c), Own(c)', next'.cur = next.cur,
           \A e \in Exts : db'[c].vtab[e] # NoVtab => e \in db[c].module
    PROVE  BaseInv' /\ QuietScans(c) /\ QuietGroups(c)
<1>1. /\ guests \in Seq(GuestT) /\ DOMAIN guests = 1..Len(guests) /\ Len(guests) \in Nat
      /\ guests' \in Seq(GuestT) /\ Len(guests') = Len(guests) /\ next.cur \in Nat
  BY DEF BaseInv, Types, HostTypes, TableFrame, SameGuests
<1>2. DOMAIN guests' = 1..Len(guests') /\ Grown /\ DOMAIN guests' = DOMAIN guests
  BY <1>1 DEF Grown
<1>3. SameRegistered(c)
  BY DEF SameRegistered, TableFrame, SameBeside, BaseInv, Types, ConnTypes, DbT, AggT
<1>4. BaseInv'
  BY <1>1, <1>3, QuietBase DEF TableFrame
<1>5. /\ \A i \in DOMAIN guests : guests'[i].acc = guests[i].acc /\ guests'[i].cur = guests[i].cur
      /\ task[c].pc # "scan" /\ task[c].pc # "group" /\ task'[c].pc # "group"
      /\ task'[c].todo = task[c].todo \/ task'[c].todo = Tail(task[c].todo)
      /\ task[c].todo # <<>> /\ db'[c].open = db[c].open /\ db'[c].agg = db[c].agg
      /\ \A d \in Conns \ {c} : task'[d] = task[d] /\ db'[d] = db[d]
      /\ UNCHANGED <<HOST, loaded, grp, cur, seen>>
  BY DEF TableFrame, SameAcc, SameCur, TableMoves, SameBeside, OthersKept
<1>6. QuietScans(c)
  BY <1>1, <1>2, <1>5 DEF QuietScans
<1>7. QuietGroups(c)
  <2>1. /\ Len(task'[c].todo) <= Len(task[c].todo)
        /\ task'[c].todo # <<>> /\ Stmt(c).op # "attach" => Stmt(c)'.op # "attach"
    BY <1>5, StillGoing
  <2>2. \A f \in Exts : db'[c].agg[f].next_id >= db[c].agg[f].next_id
    <3>1. \A f \in Exts : db[c].agg[f].next_id \in Nat
      BY DEF BaseInv, Types, ConnTypes, DbT, AggT
    <3> QED
      BY <1>5, <3>1
  <2>3. \A f \in Exts : Guest(HOST, f)' = Guest(HOST, f)
    BY <1>5 DEF Guest
  <2> QED
    BY Zenon, <1>2, <1>5, <2>1, <2>2, <2>3 DEF QuietGroups
<1> QED
  BY <1>4, <1>6, <1>7

LEMMA TablesStep ==
    ASSUME BaseInv, TableInv, NEW c \in Conns,
           \/ x_best_index(c) \/ x_begin(c) \/ x_update(c) \/ x_savepoint(c) \/ x_release(c)
           \/ x_rollback_to(c) \/ x_sync(c) \/ x_commit(c) \/ x_rollback(c)
    PROVE  BaseInv' /\ TableInv' /\ QuietScans(c) /\ QuietGroups(c) /\ seen' = seen
<1>1. /\ Types' /\ TableFrame(c) /\ Own(c)' /\ next' = next
      /\ Ignored(c) \/ Written(c)
  BY TableSteps DEF TableStep
<1>2. TableInv'
  BY <1>1, IgnoredTables, WrittenTables
<1>3. \A e \in Exts : db'[c].vtab[e] # NoVtab => e \in db[c].module
  <2>1. \A e \in Exts : db[c].vtab[e] # NoVtab => e \in db[c].module
    BY DEF BaseInv, Behind
  <2>2. \A e \in Exts \ {Stmt(c).ext} : db'[c].vtab[e] = db[c].vtab[e]
    BY Zenon, <1>1 DEF Ignored, Written, Rewritten
  <2>3. db'[c].vtab[Stmt(c).ext] # NoVtab => Vtab(c) # NoVtab
    BY Zenon, <1>1 DEF Ignored, Written, Rewritten
  <2> QED
    BY <2>1, <2>2, <2>3 DEF Vtab
<1> QED
  BY <1>1, <1>2, <1>3, FrameKeeps DEF TableFrame

LEMMA CreateRemoveStep ==
    ASSUME BaseInv, TableInv, NEW c \in Conns, create_or_connect(c) \/ x_disconnect(c)
    PROVE  BaseInv' /\ TableInv' /\ QuietScans(c) /\ QuietGroups(c) /\ seen' = seen
<1>1. Types' /\ TableFrame(c) /\ Own(c)' /\ (Created(c) \/ Removed(c))
  BY CreateStep, RemoveStep
<1>2. TableInv'
  BY <1>1, CreatedTables, RemovedTables
<1>3. \A e \in Exts : db'[c].vtab[e] # NoVtab => e \in db[c].module
  <2>1. \A e \in Exts : db[c].vtab[e] # NoVtab => e \in db[c].module
    BY DEF BaseInv, Behind
  <2>2. SameTables(c)
    BY <1>1 DEF Created, Removed
  <2>3. Stmt(c).ext \in db[c].module
    BY DEF create_or_connect, x_disconnect, Doing, Busy, Registered
  <2> QED
    BY <2>1, <2>2, <2>3 DEF SameTables
<1>4. next'.cur = next.cur
  BY <1>1 DEF Created, Removed
<1> QED
  BY <1>1, <1>2, <1>3, <1>4, FrameKeeps DEF TableFrame

-----------------------------------------------------------------------------
(* The callbacks of cursors.  One of them touches the cursor w of slot s,   *)
(* which becomes u, in at most one guest.                                   *)
CursorMoves(c, s, w, u) ==
    /\ UNCHANGED <<HOST, GLOBALS, loaded, db, grp, seen>>
    /\ task' \in [Conns -> TaskT] /\ \A d \in Conns \ {c} : task'[d] = task[d]
    /\ task'[c].todo = task[c].todo /\ task'[c].pc = task[c].pc
    /\ next' \in [inst : Nat, cur : Nat] /\ next'.inst = next.inst /\ next'.cur # 0
    /\ w \in Nat /\ w # 0
    /\ (w = cur[c][s].id /\ next'.cur = next.cur) \/ (w = next.cur /\ next'.cur = next.cur + 1)
    /\ cur' = [cur EXCEPT ![c][s] = u] /\ u \in CursorT
    /\ u.id \in {0, w} /\ (u.pc \in {"closed", "done"} <=> u.id = 0)
    /\ SameGuests /\ SameAcc /\ SameInst /\ faults' \in 0..MaxFaults
    /\ \A k \in DOMAIN guests : \A j \in DOMAIN guests'[k].cur :
          j # w => j \in DOMAIN guests[k].cur /\ guests'[k].cur[j] = guests[k].cur[j]
InScan(c) == task[c].todo # <<>> /\ Stmt(c).op = "scan" /\ task[c].pc = "scan"

LEMMA ScanBase ==
    ASSUME BaseInv, NEW c \in Conns, InScan(c),
           UNCHANGED <<HOST, GLOBALS, loaded, db, grp, seen>>, Types',
           SameGuests, SameAcc, SameInst, next'.inst = next.inst,
           \A d \in Conns \ {c} : task'[d] = task[d],
           (task'[c].todo = task[c].todo /\ task'[c].pc = task[c].pc) \/ End(c)
    PROVE  BaseInv' /\ QuietTables(c) /\ QuietGroups(c)
<1>1. /\ guests \in Seq(GuestT) /\ DOMAIN guests = 1..Len(guests) /\ Len(guests) \in Nat
      /\ guests' \in Seq(GuestT) /\ Len(guests') = Len(guests) /\ next.inst \in Nat
      /\ task \in [Conns -> TaskT]
  BY DEF BaseInv, Types, HostTypes, ConnTypes, SameGuests
<1>2. DOMAIN guests' = 1..Len(guests') /\ Grown /\ DOMAIN guests' = DOMAIN guests
  BY <1>1 DEF Grown
<1>3. SameRegistered(c)
  BY DEF SameRegistered, BaseInv, Types, ConnTypes, DbT, AggT
<1>4. /\ task[c].todo # <<>> /\ Stmt(c).op = "scan" /\ task[c].pc = "scan"
      /\ Vtab(c) # NoVtab
  BY DEF InScan, BaseInv, Place
<1>5. /\ task'[c].pc \in {"idle", "scan"}
      /\ task'[c].todo = task[c].todo \/ task'[c].todo = Tail(task[c].todo)
  BY <1>1, <1>4, EndEffect
<1>6. Own(c)'
  <2>1. CASE task'[c].todo = task[c].todo /\ task'[c].pc = task[c].pc
    BY <1>3, <1>4, <2>1, StayOwn DEF Vtab
  <2>2. CASE End(c)
    BY <1>4, <2>2, EndOwn
  <2> QED
    BY <2>1, <2>2
<1>7. BaseInv'
  <2>1. \A e \in Exts : db'[c].vtab[e] # NoVtab => e \in db[c].module
    BY DEF BaseInv, Behind
  <2> QED
    BY <1>1, <1>3, <1>6, <2>1, QuietBase DEF OthersKept
<1>8. \A f \in Exts : Guest(HOST, f)' = Guest(HOST, f) /\ Guest(GLOBALS, f)' = Guest(GLOBALS, f)
  BY DEF Guest
<1>9. QuietTables(c)
  BY <1>1, <1>2, <1>5, <1>8 DEF QuietTables, Table, SameInst
<1>10. QuietGroups(c)
  <2>1. /\ Len(task'[c].todo) <= Len(task[c].todo)
        /\ task'[c].todo # <<>> /\ Stmt(c).op # "attach" => Stmt(c)'.op # "attach"
    BY <1>4, <1>5, StillGoing
  <2>2. \A f \in Exts : db'[c].agg[f].next_id >= db[c].agg[f].next_id
    <3>1. \A f \in Exts : db[c].agg[f].next_id \in Nat
      BY DEF BaseInv, Types, ConnTypes, DbT, AggT
    <3> QED
      BY <3>1
  <2> QED
    BY Zenon, <1>2, <1>4, <1>5, <1>8, <2>1, <2>2 DEF QuietGroups, SameAcc
<1> QED
  BY <1>7, <1>9, <1>10

LEMMA CursorMoved ==
    ASSUME BaseInv, ScanInv, NEW c \in Conns, NEW s \in Slots, NEW w, NEW u, InScan(c),
           CursorMoves(c, s, w, u), Scanned(c, s)'
    PROVE  BaseInv' /\ QuietTables(c) /\ QuietGroups(c) /\ ScanInv' /\ seen' = seen
<1>0. /\ guests \in Seq(GuestT) /\ cur \in [Conns -> [Slots -> CursorT]] /\ next.cur \in Nat
      /\ task \in [Conns -> TaskT] /\ next.inst \in Nat /\ next.inst # 0
  BY DEF BaseInv, Types, HostTypes, ConnTypes
<1>1. /\ cur' \in [Conns -> [Slots -> CursorT]] /\ cur'[c][s] = u
      /\ \A d \in Conns, t \in Slots : d # c \/ t # s => cur'[d][t] = cur[d][t]
  BY <1>0 DEF CursorMoves
<1>2. /\ UNCHANGED <<HOST, GLOBALS, loaded, db, grp, seen>> /\ SameGuests /\ SameAcc /\ SameInst
      /\ \A d \in Conns : task'[d].todo = task[d].todo /\ task'[d].pc = task[d].pc
      /\ \A d \in Conns \ {c} : task'[d] = task[d]
      /\ next'.inst = next.inst
  BY DEF CursorMoves
<1>3. Types'
  BY <1>0, <1>1 DEF CursorMoves, BaseInv, Types, HostTypes, ConnTypes, SameGuests
<1>4. BaseInv' /\ QuietTables(c) /\ QuietGroups(c)
  BY <1>2, <1>3, ScanBase
<1>5. DOMAIN guests' = DOMAIN guests
  BY <1>0, <1>2 DEF SameGuests
<1>6. w \in Nat /\ w # 0 /\ w < next'.cur /\ next.cur <= next'.cur /\ next'.cur \in Nat
  <2>1. cur[c][s].id < next.cur
    BY DEF ScanInv, CurIds
  <2>2. w \in Nat /\ w # 0 /\ ((w = cur[c][s].id /\ next'.cur = next.cur)
                               \/ (w = next.cur /\ next'.cur = next.cur + 1))
    BY DEF CursorMoves
  <2> QED
    BY <1>0, <2>1, <2>2
<1>7. ASSUME NEW d \in Conns, NEW t \in Slots, d # c \/ t # s
      PROVE  cur[d][t].id # w /\ cur[d][t].id \in Nat /\ cur[d][t].id < next.cur
  <2>1. cur[d][t].id < next.cur /\ cur[d][t].id \in Nat
    BY <1>0 DEF ScanInv, CurIds, CursorT
  <2>2. CASE w = cur[c][s].id
    BY <1>6, <1>7, <2>1, <2>2 DEF ScanInv, CurIds
  <2>3. CASE w = next.cur
    BY <1>0, <2>1, <2>3
  <2> QED
    BY <2>1, <2>2, <2>3 DEF CursorMoves
<1>8. ASSUME NEW k \in DOMAIN guests', NEW j \in DOMAIN guests'[k].cur
      PROVE  /\ j # 0 /\ j < next'.cur
             /\ j # w => j \in DOMAIN guests[k].cur /\ guests'[k].cur[j] = guests[k].cur[j]
  <2>1. k \in DOMAIN guests
    BY <1>5
  <2>2. j # w => j \in DOMAIN guests[k].cur /\ guests'[k].cur[j] = guests[k].cur[j]
    BY <2>1 DEF CursorMoves
  <2>3. ASSUME j # w PROVE j # 0 /\ j < next'.cur
    <3>1. j \in DOMAIN guests[k].cur
      BY <2>2, <2>3
    <3>2. j \in Nat
      BY <2>1, <3>1, <1>0, ReadType, GuestOf DEF GuestT
    <3>3. j # 0 /\ j < next.cur
      BY <2>1, <3>1 DEF ScanInv, CurIds
    <3> QED
      BY <1>0, <1>6, <3>2, <3>3
  <2> QED
    BY <1>6, <2>2, <2>3
<1>9. CurIds'
  <2>1. ASSUME NEW d \in Conns, NEW t \in Slots
        PROVE  /\ cur'[d][t] # NoCursor => task'[d].pc = "scan"
               /\ cur'[d][t].pc \in {"closed", "done"} <=> cur'[d][t].id = 0
               /\ cur'[d][t].id < next'.cur
    <3>1. CASE d = c /\ t = s
      <4>1. task'[c].pc = "scan" /\ cur'[d][t] = u
        BY <1>1, <1>2, <3>1 DEF InScan
      <4>2. u.id \in {0, w} /\ (u.pc \in {"closed", "done"} <=> u.id = 0)
        BY DEF CursorMoves
      <4>3. u.id < next'.cur
        BY <1>6, <4>2
      <4> QED
        BY <3>1, <4>1, <4>2, <4>3
    <3>2. CASE d # c \/ t # s
      <4>1. cur'[d][t] = cur[d][t] /\ task'[d].pc = task[d].pc
        BY <1>1, <1>2, <3>2
      <4>2. cur[d][t].id < next'.cur
        BY <1>0, <1>6, <1>7, <3>2
      <4> QED
        BY <4>1, <4>2 DEF ScanInv, CurIds
    <3> QED
      BY <3>1, <3>2
  <2>2. ASSUME NEW a \in Conns, NEW b \in Conns, NEW x \in Slots, NEW y \in Slots,
               cur'[a][x].id = cur'[b][y].id, cur'[a][x].id # 0
        PROVE  a = b /\ x = y
    <3>1. u.id \in {0, w}
      BY DEF CursorMoves
    <3>2. CASE a = c /\ x = s
      BY <1>1, <1>7, <2>2, <3>1, <3>2
    <3>3. CASE b = c /\ y = s
      BY <1>1, <1>7, <2>2, <3>1, <3>3
    <3>4. CASE (a # c \/ x # s) /\ (b # c \/ y # s)
      <4>1. cur[a][x].id = cur[b][y].id /\ cur[a][x].id # 0
        BY <1>1, <2>2, <3>4
      <4> QED
        BY <4>1 DEF ScanInv, CurIds
    <3> QED
      BY <3>2, <3>3, <3>4
  <2> QED
    BY <1>8, <2>1, <2>2 DEF CurIds
<1>10. ASSUME NEW d \in Conns, NEW t \in Slots PROVE Scanned(d, t)'
  <2>1. CASE d = c /\ t = s
    BY <2>1
  <2>2. CASE d # c \/ t # s
    <3>1. /\ cur'[d][t] = cur[d][t] /\ cur[d][t].id # w
          /\ Vtab(d)' = Vtab(d)
      BY <1>1, <1>2, <1>7, <2>2 DEF Vtab, Stmt
    <3> SUFFICES ASSUME NEW k \in DOMAIN guests', cur[d][t].id \in DOMAIN guests'[k].cur
                 PROVE  /\ guests'[k].cur[cur[d][t].id].inst = Vtab(d).inst
                        /\ k = Vtab(d).gen
                        /\ Reads(d, t, guests[k].cur[cur[d][t].id])'
      BY <3>1 DEF Scanned
    <3>2. /\ k \in DOMAIN guests /\ cur[d][t].id \in DOMAIN guests[k].cur
          /\ guests'[k].cur[cur[d][t].id] = guests[k].cur[cur[d][t].id]
      BY <1>5, <1>8, <3>1
    <3>3. PICK p : p = guests[k].cur[cur[d][t].id]
      OBVIOUS
    <3>4. p.inst = Vtab(d).inst /\ k = Vtab(d).gen /\ Reads(d, t, p)
      BY <3>2, <3>3 DEF ScanInv, Scanned
    <3>5. Reads(d, t, p)'
      BY Zenon, <3>1, <3>4 DEF Reads
    <3> QED
      BY Zenon, <3>1, <3>2, <3>3, <3>4, <3>5 DEF Reads
  <2> QED
    BY <2>1, <2>2
<1> QED
  BY <1>2, <1>4, <1>9, <1>10 DEF ScanInv

CursorKept(c) ==
    BaseInv' /\ QuietTables(c) /\ QuietGroups(c) /\ ScanInv' /\ seen' = seen

LEMMA CursorKnown ==
    ASSUME BaseInv, ScanInv, NEW c \in Conns, NEW s \in Slots, InScan(c),
           NEW g, g = TableGuest(c), Has(g, c, s), NEW id, id = cur[c][s].id
    PROVE  /\ g \in DOMAIN guests /\ guests[g].cur \in Partial(Positions)
           /\ id \in DOMAIN guests[g].cur /\ id \in Nat /\ id # 0
           /\ guests[g].cur[id] \in Positions
           /\ guests[g].cur[id].inst = Vtab(c).inst /\ g = Vtab(c).gen
           /\ Reads(c, s, guests[g].cur[id])
           /\ \A k \in DOMAIN guests : id \in DOMAIN guests[k].cur => k = g
<1>1. g \in DOMAIN guests /\ id \in DOMAIN guests[g].cur
  BY TableGuestIs DEF Has, Alive, Cur, InScan
<1>2. guests[g].cur \in Partial(Positions)
  BY <1>1, GuestOf DEF BaseInv, Types, GuestT
<1>3. id \in Nat /\ guests[g].cur[id] \in Positions
  BY <1>1, <1>2, ReadType
<1>4. id # 0
  BY <1>1 DEF ScanInv, CurIds
<1>5. /\ guests[g].cur[id].inst = Vtab(c).inst /\ g = Vtab(c).gen
      /\ Reads(c, s, guests[g].cur[id])
      /\ \A k \in DOMAIN guests : id \in DOMAIN guests[k].cur => k = g
  BY <1>1 DEF ScanInv, Scanned
<1> QED
  BY <1>1, <1>2, <1>3, <1>4, <1>5

(* The guest changes nothing, and the cursor stays the one it is or goes.   *)
Fits(u, k) ==
    /\ u.pc \in {"at", "row"} => u.want = u.got \o k.left
    /\ u.pc = "row" => k.left # <<>>
    /\ u.pc = "read" => k.left # <<>> /\ u.want = u.got \o Tail(k.left)
Follows(c, s, u) ==
    \A h \in DOMAIN guests, k \in Positions :
        u.id \in DOMAIN guests[h].cur /\ guests[h].cur[u.id] = k /\ Reads(c, s, k) => Fits(u, k)
LEMMA CursorOnly ==
    ASSUME BaseInv, ScanInv, NEW c \in Conns, NEW s \in Slots, InScan(c),
           UNCHANGED <<HOST, GLOBALS, loaded, next, db, grp, seen>>,
           UNCHANGED task \/ Fail(c), Unmoved, faults' \in 0..MaxFaults,
           NEW u \in CursorT, cur' = [cur EXCEPT ![c][s] = u], cur[c][s].id # 0,
           u.id = cur[c][s].id, u.pc \notin {"closed", "done"},
           Follows(c, s, u)
    PROVE  CursorKept(c)
<1>1. /\ cur \in [Conns -> [Slots -> CursorT]] /\ task \in [Conns -> TaskT]
      /\ next \in [inst : Nat, cur : Nat] /\ next.cur # 0 /\ guests \in Seq(GuestT)
  BY DEF BaseInv, Types, HostTypes, ConnTypes
<1>2. PICK w \in Nat : w = cur[c][s].id
  BY <1>1 DEF CursorT
<1>3. CursorMoves(c, s, w, u)
  <2>1. /\ task' \in [Conns -> TaskT] /\ \A d \in Conns \ {c} : task'[d] = task[d]
        /\ task'[c].todo = task[c].todo /\ task'[c].pc = task[c].pc
    BY <1>1, FailEffect
  <2> QED
    BY <1>1, <1>2, <2>1 DEF CursorMoves, Unmoved, SameCur
<1>4. Scanned(c, s)'
  <2>1. cur'[c][s] = u /\ Vtab(c)' = Vtab(c) /\ DOMAIN guests' = DOMAIN guests
    BY <1>1, <1>3 DEF CursorMoves, Vtab, Stmt, SameGuests
  <2> SUFFICES ASSUME NEW k \in DOMAIN guests, u.id \in DOMAIN guests'[k].cur
               PROVE  /\ guests'[k].cur[u.id].inst = Vtab(c).inst /\ k = Vtab(c).gen
                      /\ Reads(c, s, guests[k].cur[cur[c][s].id])'
    BY <2>1 DEF Scanned
  <2>2. guests'[k].cur = guests[k].cur
    BY DEF Unmoved, SameCur
  <2>3. PICK p : p = guests[k].cur[u.id]
    OBVIOUS
  <2>4. p.inst = Vtab(c).inst /\ k = Vtab(c).gen /\ Reads(c, s, p)
    BY <2>2, <2>3 DEF ScanInv, Scanned
  <2>5. p \in Positions
    <3>1. guests[k].cur \in Partial(Positions)
      BY <1>1, GuestOf DEF GuestT
    <3> QED
      BY <2>2, <2>3, <3>1, ReadType
  <2>6. Fits(u, p)
    BY <2>2, <2>3, <2>4, <2>5 DEF Follows
  <2>7. Reads(c, s, p)'
    BY Zenon, <2>1, <2>6 DEF Reads, Fits
  <2> QED
    BY Zenon, <2>1, <2>2, <2>3, <2>4, <2>7 DEF Reads
<1> QED
  BY <1>3, <1>4, CursorMoved DEF CursorKept

LEMMA CursorRecord ==
    ASSUME BaseInv, NEW c \in Conns, NEW s \in Slots
    PROVE  /\ cur[c][s] \in CursorT /\ cur[c][s].id \in Nat
           /\ [cur[c][s] EXCEPT !.pc = "failed"] \in CursorT
           /\ [cur[c][s] EXCEPT !.pc = "failed"].id = cur[c][s].id
           /\ [cur[c][s] EXCEPT !.pc = "failed"].pc = "failed"
<1>1. cur[c][s] \in CursorT
  BY DEF BaseInv, Types, ConnTypes
<1> QED
  BY Zenon, <1>1 DEF CursorT, CursorPcs

LEMMA CursorFails ==
    ASSUME BaseInv, ScanInv, NEW c \in Conns, NEW s \in Slots, InScan(c),
           UNCHANGED <<HOST, GLOBALS, loaded, next, db, grp, seen>>, Fail(c),
           CurRefuses(TableGuest(c), c, s), cur[c][s].pc \notin {"closed", "done"},
           SetCur(c, s, [Cur(c, s) EXCEPT !.pc = "failed"])
    PROVE  CursorKept(c)
<1>1. PICK u : u = [cur[c][s] EXCEPT !.pc = "failed"]
  BY Zenon
<1>2. u \in CursorT /\ u.id = cur[c][s].id /\ u.pc = "failed"
  BY <1>1, CursorRecord
<1>3. cur' = [cur EXCEPT ![c][s] = u]
  BY <1>1 DEF SetCur, Cur
<1>4. Unmoved /\ faults' \in 0..MaxFaults
  BY TableGuestIs, Refusal DEF InScan, BaseInv
<1>5. cur[c][s].id # 0
  BY DEF ScanInv, CurIds
<1>6. Follows(c, s, u)
  BY <1>2 DEF Follows, Fits
<1> QED
  BY Zenon, <1>2, <1>3, <1>4, <1>5, <1>6, CursorOnly

LEMMA EofStep ==
    ASSUME BaseInv, ScanInv, NEW c \in Conns, NEW s \in Slots, x_eof(c, s)
    PROVE  CursorKept(c)
<1> DEFINE g == TableGuest(c)
<1>1. /\ InScan(c) /\ cur[c][s].pc = "at"
      /\ UNCHANGED <<HOST, GLOBALS, loaded, next, db, task, grp, seen>>
  BY DEF x_eof, Scanning, Busy, InScan, Cur
<1>2. cur[c][s] \in CursorT /\ cur[c][s].id \in Nat /\ cur[c][s].id # 0
  BY Zenon, <1>1, CursorRecord DEF ScanInv, CurIds
<1>3. CASE /\ CurAnswers(g, c, s) /\ UNCHANGED guests
           /\ SetCur(c, s, [Cur(c, s) EXCEPT !.pc = IF Left(g, c, s) = <<>> THEN "over" ELSE "row"])
  <2>1. PICK p \in {"over", "row"} : p = IF Left(g, c, s) = <<>> THEN "over" ELSE "row"
    OBVIOUS
  <2>2. PICK u : u = [cur[c][s] EXCEPT !.pc = p]
    BY Zenon
  <2>3. /\ u \in CursorT /\ u.id = cur[c][s].id /\ u.pc = p
        /\ u.want = cur[c][s].want /\ u.got = cur[c][s].got
    BY Zenon, <1>2, <2>1, <2>2 DEF CursorT, CursorPcs
  <2>4. cur' = [cur EXCEPT ![c][s] = u]
    BY <1>3, <2>1, <2>2 DEF SetCur, Cur
  <2>5. Unmoved /\ faults' \in 0..MaxFaults
    BY <1>3, UnchangedGuests, FaultCounted DEF CurAnswers, BaseInv, Types, HostTypes
  <2>6. PICK id : id = cur[c][s].id
    OBVIOUS
  <2>7. /\ \A k \in DOMAIN guests : id \in DOMAIN guests[k].cur => k = g
        /\ Left(g, c, s) = guests[g].cur[id].left
    BY <1>1, <1>3, <2>6, CursorKnown DEF CurAnswers, Left, Cur
  <2>8. Follows(c, s, u)
    BY Zenon, <1>1, <2>1, <2>3, <2>6, <2>7 DEF Reads, Follows, Fits
  <2> QED
    BY Zenon, <1>1, <1>2, <2>1, <2>3, <2>4, <2>5, <2>8, CursorOnly
<1>4. CASE CurRefuses(g, c, s) /\ SetCur(c, s, [Cur(c, s) EXCEPT !.pc = "over", !.hurt = TRUE])
  <2>1. PICK u : u = [cur[c][s] EXCEPT !.pc = "over", !.hurt = TRUE]
    OBVIOUS
  <2>2. u \in CursorT /\ u.id = cur[c][s].id /\ u.pc = "over"
    BY Zenon, <1>2, <2>1 DEF CursorT, CursorPcs
  <2>3. cur' = [cur EXCEPT ![c][s] = u]
    BY <1>4, <2>1 DEF SetCur, Cur
  <2>4. Unmoved /\ faults' \in 0..MaxFaults
    BY <1>1, <1>4, TableGuestIs, Refusal DEF InScan, BaseInv
  <2>5. Follows(c, s, u)
    BY <2>2 DEF Follows, Fits
  <2> QED
    BY Zenon, <1>1, <1>2, <2>2, <2>3, <2>4, <2>5, CursorOnly
<1> QED
  BY <1>3, <1>4 DEF x_eof

LEMMA OneMore ==
    ASSUME NEW got \in Seq(Nat), NEW left \in Seq(Nat), left # <<>>
    PROVE  /\ Append(got, Head(left)) \in Seq(Nat) /\ Tail(left) \in Seq(Nat)
           /\ got \o left = Append(got, Head(left)) \o Tail(left)
<1>1. /\ Head(left) \in Nat /\ Tail(left) \in Seq(Nat) /\ Len(left) \in Nat /\ Len(left) >= 1
      /\ Len(Tail(left)) = Len(left) - 1 /\ Head(left) = left[1]
      /\ \A i \in 1..Len(left) - 1 : Tail(left)[i] = left[i + 1]
  OBVIOUS
<1>2. PICK t \in Seq(Nat) : t = Tail(left)
  BY Zenon, <1>1
<1>3. PICK a \in Seq(Nat) : a = Append(got, Head(left))
  <2>1. Append(got, Head(left)) \in Seq(Nat)
    BY <1>1, AppendProperties
  <2> QED
    BY Zenon, <2>1
<1>4. /\ Len(a) = Len(got) + 1 /\ Len(got) \in Nat /\ a[Len(got) + 1] = left[1]
      /\ \A i \in 1..Len(got) : a[i] = got[i]
  BY <1>1, <1>3
<1>5. /\ a \o t \in Seq(Nat) /\ Len(a \o t) = Len(a) + Len(t)
      /\ \A i \in 1..Len(a) + Len(t) : (a \o t)[i] = IF i <= Len(a) THEN a[i] ELSE t[i - Len(a)]
  BY ConcatProperties
<1>6. /\ got \o left \in Seq(Nat) /\ Len(got \o left) = Len(got) + Len(left)
      /\ \A i \in 1..Len(got) + Len(left) :
            (got \o left)[i] = IF i <= Len(got) THEN got[i] ELSE left[i - Len(got)]
  BY ConcatProperties
<1>7. Len(a \o t) = Len(got \o left)
  BY <1>1, <1>2, <1>4, <1>5, <1>6
<1>8. ASSUME NEW i \in 1..Len(got) + Len(left) PROVE (a \o t)[i] = (got \o left)[i]
  <2>1. CASE i <= Len(got)
    BY <1>1, <1>2, <1>4, <1>5, <1>6, <2>1
  <2>2. CASE i = Len(got) + 1
    <3>1. (a \o t)[i] = a[i] /\ (got \o left)[i] = left[i - Len(got)]
      BY <1>1, <1>2, <1>4, <1>5, <1>6, <2>2
    <3>2. i - Len(got) = 1
      BY <1>4, <2>2
    <3> QED
      BY <1>4, <2>2, <3>1, <3>2
  <2>3. CASE i > Len(got) + 1
    <3>1. (a \o t)[i] = t[i - Len(a)] /\ (got \o left)[i] = left[i - Len(got)]
      BY <1>1, <1>2, <1>4, <1>5, <1>6, <2>3
    <3>2. i - Len(a) \in 1..Len(left) - 1 /\ (i - Len(a)) + 1 = i - Len(got)
      BY <1>1, <1>4, <2>3
    <3> QED
      BY Zenon, <1>1, <1>2, <3>1, <3>2
  <2>4. i <= Len(got) \/ i = Len(got) + 1 \/ i > Len(got) + 1
    <3>1. Len(got) \in Nat /\ Len(left) \in Nat
      BY <1>1, <1>4
    <3>2. PICK n \in Nat : n = Len(got)
      BY <3>1
    <3>3. i \in Nat
      BY <3>1
    <3>4. i <= n \/ i = n + 1 \/ i > n + 1
      BY <3>3
    <3> QED
      BY <3>2, <3>4
  <2> QED
    BY Zenon, <2>1, <2>2, <2>3, <2>4
<1>9. a \o t = got \o left
  BY Zenon, <1>5, <1>6, <1>7, <1>8, SeqEqual
<1> QED
  BY Zenon, <1>1, <1>2, <1>3, <1>9

LEMMA ColumnStep ==
    ASSUME BaseInv, ScanInv, NEW c \in Conns, NEW s \in Slots, x_column(c, s)
    PROVE  CursorKept(c)
<1> DEFINE g == TableGuest(c)
<1>1. /\ InScan(c) /\ cur[c][s].pc = "row"
      /\ UNCHANGED <<HOST, GLOBALS, loaded, next, db, grp, seen>>
  BY DEF x_column, Scanning, Busy, InScan, Cur
<1>2. cur[c][s] \in CursorT /\ cur[c][s].id \in Nat /\ cur[c][s].id # 0
  BY Zenon, <1>1, CursorRecord DEF ScanInv, CurIds
<1>3. CASE /\ CurAnswers(g, c, s) /\ UNCHANGED <<guests, task>>
           /\ SetCur(c, s, [Cur(c, s) EXCEPT !.pc = "read", !.got = Append(@, Head(Left(g, c, s)))])
  <2>1. PICK id : id = cur[c][s].id
    OBVIOUS
  <2>2. /\ guests[g].cur[id] \in Positions /\ Reads(c, s, guests[g].cur[id])
        /\ id \in DOMAIN guests[g].cur /\ g \in DOMAIN guests
        /\ \A k \in DOMAIN guests : id \in DOMAIN guests[k].cur => k = g
    BY <1>1, <1>3, <2>1, CursorKnown DEF CurAnswers
  <2>3. PICK left \in Seq(Nat) : left = guests[g].cur[id].left /\ left = Left(g, c, s)
    BY <2>1, <2>2 DEF Positions, Left, Cur
  <2>4. left # <<>> /\ cur[c][s].want = cur[c][s].got \o left
    BY <1>1, <2>2, <2>3 DEF Reads
  <2>5. cur[c][s].got \in Seq(Nat)
    BY <1>2 DEF CursorT
  <2>6. PICK got : got = Append(cur[c][s].got, Head(left)) /\ got \in Seq(Nat)
    BY Zenon, <2>4, <2>5, OneMore
  <2>7. cur[c][s].want = got \o Tail(left)
    BY Zenon, <2>4, <2>5, <2>6, OneMore
  <2>8. PICK u : u = [cur[c][s] EXCEPT !.pc = "read", !.got = got]
    OBVIOUS
  <2>9. /\ u \in CursorT /\ u.id = cur[c][s].id /\ u.pc = "read"
        /\ u.want = cur[c][s].want /\ u.got = got
    BY Zenon, <1>2, <2>6, <2>8 DEF CursorT, CursorPcs
  <2>10. cur' = [cur EXCEPT ![c][s] = u]
    BY <1>3, <2>3, <2>6, <2>8 DEF SetCur, Cur
  <2>11. Unmoved /\ faults' \in 0..MaxFaults
    BY <1>3, UnchangedGuests, FaultCounted DEF CurAnswers, BaseInv, Types, HostTypes
  <2>12. Follows(c, s, u)
    BY Zenon, <2>1, <2>2, <2>3, <2>4, <2>7, <2>9 DEF Follows, Fits
  <2> QED
    BY Zenon, <1>1, <1>2, <1>3, <2>9, <2>10, <2>11, <2>12, CursorOnly
<1>4. CASE /\ CurRefuses(g, c, s) /\ Fail(c)
           /\ SetCur(c, s, [Cur(c, s) EXCEPT !.pc = "failed"])
  BY <1>1, <1>4, CursorFails
<1> QED
  BY <1>3, <1>4 DEF x_column

(* The guest answers: its cursors become f.                                 *)
Answered(c, s, u, f) ==
    LET g == TableGuest(c) IN
    /\ UNCHANGED <<HOST, GLOBALS, loaded, next, db, task, grp, seen>> /\ Fine
    /\ Has(g, c, s) /\ u \in CursorT /\ cur' = [cur EXCEPT ![c][s] = u]
    /\ u.id \in {0, cur[c][s].id} /\ (u.pc \in {"closed", "done"} <=> u.id = 0)
    /\ f \in Partial(Positions) /\ guests' = [guests EXCEPT ![g].cur = f]
    /\ DOMAIN f \subseteq DOMAIN guests[g].cur
    /\ \A j \in DOMAIN f : j # cur[c][s].id => f[j] = guests[g].cur[j]
    /\ u.id \in DOMAIN f => f[u.id].inst = Vtab(c).inst /\ Fits(u, f[u.id])

LEMMA CursorAnswered ==
    ASSUME BaseInv, ScanInv, NEW c \in Conns, NEW s \in Slots, InScan(c), NEW u, NEW f,
           Answered(c, s, u, f)
    PROVE  CursorKept(c)
<1> USE DEF Answered
<1>1. PICK g : g = TableGuest(c)
  OBVIOUS
<1>2. PICK w : w = cur[c][s].id
  OBVIOUS
<1>3. /\ g \in DOMAIN guests /\ w \in Nat /\ w # 0 /\ g = Vtab(c).gen
      /\ \A k \in DOMAIN guests : w \in DOMAIN guests[k].cur => k = g
  BY <1>1, <1>2, CursorKnown
<1>4. /\ cur \in [Conns -> [Slots -> CursorT]] /\ task \in [Conns -> TaskT]
      /\ next \in [inst : Nat, cur : Nat] /\ next.cur # 0 /\ guests \in Seq(GuestT)
      /\ faults \in 0..MaxFaults
  BY DEF BaseInv, Types, HostTypes, ConnTypes
<1>5. /\ SameGuests /\ SameAcc /\ SameInst /\ guests'[g].cur = f
      /\ \A i \in DOMAIN guests : i # g => guests'[i].cur = guests[i].cur
  BY Zenon, <1>1, <1>3, <1>4, SetCurs
<1>6. faults' \in 0..MaxFaults
  BY <1>4, FaultCounted
<1>7. \A k \in DOMAIN guests : \A j \in DOMAIN guests'[k].cur :
         j # w => j \in DOMAIN guests[k].cur /\ guests'[k].cur[j] = guests[k].cur[j]
  BY <1>1, <1>2, <1>5
<1>8. CursorMoves(c, s, w, u)
  BY <1>2, <1>3, <1>4, <1>5, <1>6, <1>7 DEF CursorMoves
<1>9. Scanned(c, s)'
  <2>1. cur'[c][s] = u /\ Vtab(c)' = Vtab(c) /\ DOMAIN guests' = DOMAIN guests
    BY <1>4, <1>5 DEF Vtab, Stmt, SameGuests
  <2> SUFFICES ASSUME NEW k \in DOMAIN guests, u.id \in DOMAIN guests'[k].cur
               PROVE  /\ guests'[k].cur[u.id].inst = Vtab(c).inst /\ k = Vtab(c).gen
                      /\ Reads(c, s, guests[k].cur[cur[c][s].id])'
    BY <2>1 DEF Scanned
  <2>2. k = g
    <3>1. CASE k # g
      <4>1. u.id \in DOMAIN guests[k].cur
        BY <1>5, <3>1
      <4>2. u.id # 0
        BY <4>1 DEF ScanInv, CurIds
      <4> QED
        BY <1>2, <1>3, <3>1, <4>1, <4>2
    <3> QED
      BY <3>1
  <2>3. PICK p : p = f[u.id]
    OBVIOUS
  <2>4. p.inst = Vtab(c).inst /\ Fits(u, p) /\ guests'[k].cur[u.id] = p
    BY <1>5, <2>2, <2>3
  <2>5. Reads(c, s, p)'
    BY Zenon, <2>1, <2>4 DEF Reads, Fits
  <2> QED
    BY Zenon, <1>3, <2>1, <2>2, <2>4, <2>5 DEF Reads
<1> QED
  BY <1>8, <1>9, CursorMoved DEF CursorKept

LEMMA ScannedTable ==
    ASSUME BaseInv, TableInv, NEW c \in Conns, InScan(c), TableGuest(c) = Vtab(c).gen
    PROVE  /\ Vtab(c).view \in Seq(Nat)
           /\ At(guests[TableGuest(c)].inst, Vtab(c).inst, NoInst).rows = Vtab(c).view
<1>1. task[c].todo # <<>> /\ Vtab(c) # NoVtab /\ Stmt(c).ext \in Exts
  BY StmtIs DEF InScan, BaseInv, Place, Types, ConnTypes
<1>2. Vtab(c) = db[c].vtab[Stmt(c).ext] /\ Vtab(c) \in VtabT
  BY <1>1, VtabIs DEF BaseInv
<1>3. /\ Vtab(c).inst \in DOMAIN guests[TableGuest(c)].inst
      /\ guests[TableGuest(c)].inst[Vtab(c).inst].rows = Vtab(c).view
  BY Zenon, <1>1, <1>2 DEF TableInv, TableAsTold, TableGuest
<1> QED
  BY Zenon, <1>2, <1>3 DEF At, VtabT

LEMMA NewPosition ==
    ASSUME NEW f \in Partial(Positions), NEW id \in DOMAIN f, NEW left \in Seq(Nat)
    PROVE  LET v == [f[id] EXCEPT !.left = left]
               h == [f EXCEPT ![id] = v] IN
           /\ v \in Positions /\ v.inst = f[id].inst /\ v.left = left
           /\ h \in Partial(Positions) /\ DOMAIN h = DOMAIN f /\ h[id] = v
           /\ \A j \in DOMAIN f : j # id => h[j] = f[j]
<1> DEFINE v == [f[id] EXCEPT !.left = left]
           h == [f EXCEPT ![id] = v]
<1>1. f[id] \in Positions
  BY ReadType
<1>2. v \in Positions /\ v.inst = f[id].inst /\ v.left = left
  BY <1>1 DEF Positions
<1> HIDE DEF v
<1>3. h \in Partial(Positions)
  BY <1>2, ReplaceType
<1>4. DOMAIN h = DOMAIN f /\ h[id] = v /\ \A j \in DOMAIN f : j # id => h[j] = f[j]
  BY DEF Partial
<1> QED
  BY <1>2, <1>3, <1>4 DEF v

LEMMA FilterStep ==
    ASSUME BaseInv, TableInv, ScanInv, NEW c \in Conns, NEW s \in Slots, x_filter(c, s)
    PROVE  CursorKept(c)
<1>1. PICK g : g = TableGuest(c)
  OBVIOUS
<1>2. /\ InScan(c) /\ cur[c][s].pc \in {"open", "over"}
      /\ UNCHANGED <<HOST, GLOBALS, loaded, next, db, grp, seen>>
  BY Zenon DEF x_filter, Scanning, Busy, InScan, Cur
<1>3. CASE /\ CurAnswers(g, c, s)
           /\ LET k == guests[g].cur[Cur(c, s).id] IN
              guests' = [guests EXCEPT
                  ![g].cur[Cur(c, s).id].left = At(guests[g].inst, k.inst, NoInst).rows]
           /\ SetCur(c, s, [NoCursor EXCEPT !.pc = "at", !.id = Cur(c, s).id,
                              !.want = Vtab(c).view, !.again = Cur(c, s).pc = "over"])
           /\ UNCHANGED task
  <2>1. PICK id : id = cur[c][s].id
    OBVIOUS
  <2>2. /\ g \in DOMAIN guests /\ guests[g].cur \in Partial(Positions)
        /\ id \in DOMAIN guests[g].cur /\ id \in Nat /\ id # 0
        /\ guests[g].cur[id].inst = Vtab(c).inst /\ g = Vtab(c).gen
    BY <1>1, <1>2, <1>3, <2>1, CursorKnown DEF CurAnswers
  <2>3. /\ Vtab(c).view \in Seq(Nat)
        /\ At(guests[g].inst, Vtab(c).inst, NoInst).rows = Vtab(c).view
    BY Zenon, <1>1, <1>2, <2>2, ScannedTable
  <2>4. PICK left \in Seq(Nat) : left = Vtab(c).view
    BY <2>3
  <2> DEFINE v == [guests[g].cur[id] EXCEPT !.left = left]
             f == [guests[g].cur EXCEPT ![id] = v]
  <2>5. /\ v \in Positions /\ v.inst = guests[g].cur[id].inst /\ v.left = left
        /\ f \in Partial(Positions) /\ DOMAIN f = DOMAIN guests[g].cur /\ f[id] = v
        /\ \A j \in DOMAIN guests[g].cur : j # id => f[j] = guests[g].cur[j]
    BY <2>2, NewPosition
  <2>6. guests' = [guests EXCEPT ![g].cur = f]
    BY <1>3, <2>1, <2>2, <2>3, <2>4 DEF Cur
  <2>7. PICK u : u = [NoCursor EXCEPT !.pc = "at", !.id = id, !.want = left,
                                      !.again = cur[c][s].pc = "over"]
    OBVIOUS
  <2>8. /\ u.id = id /\ u.pc = "at" /\ u.want = left /\ u.got = <<>>
        /\ u \in CursorT
    <3>1. <<>> \in Seq(Nat)
      OBVIOUS
    <3> QED
      BY Zenon, <2>2, <2>7, <3>1 DEF NoCursor, CursorT, CursorPcs
  <2>9. cur' = [cur EXCEPT ![c][s] = u]
    BY <1>3, <2>1, <2>4, <2>7 DEF SetCur, Cur
  <2>10. Fits(u, v)
    <3>1. left = <<>> \o left
      OBVIOUS
    <3> QED
      BY <2>5, <2>8, <3>1 DEF Fits
  <2> HIDE DEF f, v
  <2>11. Answered(c, s, u, f)
    BY Zenon, <1>1, <1>2, <1>3, <2>1, <2>2, <2>5, <2>6, <2>8, <2>9, <2>10 DEF CurAnswers, Answered
  <2> QED
    BY <1>2, <2>11, CursorAnswered
<1>4. CASE /\ CurRefuses(g, c, s) /\ Fail(c)
           /\ SetCur(c, s, [Cur(c, s) EXCEPT !.pc = "failed"])
  BY <1>1, <1>2, <1>4, CursorFails
<1> QED
  BY <1>1, <1>3, <1>4 DEF x_filter

LEMMA NextStep ==
    ASSUME BaseInv, ScanInv, NEW c \in Conns, NEW s \in Slots, x_next(c, s)
    PROVE  CursorKept(c)
<1>1. PICK g : g = TableGuest(c)
  OBVIOUS
<1>2. /\ InScan(c) /\ cur[c][s].pc = "read"
      /\ UNCHANGED <<HOST, GLOBALS, loaded, next, db, grp, seen>>
  BY Zenon DEF x_next, Scanning, Busy, InScan, Cur
<1>3. CASE /\ CurAnswers(g, c, s) /\ UNCHANGED task
           /\ guests' = [guests EXCEPT ![g].cur[Cur(c, s).id].left = Tail(@)]
           /\ SetCur(c, s, [Cur(c, s) EXCEPT !.pc = "at"])
  <2>1. PICK id : id = cur[c][s].id
    OBVIOUS
  <2>2. /\ g \in DOMAIN guests /\ guests[g].cur \in Partial(Positions)
        /\ id \in DOMAIN guests[g].cur /\ id \in Nat /\ id # 0
        /\ guests[g].cur[id].inst = Vtab(c).inst /\ guests[g].cur[id] \in Positions
        /\ Reads(c, s, guests[g].cur[id])
    BY <1>1, <1>2, <1>3, <2>1, CursorKnown DEF CurAnswers
  <2>3. PICK old \in Seq(Nat) : old = guests[g].cur[id].left
    BY <2>2 DEF Positions
  <2>4. old # <<>> /\ cur[c][s].want = cur[c][s].got \o Tail(old)
    BY Zenon, <1>2, <2>2, <2>3 DEF Reads
  <2>5. PICK left \in Seq(Nat) : left = Tail(old)
    <3>1. Tail(old) \in Seq(Nat)
      BY <2>4
    <3> QED
      BY Zenon, <3>1
  <2> DEFINE v == [guests[g].cur[id] EXCEPT !.left = left]
             f == [guests[g].cur EXCEPT ![id] = v]
  <2>6. /\ v \in Positions /\ v.inst = guests[g].cur[id].inst /\ v.left = left
        /\ f \in Partial(Positions) /\ DOMAIN f = DOMAIN guests[g].cur /\ f[id] = v
        /\ \A j \in DOMAIN guests[g].cur : j # id => f[j] = guests[g].cur[j]
    BY <2>2, NewPosition
  <2>7. guests' = [guests EXCEPT ![g].cur = f]
    BY Zenon, <1>3, <2>1, <2>3, <2>5 DEF Cur
  <2>8. PICK u : u = [cur[c][s] EXCEPT !.pc = "at"]
    BY Zenon
  <2>9. /\ u.id = id /\ u.pc = "at" /\ u.want = cur[c][s].want /\ u.got = cur[c][s].got
        /\ u \in CursorT
    <3>1. cur[c][s] \in CursorT
      BY Zenon, CursorRecord
    <3> QED
      BY Zenon, <2>1, <2>8, <3>1 DEF CursorT, CursorPcs
  <2>10. cur' = [cur EXCEPT ![c][s] = u]
    BY <1>3, <2>8 DEF SetCur, Cur
  <2>11. Fits(u, v)
    BY <2>4, <2>5, <2>6, <2>9 DEF Fits
  <2> HIDE DEF f, v
  <2>12. Answered(c, s, u, f)
    BY Zenon, <1>1, <1>2, <1>3, <2>1, <2>2, <2>6, <2>7, <2>9, <2>10, <2>11 DEF CurAnswers, Answered
  <2> QED
    BY <1>2, <2>12, CursorAnswered
<1>4. CASE /\ CurRefuses(g, c, s) /\ Fail(c)
           /\ SetCur(c, s, [Cur(c, s) EXCEPT !.pc = "failed"])
  BY <1>1, <1>2, <1>4, CursorFails
<1> QED
  BY <1>1, <1>3, <1>4 DEF x_next

LEMMA GoneCursor ==
    LET u == [NoCursor EXCEPT !.pc = "done"] IN
    /\ NoCursor \in CursorT /\ NoCursor.id = 0 /\ NoCursor.pc = "closed"
    /\ u \in CursorT /\ u.id = 0 /\ u.pc = "done"
<1>1. <<>> \in Seq(Nat)
  OBVIOUS
<1> QED
  BY Zenon, <1>1 DEF NoCursor, CursorT, CursorPcs

LEMMA CloseStep ==
    ASSUME BaseInv, ScanInv, NEW c \in Conns, NEW s \in Slots, x_close(c, s)
    PROVE  CursorKept(c)
<1>1. PICK g : g = TableGuest(c)
  OBVIOUS
<1>2. PICK u : u = [NoCursor EXCEPT !.pc = "done"]
  BY Zenon
<1>3. /\ InScan(c) /\ cur[c][s].pc \notin {"closed", "done"}
      /\ UNCHANGED <<HOST, GLOBALS, loaded, next, db, task, grp, seen>>
      /\ cur' = [cur EXCEPT ![c][s] = u]
  BY <1>2 DEF x_close, Busy, InScan, Cur, SetCur
<1>4. u \in CursorT /\ u.id = 0 /\ u.pc = "done"
  BY <1>2, GoneCursor
<1>5. /\ cur \in [Conns -> [Slots -> CursorT]] /\ task \in [Conns -> TaskT]
      /\ next \in [inst : Nat, cur : Nat] /\ next.cur # 0 /\ guests \in Seq(GuestT)
  BY DEF BaseInv, Types, HostTypes, ConnTypes
<1>6. PICK id : id = cur[c][s].id
  OBVIOUS
<1>7. id \in Nat /\ id # 0
  BY Zenon, <1>3, <1>6, CursorRecord DEF ScanInv, CurIds
<1>8. CASE CurAnswers(g, c, s) /\ guests' = [guests EXCEPT ![g].cur = Drop(@, Cur(c, s).id)]
  <2>1. g \in DOMAIN guests /\ guests[g].cur \in Partial(Positions)
    BY <1>1, <1>3, <1>6, <1>8, CursorKnown DEF CurAnswers
  <2> DEFINE f == Drop(guests[g].cur, id)
  <2>2. /\ f \in Partial(Positions) /\ DOMAIN f \subseteq DOMAIN guests[g].cur
        /\ \A j \in DOMAIN f : f[j] = guests[g].cur[j]
    <3>1. f \in Partial(Positions)
      BY <2>1, DropType
    <3>2. DOMAIN f \subseteq DOMAIN guests[g].cur /\ \A j \in DOMAIN f : f[j] = guests[g].cur[j]
      BY DEF Drop
    <3> QED
      BY <3>1, <3>2
  <2>3. guests' = [guests EXCEPT ![g].cur = f]
    BY <1>6, <1>8 DEF Cur
  <2>4. 0 \notin DOMAIN f
    BY <2>1, <2>2 DEF ScanInv, CurIds
  <2> HIDE DEF f
  <2>5. Answered(c, s, u, f)
    BY Zenon, <1>1, <1>3, <1>4, <1>6, <1>8, <2>2, <2>3, <2>4 DEF Answered, CurAnswers
  <2> QED
    BY <1>3, <2>5, CursorAnswered
<1>9. CASE CurRefuses(g, c, s)
  <2>1. Unmoved /\ faults' \in 0..MaxFaults
    BY <1>1, <1>3, <1>9, TableGuestIs, Refusal DEF InScan, BaseInv
  <2>2. CursorMoves(c, s, id, u)
    BY <1>3, <1>4, <1>5, <1>6, <1>7, <2>1 DEF CursorMoves, Unmoved, SameCur
  <2>3. cur'[c][s] = u /\ DOMAIN guests' = DOMAIN guests
        /\ \A k \in DOMAIN guests : guests'[k].cur = guests[k].cur
    BY <1>3, <1>5, <2>1 DEF Unmoved, SameGuests, SameCur
  <2>4. Scanned(c, s)'
    BY <1>4, <2>3 DEF Scanned, ScanInv, CurIds
  <2> QED
    BY <1>3, <2>2, <2>4, CursorMoved DEF CursorKept
<1> QED
  BY <1>1, <1>8, <1>9 DEF x_close

LEMMA OpenStep ==
    ASSUME BaseInv, TableInv, ScanInv, NEW c \in Conns, NEW s \in Slots, x_open(c, s)
    PROVE  CursorKept(c)
<1>1. PICK g : g = TableGuest(c)
  OBVIOUS
<1>2. PICK id : id = next.cur
  OBVIOUS
<1>3. /\ InScan(c) /\ cur[c][s].pc = "closed" /\ next' = [next EXCEPT !.cur = @ + 1]
      /\ UNCHANGED <<HOST, GLOBALS, loaded, db, grp, seen>>
  BY DEF x_open, Scanning, Busy, InScan, Cur
<1>4. /\ cur \in [Conns -> [Slots -> CursorT]] /\ task \in [Conns -> TaskT]
      /\ next \in [inst : Nat, cur : Nat] /\ next.cur # 0 /\ next.inst # 0
      /\ guests \in Seq(GuestT) /\ faults \in 0..MaxFaults
  BY DEF BaseInv, Types, HostTypes, ConnTypes
<1>5. /\ id \in Nat /\ id # 0 /\ next' \in [inst : Nat, cur : Nat] /\ next'.inst = next.inst
      /\ next'.cur = next.cur + 1 /\ next'.cur # 0
  BY <1>2, <1>3, <1>4, Counted
<1>6. \A k \in DOMAIN guests : id \notin DOMAIN guests[k].cur /\ 0 \notin DOMAIN guests[k].cur
  <2> SUFFICES ASSUME NEW k \in DOMAIN guests, NEW j \in DOMAIN guests[k].cur
               PROVE  j # id /\ j # 0
    OBVIOUS
  <2>1. j < next.cur /\ j # 0
    BY DEF ScanInv, CurIds
  <2>2. j \in Nat
    BY <1>4, ReadType, GuestOf DEF GuestT
  <2> QED
    BY <1>2, <1>5, <2>1, <2>2
<1>7. cur[c][s].id = 0
  BY <1>3 DEF ScanInv, CurIds
<1>8. task[c].todo # <<>> /\ Vtab(c) # NoVtab
  BY <1>3 DEF InScan, BaseInv, Place
<1>9. CASE /\ InstAnswers(g, c)
           /\ guests' = [guests EXCEPT
                            ![g].cur = Put(@, id, [inst |-> Vtab(c).inst, left |-> <<>>])]
           /\ SetCur(c, s, [NoCursor EXCEPT !.pc = "open", !.id = id])
           /\ UNCHANGED task
  <2>1. g \in DOMAIN guests /\ Vtab(c).gen = g
    BY <1>1, <1>8, <1>9, AnsweringGuest DEF InstAnswers
  <2>2. guests[g].cur \in Partial(Positions)
    BY <1>4, <2>1, GuestOf DEF GuestT
  <2>3. PICK v \in Positions : v = [inst |-> Vtab(c).inst, left |-> <<>>]
    <3>1. Vtab(c) \in VtabT /\ <<>> \in Seq(Nat)
      BY <1>8, VtabIs DEF BaseInv
    <3> QED
      BY Zenon, <3>1 DEF Positions, VtabT
  <2> DEFINE f == Put(guests[g].cur, id, v)
  <2>4. /\ f \in Partial(Positions) /\ DOMAIN f = DOMAIN guests[g].cur \cup {id} /\ f[id] = v
        /\ \A j \in DOMAIN guests[g].cur : j # id => f[j] = guests[g].cur[j]
    <3>1. f \in Partial(Positions)
      BY <1>5, <2>2, PutType
    <3>2. /\ DOMAIN f = DOMAIN guests[g].cur \cup {id} /\ f[id] = v
          /\ \A j \in DOMAIN guests[g].cur : j # id => f[j] = guests[g].cur[j]
      BY Zenon DEF Put
    <3> QED
      BY <3>1, <3>2
  <2>5. guests' = [guests EXCEPT ![g].cur = f]
    BY <1>9, <2>3
  <2> HIDE DEF f
  <2>6. /\ SameGuests /\ SameAcc /\ SameInst /\ guests'[g].cur = f
        /\ \A i \in DOMAIN guests : i # g => guests'[i].cur = guests[i].cur
    BY Zenon, <1>4, <2>1, <2>4, <2>5, SetCurs
  <2>7. faults' \in 0..MaxFaults
    BY <1>4, <1>9, FaultCounted DEF InstAnswers
  <2>8. PICK u : u = [NoCursor EXCEPT !.pc = "open", !.id = id]
    OBVIOUS
  <2>9. u \in CursorT /\ u.id = id /\ u.pc = "open"
    <3>1. <<>> \in Seq(Nat)
      OBVIOUS
    <3> QED
      BY Zenon, <1>5, <2>8, <3>1 DEF NoCursor, CursorT, CursorPcs
  <2>10. cur' = [cur EXCEPT ![c][s] = u]
    BY <1>9, <2>8 DEF SetCur
  <2>11. CursorMoves(c, s, id, u)
    <3>1. \A k \in DOMAIN guests : \A j \in DOMAIN guests'[k].cur :
             j # id => j \in DOMAIN guests[k].cur /\ guests'[k].cur[j] = guests[k].cur[j]
      BY <2>4, <2>6
    <3> QED
      BY <1>2, <1>3, <1>4, <1>5, <1>9, <2>6, <2>7, <2>9, <2>10, <3>1 DEF CursorMoves
  <2>12. Scanned(c, s)'
    <3>1. cur'[c][s] = u /\ Vtab(c)' = Vtab(c) /\ DOMAIN guests' = DOMAIN guests
      BY <1>3, <1>4, <1>9, <2>6, <2>10 DEF Vtab, Stmt, SameGuests
    <3> SUFFICES ASSUME NEW k \in DOMAIN guests, id \in DOMAIN guests'[k].cur
                 PROVE  guests'[k].cur[id].inst = Vtab(c).inst /\ k = Vtab(c).gen
      BY Zenon, <2>9, <3>1 DEF Scanned, Reads
    <3>2. k = g
      BY <1>6, <2>6
    <3> QED
      BY <2>1, <2>3, <2>4, <2>6, <3>2
  <2> QED
    BY <1>3, <2>11, <2>12, CursorMoved DEF CursorKept
<1>10. CASE InstRefuses(g, c) /\ Fail(c) /\ UNCHANGED cur
  <2>1. Unmoved /\ faults' \in 0..MaxFaults
    BY Zenon, <1>1, <1>8, <1>10, TableGuestIs, Refusal DEF BaseInv
  <2>2. PICK u : u = cur[c][s]
    OBVIOUS
  <2>3. u \in CursorT /\ u.id = 0 /\ u.pc = "closed" /\ cur' = [cur EXCEPT ![c][s] = u]
    BY <1>3, <1>4, <1>7, <1>10, <2>2
  <2>4. CursorMoves(c, s, id, u)
    <3>1. /\ task' \in [Conns -> TaskT] /\ \A d \in Conns \ {c} : task'[d] = task[d]
          /\ task'[c].todo = task[c].todo /\ task'[c].pc = task[c].pc
      BY <1>4, <1>10, FailEffect
    <3> QED
      BY <1>2, <1>3, <1>5, <2>1, <2>3, <3>1 DEF CursorMoves, Unmoved, SameCur
  <2>5. Scanned(c, s)'
    <3>1. cur'[c][s] = u /\ DOMAIN guests' = DOMAIN guests
          /\ \A k \in DOMAIN guests : guests'[k].cur = guests[k].cur
      BY <1>4, <1>10, <2>1, <2>2 DEF Unmoved, SameGuests, SameCur
    <3> QED
      BY <1>6, <2>3, <3>1 DEF Scanned
  <2> QED
    BY <1>3, <2>4, <2>5, CursorMoved DEF CursorKept
<1> QED
  BY <1>1, <1>2, <1>9, <1>10 DEF x_open, alloc_cursor_id

LEMMA ScanEndStep ==
    ASSUME BaseInv, ScanInv, NEW c \in Conns, ScanEnd(c)
    PROVE  CursorKept(c)
<1>1. /\ InScan(c) /\ End(c) /\ \A s \in Slots : cur[c][s].pc \in {"closed", "done"}
      /\ UNCHANGED <<HOST, GLOBALS, loaded, guests, next, db, grp, faults, seen>>
      /\ cur' = [cur EXCEPT ![c] = [s \in Slots |-> NoCursor]]
  BY DEF ScanEnd, Busy, InScan, Cur
<1>2. /\ cur \in [Conns -> [Slots -> CursorT]] /\ task \in [Conns -> TaskT]
      /\ guests \in Seq(GuestT) /\ faults \in 0..MaxFaults /\ NoCursor \in CursorT
      /\ NoCursor.id = 0 /\ NoCursor.pc = "closed" /\ next.cur \in Nat /\ next.cur # 0
  BY GoneCursor DEF BaseInv, Types, HostTypes, ConnTypes
<1>3. /\ cur' \in [Conns -> [Slots -> CursorT]]
      /\ \A d \in Conns, t \in Slots : cur'[d][t] = IF d = c THEN NoCursor ELSE cur[d][t]
  BY <1>1, <1>2
<1>4. task' \in [Conns -> TaskT] /\ \A d \in Conns \ {c} : task'[d] = task[d]
  BY <1>1, <1>2, EndEffect DEF InScan
<1>5. Types'
  BY <1>1, <1>3, <1>4 DEF BaseInv, Types, HostTypes, ConnTypes
<1>6. BaseInv' /\ QuietTables(c) /\ QuietGroups(c)
  <2>1. SameGuests /\ SameAcc /\ SameInst
    BY <1>1, <1>2, UnchangedGuests DEF Unmoved
  <2> QED
    BY <1>1, <1>4, <1>5, <2>1, ScanBase
<1>7. \A t \in Slots : cur[c][t].id = 0
  BY <1>1 DEF ScanInv, CurIds
<1>8. CurIds'
  <2>1. ASSUME NEW d \in Conns, NEW t \in Slots
        PROVE  /\ cur'[d][t] # NoCursor => task'[d].pc = "scan"
               /\ cur'[d][t].pc \in {"closed", "done"} <=> cur'[d][t].id = 0
               /\ cur'[d][t].id < next.cur
    <3>1. CASE d = c
      BY <1>2, <1>3, <3>1
    <3>2. CASE d # c
      <4>1. cur'[d][t] = cur[d][t] /\ task'[d] = task[d]
        BY <1>3, <1>4, <3>2
      <4> QED
        BY <4>1 DEF ScanInv, CurIds
    <3> QED
      BY <3>1, <3>2
  <2>2. ASSUME NEW a \in Conns, NEW b \in Conns, NEW x \in Slots, NEW y \in Slots,
               cur'[a][x].id = cur'[b][y].id, cur'[a][x].id # 0
        PROVE  a = b /\ x = y
    <3>1. cur[a][x].id = cur[b][y].id /\ cur[a][x].id # 0
      BY <1>2, <1>3, <2>2
    <3> QED
      BY <3>1 DEF ScanInv, CurIds
  <2>3. \A k \in DOMAIN guests : \A j \in DOMAIN guests[k].cur : j # 0 /\ j < next.cur
    BY DEF ScanInv, CurIds
  <2> QED
    BY <1>1, <2>1, <2>2, <2>3 DEF CurIds
<1>9. ASSUME NEW d \in Conns, NEW t \in Slots PROVE Scanned(d, t)'
  <2>1. CASE d = c
    <3>1. cur'[d][t].id = 0 /\ \A k \in DOMAIN guests : 0 \notin DOMAIN guests[k].cur
      BY <1>2, <1>3, <2>1 DEF ScanInv, CurIds
    <3> QED
      BY <1>1, <3>1 DEF Scanned
  <2>2. CASE d # c
    <3>1. cur'[d][t] = cur[d][t] /\ Vtab(d)' = Vtab(d) /\ guests' = guests
      BY <1>1, <1>3, <1>4, <2>2 DEF Vtab, Stmt
    <3>2. Scanned(d, t)
      BY DEF ScanInv
    <3> QED
      BY Zenon, <3>1, <3>2 DEF Scanned, Reads
  <2> QED
    BY <2>1, <2>2
<1> QED
  BY <1>1, <1>6, <1>8, <1>9 DEF ScanInv, CursorKept

-----------------------------------------------------------------------------
(* The callbacks of aggregates leave tables and cursors alone.              *)
GroupFrame(c) ==
    /\ task[c].todo # <<>> /\ Stmt(c).op \in {"group", "window"}
    /\ task[c].pc \in {"idle", "group"} /\ task'[c].pc \in {"idle", "group"}
    /\ OthersKept(c) /\ db'[c].vtab = db[c].vtab
    /\ UNCHANGED <<HOST, GLOBALS, loaded, next, cur>>
    /\ SameGuests /\ SameInst /\ SameCur
GroupKept(c) == BaseInv' /\ QuietTables(c) /\ QuietScans(c) /\ GroupInv' /\ SeenInv'

LEMMA GroupQuiet ==
    ASSUME BaseInv, Types', NEW c \in Conns, GroupFrame(c), SameRegistered(c), Own(c)'
    PROVE  BaseInv' /\ QuietTables(c) /\ QuietScans(c)
<1>1. /\ DOMAIN guests' = 1..Len(guests') /\ DOMAIN guests = 1..Len(guests) /\ Grown
      /\ Len(guests') = Len(guests) /\ DOMAIN guests' = DOMAIN guests
      /\ \A i \in DOMAIN guests : guests'[i].inst = guests[i].inst /\ guests'[i].cur = guests[i].cur
  BY DEF GroupFrame, SameGuests, SameInst, SameCur, Grown, BaseInv, Types
<1>2. next.inst \in Nat /\ next.cur \in Nat
  BY DEF BaseInv, Types, HostTypes
<1>3. BaseInv'
  <2>1. \A e \in Exts : db'[c].vtab[e] # NoVtab => e \in db[c].module
    BY DEF BaseInv, Behind, GroupFrame
  <2> QED
    BY <1>1, <2>1, QuietBase DEF GroupFrame
<1>4. QuietTables(c)
  <2>1. \A d \in Conns, f \in Exts : Table(d, f)' = Table(d, f)
    BY DEF GroupFrame, OthersKept, Table
  <2>2. \A f \in Exts : Guest(GLOBALS, f)' = Guest(GLOBALS, f)
    BY DEF GroupFrame, Guest
  <2> QED
    BY <1>1, <1>2, <2>1, <2>2 DEF QuietTables, GroupFrame, OthersKept
<1>5. QuietScans(c)
  BY <1>1, <1>2 DEF QuietScans, GroupFrame, OthersKept
<1> QED
  BY <1>3, <1>4, <1>5

LEMMA InGroupFacts ==
    ASSUME BaseInv, NEW c \in Conns, NEW s \in Slots, InGroup(c, s)
    PROVE  LET e == Stmt(c).ext IN
           /\ task[c].todo # <<>> /\ Stmt(c).op \in {"group", "window"} /\ task[c].pc = "group"
           /\ e \in Exts /\ ~grp[c][s].done
           /\ AggGuest(c) \in 0..Len(guests)
           /\ AggGuest(c) # 0 => AggGuest(c) = Guest(HOST, e) /\ AggGuest(c) \in DOMAIN guests
           /\ db[c].agg[e] # NoAgg /\ db[c].agg[e].next_id \in Nat /\ db[c].agg[e].next_id # 0
<1>1. /\ task[c].todo # <<>> /\ Stmt(c).op \in {"group", "window"} /\ task[c].pc = "group"
      /\ ~grp[c][s].done
  BY DEF InGroup, Doing
<1>2. PICK e \in Exts : e = Stmt(c).ext
  BY <1>1, StmtIs DEF BaseInv, Types, ConnTypes
<1>3. db[c].agg[e] # NoAgg
  BY <1>1, <1>2 DEF BaseInv, Place
<1>4. db[c].agg[e].host = HOST /\ db[c].agg[e].next_id # 0
  BY <1>3 DEF BaseInv, Behind
<1>5. db[c].agg[e].next_id \in Nat
  BY DEF BaseInv, Types, ConnTypes, DbT, AggT
<1>6. AggGuest(c) = 0 \/ AggGuest(c) = Guest(HOST, e)
  BY <1>2, <1>4 DEF AggGuest
<1>7. AggGuest(c) # 0 => AggGuest(c) \in DOMAIN guests
  BY <1>6, HostGuest
<1>8. AggGuest(c) \in 0..Len(guests)
  BY <1>7 DEF BaseInv, Types
<1> QED
  BY <1>1, <1>2, <1>3, <1>4, <1>5, <1>6, <1>7, <1>8

(* A callback of the group of slot s: its id stays, or is a new one.        *)
GroupStep(c, s) ==
    /\ \A d \in Conns : task'[d].todo = task[d].todo /\ task'[d].pc = task[d].pc
    /\ OthersKept(c) /\ UNCHANGED <<HOST, loaded>>
    /\ \A e \in Exts : db'[c].agg[e].next_id >= db[c].agg[e].next_id
    /\ \A d \in Conns, t \in Slots : d # c \/ t # s => grp'[d][t].id = grp[d][t].id
    /\ \/ grp'[c][s].id = grp[c][s].id
       \/ LET e == Stmt(c).ext IN
          /\ grp[c][s].id = 0 /\ grp'[c][s].id = db[c].agg[e].next_id
          /\ db'[c].agg[e].next_id = db[c].agg[e].next_id + 1

LEMMA SteppedRow ==
    ASSUME BaseInv, Types', NEW c \in Conns, NEW s \in Slots, InGroup(c, s), GroupStep(c, s),
           NEW e \in Exts, NEW id \in Nat \ {0}, NEW r \in Rows, KnownRow(e, id, r),
           <<r[1], r[2], r[3]>> \in db'[r[1]].open
    PROVE  KnownRow(e, id, r)'
<1>1. r[1] \in Conns /\ r[2] \in Nat /\ r[3] \in Slots
  BY DEF Rows
<1>2. PICK d \in Conns : d = r[1]
  BY <1>1
<1>3. /\ id < db[d].agg[e].next_id /\ r[2] >= Level(d)
      /\ task[d].todo # <<>> => Stmt(d).op # "attach"
      /\ task[d].pc = "group" /\ r[2] = Len(task[d].todo) =>
            Stmt(d).ext = e /\ grp[d][r[3]].id = id
      /\ \A t \in Slots : Grouping(d, e) /\ grp[d][t].id = id => IsOf(r, d, t)
  BY <1>2 DEF KnownRow
<1>4. task'[d].todo = task[d].todo /\ task'[d].pc = task[d].pc /\ Stmt(d)' = Stmt(d)
  BY DEF GroupStep, Stmt
<1>5. Level(d)' = Level(d) /\ Grouping(d, e)' = Grouping(d, e)
      /\ \A t \in Slots : IsOf(r, d, t)' = IsOf(r, d, t)
  BY <1>4 DEF Level, Grouping, IsOf
<1>6. id < db'[d].agg[e].next_id
  <2>1. db[d].agg[e].next_id \in Nat /\ db'[d].agg[e].next_id \in Nat
    BY DEF BaseInv, Types, ConnTypes, DbT, AggT
  <2>2. db'[d].agg[e].next_id >= db[d].agg[e].next_id
    BY <2>1 DEF GroupStep, OthersKept
  <2> QED
    BY <1>3, <2>1, <2>2
<1>7. ASSUME NEW t \in Slots PROVE grp'[d][t].id = grp[d][t].id \/
         (d = c /\ t = s /\ grp[c][s].id = 0 /\ grp'[c][s].id = db[c].agg[Stmt(c).ext].next_id)
  BY DEF GroupStep
<1>8. task[d].pc = "group" /\ r[2] = Len(task[d].todo) => Stmt(d).ext = e /\ grp'[d][r[3]].id = id
  BY <1>1, <1>3, <1>7
<1>9. ASSUME NEW t \in Slots, Grouping(d, e), grp'[d][t].id = id PROVE IsOf(r, d, t)
  <2>1. CASE grp'[d][t].id = grp[d][t].id
    BY <1>3, <1>9, <2>1
  <2>2. CASE d = c /\ grp'[d][t].id = db[c].agg[Stmt(c).ext].next_id
    <3>1. id = db[d].agg[e].next_id
      BY <1>9, <2>2 DEF Grouping
    <3>2. db[d].agg[e].next_id \in Nat
      BY DEF BaseInv, Types, ConnTypes, DbT, AggT
    <3> QED
      BY <1>3, <3>1, <3>2
  <2> QED
    BY <1>7, <2>1, <2>2
<1> QED
  BY <1>2, <1>3, <1>4, <1>5, <1>6, <1>8, <1>9 DEF KnownRow

(* The rows of the guests after a step are rows they had, of groups that    *)
(* are still open, or rows of the group that was stepped.                   *)
StepRow(c, s, e, id, r) ==
    e = Stmt(c).ext /\ id = grp'[c][s].id /\ IsOf(r, c, s) /\ Tag(c, s) \in db'[c].open
StillOpen(r) == <<r[1], r[2], r[3]>> \in db'[r[1]].open
RowsFrom(c, s, e, g) ==
    \A id \in DOMAIN guests'[g].acc :
        /\ id # 0
        /\ \A i \in DOMAIN guests'[g].acc[id] :
              \/ StepRow(c, s, e, id, guests'[g].acc[id][i])
              \/ /\ KnownRow(e, id, guests'[g].acc[id][i])
                 /\ StillOpen(guests'[g].acc[id][i])

LEMMA NewRow ==
    ASSUME BaseInv, Types', NEW c \in Conns, NEW s \in Slots, InGroup(c, s), GroupStep(c, s),
           GroupIds(c)', NEW e \in Exts, NEW id \in Nat \ {0}, NEW r, StepRow(c, s, e, id, r)
    PROVE  KnownRow(e, id, r)'
<1>1. /\ e = Stmt(c).ext /\ id = grp'[c][s].id /\ r[1] = c /\ r[2] = Len(task[c].todo) /\ r[3] = s
      /\ <<c, Len(task[c].todo), s>> \in db'[c].open
  BY DEF StepRow, IsOf, Tag
<1>2. task'[c].todo = task[c].todo /\ task'[c].pc = "group" /\ Stmt(c)' = Stmt(c)
      /\ Stmt(c).op \in {"group", "window"}
  BY Zenon, InGroupFacts DEF GroupStep, Stmt
<1>3. id < db'[c].agg[e].next_id
  BY <1>1, <1>2 DEF GroupIds
<1>4. Level(c)' = Len(task[c].todo) /\ Len(task[c].todo) \in Nat
  BY <1>2 DEF Level, BaseInv, Types, ConnTypes, TaskT
<1>5. \A t \in Slots : grp'[c][t].id = id => t = s
  BY <1>1 DEF GroupIds
<1> QED
  BY <1>1, <1>2, <1>3, <1>4, <1>5 DEF KnownRow, IsOf

LEMMA SteppedRows ==
    ASSUME BaseInv, Types', NEW c \in Conns, NEW s \in Slots, InGroup(c, s), GroupStep(c, s),
           SameGuests, GroupIds(c)',
           \A e \in Exts : Guest(HOST, e) # 0 => RowsFrom(c, s, e, Guest(HOST, e))
    PROVE  GuestRows'
<1> SUFFICES ASSUME NEW e \in Exts, Guest(HOST, e)' # 0 PROVE Kept(Guest(HOST, e), e)'
  BY DEF GuestRows
<1>1. PICK g : g = Guest(HOST, e)
  OBVIOUS
<1>2. Guest(HOST, e)' = g
  BY <1>1 DEF GroupStep, Guest
<1>3. g \in DOMAIN guests' /\ RowsFrom(c, s, e, g)
  BY <1>1, <1>2, HostGuest DEF SameGuests, BaseInv, Types
<1>4. guests'[g].acc \in Partial(Seq(Rows))
  <2>1. guests'[g] \in GuestT
    BY <1>3 DEF SameGuests
  <2> QED
    BY <2>1 DEF GuestT
<1>5. ASSUME NEW id \in DOMAIN guests'[g].acc
      PROVE  id # 0 /\ \A i \in DOMAIN guests'[g].acc[id] : KnownRow(e, id, guests[g].acc[id][i])'
  <2>1. id # 0 /\ id \in Nat /\ guests'[g].acc[id] \in Seq(Rows)
    BY <1>3, <1>4, ReadType DEF RowsFrom
  <2>2. ASSUME NEW i \in DOMAIN guests'[g].acc[id] PROVE KnownRow(e, id, guests[g].acc[id][i])'
    <3>1. PICK r \in Rows : r = guests'[g].acc[id][i]
      BY <2>1
    <3>2. StepRow(c, s, e, id, r) \/ (KnownRow(e, id, r) /\ StillOpen(r))
      BY <1>3, <3>1 DEF RowsFrom
    <3>3. KnownRow(e, id, r)'
      BY Zenon, <2>1, <3>2, NewRow, SteppedRow DEF StillOpen
    <3> QED
      BY Zenon, <3>1, <3>3 DEF KnownRow
  <2> QED
    BY <2>1, <2>2
<1> QED
  BY <1>2, <1>5 DEF Kept

(* The rows that were there.                                                *)
LEMMA KnownRows ==
    ASSUME BaseInv, GroupInv, NEW e \in Exts, Guest(HOST, e) # 0,
           NEW id \in DOMAIN guests[Guest(HOST, e)].acc
    PROVE  /\ id \in Nat \ {0} /\ guests[Guest(HOST, e)].acc[id] \in Seq(Rows)
           /\ \A i \in DOMAIN guests[Guest(HOST, e)].acc[id] :
                 /\ KnownRow(e, id, guests[Guest(HOST, e)].acc[id][i])
                 /\ guests[Guest(HOST, e)].acc[id][i] \in Rows
<1>1. PICK g : g = Guest(HOST, e)
  OBVIOUS
<1>2. g \in DOMAIN guests /\ Kept(g, e)
  BY <1>1, HostGuest DEF GroupInv, GuestRows
<1>3. /\ id \in Nat /\ guests[g].acc[id] \in Seq(Rows)
      /\ \A i \in DOMAIN guests[g].acc[id] : guests[g].acc[id][i] \in Rows
  BY <1>1, <1>2, KeptRows
<1>4. id # 0 /\ \A i \in DOMAIN guests[g].acc[id] : KnownRow(e, id, guests[g].acc[id][i])
  BY <1>1, <1>2 DEF Kept
<1> QED
  BY <1>1, <1>3, <1>4

(* A step that leaves the rows of the guests, and every group open.         *)
LEMMA SameRows ==
    ASSUME BaseInv, GroupInv, NEW c \in Conns, NEW s \in Slots, OthersKept(c),
           db[c].open \subseteq db'[c].open, NEW e \in Exts, Guest(HOST, e) # 0,
           guests'[Guest(HOST, e)].acc = guests[Guest(HOST, e)].acc
    PROVE  RowsFrom(c, s, e, Guest(HOST, e))
<1>1. PICK g : g = Guest(HOST, e)
  OBVIOUS
<1>2. ASSUME NEW id \in DOMAIN guests[g].acc
      PROVE  /\ id # 0
             /\ \A i \in DOMAIN guests[g].acc[id] :
                   KnownRow(e, id, guests[g].acc[id][i]) /\ StillOpen(guests[g].acc[id][i])
  <2>1. /\ id # 0 /\ \A i \in DOMAIN guests[g].acc[id] :
              KnownRow(e, id, guests[g].acc[id][i]) /\ guests[g].acc[id][i] \in Rows
    BY <1>1, <1>2, KnownRows
  <2>2. ASSUME NEW r \in Rows, KnownRow(e, id, r) PROVE StillOpen(r)
    <3>1. r[1] \in Conns /\ <<r[1], r[2], r[3]>> \in db[r[1]].open
      BY <2>2 DEF KnownRow, Rows
    <3> QED
      BY <3>1 DEF StillOpen, OthersKept
  <2> QED
    BY <2>1, <2>2
<1> QED
  BY <1>1, <1>2 DEF RowsFrom

(* Ids stay below their counter and apart.                                  *)
LEMMA SteppedIds ==
    ASSUME BaseInv, GroupInv, Types', NEW c \in Conns, NEW s \in Slots, InGroup(c, s),
           GroupStep(c, s), NEW d \in Conns
    PROVE  /\ \A t \in Slots : grp'[d][t].id # 0 => grp'[d][t].id < db'[d].agg[Stmt(d).ext].next_id
           /\ \A t, u \in Slots : grp'[d][t].id = grp'[d][u].id /\ grp'[d][t].id # 0 => t = u
<1>1. /\ \A t \in Slots : grp[d][t].id # 0 => grp[d][t].id < db[d].agg[Stmt(d).ext].next_id
      /\ \A t, u \in Slots : grp[d][t].id = grp[d][u].id /\ grp[d][t].id # 0 => t = u
  BY DEF GroupInv, GroupIds
<1>2. \A t \in Slots : grp[d][t].id \in Nat
  BY GroupIs
<1>3. ASSUME NEW t \in Slots, grp[d][t].id # 0
      PROVE  Stmt(d).ext \in Exts
  <2>1. grp[d][t] # NoGroup
    BY <1>3 DEF NoGroup
  <2>2. task[d].pc = "group" /\ task[d].todo # <<>>
    BY <2>1 DEF GroupInv, GroupIds, BaseInv, Place
  <2> QED
    BY <2>2, StmtIs DEF BaseInv, Types, ConnTypes
<1>4. \A e \in Exts : /\ db[d].agg[e].next_id \in Nat /\ db'[d].agg[e].next_id \in Nat
                      /\ db'[d].agg[e].next_id >= db[d].agg[e].next_id
  <2>1. \A e \in Exts : db[d].agg[e].next_id \in Nat /\ db'[d].agg[e].next_id \in Nat
    BY DEF BaseInv, Types, ConnTypes, DbT, AggT
  <2> QED
    BY <2>1 DEF GroupStep, OthersKept
<1>5. CASE \A t \in Slots : grp'[d][t].id = grp[d][t].id
  <2>1. ASSUME NEW t \in Slots, grp[d][t].id # 0
        PROVE  grp[d][t].id < db'[d].agg[Stmt(d).ext].next_id
    BY <1>1, <1>2, <1>3, <1>4, <2>1
  <2> QED
    BY <1>1, <1>5, <2>1
<1>6. CASE /\ d = c /\ grp'[c][s].id = db[c].agg[Stmt(c).ext].next_id
           /\ db'[c].agg[Stmt(c).ext].next_id = db[c].agg[Stmt(c).ext].next_id + 1
           /\ \A t \in Slots : t # s => grp'[c][t].id = grp[c][t].id
  <2>1. PICK n \in Nat : n = db[c].agg[Stmt(c).ext].next_id
    BY InGroupFacts
  <2>2. \A t \in Slots : grp[c][t].id < n \/ (grp[c][t].id = 0 /\ n # 0)
    BY <1>1, <1>6, <2>1, InGroupFacts
  <2>3. grp'[c][s].id = n /\ db'[c].agg[Stmt(c).ext].next_id = n + 1
    BY <1>6, <2>1
  <2>4. ASSUME NEW t \in Slots, grp'[c][t].id # 0 PROVE grp'[c][t].id < n + 1
    BY <1>2, <1>6, <2>2, <2>3, <2>4
  <2>5. \A t \in Slots : t # s => grp'[c][t].id # n
    BY <1>2, <1>6, <2>2
  <2> QED
    BY <1>1, <1>6, <2>3, <2>4, <2>5
<1> QED
  BY <1>5, <1>6 DEF GroupStep

(* What the records of the groups still are after a callback.               *)
GroupOk(d, t) ==
    LET m == grp'[d][t] IN
    /\ m # NoGroup => task[d].pc = "group"
    /\ m.id = 0 => m.rows = <<>>
    /\ m.gen <= Len(guests)
    /\ \A i \in DOMAIN m.rows : IsOf(m.rows[i], d, t)
    /\ m.id # 0 /\ ~m.done => Tag(d, t) \in db'[d].open
    /\ m.id # 0 /\ ~m.hurt => Others(d)' = {}

LEMMA SteppedGroupIds ==
    ASSUME BaseInv, GroupInv, Types', NEW c \in Conns, NEW s \in Slots, InGroup(c, s),
           GroupStep(c, s), SameGuests, NEW d \in Conns, \A t \in Slots : GroupOk(d, t)
    PROVE  GroupIds(d)'
<1>1. /\ \A t \in Slots : grp'[d][t].id # 0 => grp'[d][t].id < db'[d].agg[Stmt(d).ext].next_id
      /\ \A t, u \in Slots : grp'[d][t].id = grp'[d][u].id /\ grp'[d][t].id # 0 => t = u
  BY SteppedIds
<1>2. task'[d].todo = task[d].todo /\ task'[d].pc = task[d].pc /\ Stmt(d)' = Stmt(d)
      /\ Len(guests') = Len(guests)
  BY DEF GroupStep, Stmt, SameGuests
<1>3. ASSUME NEW t \in Slots
      PROVE  LET m == grp'[d][t] IN
             /\ m # NoGroup => task'[d].pc = "group"
             /\ m.id = 0 => m.rows = <<>>
             /\ m.id # 0 => m.id < db'[d].agg[Stmt(d)'.ext].next_id
             /\ m.gen <= Len(guests')
             /\ \A i \in DOMAIN m.rows : IsOf(m.rows[i], d, t)
             /\ m.id # 0 /\ ~m.done => Tag(d, t) \in db'[d].open
             /\ m.id # 0 /\ ~m.hurt => Others(d)' = {}
  BY <1>1, <1>2 DEF GroupOk
<1>4. \A t \in Slots : Tag(d, t)' = Tag(d, t) /\ \A r : IsOf(r, d, t)' = IsOf(r, d, t)
  BY <1>2 DEF Tag, IsOf
<1> QED
  BY <1>1, <1>2, <1>3, <1>4 DEF GroupIds, IsOf

(* A guest's rows under the other ids, and the matches they are part of.    *)
AccOnly(w) ==
    \A g \in DOMAIN guests, id \in Nat \ {w} :
        At(guests'[g].acc, id, <<>>) = At(guests[g].acc, id, <<>>)
SameGroup(d, t) ==
    /\ grp'[d][t].rows = grp[d][t].rows /\ grp'[d][t].gen = grp[d][t].gen
    /\ grp'[d][t].done = grp[d][t].done
    /\ grp[d][t].hurt => grp'[d][t].hurt

LEMMA OtherMatch ==
    ASSUME BaseInv, GroupInv, Types', NEW c \in Conns, NEW s \in Slots, InGroup(c, s),
           GroupStep(c, s), AccOnly(grp'[c][s].id),
           NEW d \in Conns, NEW t \in Slots, d # c \/ t # s, SameGroup(d, t),
           task[d].err => task'[d].err,
           d # c /\ grp[d][t].id # 0 /\ grp[d][t].id = grp'[c][s].id => grp'[d][t].hurt
    PROVE  Match(d, t)'
<1>1. /\ task'[d].pc = task[d].pc /\ task'[d].todo = task[d].todo /\ Stmt(d)' = Stmt(d)
      /\ grp'[d][t].id = grp[d][t].id
  BY DEF GroupStep, Stmt
<1>2. Guest(HOST, Stmt(d).ext)' = Guest(HOST, Stmt(d).ext)
  BY <1>1 DEF GroupStep, Guest
<1>3. PICK g : g = Guest(HOST, Stmt(d).ext)
  OBVIOUS
<1>4. SUFFICES ASSUME task[d].pc = "group", ~task'[d].err, grp[d][t].id # 0, ~grp'[d][t].hurt,
                      ~grp[d][t].done, grp[d][t].gen = g
               PROVE  At(guests'[g].acc, grp[d][t].id, <<>>) = grp[d][t].rows
  BY <1>1, <1>2, <1>3 DEF Match, SameGroup
<1>5. At(guests[g].acc, grp[d][t].id, <<>>) = grp[d][t].rows
  BY <1>3, <1>4 DEF GroupInv, Match, SameGroup
<1>6. task[d].todo # <<>> /\ db[d].agg[Stmt(d).ext] # NoAgg /\ Stmt(d).ext \in Exts
  BY <1>4, StmtIs DEF BaseInv, Place, Types, ConnTypes
<1>7. g \in DOMAIN guests
  <2>1. g # 0
    BY <1>3, <1>6 DEF BaseInv, Behind, Guest
  <2> QED
    BY <1>3, <1>6, <2>1, HostGuest
<1>8. grp[d][t].id # grp'[c][s].id /\ grp[d][t].id \in Nat
  <2>1. CASE d = c
    BY <1>1, <1>4, <2>1, SteppedIds, GroupIs
  <2>2. CASE d # c
    BY <1>4, <2>2, GroupIs
  <2> QED
    BY <2>1, <2>2
<1> QED
  BY <1>5, <1>7, <1>8 DEF AccOnly

(* A guest that gives the rows under one id a new value.                    *)
AccSet(g, id, q) ==
    /\ SameGuests /\ SameInst /\ SameCur
    /\ DOMAIN guests'[g].acc = DOMAIN guests[g].acc \cup {id} /\ guests'[g].acc[id] = q
    /\ \A x \in DOMAIN guests[g].acc : x # id => guests'[g].acc[x] = guests[g].acc[x]
    /\ \A i \in DOMAIN guests : i # g => guests'[i].acc = guests[i].acc

LEMMA AccPut ==
    ASSUME guests \in Seq(GuestT), NEW g \in DOMAIN guests, NEW id \in Nat,
           NEW q \in Seq(Rows), guests' = [guests EXCEPT ![g].acc = Put(@, id, q)]
    PROVE  AccSet(g, id, q)
<1> DEFINE f == Put(guests[g].acc, id, q)
<1>1. guests[g].acc \in Partial(Seq(Rows))
  BY GuestOf DEF GuestT
<1>2. f \in Partial(Seq(Rows))
  BY <1>1, PutType
<1>3. /\ DOMAIN f = DOMAIN guests[g].acc \cup {id} /\ f[id] = q
      /\ \A x \in DOMAIN guests[g].acc : x # id => f[x] = guests[g].acc[x]
  BY Zenon DEF Put
<1>4. guests' = [guests EXCEPT ![g].acc = f]
  OBVIOUS
<1> HIDE DEF f
<1>5. /\ SameGuests /\ SameInst /\ SameCur /\ guests'[g].acc = f
      /\ \A i \in DOMAIN guests : i # g => guests'[i].acc = guests[i].acc
  BY Zenon, <1>2, <1>4, SetAcc
<1> QED
  BY Zenon, <1>3, <1>5 DEF AccSet

LEMMA AccSetOnly ==
    ASSUME NEW g \in DOMAIN guests, NEW id, NEW q, AccSet(g, id, q)
    PROVE  AccOnly(id) /\ At(guests'[g].acc, id, <<>>) = q
<1>1. At(guests'[g].acc, id, <<>>) = q
  BY DEF AccSet, At
<1>2. ASSUME NEW k \in DOMAIN guests, NEW x \in Nat \ {id}
      PROVE  At(guests'[k].acc, x, <<>>) = At(guests[k].acc, x, <<>>)
  <2>1. CASE k = g
    <3>1. x \in DOMAIN guests'[g].acc <=> x \in DOMAIN guests[g].acc
      BY DEF AccSet
    <3>2. x \in DOMAIN guests[g].acc => guests'[g].acc[x] = guests[g].acc[x]
      BY DEF AccSet
    <3> QED
      BY <2>1, <3>1, <3>2 DEF At
  <2>2. CASE k # g
    <3>1. guests'[k].acc = guests[k].acc
      BY <2>2 DEF AccSet
    <3> QED
      BY <3>1
  <2> QED
    BY <2>1, <2>2
<1> QED
  BY <1>1, <1>2 DEF AccOnly

LEMMA SameAccOnly ==
    ASSUME SameAcc, NEW w PROVE AccOnly(w)
BY DEF SameAcc, AccOnly

LEMMA OtherGuest ==
    ASSUME BaseInv, NEW e \in Exts, NEW f \in Exts, e # f, Guest(HOST, e) # 0
    PROVE  Guest(HOST, e) # Guest(HOST, f)
<1>1. HOST \in Conns
  BY DEF Guest, BaseInv, Types, HostTypes
<1> QED
  BY <1>1, ExtensionAssumption DEF Guest, BaseInv, LoadedIds

RowsKnown(c, s, g, id, q) ==
    \A i \in DOMAIN q :
        \/ StepRow(c, s, Stmt(c).ext, id, q[i])
        \/ /\ id \in DOMAIN guests[g].acc
           /\ \E j \in DOMAIN guests[g].acc[id] : q[i] = guests[g].acc[id][j]

LEMMA AccSetRows ==
    ASSUME BaseInv, GroupInv, NEW c \in Conns, NEW s \in Slots, OthersKept(c),
           db[c].open \subseteq db'[c].open, NEW f \in Exts, f = Stmt(c).ext,
           NEW g \in DOMAIN guests, g = Guest(HOST, f), g # 0, NEW id \in Nat \ {0},
           NEW q, AccSet(g, id, q), RowsKnown(c, s, g, id, q)
    PROVE  \A e \in Exts : Guest(HOST, e) # 0 => RowsFrom(c, s, e, Guest(HOST, e))
<1> SUFFICES ASSUME NEW e \in Exts, Guest(HOST, e) # 0
             PROVE  RowsFrom(c, s, e, Guest(HOST, e))
  OBVIOUS
<1>1. CASE e # f
  <2>1. Guest(HOST, e) # g /\ Guest(HOST, e) \in DOMAIN guests
    BY <1>1, OtherGuest, HostGuest
  <2>2. guests'[Guest(HOST, e)].acc = guests[Guest(HOST, e)].acc
    BY <2>1 DEF AccSet
  <2> QED
    BY <2>2, SameRows
<1>2. CASE e = f
  <2>1. ASSUME NEW r \in Rows, NEW x, KnownRow(e, x, r) PROVE StillOpen(r)
    <3>1. r[1] \in Conns /\ <<r[1], r[2], r[3]>> \in db[r[1]].open
      BY <2>1 DEF KnownRow, Rows
    <3> QED
      BY <3>1 DEF StillOpen, OthersKept
  <2>2. ASSUME NEW x \in DOMAIN guests[g].acc
        PROVE  /\ x # 0
               /\ \A i \in DOMAIN guests[g].acc[x] :
                     KnownRow(e, x, guests[g].acc[x][i]) /\ StillOpen(guests[g].acc[x][i])
    BY <1>2, <2>1, KnownRows
  <2>3. ASSUME NEW x \in DOMAIN guests'[g].acc
        PROVE  /\ x # 0
               /\ \A i \in DOMAIN guests'[g].acc[x] :
                     \/ StepRow(c, s, e, x, guests'[g].acc[x][i])
                     \/ /\ KnownRow(e, x, guests'[g].acc[x][i])
                        /\ StillOpen(guests'[g].acc[x][i])
    <3>1. CASE x = id
      <4>1. guests'[g].acc[x] = q
        BY <3>1 DEF AccSet
      <4>2. ASSUME NEW i \in DOMAIN q
            PROVE  StepRow(c, s, e, x, q[i]) \/ (KnownRow(e, x, q[i]) /\ StillOpen(q[i]))
        <5>1. CASE StepRow(c, s, f, id, q[i])
          BY <1>2, <3>1, <5>1
        <5>2. CASE /\ id \in DOMAIN guests[g].acc
                   /\ \E j \in DOMAIN guests[g].acc[id] : q[i] = guests[g].acc[id][j]
          BY <2>2, <3>1, <5>2
        <5> QED
          BY <5>1, <5>2 DEF RowsKnown
      <4> QED
        BY <3>1, <4>1, <4>2
    <3>2. CASE x # id
      <4>1. x \in DOMAIN guests[g].acc /\ guests'[g].acc[x] = guests[g].acc[x]
        BY <2>3, <3>2 DEF AccSet
      <4> QED
        BY <2>2, <4>1
    <3> QED
      BY <3>1, <3>2
  <2>4. RowsFrom(c, s, e, g)
    BY <2>3 DEF RowsFrom
  <2> QED
    BY <1>2, <2>4
<1> QED
  BY <1>1, <1>2

(* An answer is about the rows of its own group.                            *)
LEMMA AnswerApart ==
    ASSUME BaseInv, GroupInv, SeenInv, NEW c \in Conns, NEW s \in Slots, InGroup(c, s),
           ~task[c].err, Alive(AggGuest(c)), Answer(c, s, AggGuest(c))
    PROVE  GroupsApart' /\ SeenInv'
<1>1. PICK g : g = AggGuest(c)
  OBVIOUS
<1>2. PICK e : e = Stmt(c).ext
  OBVIOUS
<1>3. PICK id : id = grp[c][s].id
  OBVIOUS
<1>4. PICK q : q = At(guests[g].acc, id, <<>>)
  OBVIOUS
<1>6. /\ DOMAIN seen' = Conns /\ \A d \in Conns \ {c} : seen'[d] = seen[d]
      /\ seen'[c].kind = "group" /\ seen'[c].sent = grp[c][s].rows /\ seen'[c].got = q
      /\ seen'[c].hurt <=> grp[c][s].hurt \/ (id # 0 /\ grp[c][s].gen # g)
  BY Zenon, <1>1, <1>3, <1>4 DEF Answer, SeenInv
<1>7. e \in Exts /\ g = Guest(HOST, e) /\ g # 0 /\ g \in DOMAIN guests
      /\ task[c].pc = "group" /\ ~grp[c][s].done
  BY <1>1, <1>2, InGroupFacts DEF Alive
<1>8. CASE id = 0
  <2>1. grp[c][s].rows = <<>>
    BY Zenon, <1>3, <1>8 DEF GroupInv, GroupIds
  <2>2. 0 \notin DOMAIN guests[g].acc
    BY <1>7, KnownRows
  <2>3. q = <<>>
    BY <1>4, <1>8, <2>2 DEF At
  <2> QED
    BY <1>6, <2>1, <2>3 DEF GroupsApart, GroupInv, SeenInv, CellsSurvive
<1>9. CASE id # 0
  <2>1. ~seen'[c].hurt => q = grp[c][s].rows
    <3>1. SUFFICES ASSUME ~grp[c][s].hurt, grp[c][s].gen = g PROVE q = grp[c][s].rows
      BY <1>6, <1>9
    <3> QED
      BY <1>2, <1>3, <1>4, <1>7, <1>9, <3>1 DEF GroupInv, Match
  <2>2. ASSUME NEW i \in DOMAIN q, NEW j \in DOMAIN grp[c][s].rows, q[i][1] = c
        PROVE  q[i][2] = grp[c][s].rows[j][2] /\ q[i][3] = grp[c][s].rows[j][3]
    <3>1. IsOf(grp[c][s].rows[j], c, s)
      BY DEF GroupInv, GroupIds
    <3>2. id \in DOMAIN guests[g].acc /\ q = guests[g].acc[id]
      BY <1>4, <2>2 DEF At
    <3>3. KnownRow(e, id, q[i])
      BY <1>7, <2>2, <3>2, KnownRows
    <3>4. Grouping(c, e)
      BY <1>2, <1>7 DEF Grouping
    <3>5. IsOf(q[i], c, s)
      BY <1>3, <2>2, <3>3, <3>4 DEF KnownRow
    <3> QED
      BY <3>1, <3>5 DEF IsOf
  <2> QED
    BY <1>6, <2>1, <2>2 DEF GroupsApart, GroupInv, SeenInv, CellsSurvive
<1> QED
  BY <1>8, <1>9

(* The parts of a step of a group, put together.                            *)
Continues(c) ==
    /\ task' \in [Conns -> TaskT] /\ \A d \in Conns \ {c} : task'[d] = task[d]
    /\ \A d \in Conns : /\ task'[d].todo = task[d].todo /\ task'[d].pc = task[d].pc
                        /\ task[d].err => task'[d].err
Surroundings == UNCHANGED <<HOST, GLOBALS, loaded, next, cur>> /\ faults' \in 0..MaxFaults
Guests == SameGuests /\ SameInst /\ SameCur

LEMMA GroupTask ==
    ASSUME BaseInv, NEW c \in Conns, UNCHANGED task \/ Fail(c)
    PROVE  Continues(c)
<1>1. task \in [Conns -> TaskT]
  BY DEF BaseInv, Types, ConnTypes
<1>2. CASE UNCHANGED task
  BY <1>1, <1>2 DEF Continues
<1>3. CASE Fail(c)
  BY <1>1, <1>3, FailEffect DEF Continues
<1> QED
  BY <1>2, <1>3

LEMMA GroupTypes ==
    ASSUME BaseInv, NEW c \in Conns, Continues(c), Surroundings, SameGuests,
           db' \in [Conns -> DbT], grp' \in [Conns -> [Slots -> GroupT]]
    PROVE  Types'
BY DEF BaseInv, Types, HostTypes, ConnTypes, Continues, Surroundings, SameGuests

LEMMA GroupDone ==
    ASSUME BaseInv, GroupInv, Types', NEW c \in Conns, NEW s \in Slots, InGroup(c, s),
           GroupStep(c, s), Continues(c), Surroundings, Guests, SameRegistered(c),
           db'[c].vtab = db[c].vtab, \A d \in Conns : GroupIds(d)',
           \A d \in Conns, t \in Slots : Match(d, t)',
           \A e \in Exts : Guest(HOST, e) # 0 => RowsFrom(c, s, e, Guest(HOST, e)),
           GroupsApart', SeenInv'
    PROVE  GroupKept(c)
<1>1. /\ task[c].todo # <<>> /\ Stmt(c).op \in {"group", "window"} /\ task[c].pc = "group"
  BY InGroupFacts
<1>2. GroupFrame(c)
  BY <1>1 DEF GroupFrame, Continues, Surroundings, Guests, GroupStep
<1>3. Own(c)'
  BY <1>1, StayOwn DEF Continues, Surroundings
<1>4. BaseInv' /\ QuietTables(c) /\ QuietScans(c)
  BY <1>2, <1>3, GroupQuiet
<1>5. GuestRows'
  BY SteppedRows DEF Guests
<1> QED
  BY <1>4, <1>5 DEF GroupKept, GroupInv

(* A callback that leaves the records of the groups and their rows alone.   *)
LEMMA GroupCall ==
    ASSUME BaseInv, GroupInv, NEW c \in Conns, NEW s \in Slots, InGroup(c, s),
           UNCHANGED task \/ Fail(c), Surroundings, Unmoved, UNCHANGED <<db, grp>>,
           GroupsApart', SeenInv'
    PROVE  GroupKept(c)
<1>1. Continues(c)
  BY GroupTask
<1>2. db \in [Conns -> DbT] /\ grp \in [Conns -> [Slots -> GroupT]]
  BY DEF BaseInv, Types, ConnTypes
<1>3. SameGuests /\ SameAcc /\ SameInst /\ SameCur
  BY DEF Unmoved
<1>4. Types'
  BY <1>1, <1>2, <1>3, GroupTypes
<1>5. SameRegistered(c) /\ OthersKept(c) /\ db'[c].vtab = db[c].vtab
      /\ \A e \in Exts : db'[c].agg[e].next_id >= db[c].agg[e].next_id
  <2>1. \A e \in Exts : db[c].agg[e].next_id \in Nat
    BY <1>2 DEF DbT, AggT
  <2> QED
    BY <1>1, <2>1 DEF SameRegistered, OthersKept, Continues
<1>6. GroupStep(c, s)
  BY <1>1, <1>5 DEF GroupStep, Continues, Surroundings
<1>7. \A d \in Conns : GroupIds(d)'
  <2>1. \A d \in Conns, t \in Slots : GroupOk(d, t)
    <3>1. \A d \in Conns : Others(d)' = Others(d)
      BY DEF Others
    <3> QED
      BY <3>1 DEF GroupInv, GroupIds, GroupOk
  <2> QED
    BY <1>3, <1>4, <1>6, <2>1, SteppedGroupIds
<1>8. ASSUME NEW d \in Conns, NEW t \in Slots PROVE Match(d, t)'
  <2>1. /\ task'[d].pc = task[d].pc /\ task'[d].todo = task[d].todo
        /\ task[d].err => task'[d].err
    BY <1>1 DEF Continues
  <2>2. Match(d, t)
    BY DEF GroupInv
  <2>3. Guest(HOST, Stmt(d).ext)' = Guest(HOST, Stmt(d).ext)
    BY <2>1 DEF Surroundings, Guest, Stmt
  <2>4. task[d].pc = "group" => Guest(HOST, Stmt(d).ext) \in DOMAIN guests
    <3> SUFFICES ASSUME task[d].pc = "group"
                 PROVE  Guest(HOST, Stmt(d).ext) \in DOMAIN guests
      OBVIOUS
    <3>1. task[d].todo # <<>> /\ db[d].agg[Stmt(d).ext] # NoAgg /\ Stmt(d).ext \in Exts
      BY StmtIs DEF BaseInv, Place, Types, ConnTypes
    <3>2. Guest(HOST, Stmt(d).ext) # 0
      BY <3>1 DEF BaseInv, Behind, Guest
    <3> QED
      BY <3>1, <3>2, HostGuest
  <2>5. PICK g : g = Guest(HOST, Stmt(d).ext)
    OBVIOUS
  <2>6. task[d].pc = "group" => guests'[g].acc = guests[g].acc
    BY <1>3, <2>4, <2>5 DEF SameAcc
  <2>7. Guest(HOST, Stmt(d).ext)' = g
    BY <2>3, <2>5
  <2> QED
    BY <2>1, <2>2, <2>5, <2>6, <2>7 DEF Match
<1>9. \A e \in Exts : Guest(HOST, e) # 0 => RowsFrom(c, s, e, Guest(HOST, e))
  BY <1>3, <1>5, HostGuest, SameRows DEF SameAcc
<1> QED
  BY <1>1, <1>3, <1>4, <1>5, <1>6, <1>7, <1>8, <1>9, GroupDone DEF Guests

LEMMA UnseenApart ==
    ASSUME GroupInv, SeenInv, seen' = seen PROVE GroupsApart' /\ SeenInv'
BY DEF GroupInv, GroupsApart, SeenInv, CellsSurvive

LEMMA MemoryStep ==
    ASSUME BaseInv, GroupInv, SeenInv, NEW c \in Conns, NEW s \in Slots,
           agg_out_of_memory(c, s)
    PROVE  GroupKept(c)
<1>1. /\ InGroup(c, s) /\ Fail(c) /\ MayFail
      /\ UNCHANGED <<HOST, GLOBALS, loaded, guests, next, db, grp, cur, seen>>
  BY DEF agg_out_of_memory
<1>2. Unmoved /\ Surroundings
  BY <1>1, UnchangedGuests, FaultCounted DEF Surroundings, BaseInv, Types, HostTypes
<1> QED
  BY <1>1, <1>2, UnseenApart, GroupCall

LEMMA ValueStep ==
    ASSUME BaseInv, GroupInv, SeenInv, NEW c \in Conns, NEW s \in Slots, agg_xvalue(c, s)
    PROVE  GroupKept(c)
<1>1. /\ InGroup(c, s) /\ ~task[c].err
      /\ UNCHANGED <<HOST, GLOBALS, loaded, next, db, grp, cur>>
  BY DEF agg_xvalue, Running
<1>2. AggGuest(c) \in 0..Len(guests) /\ Types /\ guests \in Seq(GuestT) /\ faults \in 0..MaxFaults
  BY <1>1, InGroupFacts DEF BaseInv, Types, HostTypes
<1>3. CASE Answers(AggGuest(c)) /\ Answer(c, s, AggGuest(c)) /\ UNCHANGED <<guests, task>>
  <2>1. Unmoved /\ Surroundings
    BY <1>1, <1>2, <1>3, UnchangedGuests, FaultCounted DEF Surroundings, Answers
  <2>2. GroupsApart' /\ SeenInv'
    BY <1>1, <1>3, AnswerApart DEF Answers
  <2> QED
    BY <1>1, <1>3, <2>1, <2>2, GroupCall
<1>4. CASE Refuses(AggGuest(c)) /\ Fail(c) /\ UNCHANGED seen
  <2>1. Unmoved /\ Surroundings
    BY <1>1, <1>2, <1>4, Refusal DEF Surroundings
  <2> QED
    BY <1>1, <1>4, <2>1, UnseenApart, GroupCall
<1> QED
  BY <1>3, <1>4 DEF agg_xvalue

(* A row leaves the frame of a window.                                      *)
LEMMA SetGroup ==
    ASSUME BaseInv, NEW c \in Conns, NEW s \in Slots, NEW m \in GroupT,
           grp' = [grp EXCEPT ![c][s] = m]
    PROVE  /\ grp' \in [Conns -> [Slots -> GroupT]] /\ grp'[c][s] = m
           /\ \A d \in Conns, t \in Slots : d # c \/ t # s => grp'[d][t] = grp[d][t]
BY DEF BaseInv, Types, ConnTypes

LEMMA TailIs ==
    ASSUME NEW T, NEW q \in Seq(T), q # <<>>
    PROVE  /\ Tail(q) \in Seq(T)
           /\ \A i \in DOMAIN Tail(q) : i + 1 \in DOMAIN q /\ Tail(q)[i] = q[i + 1]
<1>1. Len(q) \in Nat /\ Len(q) >= 1
  OBVIOUS
<1>2. /\ Tail(q) \in Seq(T) /\ Len(Tail(q)) = Len(q) - 1
      /\ \A i \in 1..Len(q) - 1 : Tail(q)[i] = q[i + 1]
  OBVIOUS
<1> QED
  BY <1>1, <1>2

(* A group that has an id and is not done is open for everyone else.        *)
LEMMA OpenHurts ==
    ASSUME BaseInv, GroupInv, NEW c \in Conns, NEW s \in Slots, grp[c][s].id # 0,
           ~grp[c][s].done, NEW d \in Conns \ {c}, NEW t \in Slots, grp[d][t].id # 0
    PROVE  grp[d][t].hurt
<1>1. Tag(c, s) \in db[c].open
  BY DEF GroupInv, GroupIds
<1>2. Tag(c, s) \in Others(d)
  BY <1>1 DEF Others
<1> QED
  BY <1>2 DEF GroupInv, GroupIds

(* What the guest does at a callback, whether it answers or not.            *)
CalledBack(c, s, id) ==
    /\ AccOnly(id) /\ Guests /\ Surroundings /\ Match(c, s)'
    /\ \A e \in Exts : Guest(HOST, e) # 0 => RowsFrom(c, s, e, Guest(HOST, e))

LEMMA InverseStep ==
    ASSUME BaseInv, GroupInv, SeenInv, NEW c \in Conns, NEW s \in Slots, agg_xinverse(c, s)
    PROVE  GroupKept(c)
<1>1. /\ InGroup(c, s) /\ ~task[c].err /\ grp[c][s].rows # <<>>
      /\ UNCHANGED <<HOST, GLOBALS, loaded, next, db, cur, seen>>
      /\ grp' = [grp EXCEPT ![c][s].rows = Tail(@)]
  BY DEF agg_xinverse, Running
<1>2. PICK g : g = AggGuest(c)
  OBVIOUS
<1>3. PICK e : e = Stmt(c).ext
  OBVIOUS
<1>4. /\ e \in Exts /\ ~grp[c][s].done /\ task[c].pc = "group" /\ g \in 0..Len(guests)
      /\ g # 0 => g = Guest(HOST, e) /\ g \in DOMAIN guests
  BY <1>1, <1>2, <1>3, InGroupFacts
<1>5. PICK k \in GroupT : k = grp[c][s]
  BY GroupIs
<1>6. PICK id : id = k.id
  OBVIOUS
<1>7. /\ id \in Nat \ {0} /\ k.rows \in Seq(Rows) /\ k.rows # <<>>
      /\ Tail(k.rows) \in Seq(Rows)
      /\ \A i \in DOMAIN Tail(k.rows) : i + 1 \in DOMAIN k.rows /\ Tail(k.rows)[i] = k.rows[i + 1]
  <2>1. k.rows \in Seq(Rows) /\ k.id \in Nat
    BY DEF GroupT
  <2>2. k.id # 0
    BY <1>1, <1>5 DEF GroupInv, GroupIds
  <2> QED
    BY <1>1, <1>5, <1>6, <2>1, <2>2, TailIs
<1>8. PICK m : m = [k EXCEPT !.rows = Tail(k.rows)]
  BY Zenon
<1>9. /\ m \in GroupT /\ m.id = id /\ m.rows = Tail(k.rows) /\ m.gen = k.gen
      /\ m.done = k.done /\ m.hurt = k.hurt
  <2>1. Tail(k.rows) \in Seq(Rows)
    BY <1>7
  <2> QED
    BY Zenon, <1>6, <1>8, <2>1 DEF GroupT
<1>10. /\ grp' \in [Conns -> [Slots -> GroupT]] /\ grp'[c][s] = m
       /\ \A d \in Conns, t \in Slots : d # c \/ t # s => grp'[d][t] = grp[d][t]
  <2>1. grp' = [grp EXCEPT ![c][s] = m]
    BY <1>1, <1>5, <1>8 DEF BaseInv, Types, ConnTypes
  <2> QED
    BY Zenon, <1>9, <2>1, SetGroup
<1>11. Continues(c)
  BY <1>1, GroupTask DEF agg_xinverse
<1>12. db \in [Conns -> DbT] /\ \A a \in Exts : db[c].agg[a].next_id \in Nat
  BY DEF BaseInv, Types, ConnTypes, DbT, AggT
<1>13. /\ SameRegistered(c) /\ OthersKept(c) /\ GroupStep(c, s)
  BY <1>1, <1>5, <1>6, <1>9, <1>10, <1>11, <1>12
  DEF SameRegistered, OthersKept, GroupStep, Continues
<1>14. ASSUME NEW d \in Conns, NEW t \in Slots PROVE GroupOk(d, t)
  <2>1. Others(d)' = Others(d)
    BY <1>1 DEF Others
  <2>2. CASE d = c /\ t = s
    <3>1. /\ k.gen <= Len(guests) /\ \A i \in DOMAIN k.rows : IsOf(k.rows[i], c, s)
          /\ ~k.done => Tag(c, s) \in db[c].open
          /\ ~k.hurt => Others(c) = {}
      BY <1>5, <1>6, <1>7 DEF GroupInv, GroupIds
    <3>2. \A i \in DOMAIN m.rows : IsOf(m.rows[i], c, s)
      BY <1>7, <1>9, <3>1
    <3>3. /\ grp'[c][s].id # 0 /\ grp'[c][s].rows = m.rows /\ grp'[c][s].gen = k.gen
          /\ grp'[c][s].done = k.done /\ grp'[c][s].hurt = k.hurt /\ db' = db
      BY Zenon, <1>1, <1>7, <1>9, <1>10
    <3> QED
      BY <1>4, <2>1, <2>2, <3>1, <3>2, <3>3 DEF GroupOk
  <2>3. CASE d # c \/ t # s
    <3>1. grp'[d][t] = grp[d][t] /\ db' = db
      BY <1>1, <1>10, <2>3
    <3> QED
      BY <2>1, <3>1 DEF GroupInv, GroupIds, GroupOk
  <2> QED
    BY <2>2, <2>3
<1>15. PICK rows : rows = At(guests[g].acc, id, <<>>)
  OBVIOUS
<1>16. PICK q : q = IF rows = <<>> THEN rows ELSE Tail(rows)
  BY Zenon
<1>17. ASSUME Answers(g), UNCHANGED task, guests' = [guests EXCEPT ![g].acc = Put(@, id, q)]
       PROVE  CalledBack(c, s, id)
  <2>1. g # 0 /\ g = Guest(HOST, e) /\ g \in DOMAIN guests /\ Fine
    BY <1>4, <1>17 DEF Answers, Alive
  <2>2. id \in DOMAIN guests[g].acc \/ rows = <<>>
    BY <1>15 DEF At
  <2>3. rows \in Seq(Rows) /\ (id \in DOMAIN guests[g].acc => rows = guests[g].acc[id])
    BY <1>15, <2>1, KnownRows, <1>4 DEF At
  <2>4. q \in Seq(Rows) /\ \A i \in DOMAIN q : id \in DOMAIN guests[g].acc
           /\ \E j \in DOMAIN guests[g].acc[id] : q[i] = guests[g].acc[id][j]
    <3>1. CASE rows = <<>>
      BY <1>16, <3>1
    <3>2. CASE rows # <<>>
      BY <1>16, <2>2, <2>3, <3>2, TailIs
    <3> QED
      BY <3>1, <3>2
  <2>5. AccSet(g, id, q)
    BY Zenon, <1>7, <1>17, <2>1, <2>4, AccPut DEF BaseInv, Types
  <2>6. AccOnly(id) /\ At(guests'[g].acc, id, <<>>) = q
    BY <2>1, <2>5, AccSetOnly
  <2>7. Guests /\ Surroundings
    BY <1>1, <2>1, <2>5, FaultCounted DEF Guests, AccSet, Surroundings, BaseInv, Types, HostTypes
  <2>8. \A a \in Exts : Guest(HOST, a) # 0 => RowsFrom(c, s, a, Guest(HOST, a))
    <3>1. RowsKnown(c, s, g, id, q)
      BY <2>4 DEF RowsKnown
    <3>2. db[c].open \subseteq db'[c].open
      BY <1>1
    <3> QED
      BY Zenon, <1>3, <1>4, <1>7, <1>13, <2>1, <2>5, <3>1, <3>2, AccSetRows
  <2>9. Match(c, s)'
    <3>a. Guest(HOST, Stmt(c).ext)' = g
      BY Zenon, <1>1, <1>3, <1>17, <2>1 DEF Guest, Stmt
    <3>b. /\ grp'[c][s].rows = Tail(k.rows) /\ grp'[c][s].gen = k.gen /\ grp'[c][s].id = id
          /\ grp'[c][s].hurt = k.hurt
      BY <1>9, <1>10
    <3>1. SUFFICES ASSUME ~k.hurt, k.gen = g
                   PROVE  At(guests'[g].acc, id, <<>>) = Tail(k.rows)
      BY <3>a, <3>b DEF Match
    <3>2. k.gen = g
      BY <3>1
    <3>3. rows = k.rows
      BY <1>1, <1>3, <1>4, <1>5, <1>6, <1>7, <1>15, <2>1, <3>1, <3>2 DEF GroupInv, Match
    <3> QED
      BY <1>7, <1>16, <2>6, <3>2, <3>3
  <2> QED
    BY <2>6, <2>7, <2>8, <2>9 DEF CalledBack
<1>18. ASSUME Refuses(g), Fail(c) PROVE CalledBack(c, s, id)
  <2>1. Unmoved /\ faults' \in 0..MaxFaults
    BY <1>4, <1>18, Refusal DEF BaseInv
  <2>2. AccOnly(id) /\ Guests /\ Surroundings
    BY <1>1, <2>1, SameAccOnly DEF Unmoved, Guests, Surroundings
  <2>3. \A a \in Exts : Guest(HOST, a) # 0 => RowsFrom(c, s, a, Guest(HOST, a))
    BY <1>1, <1>13, <2>1, HostGuest, SameRows DEF Unmoved, SameAcc
  <2>4. Match(c, s)'
    BY <1>18, FailEffect DEF Match, BaseInv, Types, ConnTypes
  <2> QED
    BY <2>2, <2>3, <2>4 DEF CalledBack
<1>19. CalledBack(c, s, id)
  <2>1. \/ /\ Answers(g) /\ UNCHANGED task
           /\ guests' = [guests EXCEPT ![g].acc = Put(@, id, q)]
        \/ Refuses(g) /\ Fail(c)
    BY <1>2, <1>5, <1>6, <1>15, <1>16 DEF agg_xinverse
  <2> QED
    BY <1>17, <1>18, <2>1
<1>20. Types'
  BY Zenon, <1>1, <1>10, <1>11, <1>12, <1>19, GroupTypes DEF CalledBack, Guests
<1>21. ASSUME NEW d \in Conns, NEW t \in Slots, d # c \/ t # s
       PROVE  Match(d, t)'
  <2>1. SameGroup(d, t) /\ AccOnly(grp'[c][s].id)
    BY <1>9, <1>10, <1>19, <1>21 DEF SameGroup, CalledBack
  <2>2. task[d].err => task'[d].err
    BY <1>11 DEF Continues
  <2>3. d # c /\ grp[d][t].id # 0 => grp'[d][t].hurt
    BY <1>4, <1>5, <1>6, <1>7, <1>10, OpenHurts
  <2> QED
    BY <1>1, <1>13, <1>20, <1>21, <2>1, <2>2, <2>3, OtherMatch
<1>22. \A d \in Conns : GroupIds(d)'
  BY <1>1, <1>13, <1>14, <1>19, <1>20, SteppedGroupIds DEF CalledBack, Guests
<1>23. \A d \in Conns, t \in Slots : Match(d, t)'
  BY <1>19, <1>21 DEF CalledBack
<1>24. GroupsApart' /\ SeenInv'
  BY <1>1, UnseenApart
<1>25. db'[c].vtab = db[c].vtab
  BY <1>1
<1> QED
  BY <1>1, <1>11, <1>13, <1>19, <1>20, <1>22, <1>23, <1>24, <1>25, GroupDone DEF CalledBack

(* A group is over.                                                         *)
AccLess(g, id) ==
    /\ SameGuests /\ SameInst /\ SameCur
    /\ DOMAIN guests'[g].acc = DOMAIN guests[g].acc \ {id}
    /\ \A x \in DOMAIN guests'[g].acc : guests'[g].acc[x] = guests[g].acc[x]
    /\ \A i \in DOMAIN guests : i # g => guests'[i].acc = guests[i].acc

LEMMA AccDrop ==
    ASSUME guests \in Seq(GuestT), NEW g \in DOMAIN guests, NEW id,
           guests' = [guests EXCEPT ![g].acc = Drop(@, id)]
    PROVE  AccLess(g, id) /\ AccOnly(id)
<1> DEFINE f == Drop(guests[g].acc, id)
<1>1. guests[g].acc \in Partial(Seq(Rows))
  BY GuestOf DEF GuestT
<1>2. f \in Partial(Seq(Rows))
  BY <1>1, DropType
<1>3. /\ DOMAIN f = DOMAIN guests[g].acc \ {id}
      /\ \A x \in DOMAIN f : f[x] = guests[g].acc[x]
  BY DEF Drop
<1>4. guests' = [guests EXCEPT ![g].acc = f]
  OBVIOUS
<1> HIDE DEF f
<1>5. /\ SameGuests /\ SameInst /\ SameCur /\ guests'[g].acc = f
      /\ \A i \in DOMAIN guests : i # g => guests'[i].acc = guests[i].acc
  BY Zenon, <1>2, <1>4, SetAcc
<1>6. AccLess(g, id)
  BY Zenon, <1>3, <1>5 DEF AccLess
<1>7. ASSUME NEW k \in DOMAIN guests, NEW x \in Nat \ {id}
      PROVE  At(guests'[k].acc, x, <<>>) = At(guests[k].acc, x, <<>>)
  <2>1. CASE k = g
    <3>1. x \in DOMAIN f <=> x \in DOMAIN guests[g].acc
      BY <1>3
    <3> QED
      BY <1>3, <1>5, <2>1, <3>1 DEF At
  <2>2. CASE k # g
    BY <1>5, <2>2
  <2> QED
    BY <2>1, <2>2
<1> QED
  BY <1>6, <1>7 DEF AccOnly

Closes(c, s) ==
    /\ db' \in [Conns -> DbT] /\ SameRegistered(c) /\ db'[c].vtab = db[c].vtab
    /\ \A d \in Conns \ {c} : db'[d] = db[d]
    /\ \A e \in Exts : db'[c].agg[e].next_id = db[c].agg[e].next_id
    /\ db'[c].open \subseteq db[c].open /\ db[c].open \ {Tag(c, s)} \subseteq db'[c].open

LEMMA ClosesIs ==
    ASSUME BaseInv, NEW c \in Conns, NEW s \in Slots,
           UNCHANGED db \/ db' = [db EXCEPT ![c].open = @ \ {Tag(c, s)}]
    PROVE  Closes(c, s)
<1>1. db \in [Conns -> DbT]
  BY DEF BaseInv, Types, ConnTypes
<1>2. \A e \in Exts : db[c].agg[e].next_id \in Nat
  BY <1>1 DEF DbT, AggT
<1>3. CASE UNCHANGED db
  BY <1>1, <1>2, <1>3 DEF Closes, SameRegistered
<1>4. CASE db' = [db EXCEPT ![c].open = @ \ {Tag(c, s)}]
  <2>1. PICK x \in DbT : x = db[c]
    BY <1>1
  <2>2. PICK y : y = [x EXCEPT !.open = x.open \ {Tag(c, s)}]
    BY Zenon
  <2>3. /\ y \in DbT /\ y.host = x.host /\ y.scalar = x.scalar /\ y.agg = x.agg
        /\ y.module = x.module /\ y.vtab = x.vtab /\ y.open = x.open \ {Tag(c, s)}
    BY <2>2 DEF DbT
  <2>4. db' = [db EXCEPT ![c] = y]
    BY <1>4, <2>1, <2>2
  <2>5. db' \in [Conns -> DbT] /\ db'[c] = y /\ \A d \in Conns \ {c} : db'[d] = db[d]
    BY <1>1, <2>3, <2>4
  <2> QED
    BY <1>2, <2>1, <2>3, <2>5 DEF Closes, SameRegistered
<1> QED
  BY <1>3, <1>4

(* Closing a group leaves the rows of the others in groups that are open.   *)
LEMMA RowOpen ==
    ASSUME BaseInv, NEW c \in Conns, NEW s \in Slots, InGroup(c, s), Closes(c, s),
           NEW e, NEW x, NEW r \in Rows, KnownRow(e, x, r),
           e # Stmt(c).ext \/ x # grp[c][s].id
    PROVE  StillOpen(r)
<1>1. r[1] \in Conns /\ <<r[1], r[2], r[3]>> \in db[r[1]].open
  BY DEF KnownRow, Rows
<1>2. CASE r[1] # c
  BY <1>1, <1>2 DEF Closes, StillOpen
<1>3. CASE r[1] = c
  <2>1. ~(r[2] = Len(task[c].todo) /\ r[3] = s)
    BY <1>3, InGroupFacts DEF KnownRow
  <2>2. <<r[1], r[2], r[3]>> # Tag(c, s)
    BY <2>1 DEF Tag
  <2> QED
    BY <1>1, <1>3, <2>2 DEF Closes, StillOpen
<1> QED
  BY <1>2, <1>3

LEMMA AccLessRows ==
    ASSUME BaseInv, GroupInv, NEW c \in Conns, NEW s \in Slots, InGroup(c, s), Closes(c, s),
           NEW g \in DOMAIN guests, g = Guest(HOST, Stmt(c).ext), g # 0,
           AccLess(g, grp[c][s].id)
    PROVE  \A e \in Exts : Guest(HOST, e) # 0 => RowsFrom(c, s, e, Guest(HOST, e))
<1> SUFFICES ASSUME NEW e \in Exts, Guest(HOST, e) # 0
             PROVE  RowsFrom(c, s, e, Guest(HOST, e))
  OBVIOUS
<1>1. PICK k : k = Guest(HOST, e)
  OBVIOUS
<1>2. k \in DOMAIN guests
  BY <1>1, HostGuest
<1>3. Stmt(c).ext \in Exts
  BY InGroupFacts
<1>4. ASSUME NEW x \in DOMAIN guests'[k].acc
      PROVE  /\ x \in DOMAIN guests[k].acc /\ guests'[k].acc[x] = guests[k].acc[x]
             /\ e # Stmt(c).ext \/ x # grp[c][s].id
  <2>1. CASE k = g
    BY <1>4, <2>1 DEF AccLess
  <2>2. CASE k # g
    <3>1. guests'[k].acc = guests[k].acc
      BY <1>2, <2>2 DEF AccLess
    <3> QED
      BY <1>1, <1>4, <2>2, <3>1
  <2> QED
    BY <2>1, <2>2
<1>5. ASSUME NEW x \in DOMAIN guests'[k].acc
      PROVE  /\ x # 0
             /\ \A i \in DOMAIN guests'[k].acc[x] :
                   KnownRow(e, x, guests'[k].acc[x][i]) /\ StillOpen(guests'[k].acc[x][i])
  <2>1. /\ x # 0 /\ \A i \in DOMAIN guests[k].acc[x] :
              KnownRow(e, x, guests[k].acc[x][i]) /\ guests[k].acc[x][i] \in Rows
    BY <1>1, <1>4, KnownRows
  <2>2. \A i \in DOMAIN guests[k].acc[x] : StillOpen(guests[k].acc[x][i])
    BY <1>4, <2>1, RowOpen
  <2> QED
    BY <1>4, <2>1, <2>2
<1> QED
  BY <1>1, <1>5 DEF RowsFrom

(* The rows stay where they are.                                            *)
LEMMA SameRowsOpen ==
    ASSUME BaseInv, GroupInv, NEW c \in Conns, NEW s \in Slots, OthersKept(c),
           UNCHANGED db, SameAcc
    PROVE  \A e \in Exts : Guest(HOST, e) # 0 => RowsFrom(c, s, e, Guest(HOST, e))
BY HostGuest, SameRows DEF SameAcc

Ended(c, s) ==
    /\ Continues(c) /\ Closes(c, s) /\ Guests /\ Surroundings /\ AccOnly(grp[c][s].id)
    /\ \A e \in Exts : Guest(HOST, e) # 0 => RowsFrom(c, s, e, Guest(HOST, e))
    /\ GroupsApart' /\ SeenInv'

LEMMA FinalEffect ==
    ASSUME BaseInv, GroupInv, SeenInv, NEW c \in Conns, NEW s \in Slots, agg_xfinal(c, s)
    PROVE  Ended(c, s)
<1>1. /\ InGroup(c, s) /\ UNCHANGED <<HOST, GLOBALS, loaded, next, cur>>
  BY DEF agg_xfinal
<1>2. PICK g : g = AggGuest(c)
  OBVIOUS
<1>3. /\ g \in 0..Len(guests) /\ task[c].pc = "group"
      /\ g # 0 => g = Guest(HOST, Stmt(c).ext) /\ g \in DOMAIN guests
  BY <1>1, <1>2, InGroupFacts
<1>4. PICK id : id = grp[c][s].id
  OBVIOUS
<1>5. Types /\ guests \in Seq(GuestT) /\ faults \in 0..MaxFaults
  BY DEF BaseInv, Types, HostTypes
<1>6. ASSUME Fine, UNCHANGED <<guests, db, task, seen>> PROVE Ended(c, s)
  <2>1. Continues(c) /\ Closes(c, s) /\ OthersKept(c)
    BY <1>6, GroupTask, ClosesIs DEF OthersKept
  <2>2. Unmoved /\ faults' \in 0..MaxFaults
    BY <1>5, <1>6, UnchangedGuests, FaultCounted
  <2>3. Guests /\ Surroundings /\ AccOnly(id) /\ SameAcc
    BY <1>1, <2>2, SameAccOnly DEF Unmoved, Guests, Surroundings
  <2> QED
    BY <1>4, <1>6, <2>1, <2>3, SameRowsOpen, UnseenApart DEF Ended
<1>7. ASSUME Refuses(g), Fail(c), UNCHANGED <<db, seen>> PROVE Ended(c, s)
  <2>1. Continues(c) /\ Closes(c, s)
    BY <1>7, GroupTask, ClosesIs
  <2>2. OthersKept(c)
    BY <1>7, <2>1 DEF OthersKept, Continues
  <2>3. Unmoved /\ faults' \in 0..MaxFaults
    BY <1>3, <1>5, <1>7, Refusal
  <2>4. Guests /\ Surroundings /\ AccOnly(id) /\ SameAcc
    BY <1>1, <2>3, SameAccOnly DEF Unmoved, Guests, Surroundings
  <2> QED
    BY <1>4, <1>7, <2>1, <2>2, <2>4, SameRowsOpen, UnseenApart DEF Ended
<1>8. ASSUME Answers(g), guests' = [guests EXCEPT ![g].acc = Drop(@, id)], UNCHANGED task,
             db' = [db EXCEPT ![c].open = @ \ {Tag(c, s)}],
             IF task[c].err THEN UNCHANGED seen ELSE Answer(c, s, g)
      PROVE  Ended(c, s)
  <2>1. Continues(c) /\ Closes(c, s)
    BY Zenon, <1>8, GroupTask, ClosesIs
  <2>2. Alive(g) /\ Fine /\ g # 0
    BY <1>8 DEF Answers, Alive
  <2>3. AccLess(g, id) /\ AccOnly(id)
    BY Zenon, <1>3, <1>5, <1>8, <2>2, AccDrop
  <2>4. Guests /\ Surroundings
    BY <1>1, <1>5, <2>2, <2>3, FaultCounted DEF Guests, AccLess, Surroundings
  <2>5. \A e \in Exts : Guest(HOST, e) # 0 => RowsFrom(c, s, e, Guest(HOST, e))
    BY <1>1, <1>3, <1>4, <2>1, <2>2, <2>3, AccLessRows
  <2>6. GroupsApart' /\ SeenInv'
    <3>1. CASE task[c].err
      BY <1>8, <3>1, UnseenApart
    <3>2. CASE ~task[c].err
      BY <1>1, <1>2, <1>8, <2>2, <3>2, AnswerApart
    <3> QED
      BY <3>1, <3>2
  <2> QED
    BY <1>4, <2>1, <2>3, <2>4, <2>5, <2>6 DEF Ended
<1>9. \/ Fine /\ UNCHANGED <<guests, db, task, seen>>
      \/ Refuses(g) /\ Fail(c) /\ UNCHANGED <<db, seen>>
      \/ /\ Answers(g) /\ guests' = [guests EXCEPT ![g].acc = Drop(@, id)] /\ UNCHANGED task
         /\ db' = [db EXCEPT ![c].open = @ \ {Tag(c, s)}]
         /\ IF task[c].err THEN UNCHANGED seen ELSE Answer(c, s, g)
  BY <1>2, <1>4 DEF agg_xfinal
<1> QED
  BY <1>6, <1>7, <1>8, <1>9

LEMMA FinalStep ==
    ASSUME BaseInv, GroupInv, SeenInv, NEW c \in Conns, NEW s \in Slots, agg_xfinal(c, s)
    PROVE  GroupKept(c)
<1>1. InGroup(c, s) /\ Ended(c, s) /\ grp' = [grp EXCEPT ![c][s].done = TRUE]
  BY Zenon, FinalEffect DEF agg_xfinal
<1>2. /\ ~grp[c][s].done /\ task[c].pc = "group"
  BY <1>1, InGroupFacts
<1>3. PICK k \in GroupT : k = grp[c][s]
  BY GroupIs
<1>4. PICK m : m = [k EXCEPT !.done = TRUE]
  BY Zenon
<1>5. /\ m \in GroupT /\ m.id = k.id /\ m.rows = k.rows /\ m.gen = k.gen /\ m.done
      /\ m.hurt = k.hurt
  BY Zenon, <1>4 DEF GroupT
<1>6. /\ grp' \in [Conns -> [Slots -> GroupT]] /\ grp'[c][s] = m
      /\ \A d \in Conns, t \in Slots : d # c \/ t # s => grp'[d][t] = grp[d][t]
  <2>1. grp' = [grp EXCEPT ![c][s] = m]
    BY <1>1, <1>3, <1>4 DEF BaseInv, Types, ConnTypes
  <2> QED
    BY Zenon, <1>5, <2>1, SetGroup
<1>7. Continues(c) /\ Closes(c, s) /\ Guests /\ Surroundings /\ OthersKept(c)
  BY <1>1 DEF Ended, OthersKept, Continues, Closes
<1>8. Types'
  BY <1>6, <1>7, GroupTypes DEF Closes, Guests
<1>9. GroupStep(c, s)
  <2>1. \A e \in Exts : db[c].agg[e].next_id \in Nat
    BY DEF BaseInv, Types, ConnTypes, DbT, AggT
  <2>2. \A e \in Exts : db'[c].agg[e].next_id >= db[c].agg[e].next_id
    BY <1>7, <2>1 DEF Closes
  <2> QED
    BY <1>3, <1>5, <1>6, <1>7, <2>2 DEF GroupStep, Continues, Surroundings
<1>10. ASSUME NEW d \in Conns PROVE Others(d)' \subseteq Others(d)
  <2>1. \A a \in Conns : db'[a].open \subseteq db[a].open
    BY <1>7 DEF Closes
  <2> QED
    BY <2>1 DEF Others
<1>11. ASSUME NEW d \in Conns, NEW t \in Slots PROVE GroupOk(d, t)
  <2>1. Others(d) = {} => Others(d)' = {}
    BY <1>10
  <2>2. CASE d = c /\ t = s
    <3>1. /\ k.id = 0 => k.rows = <<>>
          /\ k.gen <= Len(guests) /\ \A i \in DOMAIN k.rows : IsOf(k.rows[i], c, s)
          /\ k.id # 0 /\ ~k.hurt => Others(c) = {}
      BY <1>3 DEF GroupInv, GroupIds
    <3>2. /\ grp'[c][s].id = k.id /\ grp'[c][s].rows = k.rows /\ grp'[c][s].gen = k.gen
          /\ grp'[c][s].done /\ grp'[c][s].hurt = k.hurt
      BY <1>5, <1>6
    <3> QED
      BY <1>2, <2>1, <2>2, <3>1, <3>2 DEF GroupOk
  <2>3. CASE d # c \/ t # s
    <3>1. grp'[d][t] = grp[d][t]
      BY <1>6, <2>3
    <3>2. Tag(d, t) # Tag(c, s)
      BY <2>3 DEF Tag
    <3>3. Tag(d, t) \in db[d].open => Tag(d, t) \in db'[d].open
      BY <1>7, <3>2 DEF Closes
    <3> QED
      BY <2>1, <3>1, <3>3 DEF GroupInv, GroupIds, GroupOk
  <2> QED
    BY <2>2, <2>3
<1>12. ASSUME NEW d \in Conns, NEW t \in Slots PROVE Match(d, t)'
  <2>1. CASE d = c /\ t = s
    BY <1>5, <1>6, <2>1 DEF Match
  <2>2. CASE d # c \/ t # s
    <3>1. SameGroup(d, t) /\ AccOnly(grp'[c][s].id)
      BY Zenon, <1>1, <1>3, <1>5, <1>6, <2>2 DEF SameGroup, Ended
    <3>2. task[d].err => task'[d].err
      BY <1>7 DEF Continues
    <3>3. d # c /\ grp[d][t].id # 0 /\ grp[d][t].id = grp'[c][s].id => grp'[d][t].hurt
      BY <1>2, <1>3, <1>5, <1>6, OpenHurts
    <3> QED
      BY <1>1, <1>8, <1>9, <2>2, <3>1, <3>2, <3>3, OtherMatch
  <2> QED
    BY <2>1, <2>2
<1>13. \A d \in Conns : GroupIds(d)'
  BY <1>1, <1>7, <1>8, <1>9, <1>11, SteppedGroupIds DEF Guests
<1> QED
  BY <1>1, <1>7, <1>8, <1>9, <1>12, <1>13, GroupDone DEF Ended, Closes

(* A row is stepped into its group.                                         *)
LEMMA HurtRecord ==
    ASSUME NEW k \in GroupT, NEW b \in BOOLEAN
    PROVE  LET m == [k EXCEPT !.hurt = @ \/ b] IN
           /\ m \in GroupT /\ m.id = k.id /\ m.rows = k.rows /\ m.gen = k.gen /\ m.done = k.done
           /\ m.hurt <=> k.hurt \/ b
           /\ ~b => m = k
<1>1. k.hurt \in BOOLEAN
  BY DEF GroupT
<1>2. PICK h \in BOOLEAN : h = (k.hurt \/ b)
  BY <1>1
<1>3. ~b => h = k.hurt
  BY <1>1, <1>2
<1>4. [k EXCEPT !.hurt = @ \/ b] = [k EXCEPT !.hurt = h]
  BY <1>2
<1>5. LET m == [k EXCEPT !.hurt = h] IN
      /\ m \in GroupT /\ m.id = k.id /\ m.rows = k.rows /\ m.gen = k.gen /\ m.done = k.done
      /\ m.hurt = h /\ h = k.hurt => m = k
  BY DEF GroupT
<1> QED
  BY <1>2, <1>3, <1>4, <1>5

Counts(c, e, n, T) ==
    /\ db' \in [Conns -> DbT] /\ \A d \in Conns \ {c} : db'[d] = db[d]
    /\ db'[c].vtab = db[c].vtab /\ db'[c].open = T
    /\ db'[c].host = db[c].host /\ db'[c].scalar = db[c].scalar /\ db'[c].module = db[c].module
    /\ db'[c].agg[e].next_id = n /\ db'[c].agg[e].host = db[c].agg[e].host
    /\ \A f \in Exts : f # e => db'[c].agg[f] = db[c].agg[f]

LEMMA CountsIs ==
    ASSUME BaseInv, NEW c \in Conns, NEW e \in Exts, NEW n \in Nat, NEW T \in SUBSET TagT,
           db' = [db EXCEPT ![c].agg[e].next_id = n, ![c].open = T]
    PROVE  Counts(c, e, n, T)
<1>1. db \in [Conns -> DbT]
  BY DEF BaseInv, Types, ConnTypes
<1>2. PICK x \in DbT : x = db[c]
  BY <1>1
<1>3. x.agg \in [Exts -> AggT] /\ x.agg[e] \in AggT
  BY DEF DbT
<1>4. PICK p : p = [x.agg[e] EXCEPT !.next_id = n]
  BY Zenon
<1>5. p \in AggT /\ p.next_id = n /\ p.host = x.agg[e].host
  BY <1>3, <1>4 DEF AggT
<1>6. PICK a : a = [x.agg EXCEPT ![e] = p]
  BY Zenon
<1>7. a \in [Exts -> AggT] /\ a[e] = p /\ \A f \in Exts : f # e => a[f] = x.agg[f]
  BY <1>3, <1>5, <1>6
<1>8. PICK y : y = [x EXCEPT !.agg = a, !.open = T]
  OBVIOUS
<1>9. /\ y \in DbT /\ y.agg = a /\ y.open = T /\ y.host = x.host /\ y.scalar = x.scalar
      /\ y.module = x.module /\ y.vtab = x.vtab
  BY Zenon, <1>7, <1>8 DEF DbT
<1>10. db' = [db EXCEPT ![c] = y]
  BY Zenon, <1>1, <1>2, <1>4, <1>6, <1>8
<1>11. db' \in [Conns -> DbT] /\ db'[c] = y /\ \A d \in Conns \ {c} : db'[d] = db[d]
  BY Zenon, <1>1, <1>9, <1>10
<1> QED
  BY Zenon, <1>2, <1>5, <1>7, <1>9, <1>11 DEF Counts

(* What the step does to the records, the counter and the groups open.      *)
Steps(c, s, k, g, id, row) ==
    LET m == grp'[c][s]
        e == Stmt(c).ext IN
    /\ grp' \in [Conns -> [Slots -> GroupT]]
    /\ m.id = id /\ m.rows = Append(k.rows, row) /\ m.done = k.done
    /\ m.gen = IF k.id = 0 THEN g ELSE k.gen
    /\ m.hurt <=> k.hurt \/ Others(c) # {}
    /\ \A t \in Slots : t # s => grp'[c][t] = grp[c][t]
    /\ \A d \in Conns \ {c}, t \in Slots :
          /\ grp'[d][t].id = grp[d][t].id /\ grp'[d][t].rows = grp[d][t].rows
          /\ grp'[d][t].gen = grp[d][t].gen /\ grp'[d][t].done = grp[d][t].done
          /\ grp[d][t].id # 0 => grp'[d][t].hurt
          /\ grp[d][t].hurt => grp'[d][t].hurt
          /\ grp[d][t].id = 0 => grp'[d][t] = grp[d][t]
    /\ Counts(c, e, IF k.id = 0 THEN db[c].agg[e].next_id + 1 ELSE db[c].agg[e].next_id,
              db[c].open \cup {Tag(c, s)})

NextRow(c, s) == <<c, Len(task[c].todo), s, grp[c][s].n + 1>>

LEMMA NextRowIs ==
    ASSUME BaseInv, GroupInv, NEW c \in Conns, NEW s \in Slots
    PROVE  NextRow(c, s) \in Rows /\ IsOf(NextRow(c, s), c, s)
<1>1. PICK n \in Nat : n = grp[c][s].n + 1
  <2>1. grp[c][s].n \in Nat
    BY GroupIs DEF GroupT
  <2> QED
    BY <2>1
<1>2. PICK l \in Nat : l = Len(task[c].todo)
  BY DEF BaseInv, Types, ConnTypes, TaskT
<1>3. NextRow(c, s) = <<c, l, s, n>>
  BY <1>1, <1>2 DEF NextRow
<1> QED
  BY <1>2, <1>3 DEF Rows, IsOf

LEMMA StepEffect ==
    ASSUME BaseInv, GroupInv, NEW c \in Conns, NEW s \in Slots, agg_xstep(c, s)
    PROVE  Steps(c, s, grp[c][s], AggGuest(c), agg_state(c, s), NextRow(c, s))
<1>1. InGroup(c, s)
  BY Zenon DEF agg_xstep
<1>2. PICK g \in Nat : g = AggGuest(c)
  BY <1>1, InGroupFacts DEF BaseInv, Types
<1>3. PICK k \in GroupT : k = grp[c][s]
  BY GroupIs
<1>4. PICK e \in Exts : e = Stmt(c).ext
  BY <1>1, InGroupFacts
<1>5. PICK v \in Nat : v = db[c].agg[e].next_id
  BY <1>1, <1>4, InGroupFacts
<1>6. PICK id \in Nat : id = agg_state(c, s)
  <2>1. k.id \in Nat
    BY DEF GroupT
  <2>2. agg_state(c, s) = IF k.id # 0 THEN k.id ELSE v
    BY <1>3, <1>4, <1>5 DEF agg_state
  <2> QED
    BY <1>5, <2>1, <2>2
<1>7. PICK row \in Rows : row = NextRow(c, s)
  BY NextRowIs
<1>8. PICK gen \in Nat : gen = IF k.id = 0 THEN g ELSE k.gen
  <2>1. k.gen \in Nat
    BY DEF GroupT
  <2> QED
    BY <1>2, <2>1
<1>9. PICK h \in BOOLEAN : h = (k.hurt \/ Others(c) # {})
  <2>1. k.hurt \in BOOLEAN
    BY DEF GroupT
  <2> QED
    BY Zenon, <2>1
<1>10. PICK m : m = [k EXCEPT !.id = id, !.n = @ + 1, !.rows = Append(@, row), !.gen = gen,
                        !.hurt = h]
  OBVIOUS
<1>11. /\ m \in GroupT /\ m.id = id /\ m.rows = Append(k.rows, row) /\ m.gen = gen
       /\ m.done = k.done /\ m.hurt = h
  <2>1. k.n + 1 \in Nat /\ k.rows \in Seq(Rows)
    BY DEF GroupT
  <2>2. PICK n \in Nat : n = k.n + 1
    BY <2>1
  <2>3. Append(k.rows, row) \in Seq(Rows)
    BY <2>1
  <2>4. PICK q \in Seq(Rows) : q = Append(k.rows, row)
    BY Zenon, <2>3
  <2>5. m = [k EXCEPT !.id = id, !.n = n, !.rows = q, !.gen = gen, !.hurt = h]
    BY <1>10, <2>2, <2>4
  <2>6. /\ m \in GroupT /\ m.id = id /\ m.rows = q /\ m.gen = gen /\ m.done = k.done
        /\ m.hurt = h
    BY Zenon, <2>5 DEF GroupT
  <2> QED
    BY <2>4, <2>6
<1>12. grp' = [d \in Conns |-> [t \in Slots |->
                  IF d = c /\ t = s THEN m
                  ELSE [grp[d][t] EXCEPT !.hurt = @ \/ (d # c /\ grp[d][t].id # 0)]]]
  <2>1. m = [grp[c][s] EXCEPT !.id = agg_state(c, s), !.n = @ + 1,
                !.rows = Append(@, NextRow(c, s)),
                !.gen = IF grp[c][s].id = 0 THEN AggGuest(c) ELSE @,
                !.hurt = @ \/ Others(c) # {}]
    BY <1>2, <1>3, <1>6, <1>7, <1>8, <1>9, <1>10
  <2> QED
    BY Zenon, <2>1 DEF agg_xstep, NextRow
<1>13. grp'[c][s] = m
  BY <1>12
<1>14. ASSUME NEW d \in Conns, NEW t \in Slots, d # c \/ t # s
       PROVE  /\ grp'[d][t] \in GroupT /\ grp'[d][t].id = grp[d][t].id
              /\ grp'[d][t].rows = grp[d][t].rows /\ grp'[d][t].gen = grp[d][t].gen
              /\ grp'[d][t].done = grp[d][t].done
              /\ grp'[d][t].hurt <=> grp[d][t].hurt \/ (d # c /\ grp[d][t].id # 0)
              /\ d = c \/ grp[d][t].id = 0 => grp'[d][t] = grp[d][t]
  <2>1. PICK a \in BOOLEAN : a = (d # c /\ grp[d][t].id # 0)
    BY Zenon
  <2>2. grp'[d][t] = [grp[d][t] EXCEPT !.hurt = @ \/ a]
    BY Zenon, <1>12, <1>14, <2>1
  <2>3. PICK z \in GroupT : z = grp[d][t]
    BY GroupIs
  <2>4. LET u == [z EXCEPT !.hurt = @ \/ a] IN
        /\ u \in GroupT /\ u.id = z.id /\ u.rows = z.rows /\ u.gen = z.gen /\ u.done = z.done
        /\ u.hurt <=> z.hurt \/ a
        /\ ~a => u = z
    BY HurtRecord
  <2> QED
    BY Zenon, <2>1, <2>2, <2>3, <2>4
<1>15. grp' \in [Conns -> [Slots -> GroupT]]
  <2>1. \A d \in Conns, t \in Slots : grp'[d][t] \in GroupT
    BY <1>11, <1>13, <1>14
  <2>2. DOMAIN grp' = Conns /\ \A d \in Conns : DOMAIN grp'[d] = Slots
    BY <1>12
  <2>3. grp' = [d \in Conns |-> [t \in Slots |-> grp'[d][t]]]
    BY <1>12
  <2> QED
    BY <2>1, <2>3
<1>16. PICK n \in Nat : n = IF k.id = 0 THEN v + 1 ELSE v
  OBVIOUS
<1>17. PICK T \in SUBSET TagT : T = db[c].open \cup {Tag(c, s)}
  <2>1. Tag(c, s) \in TagT
    BY DEF Tag, TagT, BaseInv, Types, ConnTypes, TaskT
  <2>2. db[c].open \subseteq TagT
    BY DEF BaseInv, Types, ConnTypes, DbT
  <2> QED
    BY Zenon, <2>1, <2>2
<1>18. Counts(c, e, n, T)
  <2>1. db' = [db EXCEPT ![c].agg[e].next_id = n, ![c].open = T]
    BY Zenon, <1>3, <1>4, <1>5, <1>16, <1>17 DEF agg_xstep
  <2> QED
    BY Zenon, <2>1, CountsIs
<1>19. \A d \in Conns \ {c}, t \in Slots :
          /\ grp'[d][t].id = grp[d][t].id /\ grp'[d][t].rows = grp[d][t].rows
          /\ grp'[d][t].gen = grp[d][t].gen /\ grp'[d][t].done = grp[d][t].done
          /\ grp[d][t].id # 0 => grp'[d][t].hurt
          /\ grp[d][t].hurt => grp'[d][t].hurt
          /\ grp[d][t].id = 0 => grp'[d][t] = grp[d][t]
  BY <1>14
<1>20. \A t \in Slots : t # s => grp'[c][t] = grp[c][t]
  BY <1>14
<1>21. /\ grp'[c][s].id = agg_state(c, s) /\ grp'[c][s].done = grp[c][s].done
       /\ grp'[c][s].rows = Append(grp[c][s].rows, NextRow(c, s))
       /\ grp'[c][s].gen = IF grp[c][s].id = 0 THEN AggGuest(c) ELSE grp[c][s].gen
       /\ grp'[c][s].hurt <=> grp[c][s].hurt \/ Others(c) # {}
  BY Zenon, <1>2, <1>3, <1>6, <1>7, <1>8, <1>9, <1>11, <1>13
<1>22. Counts(c, Stmt(c).ext, IF grp[c][s].id = 0 THEN db[c].agg[Stmt(c).ext].next_id + 1
                              ELSE db[c].agg[Stmt(c).ext].next_id,
              db[c].open \cup {Tag(c, s)})
  BY <1>3, <1>4, <1>5, <1>16, <1>17, <1>18
<1> QED
  BY <1>15, <1>19, <1>20, <1>21, <1>22 DEF Steps

LEMMA StepRegistered ==
    ASSUME BaseInv, NEW c \in Conns, NEW e \in Exts, NEW n, NEW T, Counts(c, e, n, T),
           db[c].agg[e] # NoAgg, n = db[c].agg[e].next_id \/ n = db[c].agg[e].next_id + 1
    PROVE  /\ SameRegistered(c)
           /\ \A f \in Exts : db'[c].agg[f].next_id >= db[c].agg[f].next_id
<1>1. \A f \in Exts : db[c].agg[f].next_id \in Nat
  BY DEF BaseInv, Types, ConnTypes, DbT, AggT
<1>2. db'[c].agg[e].next_id >= db[c].agg[e].next_id
  BY <1>1 DEF Counts
<1>3. \A f \in Exts : f # e => db'[c].agg[f].next_id >= db[c].agg[f].next_id
  BY <1>1 DEF Counts
<1> QED
  BY <1>2, <1>3 DEF Counts, SameRegistered

(* A new id has no rows that anybody may still add to.                      *)
LEMMA FreshRows ==
    ASSUME BaseInv, GroupInv, NEW c \in Conns, NEW e \in Exts, Guest(HOST, e) # 0,
           Others(c) = {}
    PROVE  At(guests[Guest(HOST, e)].acc, db[c].agg[e].next_id, <<>>) = <<>>
<1>1. PICK a : a = guests[Guest(HOST, e)].acc
  OBVIOUS
<1>2. PICK id : id = db[c].agg[e].next_id
  OBVIOUS
<1>3. SUFFICES ASSUME id \in DOMAIN a, a[id] # <<>> PROVE FALSE
  BY <1>1, <1>2 DEF At
<1>4. /\ id \in Nat /\ a[id] \in Seq(Rows)
      /\ \A i \in DOMAIN a[id] : KnownRow(e, id, a[id][i]) /\ a[id][i] \in Rows
  BY <1>1, <1>3, KnownRows
<1>5. PICK r \in Rows : KnownRow(e, id, r)
  <2>1. 1 \in DOMAIN a[id]
    BY <1>3, <1>4
  <2> QED
    BY <1>4, <2>1
<1>6. /\ r[1] \in Conns /\ id < db[r[1]].agg[e].next_id
      /\ <<r[1], r[2], r[3]>> \in db[r[1]].open
  BY <1>5 DEF KnownRow, Rows
<1>7. CASE r[1] = c
  BY <1>2, <1>4, <1>6, <1>7
<1>8. CASE r[1] # c
  BY <1>6, <1>8 DEF Others
<1> QED
  BY <1>7, <1>8

LEMMA AppendIs ==
    ASSUME NEW T, NEW q \in Seq(T), NEW v \in T
    PROVE  /\ Append(q, v) \in Seq(T)
           /\ \A i \in DOMAIN Append(q, v) :
                 (i \in DOMAIN q /\ Append(q, v)[i] = q[i]) \/ Append(q, v)[i] = v
<1>1. /\ Append(q, v) \in Seq(T) /\ Len(Append(q, v)) = Len(q) + 1 /\ Len(q) \in Nat
      /\ \A i \in 1..Len(q) : Append(q, v)[i] = q[i]
      /\ Append(q, v)[Len(q) + 1] = v
  OBVIOUS
<1>2. DOMAIN Append(q, v) = 1..Len(q) + 1 /\ DOMAIN q = 1..Len(q)
  BY <1>1
<1> QED
  BY <1>1, <1>2

LEMMA StepGroups ==
    ASSUME BaseInv, GroupInv, NEW c \in Conns, NEW s \in Slots, agg_xstep(c, s),
           NEW d \in Conns, NEW t \in Slots
    PROVE  GroupOk(d, t)
<1>1. InGroup(c, s) /\ Steps(c, s, grp[c][s], AggGuest(c), agg_state(c, s), NextRow(c, s))
  BY Zenon, StepEffect DEF agg_xstep
<1>2. /\ AggGuest(c) \in 0..Len(guests) /\ ~grp[c][s].done /\ task[c].pc = "group"
      /\ db[c].agg[Stmt(c).ext].next_id # 0
  BY <1>1, InGroupFacts
<1>3. agg_state(c, s) # 0
  BY <1>2 DEF agg_state
<1>4. /\ db'[c].open = db[c].open \cup {Tag(c, s)}
      /\ \A a \in Conns \ {c} : db'[a] = db[a]
  BY <1>1 DEF Steps, Counts
<1>5. Others(c)' = Others(c)
  BY <1>4 DEF Others
<1>6. CASE d = c /\ t = s
  <2>1. PICK m : m = grp'[c][s]
    OBVIOUS
  <2>2. m.id # 0 /\ (m.hurt <=> grp[c][s].hurt \/ Others(c) # {})
    BY <1>1, <1>3, <2>1 DEF Steps
  <2>3. m.gen <= Len(guests)
    BY <1>1, <1>2, <2>1, GroupIs DEF Steps
  <2>4. \A i \in DOMAIN m.rows : IsOf(m.rows[i], c, s)
    <3>1. PICK row : row = NextRow(c, s)
      OBVIOUS
    <3>2. IsOf(row, c, s) /\ row \in Rows
      BY <3>1, NextRowIs
    <3>3. m.rows = Append(grp[c][s].rows, row) /\ grp[c][s].rows \in Seq(Rows)
      BY Zenon, <1>1, <2>1, <3>1, GroupIs DEF Steps, GroupT
    <3>4. \A i \in DOMAIN grp[c][s].rows : IsOf(grp[c][s].rows[i], c, s)
      BY DEF GroupInv, GroupIds
    <3>5. \A i \in DOMAIN m.rows :
             (i \in DOMAIN grp[c][s].rows /\ m.rows[i] = grp[c][s].rows[i]) \/ m.rows[i] = row
      BY <3>2, <3>3, AppendIs
    <3> QED
      BY <3>2, <3>4, <3>5
  <2>5. Tag(c, s) \in db'[c].open
    BY <1>4
  <2> QED
    BY <1>2, <1>5, <1>6, <2>1, <2>2, <2>3, <2>4, <2>5 DEF GroupOk
<1>7. CASE d = c /\ t # s
  <2>1. grp'[c][t] = grp[c][t]
    BY <1>1, <1>7 DEF Steps
  <2> QED
    BY <1>4, <1>5, <1>7, <2>1 DEF GroupInv, GroupIds, GroupOk
<1>8. CASE d # c
  <2>1. /\ grp'[d][t].id = grp[d][t].id /\ grp'[d][t].rows = grp[d][t].rows
        /\ grp'[d][t].gen = grp[d][t].gen /\ grp'[d][t].done = grp[d][t].done
        /\ grp[d][t].id # 0 => grp'[d][t].hurt
        /\ grp[d][t].id = 0 => grp'[d][t] = grp[d][t]
    BY <1>1, <1>8 DEF Steps
  <2>2. db'[d] = db[d]
    BY <1>4, <1>8
  <2>3. grp'[d][t] # NoGroup => task[d].pc = "group"
    <3>1. grp[d][t].id # 0 => grp[d][t] # NoGroup
      BY DEF NoGroup
    <3> QED
      BY <2>1, <3>1 DEF GroupInv, GroupIds
  <2> QED
    BY <2>1, <2>2, <2>3 DEF GroupInv, GroupIds, GroupOk
<1> QED
  BY <1>6, <1>7, <1>8

LEMMA StepKept ==
    ASSUME BaseInv, GroupInv, SeenInv, NEW c \in Conns, NEW s \in Slots, agg_xstep(c, s)
    PROVE  GroupKept(c)
<1>1. /\ InGroup(c, s) /\ ~task[c].err /\ UNCHANGED <<HOST, GLOBALS, loaded, next, cur, seen>>
      /\ UNCHANGED task \/ Fail(c)
  BY Zenon DEF agg_xstep, Running
<1>2. PICK g : g = AggGuest(c)
  OBVIOUS
<1>3. PICK k \in GroupT : k = grp[c][s]
  BY GroupIs
<1>4. PICK row \in Rows : row = NextRow(c, s) /\ IsOf(row, c, s)
  BY NextRowIs
<1>5. PICK e : e = Stmt(c).ext
  OBVIOUS
<1>6. PICK v : v = db[c].agg[e].next_id
  OBVIOUS
<1>7. /\ e \in Exts /\ ~k.done /\ task[c].pc = "group" /\ g \in 0..Len(guests)
      /\ g # 0 => g = Guest(HOST, e) /\ g \in DOMAIN guests
      /\ db[c].agg[e] # NoAgg /\ v \in Nat /\ v # 0
  BY <1>1, <1>2, <1>3, <1>5, <1>6, InGroupFacts
<1>8. PICK id \in Nat \ {0} : id = agg_state(c, s) /\ id = IF k.id # 0 THEN k.id ELSE v
  <2>1. k.id \in Nat
    BY DEF GroupT
  <2>2. agg_state(c, s) = IF k.id # 0 THEN k.id ELSE v
    BY <1>3, <1>5, <1>6 DEF agg_state
  <2> QED
    BY <1>7, <2>1, <2>2
<1>9. Steps(c, s, k, g, id, row)
  BY Zenon, <1>2, <1>3, <1>4, <1>8, StepEffect
<1>10. Continues(c)
  BY <1>1, GroupTask
<1>11. PICK n : n = IF k.id = 0 THEN v + 1 ELSE v
  OBVIOUS
<1>12. Counts(c, e, n, db[c].open \cup {Tag(c, s)})
  BY <1>5, <1>6, <1>9, <1>11 DEF Steps
<1>13. /\ SameRegistered(c)
       /\ \A f \in Exts : db'[c].agg[f].next_id >= db[c].agg[f].next_id
  BY <1>6, <1>7, <1>11, <1>12, StepRegistered
<1>14. /\ OthersKept(c) /\ db[c].open \subseteq db'[c].open /\ Tag(c, s) \in db'[c].open
       /\ db'[c].vtab = db[c].vtab /\ db' \in [Conns -> DbT]
  BY <1>10, <1>12 DEF Counts, OthersKept, Continues
<1>15. GroupStep(c, s)
  <2>1. \A d \in Conns, t \in Slots : d # c \/ t # s => grp'[d][t].id = grp[d][t].id
    BY <1>9 DEF Steps
  <2>2. grp'[c][s].id = id
    BY <1>9 DEF Steps
  <2>3. k.id = 0 => db'[c].agg[e].next_id = v + 1
    BY <1>11, <1>12 DEF Counts
  <2> QED
    BY <1>1, <1>3, <1>5, <1>6, <1>8, <1>10, <1>13, <1>14, <2>1, <2>2, <2>3
    DEF GroupStep, Continues
<1>16. PICK rows : rows = At(guests[g].acc, id, <<>>)
  OBVIOUS
<1>17. PICK q : q = Append(rows, row)
  BY Zenon
<1>18. ASSUME Answers(g), UNCHANGED task, guests' = [guests EXCEPT ![g].acc = Put(@, id, q)]
       PROVE  CalledBack(c, s, id)
  <2>1. g # 0 /\ g = Guest(HOST, e) /\ g \in DOMAIN guests /\ Fine
    BY <1>7, <1>18 DEF Answers, Alive
  <2>2. id \in DOMAIN guests[g].acc \/ rows = <<>>
    BY <1>16 DEF At
  <2>3. rows \in Seq(Rows) /\ (id \in DOMAIN guests[g].acc => rows = guests[g].acc[id])
    BY <1>7, <1>16, <2>1, KnownRows DEF At
  <2>4. q \in Seq(Rows) /\ \A i \in DOMAIN q : (i \in DOMAIN rows /\ q[i] = rows[i]) \/ q[i] = row
    BY <1>17, <2>3, AppendIs
  <2>5. AccSet(g, id, q)
    BY Zenon, <1>18, <2>1, <2>4, AccPut DEF BaseInv, Types
  <2>6. AccOnly(id) /\ At(guests'[g].acc, id, <<>>) = q
    BY <2>1, <2>5, AccSetOnly
  <2>7. Guests /\ Surroundings
    BY <1>1, <2>1, <2>5, FaultCounted DEF Guests, AccSet, Surroundings, BaseInv, Types, HostTypes
  <2>8. \A a \in Exts : Guest(HOST, a) # 0 => RowsFrom(c, s, a, Guest(HOST, a))
    <3>1. grp'[c][s].id = id
      BY <1>9 DEF Steps
    <3>2. StepRow(c, s, Stmt(c).ext, id, row)
      BY <1>4, <1>14, <3>1 DEF StepRow
    <3>3. RowsKnown(c, s, g, id, q)
      <4> SUFFICES ASSUME NEW i \in DOMAIN q
                   PROVE  \/ StepRow(c, s, Stmt(c).ext, id, q[i])
                          \/ /\ id \in DOMAIN guests[g].acc
                             /\ \E j \in DOMAIN guests[g].acc[id] : q[i] = guests[g].acc[id][j]
        BY DEF RowsKnown
      <4>1. CASE q[i] = row
        BY <3>2, <4>1
      <4>2. CASE i \in DOMAIN rows /\ q[i] = rows[i]
        BY <2>2, <2>3, <4>2
      <4> QED
        BY <2>4, <4>1, <4>2
    <3> QED
      BY Zenon, <1>5, <1>7, <1>14, <2>1, <2>5, <3>3, AccSetRows
  <2>9. Match(c, s)'
    <3>1. Guest(HOST, Stmt(c).ext)' = g
      BY Zenon, <1>1, <1>5, <1>18, <2>1 DEF Guest, Stmt
    <3>2. /\ grp'[c][s].rows = Append(k.rows, row) /\ grp'[c][s].id = id
          /\ grp'[c][s].hurt <=> k.hurt \/ Others(c) # {}
          /\ grp'[c][s].gen = IF k.id = 0 THEN g ELSE k.gen
      BY <1>9 DEF Steps
    <3>3. SUFFICES ASSUME ~k.hurt, Others(c) = {}, grp'[c][s].gen = g
                   PROVE  At(guests'[g].acc, id, <<>>) = Append(k.rows, row)
      BY <3>1, <3>2 DEF Match
    <3>4. rows = k.rows
      <4>1. CASE k.id = 0
        <5>1. k.rows = <<>> /\ id = v
          BY <1>3, <1>8, <4>1 DEF GroupInv, GroupIds
        <5> QED
          BY <1>6, <1>7, <1>16, <2>1, <3>3, <5>1, FreshRows
      <4>2. CASE k.id # 0
        <5>1. id = k.id /\ k.gen = g
          BY <1>8, <3>2, <3>3, <4>2
        <5> QED
          BY <1>1, <1>3, <1>5, <1>7, <1>16, <2>1, <3>3, <4>2, <5>1 DEF GroupInv, Match
      <4> QED
        BY <4>1, <4>2
    <3> QED
      BY <1>17, <2>6, <3>4
  <2> QED
    BY <2>6, <2>7, <2>8, <2>9 DEF CalledBack
<1>19. ASSUME Refuses(g), Fail(c) PROVE CalledBack(c, s, id)
  <2>1. Unmoved /\ faults' \in 0..MaxFaults
    BY <1>7, <1>19, Refusal DEF BaseInv
  <2>2. AccOnly(id) /\ Guests /\ Surroundings
    BY <1>1, <2>1, SameAccOnly DEF Unmoved, Guests, Surroundings
  <2>3. \A a \in Exts : Guest(HOST, a) # 0 => RowsFrom(c, s, a, Guest(HOST, a))
    BY <1>1, <1>14, <2>1, HostGuest, SameRows DEF Unmoved, SameAcc
  <2>4. Match(c, s)'
    BY <1>19, FailEffect DEF Match, BaseInv, Types, ConnTypes
  <2> QED
    BY <2>2, <2>3, <2>4 DEF CalledBack
<1>20. CalledBack(c, s, id)
  <2>1. \/ /\ Answers(g) /\ UNCHANGED task
           /\ guests' = [guests EXCEPT ![g].acc = Put(@, id, q)]
        \/ Refuses(g) /\ Fail(c)
    BY Zenon, <1>2, <1>4, <1>8, <1>16, <1>17 DEF agg_xstep, NextRow
  <2> QED
    BY <1>18, <1>19, <2>1
<1>21. grp' \in [Conns -> [Slots -> GroupT]] /\ grp'[c][s].id = id
  BY <1>9 DEF Steps
<1>22. Types'
  BY <1>10, <1>14, <1>20, <1>21, GroupTypes DEF CalledBack, Guests
<1>23. ASSUME NEW d \in Conns, NEW t \in Slots, d # c \/ t # s
       PROVE  Match(d, t)'
  <2>1. SameGroup(d, t) /\ AccOnly(grp'[c][s].id)
    BY <1>9, <1>20, <1>21, <1>23 DEF SameGroup, CalledBack, Steps
  <2>2. task[d].err => task'[d].err
    BY <1>10 DEF Continues
  <2>3. d # c /\ grp[d][t].id # 0 => grp'[d][t].hurt
    BY <1>9 DEF Steps
  <2> QED
    BY <1>1, <1>15, <1>22, <1>23, <2>1, <2>2, <2>3, OtherMatch
<1>24. \A d \in Conns : GroupIds(d)'
  BY <1>1, <1>15, <1>20, <1>22, StepGroups, SteppedGroupIds DEF CalledBack, Guests
<1>25. \A d \in Conns, t \in Slots : Match(d, t)'
  BY <1>20, <1>23 DEF CalledBack
<1>26. GroupsApart' /\ SeenInv'
  BY <1>1, UnseenApart
<1> QED
  BY <1>1, <1>10, <1>13, <1>14, <1>15, <1>20, <1>22, <1>24, <1>25, <1>26, GroupDone
  DEF CalledBack

(* A statement starts to group, or is done with it: no group is there.      *)
NoGroups(c) ==
    /\ UNCHANGED <<HOST, GLOBALS, loaded, guests, next, db, cur, faults, seen>>
    /\ grp' = [grp EXCEPT ![c] = [s \in Slots |-> NoGroup]]
    /\ task' \in [Conns -> TaskT] /\ \A d \in Conns \ {c} : task'[d] = task[d]
    /\ \/ task[c].pc = "idle" /\ task'[c].pc = "group" /\ task'[c].todo = task[c].todo
       \/ task[c].pc = "group" /\ task'[c].pc = "idle" /\ task'[c].todo = Tail(task[c].todo)

LEMMA NoGroupsRow ==
    ASSUME BaseInv, NEW c \in Conns, task[c].todo # <<>>, NoGroups(c), NEW e \in Exts,
           NEW id \in Nat \ {0}, NEW r \in Rows, KnownRow(e, id, r)
    PROVE  KnownRow(e, id, r)'
<1>1. r[1] \in Conns /\ r[2] \in Nat /\ r[3] \in Slots
  BY DEF Rows
<1>2. PICK d \in Conns : d = r[1]
  BY <1>1
<1>3. /\ id < db[d].agg[e].next_id /\ r[2] >= Level(d)
      /\ task[d].todo # <<>> => Stmt(d).op # "attach"
      /\ <<r[1], r[2], r[3]>> \in db[d].open
      /\ task[d].pc = "group" /\ r[2] = Len(task[d].todo) =>
            Stmt(d).ext = e /\ grp[d][r[3]].id = id
      /\ \A t \in Slots : Grouping(d, e) /\ grp[d][t].id = id => IsOf(r, d, t)
  BY <1>2 DEF KnownRow
<1>4. db' = db /\ grp \in [Conns -> [Slots -> GroupT]]
  BY DEF NoGroups, BaseInv, Types, ConnTypes
<1>5. CASE d # c
  <2>1. task'[d] = task[d] /\ grp'[d] = grp[d] /\ Stmt(d)' = Stmt(d)
    BY <1>4, <1>5 DEF NoGroups, Stmt
  <2>2. Level(d)' = Level(d) /\ Grouping(d, e)' = Grouping(d, e)
        /\ \A t \in Slots : IsOf(r, d, t)' = IsOf(r, d, t)
    BY <2>1 DEF Level, Grouping, IsOf
  <2> QED
    BY <1>2, <1>3, <1>4, <2>1, <2>2 DEF KnownRow
<1>6. CASE d = c
  <2>1. \A t \in Slots : grp'[c][t].id = 0
    BY <1>4 DEF NoGroups, NoGroup
  <2>2. PICK l \in Nat : l = Len(task[c].todo)
    BY DEF BaseInv, Types, ConnTypes, TaskT
  <2>3. /\ task'[c].todo # <<>> => Stmt(c)'.op # "attach"
    BY <1>3, <1>6, StillGoing DEF NoGroups
  <2>4. r[2] >= Level(c)' /\ ~(task'[c].pc = "group" /\ r[2] = Len(task'[c].todo))
    <3>1. CASE task[c].pc = "idle" /\ task'[c].pc = "group" /\ task'[c].todo = task[c].todo
      <4>1. r[2] >= l + 1 /\ Level(c)' = l /\ Len(task'[c].todo) = l
        BY <1>3, <1>6, <2>2, <3>1 DEF Level
      <4> QED
        BY <1>1, <2>2, <4>1
    <3>2. CASE task[c].pc = "group" /\ task'[c].pc = "idle" /\ task'[c].todo = Tail(task[c].todo)
      <4>1. Len(Tail(task[c].todo)) = l - 1 /\ l >= 1
        BY <2>2, StmtIs DEF BaseInv, Types, ConnTypes
      <4>2. r[2] >= l /\ Level(c)' = (l - 1) + 1
        BY <1>3, <1>6, <2>2, <3>2, <4>1 DEF Level
      <4> QED
        BY <1>1, <2>2, <3>2, <4>1, <4>2
    <3> QED
      BY <3>1, <3>2 DEF NoGroups
  <2> QED
    BY <1>2, <1>3, <1>4, <1>6, <2>1, <2>3, <2>4 DEF KnownRow
<1> QED
  BY <1>5, <1>6

LEMMA NoGroupsKept ==
    ASSUME BaseInv, GroupInv, SeenInv, NEW c \in Conns, task[c].todo # <<>>,
           Stmt(c).op \in {"group", "window"}, NoGroups(c), Own(c)'
    PROVE  GroupKept(c)
<1>1. /\ UNCHANGED <<HOST, GLOBALS, loaded, guests, next, db, cur, faults, seen>>
      /\ task' \in [Conns -> TaskT] /\ \A d \in Conns \ {c} : task'[d] = task[d]
      /\ task[c].pc \in {"idle", "group"} /\ task'[c].pc \in {"idle", "group"}
  BY DEF NoGroups
<1>2. /\ grp \in [Conns -> [Slots -> GroupT]] /\ guests \in Seq(GuestT) /\ db \in [Conns -> DbT]
      /\ Len(guests) \in Nat /\ DOMAIN guests = 1..Len(guests)
  BY DEF BaseInv, Types, ConnTypes
<1>3. /\ grp' \in [Conns -> [Slots -> GroupT]] /\ \A d \in Conns \ {c} : grp'[d] = grp[d]
      /\ \A s \in Slots : grp'[c][s] = NoGroup
  <2>1. NoGroup \in GroupT
    <3>1. <<>> \in Seq(Rows)
      OBVIOUS
    <3> QED
      BY <3>1 DEF NoGroup, GroupT
  <2> QED
    BY <1>2, <2>1 DEF NoGroups
<1>4. Types'
  BY <1>1, <1>3 DEF BaseInv, Types, HostTypes, ConnTypes
<1>5. SameRegistered(c)
  BY <1>1, <1>2 DEF SameRegistered, DbT, AggT
<1>6. GroupFrame(c)
  BY <1>1, UnchangedGuests, <1>2 DEF GroupFrame, OthersKept, Unmoved
<1>7. BaseInv' /\ QuietTables(c) /\ QuietScans(c)
  BY <1>4, <1>5, <1>6, GroupQuiet
<1>8. GuestRows'
  <2> SUFFICES ASSUME NEW e \in Exts, Guest(HOST, e)' # 0 PROVE Kept(Guest(HOST, e), e)'
    BY DEF GuestRows
  <2>1. PICK g : g = Guest(HOST, e)
    OBVIOUS
  <2>2. Guest(HOST, e)' = g /\ guests' = guests
    BY <1>1, <2>1 DEF Guest
  <2>3. ASSUME NEW id \in DOMAIN guests[g].acc
        PROVE  /\ id # 0
               /\ \A i \in DOMAIN guests[g].acc[id] : KnownRow(e, id, guests[g].acc[id][i])'
    <3>1. /\ id \in Nat \ {0}
          /\ \A i \in DOMAIN guests[g].acc[id] :
                KnownRow(e, id, guests[g].acc[id][i]) /\ guests[g].acc[id][i] \in Rows
      BY <2>1, <2>2, <2>3, KnownRows
    <3>2. ASSUME NEW i \in DOMAIN guests[g].acc[id]
          PROVE  KnownRow(e, id, guests[g].acc[id][i])'
      <4>1. PICK r \in Rows : r = guests[g].acc[id][i]
        BY <3>1
      <4>2. KnownRow(e, id, r)'
        BY <3>1, <4>1, NoGroupsRow
      <4> QED
        BY Zenon, <2>2, <4>1, <4>2 DEF KnownRow
    <3> QED
      BY <3>1, <3>2
  <2> QED
    BY <2>2, <2>3 DEF Kept
<1>9. ASSUME NEW d \in Conns, d # c
      PROVE  /\ task'[d] = task[d] /\ grp'[d] = grp[d] /\ db' = db /\ guests' = guests
             /\ Stmt(d)' = Stmt(d) /\ Others(d)' = Others(d)
             /\ \A s \in Slots : Tag(d, s)' = Tag(d, s)
             /\ \A r, s : IsOf(r, d, s)' = IsOf(r, d, s)
  BY <1>1, <1>3, <1>9 DEF Stmt, Others, Tag, IsOf
<1>10. ASSUME NEW d \in Conns PROVE GroupIds(d)'
  <2>1. CASE d = c
    <3>1. Len(guests') >= 0
      BY <1>1, <1>2
    <3> QED
      BY <1>3, <2>1, <3>1 DEF GroupIds, NoGroup
  <2>2. CASE d # c
    BY <1>9, <2>2 DEF GroupInv, GroupIds
  <2> QED
    BY <2>1, <2>2
<1>11. ASSUME NEW d \in Conns, NEW s \in Slots PROVE Match(d, s)'
  <2>1. CASE d = c
    BY <1>3, <2>1 DEF Match, NoGroup
  <2>2. CASE d # c
    <3>1. Guest(HOST, Stmt(d).ext)' = Guest(HOST, Stmt(d).ext)
      BY <1>1, <1>9, <2>2 DEF Guest
    <3> QED
      BY <1>9, <2>2, <3>1 DEF GroupInv, Match
  <2> QED
    BY <2>1, <2>2
<1>12. GroupsApart' /\ SeenInv'
  BY <1>1, UnseenApart
<1> QED
  BY <1>7, <1>8, <1>10, <1>11, <1>12 DEF GroupKept, GroupInv

LEMMA GroupStarts ==
    ASSUME BaseInv, GroupInv, SeenInv, NEW c \in Conns, Group(c)
    PROVE  GroupKept(c)
<1>1. /\ task[c].todo # <<>> /\ Stmt(c).op \in {"group", "window"} /\ task[c].pc = "idle"
      /\ Registered(c) /\ Goto(c, "group") /\ grp' = [grp EXCEPT ![c] = [s \in Slots |-> NoGroup]]
      /\ UNCHANGED <<HOST, GLOBALS, loaded, guests, next, db, cur, faults, seen>>
  BY DEF Group, Doing
<1>2. task \in [Conns -> TaskT] /\ db[c].agg[Stmt(c).ext] # NoAgg
  BY <1>1 DEF Registered, BaseInv, Types, ConnTypes
<1>3. /\ task' \in [Conns -> TaskT] /\ \A d \in Conns \ {c} : task'[d] = task[d]
      /\ task'[c].todo = task[c].todo /\ task'[c].pc = "group"
  BY <1>1, <1>2, GotoEffect DEF TaskPcs
<1>4. NoGroups(c)
  BY <1>1, <1>3 DEF NoGroups
<1>6. Own(c)'
  <2>1. Stmt(c)' = Stmt(c) /\ db' = db
    BY <1>1, <1>3 DEF Stmt
  <2>2. AttachOnce(c)' /\ Hosted(c)' /\ Installing(c)'
    BY <1>1, <1>3, <2>1 DEF BaseInv, AttachOnce, Hosted, Installing
  <2>3. Place(c)'
    BY <1>1, <1>2, <1>3, <2>1 DEF Place
  <2> QED
    BY <2>2, <2>3 DEF Own
<1> QED
  BY <1>1, <1>4, <1>6, NoGroupsKept

LEMMA GroupEnds ==
    ASSUME BaseInv, GroupInv, SeenInv, NEW c \in Conns, GroupEnd(c)
    PROVE  GroupKept(c)
<1>1. /\ task[c].todo # <<>> /\ Stmt(c).op \in {"group", "window"} /\ task[c].pc = "group"
      /\ End(c) /\ grp' = [grp EXCEPT ![c] = [s \in Slots |-> NoGroup]]
      /\ UNCHANGED <<HOST, GLOBALS, loaded, guests, next, db, cur, faults, seen>>
  BY DEF GroupEnd, Doing
<1>2. /\ task' \in [Conns -> TaskT] /\ \A d \in Conns \ {c} : task'[d] = task[d]
      /\ task'[c].todo = Tail(task[c].todo) /\ task'[c].pc = "idle"
  BY <1>1, EndEffect DEF BaseInv, Types, ConnTypes
<1>3. NoGroups(c)
  BY <1>1, <1>2 DEF NoGroups
<1>4. Own(c)'
  BY <1>1, EndOwn
<1> QED
  BY <1>1, <1>3, <1>4, NoGroupsKept

-----------------------------------------------------------------------------
(* All of it together.                                                      *)
IInv == BaseInv /\ TableInv /\ GroupInv /\ ScanInv /\ SeenInv

LEMMA QuietKept ==
    ASSUME BaseInv, TableInv, GroupInv, ScanInv, BaseInv', NEW c \in Conns, Quiet(c)
    PROVE  TableInv' /\ GroupInv' /\ ScanInv'
<1>1. QuietTables(c) /\ QuietGroups(c) /\ QuietScans(c)
  BY DEF Quiet
<1>2. Types'
  BY DEF BaseInv
<1> QED
  BY <1>1, <1>2, QuietTablesKept, QuietGroupsKept, QuietScansKept

LEMMA SeenKept ==
    ASSUME SeenInv, seen' = seen PROVE SeenInv'
BY DEF SeenInv, CellsSurvive

LEMMA TypesKept == ASSUME BaseInv' PROVE Types'
BY DEF BaseInv

LEMMA ConnStep ==
    ASSUME IInv, NEW c \in Conns,
           \/ Attach(c) \/ HostNew(c) \/ HostSet(c) \/ register_sqlink_load_ext(c)
           \/ sqlink_load_ext_xfunc(c) \/ load_and_install(c) \/ NoSuchName(c)
           \/ scalar_xfunc(c) \/ Group(c) \/ GroupEnd(c)
           \/ create_or_connect(c) \/ x_disconnect(c) \/ x_best_index(c) \/ ScanEnd(c)
           \/ x_begin(c) \/ x_update(c) \/ x_savepoint(c) \/ x_release(c) \/ x_rollback_to(c)
           \/ x_sync(c) \/ x_commit(c) \/ x_rollback(c)
    PROVE  IInv'
<1>0. BaseInv /\ TableInv /\ GroupInv /\ ScanInv /\ SeenInv
  BY DEF IInv
<1>1. CASE \/ Attach(c) \/ HostNew(c) \/ HostSet(c) \/ register_sqlink_load_ext(c)
           \/ sqlink_load_ext_xfunc(c) \/ load_and_install(c) \/ NoSuchName(c)
  <2>1. BaseInv' /\ Quiet(c) /\ seen' = seen
    BY <1>0, <1>1, AttachSteps, RegisterStep, LoadStep, InstallStep, NoSuchNameStep
  <2>2. TableInv' /\ GroupInv' /\ ScanInv'
    BY <1>0, <2>1, QuietKept
  <2>3. SeenInv'
    BY <1>0, <2>1, SeenKept
  <2> QED
    BY <2>1, <2>2, <2>3 DEF IInv
<1>2. CASE scalar_xfunc(c)
  <2>1. BaseInv' /\ Quiet(c) /\ SeenInv'
    BY <1>0, <1>2, ScalarStep
  <2>2. TableInv' /\ GroupInv' /\ ScanInv'
    BY <1>0, <2>1, QuietKept
  <2> QED
    BY <2>1, <2>2 DEF IInv
<1>3. CASE Group(c) \/ GroupEnd(c)
  <2>1. GroupKept(c)
    BY <1>0, <1>3, GroupStarts, GroupEnds
  <2>2. BaseInv' /\ QuietTables(c) /\ QuietScans(c) /\ GroupInv' /\ SeenInv'
    BY <2>1 DEF GroupKept
  <2>3. TableInv' /\ ScanInv'
    BY <1>0, <2>2, QuietTablesKept, QuietScansKept
  <2> QED
    BY <2>2, <2>3 DEF IInv
<1>4. CASE \/ create_or_connect(c) \/ x_disconnect(c) \/ x_best_index(c) \/ x_begin(c)
           \/ x_update(c) \/ x_savepoint(c) \/ x_release(c) \/ x_rollback_to(c)
           \/ x_sync(c) \/ x_commit(c) \/ x_rollback(c)
  <2>1. BaseInv' /\ TableInv' /\ QuietScans(c) /\ QuietGroups(c) /\ seen' = seen
    BY <1>0, <1>4, TablesStep, CreateRemoveStep
  <2>2. GroupInv' /\ ScanInv' /\ SeenInv'
    BY <1>0, <2>1, TypesKept, QuietGroupsKept, QuietScansKept, SeenKept
  <2> QED
    BY <2>1, <2>2 DEF IInv
<1>5. CASE ScanEnd(c)
  <2>1. BaseInv' /\ QuietTables(c) /\ QuietGroups(c) /\ ScanInv' /\ seen' = seen
    BY <1>0, <1>5, ScanEndStep DEF CursorKept
  <2>2. TableInv' /\ GroupInv' /\ SeenInv'
    BY <1>0, <2>1, TypesKept, QuietGroupsKept, QuietTablesKept, SeenKept
  <2> QED
    BY <2>1, <2>2 DEF IInv
<1> QED
  BY <1>1, <1>2, <1>3, <1>4, <1>5

LEMMA SlotStep ==
    ASSUME IInv, NEW c \in Conns, NEW s \in Slots,
           \/ agg_xstep(c, s) \/ agg_out_of_memory(c, s) \/ agg_xvalue(c, s)
           \/ agg_xinverse(c, s) \/ agg_xfinal(c, s)
           \/ x_open(c, s) \/ x_filter(c, s) \/ x_eof(c, s) \/ x_column(c, s)
           \/ x_next(c, s) \/ x_close(c, s)
    PROVE  IInv'
<1>0. BaseInv /\ TableInv /\ GroupInv /\ ScanInv /\ SeenInv
  BY DEF IInv
<1>1. CASE \/ agg_xstep(c, s) \/ agg_out_of_memory(c, s) \/ agg_xvalue(c, s)
           \/ agg_xinverse(c, s) \/ agg_xfinal(c, s)
  <2>1. GroupKept(c)
    BY <1>0, <1>1, StepKept, MemoryStep, ValueStep, InverseStep, FinalStep
  <2>2. BaseInv' /\ QuietTables(c) /\ QuietScans(c) /\ GroupInv' /\ SeenInv'
    BY <2>1 DEF GroupKept
  <2>3. TableInv' /\ ScanInv'
    BY <1>0, <2>2, QuietTablesKept, QuietScansKept
  <2> QED
    BY <2>2, <2>3 DEF IInv
<1>2. CASE \/ x_open(c, s) \/ x_filter(c, s) \/ x_eof(c, s) \/ x_column(c, s)
           \/ x_next(c, s) \/ x_close(c, s)
  <2>1. CursorKept(c)
    BY <1>0, <1>2, OpenStep, FilterStep, EofStep, ColumnStep, NextStep, CloseStep
  <2>2. BaseInv' /\ QuietTables(c) /\ QuietGroups(c) /\ ScanInv' /\ seen' = seen
    BY <2>1 DEF CursorKept
  <2>3. TableInv' /\ GroupInv' /\ SeenInv'
    BY <1>0, <2>2, TypesKept, QuietGroupsKept, QuietTablesKept, SeenKept
  <2> QED
    BY <2>2, <2>3 DEF IInv
<1> QED
  BY <1>1, <1>2

LEMMA InitTypes ==
    ASSUME Init PROVE Types
<1> USE ExtensionAssumption
<1>1. HostTypes
  BY DEF Init, HostTypes
<1>2. guests \in Seq(GuestT)
  BY DEF Init
<1>3. NoDb \in DbT
  <2>1. NoAgg \in AggT /\ NoVtab \in VtabT
    BY DEF NoAgg, AggT, NoVtab, VtabT
  <2> QED
    BY <2>1 DEF NoDb, DbT
<1>4. NoGroup \in GroupT /\ NoCursor \in CursorT
  BY DEF NoGroup, GroupT, NoCursor, CursorT, CursorPcs
<1>5. db \in [Conns -> DbT] /\ grp \in [Conns -> [Slots -> GroupT]] /\ cur \in [Conns -> [Slots -> CursorT]]
  BY <1>3, <1>4 DEF Init
<1>6. task \in [Conns -> TaskT]
  <2>1. PICK p \in Programs : task = [c \in Conns |-> [todo |-> p[c], pc |-> "idle", err |-> FALSE]]
    BY Zenon DEF Init
  <2>2. p \in [Conns -> Seq(Statements)]
    OBVIOUS
  <2>3. \A c \in Conns : [todo |-> p[c], pc |-> "idle", err |-> FALSE] \in TaskT
    BY <2>2 DEF TaskT, TaskPcs
  <2> QED
    BY <2>1, <2>3
<1> QED
  BY <1>1, <1>2, <1>5, <1>6 DEF Types, ConnTypes

LEMMA InitTasks ==
    ASSUME Init, NEW c \in Conns
    PROVE  /\ task[c].pc = "idle" /\ db[c] = NoDb /\ seen[c] = Unseen
           /\ AttachOnce(c) /\ (task[c].todo # <<>> => Stmt(c).op = "attach")
           /\ \A s \in Slots : grp[c][s] = NoGroup /\ cur[c][s] = NoCursor
<1>1. PICK p \in Programs : task = [d \in Conns |-> [todo |-> p[d], pc |-> "idle", err |-> FALSE]]
  BY Zenon DEF Init
<1>2. /\ p[c] \in Seq(Statements) /\ task[c].todo = p[c] /\ task[c].pc = "idle"
      /\ \A i \in DOMAIN p[c] : p[c][i].op = "attach" <=> i = 1
  BY <1>1, ExtensionAssumption
<1>3. AttachOnce(c)
  BY <1>2 DEF AttachOnce
<1>4. task[c].todo # <<>> => Stmt(c).op = "attach"
  <2>1. ASSUME p[c] # <<>> PROVE 1 \in DOMAIN p[c] /\ Head(p[c]) = p[c][1]
    BY <2>1, <1>2
  <2> QED
    BY <2>1, <1>2 DEF Stmt
<1> QED
  BY <1>2, <1>3, <1>4 DEF Init

LEMMA InitBase == ASSUME Init PROVE BaseInv
<1>1. Types
  BY InitTypes
<1>2. /\ HOST = None /\ GLOBALS = None /\ guests = <<>>
      /\ loaded = [h \in Conns |-> [e \in Exts |-> 0]]
  BY DEF Init
<1>3. LoadedIds
  BY <1>2 DEF LoadedIds
<1>4. ASSUME NEW c \in Conns
      PROVE  /\ AttachOnce(c) /\ Place(c) /\ Hosted(c) /\ Installing(c)
             /\ \A e \in Exts : Behind(c, e)
  <2>1. /\ task[c].pc = "idle" /\ db[c] = NoDb /\ AttachOnce(c)
        /\ task[c].todo # <<>> => Stmt(c).op = "attach"
    BY InitTasks
  <2>2. Place(c) /\ Installing(c)
    BY <2>1 DEF Place, Installing
  <2>3. Hosted(c)
    BY <2>1 DEF Hosted, NoDb
  <2>4. \A e \in Exts : Behind(c, e)
    BY <2>1 DEF Behind, NoDb
  <2> QED
    BY <2>1, <2>2, <2>3, <2>4
<1> QED
  BY <1>1, <1>3, <1>4 DEF BaseInv

LEMMA InitInv == Init => IInv
<1> SUFFICES ASSUME Init PROVE IInv
  OBVIOUS
<1>1. BaseInv
  BY InitBase
<1>2. /\ HOST = None /\ GLOBALS = None /\ guests = <<>> /\ next = [inst |-> 1, cur |-> 1]
      /\ seen = [c \in Conns |-> Unseen] /\ DOMAIN guests = {}
  BY DEF Init
<1>3. \A c \in Conns :
          /\ task[c].pc = "idle" /\ db[c] = NoDb /\ seen[c] = Unseen
          /\ \A s \in Slots : grp[c][s] = NoGroup /\ cur[c][s] = NoCursor
  BY InitTasks
<1>4. \A c \in Conns, e \in Exts : db[c].vtab[e] = NoVtab
  BY <1>3 DEF NoDb
<1>5. TableInv
  <2>1. InstIds
    BY <1>2, <1>4 DEF InstIds
  <2>2. TableAsTold
    BY <1>4 DEF TableAsTold
  <2>3. \A c \in Conns : SameSaved(c)
    BY <1>3 DEF SameSaved
  <2> QED
    BY <2>1, <2>2, <2>3 DEF TableInv
<1>6. GroupInv
  <2>1. GuestRows
    BY <1>2 DEF GuestRows, Guest
  <2>2. GroupsApart
    BY <1>3 DEF GroupsApart, Unseen
  <2>3. ASSUME NEW c \in Conns PROVE GroupIds(c) /\ \A s \in Slots : Match(c, s)
    <3>1. \A s \in Slots : grp[c][s] = NoGroup /\ task[c].pc = "idle"
      BY <1>3
    <3>2. \A s \in Slots : Match(c, s)
      BY <3>1 DEF Match
    <3>3. Len(guests) = 0
      BY <1>2
    <3>4. GroupIds(c)
      BY <3>1, <3>3 DEF GroupIds, NoGroup
    <3> QED
      BY <3>2, <3>4
  <2> QED
    BY <2>1, <2>2, <2>3 DEF GroupInv
<1>7. ScanInv
  <2>1. CurIds
    BY <1>2, <1>3 DEF CurIds, NoCursor
  <2>2. \A c \in Conns, s \in Slots : Scanned(c, s)
    BY <1>2 DEF Scanned
  <2> QED
    BY <2>1, <2>2 DEF ScanInv
<1>8. SeenInv
  BY <1>2, <1>3 DEF SeenInv, CellsSurvive, Unseen
<1> QED
  BY <1>1, <1>5, <1>6, <1>7, <1>8 DEF IInv

LEMMA StutterInv == ASSUME IInv, UNCHANGED vars PROVE IInv'
<1>0. BaseInv /\ TableInv /\ GroupInv /\ ScanInv /\ SeenInv
  BY DEF IInv
<1>e. /\ HOST' = HOST /\ GLOBALS' = GLOBALS /\ loaded' = loaded /\ guests' = guests
      /\ next' = next /\ db' = db /\ task' = task /\ grp' = grp /\ cur' = cur
      /\ faults' = faults /\ seen' = seen
  BY DEF vars
<1>1. BaseInv'
  BY <1>0, <1>e DEF BaseInv, Types, HostTypes, ConnTypes, LoadedIds, AttachOnce, Place, Hosted,
              Installing, Behind, Stmt, Vtab
<1>2. TableInv'
  <2>1. InstIds' /\ TableAsTold'
    <3>1. InstIds /\ TableAsTold
      BY <1>0 DEF TableInv
    <3>2. InstIds'
      BY <3>1, <1>e DEF InstIds
    <3>3. TableAsTold'
      BY <3>1, <1>e DEF TableAsTold, Guest
    <3> QED
      BY <3>2, <3>3
  <2>2. ASSUME NEW c \in Conns PROVE SameSaved(c)'
    <3>1. SameSaved(c)
      BY <1>0 DEF TableInv
    <3> QED
      BY Zenon, <3>1, <1>e DEF SameSaved, Guest, Stmt, Vtab
  <2> QED
    BY <2>1, <2>2 DEF TableInv
<1>3. ScanInv'
  <2>1. CurIds'
    BY <1>0, <1>e DEF ScanInv, CurIds
  <2>2. ASSUME NEW c \in Conns, NEW s \in Slots PROVE Scanned(c, s)'
    <3>1. Scanned(c, s)
      BY <1>0 DEF ScanInv
    <3> QED
      BY Zenon, <3>1, <1>e DEF Scanned, Reads, Vtab, Stmt
  <2> QED
    BY <2>1, <2>2 DEF ScanInv
<1>4. SeenInv'
  BY <1>0, <1>e DEF SeenInv, CellsSurvive
<1>5. GroupInv'
  <2>1. GuestRows /\ GroupsApart /\ \A c \in Conns : GroupIds(c) /\ \A s \in Slots : Match(c, s)
    BY <1>0 DEF GroupInv
  <2>2. GuestRows'
    <3>1. \A e, id, r : KnownRow(e, id, r)' = KnownRow(e, id, r)
      BY <1>e DEF KnownRow, Level, Grouping, IsOf, Stmt
    <3> QED
      BY <2>1, <1>e, <3>1 DEF GuestRows, Kept, Guest
  <2>3. GroupsApart'
    BY <2>1, <1>e DEF GroupsApart
  <2>4. \A c \in Conns : GroupIds(c)'
    BY <2>1, <1>e DEF GroupIds, IsOf, Stmt, Tag, Others
  <2>5. \A c \in Conns, s \in Slots : Match(c, s)'
    BY <2>1, <1>e DEF Match, Guest, Stmt
  <2> QED
    BY <2>2, <2>3, <2>4, <2>5 DEF GroupInv
<1> QED
  BY <1>1, <1>2, <1>3, <1>4, <1>5 DEF IInv

LEMMA StepInv == IInv /\ [Next]_vars => IInv'
<1> SUFFICES ASSUME IInv, [Next]_vars PROVE IInv'
  OBVIOUS
<1>1. CASE \E c \in Conns :
          \/ Attach(c) \/ HostNew(c) \/ HostSet(c) \/ register_sqlink_load_ext(c)
          \/ sqlink_load_ext_xfunc(c) \/ load_and_install(c) \/ NoSuchName(c)
          \/ scalar_xfunc(c) \/ Group(c) \/ GroupEnd(c)
          \/ create_or_connect(c) \/ x_disconnect(c) \/ x_best_index(c) \/ ScanEnd(c)
          \/ x_begin(c) \/ x_update(c) \/ x_savepoint(c) \/ x_release(c) \/ x_rollback_to(c)
          \/ x_sync(c) \/ x_commit(c) \/ x_rollback(c)
  BY <1>1, ConnStep
<1>2. CASE \E c \in Conns, s \in Slots :
          \/ agg_xstep(c, s) \/ agg_out_of_memory(c, s) \/ agg_xvalue(c, s)
          \/ agg_xinverse(c, s) \/ agg_xfinal(c, s)
          \/ x_open(c, s) \/ x_filter(c, s) \/ x_eof(c, s) \/ x_column(c, s)
          \/ x_next(c, s) \/ x_close(c, s)
  BY <1>2, SlotStep
<1>3. CASE Finished \/ UNCHANGED vars
  BY <1>3, StutterInv DEF Finished
<1> QED
  BY <1>1, <1>2, <1>3 DEF Next

LEMMA InductiveInvariant == Spec => []IInv
<1> QED
  BY InitInv, StepInv, PTL DEF Spec
-----------------------------------------------------------------------------
(* The statics, the registrations and the tasks have their types, and the   *)
(* guests behind the registrations have been loaded (lib.rs init_inner,     *)
(* register.rs, vtab.rs init_globals).                                      *)
THEOREM TypeCorrect == Spec => []TypeOK
<1>1. IInv => TypeOK
  <2> SUFFICES ASSUME IInv PROVE TypeOK
    OBVIOUS
  <2>1. Types /\ LoadedIds
    BY DEF IInv, BaseInv
  <2>2. /\ HOST \in Conns \cup {None} /\ GLOBALS \in {None, HOST}
        /\ next \in [inst : Nat, cur : Nat] /\ faults \in 0..MaxFaults
    BY <2>1 DEF Types, HostTypes
  <2>3. loaded \in [Conns -> [Exts -> 0..Len(guests)]]
    <3>1. loaded \in [Conns -> [Exts -> Nat]] /\ Len(guests) \in Nat
      BY <2>1 DEF Types, HostTypes
    <3>2. \A h \in Conns, e \in Exts : loaded[h][e] <= Len(guests)
      BY <2>1 DEF LoadedIds
    <3>3. \A h \in Conns, e \in Exts : loaded[h][e] \in 0..Len(guests)
      BY <3>1, <3>2
    <3> QED
      BY <3>1, <3>3
  <2>4. ASSUME NEW c \in Conns
        PROVE  /\ db[c].host \in Conns \cup {None}
               /\ db[c].scalar \in [Exts -> Conns \cup {None}]
               /\ db[c].agg \in [Exts -> [host : Conns \cup {None}, next_id : Nat]]
               /\ db[c].module \subseteq Exts
    <3>1. db[c] \in DbT
      BY <2>1 DEF Types, ConnTypes
    <3> QED
      BY <3>1 DEF DbT, AggT
  <2>5. ASSUME NEW c \in Conns
        PROVE  /\ task[c].pc \in {"idle", "new", "set", "register", "install", "group", "scan", "write", "commit"}
               /\ \A s \in Slots : cur[c][s].pc \in {"closed", "open", "at", "row", "read", "over", "failed", "done"}
    <3>1. task[c] \in TaskT /\ \A s \in Slots : cur[c][s] \in CursorT
      BY <2>1 DEF Types, ConnTypes
    <3> QED
      BY <3>1 DEF TaskT, TaskPcs, CursorT, CursorPcs
  <2>6. {HOST, GLOBALS} \subseteq Conns \cup {None}
    BY <2>2
  <2> QED
    BY <2>2, <2>3, <2>4, <2>5, <2>6 DEF TypeOK
<1> QED
  BY <1>1, InductiveInvariant, PTL

(* Whatever is registered on a connection is loaded in the Host its calls   *)
(* go to, however many connections raced to build that Host: the Host each  *)
(* of them keeps is the one of the OnceLock (state.rs, register.rs          *)
(* ScalarCtx and AggCtx, vtab.rs GLOBALS).                                  *)
THEOREM RegisteredIsLoadedHolds == Spec => []RegisteredIsLoaded
<1>1. IInv => RegisteredIsLoaded
  <2> SUFFICES ASSUME IInv, NEW c \in Conns, NEW e \in Exts
               PROVE  /\ db[c].scalar[e] # None => loaded[db[c].scalar[e]][e] # 0
                      /\ db[c].agg[e] # NoAgg => loaded[db[c].agg[e].host][e] # 0
                      /\ e \in db[c].module => Guest(GLOBALS, e) # 0
    BY DEF RegisteredIsLoaded
  <2>1. Behind(c, e) /\ GLOBALS \in {None, HOST}
    BY DEF IInv, BaseInv, Types, HostTypes
  <2> QED
    BY <2>1 DEF Behind, Guest
<1> QED
  BY <1>1, InductiveInvariant, PTL

(* The rows an aggregate answers with are those stepped into its frame and  *)
(* not yet inverted when nothing disturbed the group, and never rows of     *)
(* another group of the same connection (register.rs agg_state, next_id).   *)
THEOREM GroupsApartHolds == Spec => []GroupsApart
<1>1. IInv => GroupsApart
  BY DEF IInv, GroupInv
<1> QED
  BY <1>1, InductiveInvariant, PTL

(* A cell that goes through a function and back is the cell it was, but for *)
(* text that was not UTF-8 (value.rs, lib.rs provider_envelope).            *)
THEOREM CellsSurviveHolds == Spec => []CellsSurvive
<1>1. IInv => CellsSurvive
  BY DEF IInv, SeenInv
<1> QED
  BY <1>1, InductiveInvariant, PTL

(* The table of a connection has the rows that the answers to its writes    *)
(* add up to, through savepoints and rollbacks, whatever the others do to   *)
(* theirs in the same guest (vtab.rs x_update, x_savepoint, x_rollback_to). *)
THEOREM TableAsToldHolds == Spec => []TableAsTold
<1>1. IInv => TableAsTold
  BY DEF IInv, TableInv
<1> QED
  BY <1>1, InductiveInvariant, PTL

-----------------------------------------------------------------------------
(* The cursors implement VtabScan.  A cursor is seen as a scan from its     *)
(* xFilter until the statement fails or closes it.                          *)
ScanOf(k) ==
    IF k.pc \in {"closed", "open", "failed", "done"}
    THEN [on |-> FALSE, over |-> FALSE, want |-> <<>>, got |-> <<>>, hurt |-> FALSE]
    ELSE [on |-> TRUE, over |-> k.pc = "over", want |-> k.want, got |-> k.got, hurt |-> k.hurt]
ScanMap == [p \in Conns \X Slots |-> ScanOf(cur[p[1]][p[2]])]
TableMap == [t \in Conns \X Exts |-> db[t[1]].vtab[t[2]].view]
Slip == [on |-> FALSE, over |-> FALSE, want |-> <<>>, got |-> <<>>, hurt |-> FALSE]

(* What a step of the library may be to the abstract scans.                 *)
Wrote == ScanMap' = ScanMap /\ TableMap' \in [Conns \X Exts -> Seq(Nat)]
ScanStarted(p) ==
    \E t \in Conns \X Exts, h \in BOOLEAN :
        ScanMap' = [ScanMap EXCEPT ![p] =
            [on |-> TRUE, over |-> FALSE, want |-> TableMap[t], got |-> <<>>, hurt |-> h]]
ScanDelivered(p) ==
    LET n == Len(ScanMap[p].got) + 1 IN
    /\ ScanMap[p].on /\ ~ScanMap[p].over /\ n <= Len(ScanMap[p].want)
    /\ ScanMap' = [ScanMap EXCEPT ![p].got = Append(@, ScanMap[p].want[n])]
ScanEnded(p) ==
    \E h \in BOOLEAN :
        /\ ScanMap[p].on /\ ~ScanMap[p].over
        /\ ScanMap[p].got = ScanMap[p].want \/ h
        /\ ScanMap' = [ScanMap EXCEPT ![p].over = TRUE, ![p].hurt = h]
Moved(p) ==
    /\ TableMap' = TableMap
    /\ \/ ScanStarted(p) \/ ScanDelivered(p) \/ ScanEnded(p)
       \/ ScanMap' = [ScanMap EXCEPT ![p] = Slip] \/ ScanMap' = ScanMap

LEMMA MapIs ==
    ASSUME \/ Wrote
           \/ \E p \in Conns \X Slots : Moved(p)
    PROVE  [Scans!ScanNext]_Scans!scanVars
<1>1. CASE Wrote
  <2>1. Scans!Write
    BY Zenon, <1>1 DEF Wrote, Scans!Write, ScanMap, TableMap, ScanOf
  <2> QED
    BY <2>1 DEF Scans!ScanNext
<1>2. ASSUME NEW p \in Conns \X Slots, Moved(p)
      PROVE  [Scans!ScanNext]_Scans!scanVars
  <2>0. TableMap' = TableMap
    BY <1>2 DEF Moved
  <2>1. ASSUME ScanStarted(p) PROVE Scans!Start(p)
    BY Zenon, <2>1 DEF ScanStarted, Scans!Start, ScanMap, TableMap, ScanOf
  <2>2. ASSUME ScanDelivered(p) PROVE Scans!Deliver(p)
    BY Zenon, <2>2 DEF ScanDelivered, Scans!Deliver, ScanMap, ScanOf
  <2>3. ASSUME ScanEnded(p) PROVE Scans!Finish(p)
    BY Zenon, <2>3 DEF ScanEnded, Scans!Finish, ScanMap, ScanOf
  <2>4. ASSUME ScanMap' = [ScanMap EXCEPT ![p] = Slip] PROVE Scans!Stop(p)
    BY Zenon, <2>4 DEF Scans!Stop, Scans!NoScan, Slip, ScanMap, ScanOf
  <2>5. ASSUME ScanMap' = ScanMap PROVE UNCHANGED Scans!scanVars
    BY <2>5, <2>0 DEF Scans!scanVars, ScanMap, TableMap, ScanOf
  <2>6. ASSUME Scans!Start(p) \/ Scans!Deliver(p) \/ Scans!Finish(p) \/ Scans!Stop(p)
        PROVE  Scans!ScanNext
    BY <2>6, <2>0 DEF Scans!ScanNext, TableMap
  <2> QED
    BY <1>2, <2>1, <2>2, <2>3, <2>4, <2>5, <2>6 DEF Moved
<1> QED
  BY <1>1, <1>2

LEMMA WroteTables ==
    ASSUME BaseInv', cur' = cur PROVE Wrote
<1>1. \A d \in Conns, e \in Exts : db'[d].vtab[e].view \in Seq(Nat)
  <2>1. \A d \in Conns : db'[d] \in DbT
    BY DEF BaseInv, Types, ConnTypes
  <2>2. \A d \in Conns, e \in Exts : db'[d].vtab[e] \in VtabT
    BY <2>1 DEF DbT
  <2> QED
    BY <2>2 DEF VtabT
<1> QED
  BY <1>1 DEF Wrote, ScanMap, ScanOf, TableMap

(* One cursor changes.                                                      *)
SetTo(c, s, u) == cur' = [cur EXCEPT ![c][s] = u] /\ db' = db
LEMMA OneCursor ==
    ASSUME BaseInv, NEW c \in Conns, NEW s \in Slots, NEW u, SetTo(c, s, u)
    PROVE  /\ TableMap' = TableMap
           /\ ScanMap' = [ScanMap EXCEPT ![<<c, s>>] = ScanOf(u)]
           /\ ScanMap[<<c, s>>] = ScanOf(cur[c][s]) /\ <<c, s>> \in Conns \X Slots
           /\ DOMAIN ScanMap = Conns \X Slots
<1>1. cur \in [Conns -> [Slots -> CursorT]]
  BY DEF BaseInv, Types, ConnTypes
<1>2. cur' = [cur EXCEPT ![c][s] = u] /\ db' = db
  BY DEF SetTo
<1>3. \A d \in Conns, t \in Slots :
          cur'[d][t] = IF d = c /\ t = s THEN u ELSE cur[d][t]
  BY <1>1, <1>2
<1>4. ScanMap' = [p \in Conns \X Slots |-> ScanOf(cur'[p[1]][p[2]])]
  BY DEF ScanMap, ScanOf
<1>5. ASSUME NEW p \in Conns \X Slots
      PROVE  ScanMap'[p] = IF p = <<c, s>> THEN ScanOf(u) ELSE ScanMap[p]
  <2>1. PICK d \in Conns, t \in Slots : p = <<d, t>>
    OBVIOUS
  <2> QED
    BY <1>3, <1>4, <2>1 DEF ScanMap
<1>6. ScanMap' = [ScanMap EXCEPT ![<<c, s>>] = ScanOf(u)]
  BY Zenon, <1>4, <1>5 DEF ScanMap
<1> QED
  BY <1>2, <1>6 DEF ScanMap, TableMap

(* Its scan goes on as it was, or it is over for the statement.             *)
LEMMA CursorStops ==
    ASSUME BaseInv, NEW c \in Conns, NEW s \in Slots, NEW u, SetTo(c, s, u),
           ScanOf(u) = Slip \/ ScanOf(u) = ScanOf(cur[c][s])
    PROVE  Moved(<<c, s>>)
<1>1. /\ TableMap' = TableMap
      /\ ScanMap' = [ScanMap EXCEPT ![<<c, s>>] = ScanOf(u)]
      /\ ScanMap[<<c, s>>] = ScanOf(cur[c][s]) /\ <<c, s>> \in Conns \X Slots
      /\ DOMAIN ScanMap = Conns \X Slots
  BY Zenon, OneCursor
<1>2. ScanOf(u) = ScanOf(cur[c][s]) => ScanMap' = ScanMap
  BY Zenon, <1>1 DEF ScanMap
<1> QED
  BY Zenon, <1>1, <1>2 DEF Moved

LEMMA CursorOff ==
    ASSUME NEW k, k.pc \in {"closed", "open", "failed", "done"} PROVE ScanOf(k) = Slip
BY DEF ScanOf, Slip
LEMMA CursorOn ==
    ASSUME NEW k, k.pc \notin {"closed", "open", "failed", "done"}
    PROVE  ScanOf(k) = [on |-> TRUE, over |-> k.pc = "over", want |-> k.want,
                        got |-> k.got, hurt |-> k.hurt]
BY DEF ScanOf

LEMMA FailMoves ==
    ASSUME BaseInv, NEW c \in Conns, NEW s \in Slots, db' = db,
           SetCur(c, s, [Cur(c, s) EXCEPT !.pc = "failed"])
    PROVE  Moved(<<c, s>>)
<1>1. PICK u : u = [cur[c][s] EXCEPT !.pc = "failed"]
  BY Zenon
<1>2. u.pc = "failed" /\ SetTo(c, s, u)
  BY <1>1, CursorRecord DEF SetCur, Cur, SetTo
<1> QED
  BY <1>2, CursorOff, CursorStops

LEMMA OpenMoves ==
    ASSUME BaseInv, NEW c \in Conns, NEW s \in Slots, x_open(c, s)
    PROVE  Moved(<<c, s>>) \/ cur' = cur
<1>1. cur[c][s].pc = "closed" /\ db' = db
  BY DEF x_open, Scanning, Cur
<1>2. PICK id : id = alloc_cursor_id(c, s)
  OBVIOUS
<1>3. PICK u : u = [NoCursor EXCEPT !.pc = "open", !.id = id]
  OBVIOUS
<1>4. CASE SetCur(c, s, [NoCursor EXCEPT !.pc = "open", !.id = alloc_cursor_id(c, s)])
  <2>1. SetTo(c, s, u) /\ u.pc = "open"
    BY <1>1, <1>2, <1>3, <1>4 DEF SetCur, SetTo, NoCursor
  <2> QED
    BY <2>1, CursorOff, CursorStops
<1> QED
  BY <1>4 DEF x_open

LEMMA FilterMoves ==
    ASSUME BaseInv, NEW c \in Conns, NEW s \in Slots, x_filter(c, s)
    PROVE  Moved(<<c, s>>)
<1>1. db' = db /\ Stmt(c).ext \in Exts
  <2>1. db' = db /\ task[c].todo # <<>>
    BY DEF x_filter, Scanning, Busy
  <2>2. task \in [Conns -> TaskT]
    BY DEF BaseInv, Types, ConnTypes
  <2> QED
    BY <2>1, <2>2, StmtIs
<1>2. CASE SetCur(c, s, [NoCursor EXCEPT !.pc = "at", !.id = Cur(c, s).id,
                           !.want = Vtab(c).view, !.again = Cur(c, s).pc = "over"])
  <2>1. PICK u : u = [NoCursor EXCEPT !.pc = "at", !.id = Cur(c, s).id,
                           !.want = Vtab(c).view, !.again = Cur(c, s).pc = "over"]
    OBVIOUS
  <2>2. /\ u.pc = "at" /\ u.want = Vtab(c).view /\ u.got = <<>> /\ u.hurt = FALSE
        /\ SetTo(c, s, u)
    BY <1>1, <1>2, <2>1 DEF NoCursor, SetCur, SetTo
  <2>3. ScanOf(u) = [on |-> TRUE, over |-> FALSE, want |-> TableMap[<<c, Stmt(c).ext>>],
                     got |-> <<>>, hurt |-> FALSE]
    <3>1. TableMap[<<c, Stmt(c).ext>>] = Vtab(c).view
      BY <1>1 DEF TableMap, Vtab
    <3> QED
      BY Zenon, <2>2, <3>1, CursorOn
  <2>4. /\ TableMap' = TableMap
        /\ ScanMap' = [ScanMap EXCEPT ![<<c, s>>] = ScanOf(u)]
    BY <2>2, OneCursor
  <2>5. <<c, Stmt(c).ext>> \in Conns \X Exts
    BY <1>1
  <2>6. ScanStarted(<<c, s>>)
    BY Zenon, <2>3, <2>4, <2>5 DEF ScanStarted
  <2> QED
    BY <2>4, <2>6 DEF Moved
<1>3. CASE SetCur(c, s, [Cur(c, s) EXCEPT !.pc = "failed"])
  BY <1>1, <1>3, FailMoves
<1> QED
  BY <1>2, <1>3 DEF x_filter

(* Records of scans, rebuilt field by field.                                *)
ScanRec(on, over, w, g, h) == [on |-> on, over |-> over, want |-> w, got |-> g, hurt |-> h]
ScanRecT == [on : BOOLEAN, over : BOOLEAN, want : Seq(Nat), got : Seq(Nat), hurt : BOOLEAN]
OverRec(w, g, h, k) ==
    /\ [ScanRec(TRUE, FALSE, w, g, h) EXCEPT !.over = TRUE] = ScanRec(TRUE, TRUE, w, g, h)
    /\ [ScanRec(TRUE, TRUE, w, g, h) EXCEPT !.hurt = k] = ScanRec(TRUE, TRUE, w, g, k)
GotRec(w, g, h, q) ==
    [ScanRec(TRUE, FALSE, w, g, h) EXCEPT !.got = q] = ScanRec(TRUE, FALSE, w, q, h)
LEMMA RecordOver ==
    ASSUME NEW w \in Seq(Nat), NEW g \in Seq(Nat), NEW h \in BOOLEAN, NEW k \in BOOLEAN
    PROVE  OverRec(w, g, h, k)
<1>1. PICK a \in ScanRecT : a = ScanRec(TRUE, FALSE, w, g, h)
  BY Zenon DEF ScanRec, ScanRecT
<1>2. PICK b \in ScanRecT : b = ScanRec(TRUE, TRUE, w, g, h)
  BY Zenon DEF ScanRec, ScanRecT
<1>3. PICK d \in ScanRecT : d = ScanRec(TRUE, TRUE, w, g, k)
  BY Zenon DEF ScanRec, ScanRecT
<1>4. [a EXCEPT !.over = TRUE] = b
  <2>1. PICK e \in ScanRecT : e = [a EXCEPT !.over = TRUE]
    BY Zenon DEF ScanRecT
  <2>2. e.on = b.on /\ e.over = b.over /\ e.want = b.want /\ e.got = b.got /\ e.hurt = b.hurt
    BY <1>1, <1>2, <2>1 DEF ScanRec, ScanRecT
  <2> QED
    BY Zenon, <2>1, <2>2 DEF ScanRecT
<1>5. [b EXCEPT !.hurt = k] = d
  <2>1. PICK e \in ScanRecT : e = [b EXCEPT !.hurt = k]
    BY Zenon DEF ScanRecT
  <2>2. e.on = d.on /\ e.over = d.over /\ e.want = d.want /\ e.got = d.got /\ e.hurt = d.hurt
    BY <1>2, <1>3, <2>1 DEF ScanRec, ScanRecT
  <2> QED
    BY <2>1, <2>2 DEF ScanRecT
<1> QED
  BY <1>1, <1>2, <1>3, <1>4, <1>5 DEF OverRec
LEMMA RecordGot ==
    ASSUME NEW w \in Seq(Nat), NEW g \in Seq(Nat), NEW h \in BOOLEAN, NEW q \in Seq(Nat)
    PROVE  GotRec(w, g, h, q)
<1>1. PICK a \in ScanRecT : a = ScanRec(TRUE, FALSE, w, g, h)
  BY Zenon DEF ScanRec, ScanRecT
<1>2. PICK b \in ScanRecT : b = ScanRec(TRUE, FALSE, w, q, h)
  BY Zenon DEF ScanRec, ScanRecT
<1>3. PICK e \in ScanRecT : e = [a EXCEPT !.got = q]
  BY Zenon DEF ScanRecT
<1>4. e.on = b.on /\ e.over = b.over /\ e.want = b.want /\ e.got = b.got /\ e.hurt = b.hurt
  BY <1>1, <1>2, <1>3 DEF ScanRec, ScanRecT
<1>5. e = b
  BY <1>3, <1>4 DEF ScanRecT
<1> QED
  BY Zenon, <1>1, <1>2, <1>3, <1>5 DEF GotRec

LEMMA CursorEnds ==
    ASSUME BaseInv, NEW c \in Conns, NEW s \in Slots, NEW u, SetTo(c, s, u),
           cur[c][s].pc = "at", u.pc = "over", u.want = cur[c][s].want,
           u.got = cur[c][s].got, u.hurt \in BOOLEAN,
           cur[c][s].got = cur[c][s].want \/ u.hurt
    PROVE  Moved(<<c, s>>)
<1>1. PICK p \in Conns \X Slots : p = <<c, s>>
  BY Zenon
<1>2. /\ TableMap' = TableMap /\ ScanMap' = [ScanMap EXCEPT ![<<c, s>>] = ScanOf(u)]
      /\ ScanMap[<<c, s>>] = ScanOf(cur[c][s]) /\ DOMAIN ScanMap = Conns \X Slots
  BY Zenon, OneCursor
<1>3. PICK k \in CursorT : k = cur[c][s]
  BY Zenon, CursorRecord
<1>4. ScanMap[p] = ScanRec(TRUE, FALSE, k.want, k.got, k.hurt)
  BY Zenon, <1>1, <1>2, <1>3 DEF ScanOf, ScanRec
<1>5. ScanOf(u) = ScanRec(TRUE, TRUE, k.want, k.got, u.hurt)
  BY Zenon, <1>3 DEF ScanOf, ScanRec
<1>6. p \in DOMAIN ScanMap
  BY <1>2
<1>7. ScanMap' = [ScanMap EXCEPT ![p].over = TRUE, ![p].hurt = u.hurt]
  <2>1. ScanMap' = [ScanMap EXCEPT ![p] = ScanOf(u)]
    BY <1>1, <1>2
  <2>2. [ScanMap EXCEPT ![p] = ScanOf(u)] = [ScanMap EXCEPT ![p].over = TRUE, ![p].hurt = u.hurt]
    <3>1. k.want \in Seq(Nat) /\ k.got \in Seq(Nat) /\ k.hurt \in BOOLEAN
      BY DEF CursorT
    <3>2. PICK a : a = ScanRec(TRUE, TRUE, k.want, k.got, k.hurt)
      BY Zenon
    <3>3. [ScanMap[p] EXCEPT !.over = TRUE] = a /\ [a EXCEPT !.hurt = u.hurt] = ScanOf(u)
      <4>1. /\ [ScanRec(TRUE, FALSE, k.want, k.got, k.hurt) EXCEPT !.over = TRUE] = ScanRec(TRUE, TRUE, k.want, k.got, k.hurt)
            /\ [ScanRec(TRUE, TRUE, k.want, k.got, k.hurt) EXCEPT !.hurt = u.hurt] = ScanRec(TRUE, TRUE, k.want, k.got, u.hurt)
        <5>1. OverRec(k.want, k.got, k.hurt, u.hurt)
          BY <3>1, RecordOver, Zenon
        <5> QED
          BY <5>1 DEF OverRec
      <4> QED
        BY <1>4, <1>5, <3>2, <4>1, Zenon
    <3>4. [ScanMap EXCEPT ![p].over = TRUE] = [ScanMap EXCEPT ![p] = a]
      BY Zenon, <3>3
    <3>5. [ScanMap EXCEPT ![p] = a][p] = a
      BY <1>6
    <3>6. [ScanMap EXCEPT ![p].over = TRUE, ![p].hurt = u.hurt] = [[ScanMap EXCEPT ![p] = a] EXCEPT ![p] = ScanOf(u)]
      BY Zenon, <3>3, <3>4, <3>5
    <3> QED
      BY Zenon, <3>6, <1>6
  <2> QED
    BY <2>1, <2>2
<1>8. /\ ScanMap[p].on /\ ~ScanMap[p].over
      /\ ScanMap[p].got = ScanMap[p].want \/ u.hurt
  BY <1>3, <1>4 DEF ScanRec
<1>9. ScanEnded(p)
  BY Zenon, <1>7, <1>8 DEF ScanEnded
<1> QED
  BY <1>1, <1>2, <1>9 DEF Moved

LEMMA EofMoves ==
    ASSUME BaseInv, ScanInv, NEW c \in Conns, NEW s \in Slots, x_eof(c, s)
    PROVE  Moved(<<c, s>>)
<1> DEFINE g == TableGuest(c)
<1>1. InScan(c) /\ cur[c][s].pc = "at" /\ db' = db
  BY DEF x_eof, Scanning, Busy, InScan, Cur
<1>2. cur[c][s] \in CursorT
  BY Zenon, CursorRecord
<1>3. CASE /\ CurAnswers(g, c, s) /\ UNCHANGED guests
           /\ SetCur(c, s, [Cur(c, s) EXCEPT !.pc = IF Left(g, c, s) = <<>> THEN "over" ELSE "row"])
  <2>1. PICK u : u = [cur[c][s] EXCEPT !.pc = IF Left(g, c, s) = <<>> THEN "over" ELSE "row"]
    BY Zenon
  <2>2. /\ u.pc = IF Left(g, c, s) = <<>> THEN "over" ELSE "row"
        /\ u.want = cur[c][s].want /\ u.got = cur[c][s].got /\ u.hurt = cur[c][s].hurt
        /\ u.hurt \in BOOLEAN
    BY <1>2, <2>1 DEF CursorT
  <2>3. SetTo(c, s, u)
    BY <1>1, <1>3, <2>1 DEF SetCur, Cur, SetTo
  <2>4. PICK id : id = cur[c][s].id
    OBVIOUS
  <2>5. PICK left : left = guests[g].cur[id].left
    OBVIOUS
  <2>6. Reads(c, s, guests[g].cur[id]) /\ Left(g, c, s) = left
    BY <1>1, <1>3, <2>4, <2>5, CursorKnown DEF CurAnswers, Left, Cur
  <2>7. CASE left = <<>>
    <3>1. cur[c][s].want = cur[c][s].got \o <<>>
      BY <1>1, <2>5, <2>6, <2>7 DEF Reads
    <3>2. cur[c][s].got \in Seq(Nat)
      BY <1>2 DEF CursorT
    <3>3. cur[c][s].want = cur[c][s].got
      BY <3>1, <3>2
    <3>4. u.pc = "over"
      BY <2>2, <2>6, <2>7
    <3> QED
      BY <1>1, <2>2, <2>3, <3>3, <3>4, CursorEnds
  <2>8. CASE left # <<>>
    <3>1. u.pc = "row"
      BY <2>2, <2>6, <2>8
    <3>2. ScanOf(u) = ScanOf(cur[c][s])
      BY Zenon, <1>1, <2>2, <3>1 DEF ScanOf
    <3> QED
      BY <2>3, <3>2, CursorStops
  <2> QED
    BY <2>7, <2>8
<1>4. CASE CurRefuses(g, c, s) /\ SetCur(c, s, [Cur(c, s) EXCEPT !.pc = "over", !.hurt = TRUE])
  <2>1. PICK u : u = [cur[c][s] EXCEPT !.pc = "over", !.hurt = TRUE]
    OBVIOUS
  <2>2. /\ u.pc = "over" /\ u.hurt = TRUE /\ u.want = cur[c][s].want /\ u.got = cur[c][s].got
    BY <1>2, <2>1 DEF CursorT
  <2>3. SetTo(c, s, u)
    BY <1>1, <1>4, <2>1 DEF SetCur, Cur, SetTo
  <2> QED
    BY Zenon, <1>1, <2>2, <2>3, CursorEnds
<1> QED
  BY <1>3, <1>4 DEF x_eof

(* The next row is the one after those that were delivered.                 *)
LEMMA NextIs ==
    ASSUME NEW got \in Seq(Nat), NEW left \in Seq(Nat), left # <<>>,
           NEW want, want = got \o left
    PROVE  Len(got) + 1 <= Len(want) /\ want[Len(got) + 1] = Head(left)
<1>1. Len(left) >= 1 /\ Head(left) = left[1] /\ Len(got) \in Nat /\ Len(left) \in Nat
  OBVIOUS
<1>2. /\ Len(got \o left) = Len(got) + Len(left)
      /\ \A i \in 1..Len(got) + Len(left) :
            (got \o left)[i] = IF i <= Len(got) THEN got[i] ELSE left[i - Len(got)]
  BY ConcatProperties
<1>3. /\ Len(got) + 1 \in 1..Len(got) + Len(left) /\ ~(Len(got) + 1 <= Len(got))
      /\ Len(got) + 1 - Len(got) = 1
  BY <1>1
<1>4. (got \o left)[Len(got) + 1] = left[1]
  BY <1>2, <1>3
<1> QED
  BY <1>1, <1>2, <1>4

LEMMA ColumnMoves ==
    ASSUME BaseInv, ScanInv, NEW c \in Conns, NEW s \in Slots, x_column(c, s)
    PROVE  Moved(<<c, s>>)
<1> DEFINE g == TableGuest(c)
<1>1. InScan(c) /\ cur[c][s].pc = "row" /\ db' = db
  BY DEF x_column, Scanning, Busy, InScan, Cur
<1>2. PICK k \in CursorT : k = cur[c][s]
  BY Zenon, CursorRecord
<1>3. CASE /\ CurAnswers(g, c, s)
           /\ SetCur(c, s, [Cur(c, s) EXCEPT !.pc = "read", !.got = Append(@, Head(Left(g, c, s)))])
  <2>1. PICK id : id = cur[c][s].id
    OBVIOUS
  <2>2. guests[g].cur[id] \in Positions /\ Reads(c, s, guests[g].cur[id])
    BY <1>1, <1>3, <2>1, CursorKnown DEF CurAnswers
  <2>3. PICK left \in Seq(Nat) : left = guests[g].cur[id].left /\ left = Left(g, c, s)
    BY <2>1, <2>2 DEF Positions, Left, Cur
  <2>4. left # <<>> /\ k.want = k.got \o left
    BY <1>1, <1>2, <2>2, <2>3 DEF Reads
  <2>5. k.got \in Seq(Nat)
    BY DEF CursorT
  <2>6. Len(k.got) + 1 <= Len(k.want) /\ k.want[Len(k.got) + 1] = Head(left)
    BY <2>4, <2>5, NextIs
  <2>7. PICK u : u = [k EXCEPT !.pc = "read", !.got = Append(@, Head(left))]
    OBVIOUS
  <2>8. /\ u.pc = "read" /\ u.want = k.want /\ u.hurt = k.hurt
        /\ u.got = Append(k.got, k.want[Len(k.got) + 1])
    BY <2>6, <2>7 DEF CursorT
  <2>9. SetTo(c, s, u)
    BY <1>1, <1>2, <1>3, <2>3, <2>7 DEF SetCur, Cur, SetTo
  <2>10. PICK p \in Conns \X Slots : p = <<c, s>>
    BY Zenon
  <2>11. /\ TableMap' = TableMap /\ ScanMap' = [ScanMap EXCEPT ![<<c, s>>] = ScanOf(u)]
         /\ ScanMap[<<c, s>>] = ScanOf(cur[c][s]) /\ DOMAIN ScanMap = Conns \X Slots
    BY Zenon, <2>9, OneCursor
  <2>12. ScanMap[p] = ScanRec(TRUE, FALSE, k.want, k.got, k.hurt)
    BY Zenon, <1>1, <1>2, <2>10, <2>11 DEF ScanOf, ScanRec
  <2>13. ScanOf(u) = ScanRec(TRUE, FALSE, k.want, Append(k.got, k.want[Len(k.got) + 1]), k.hurt)
    BY Zenon, <2>8 DEF ScanOf, ScanRec
  <2>14. ScanMap' = [ScanMap EXCEPT ![p].got = Append(@, k.want[Len(k.got) + 1])]
    <3>1. ScanMap' = [ScanMap EXCEPT ![p] = ScanOf(u)] /\ p \in DOMAIN ScanMap
      BY <2>10, <2>11
    <3>2. [ScanMap EXCEPT ![p] = ScanOf(u)] = [ScanMap EXCEPT ![p].got = Append(@, k.want[Len(k.got) + 1])]
      <4>1. /\ k.want \in Seq(Nat) /\ k.got \in Seq(Nat) /\ k.hurt \in BOOLEAN
            /\ u.got \in Seq(Nat)
        BY Zenon, <2>3, <2>4, <2>7, OneMore DEF CursorT
      <4>2. [ScanMap[p] EXCEPT !.got = u.got] = ScanOf(u)
        <5>1. [ScanRec(TRUE, FALSE, k.want, k.got, k.hurt) EXCEPT !.got = u.got] = ScanRec(TRUE, FALSE, k.want, u.got, k.hurt)
          <6>1. GotRec(k.want, k.got, k.hurt, u.got)
            BY <4>1, RecordGot, Zenon
          <6> QED
            BY <6>1 DEF GotRec
        <5>2. ScanOf(u) = ScanRec(TRUE, FALSE, k.want, u.got, k.hurt)
          BY <2>8, <2>13, Zenon
        <5> QED
          BY <2>12, <5>1, <5>2, Zenon
      <4>3. Append(ScanMap[p].got, k.want[Len(k.got) + 1]) = u.got
        BY <2>8, <2>12 DEF ScanRec
      <4> QED
        BY Zenon, <4>2, <4>3
    <3> QED
      BY <3>1, <3>2
  <2>15. /\ ScanMap[p].on /\ ~ScanMap[p].over
         /\ ScanMap[p].got = k.got /\ ScanMap[p].want = k.want
    BY <2>12 DEF ScanRec
  <2>16. ScanDelivered(p)
    BY Zenon, <2>6, <2>14, <2>15 DEF ScanDelivered
  <2> QED
    BY <2>10, <2>11, <2>16 DEF Moved
<1>4. CASE SetCur(c, s, [Cur(c, s) EXCEPT !.pc = "failed"])
  BY <1>1, <1>4, FailMoves
<1> QED
  BY <1>3, <1>4 DEF x_column

LEMMA NextMoves ==
    ASSUME BaseInv, NEW c \in Conns, NEW s \in Slots, x_next(c, s)
    PROVE  Moved(<<c, s>>)
<1>1. cur[c][s].pc = "read" /\ db' = db
  BY Zenon DEF x_next, Scanning, Cur
<1>2. PICK k \in CursorT : k = cur[c][s]
  BY Zenon, CursorRecord
<1>3. CASE SetCur(c, s, [Cur(c, s) EXCEPT !.pc = "at"])
  <2>1. PICK u : u = [k EXCEPT !.pc = "at"]
    BY Zenon
  <2>2. u.pc = "at" /\ u.want = k.want /\ u.got = k.got /\ u.hurt = k.hurt
    BY <2>1 DEF CursorT
  <2>3. SetTo(c, s, u)
    BY <1>1, <1>2, <1>3, <2>1 DEF SetCur, Cur, SetTo
  <2>4. ScanOf(u) = ScanOf(cur[c][s])
    BY <1>1, <1>2, <2>2 DEF ScanOf
  <2> QED
    BY <2>3, <2>4, CursorStops
<1>4. CASE SetCur(c, s, [Cur(c, s) EXCEPT !.pc = "failed"])
  BY <1>1, <1>4, FailMoves
<1> QED
  BY <1>3, <1>4 DEF x_next

LEMMA CloseMoves ==
    ASSUME BaseInv, NEW c \in Conns, NEW s \in Slots, x_close(c, s)
    PROVE  Moved(<<c, s>>)
<1>1. PICK u : u = [NoCursor EXCEPT !.pc = "done"]
  BY Zenon
<1>2. u.pc = "done" /\ SetTo(c, s, u)
  BY <1>1 DEF x_close, SetCur, SetTo, NoCursor
<1> QED
  BY <1>2, CursorOff, CursorStops

LEMMA ScanEndMoves ==
    ASSUME BaseInv, NEW c \in Conns, ScanEnd(c)
    PROVE  ScanMap' = ScanMap /\ TableMap' = TableMap
<1>1. /\ \A s \in Slots : cur[c][s].pc \in {"closed", "done"}
      /\ cur' = [cur EXCEPT ![c] = [s \in Slots |-> NoCursor]] /\ db' = db
  BY DEF ScanEnd, Cur
<1>2. cur \in [Conns -> [Slots -> CursorT]]
  BY DEF BaseInv, Types, ConnTypes
<1>3. \A d \in Conns, t \in Slots : ScanOf(cur'[d][t]) = ScanOf(cur[d][t])
  <2> SUFFICES ASSUME NEW d \in Conns, NEW t \in Slots PROVE ScanOf(cur'[d][t]) = ScanOf(cur[d][t])
    OBVIOUS
  <2>1. CASE d = c
    <3>1. cur'[d][t] = NoCursor /\ NoCursor.pc = "closed" /\ cur[d][t].pc \in {"closed", "done"}
      BY <1>1, <1>2, <2>1 DEF NoCursor
    <3> QED
      BY <3>1 DEF ScanOf
  <2>2. CASE d # c
    BY <1>1, <1>2, <2>2
  <2> QED
    BY <2>1, <2>2
<1>4. ScanMap' = [p \in Conns \X Slots |-> ScanOf(cur'[p[1]][p[2]])]
  BY DEF ScanMap, ScanOf
<1> QED
  BY <1>1, <1>3, <1>4 DEF ScanMap, TableMap

LEMMA SameCursors ==
    ASSUME BaseInv', cur' = cur PROVE [Scans!ScanNext]_Scans!scanVars
BY WroteTables, MapIs

LEMMA CursorMaps ==
    ASSUME NEW c \in Conns, NEW s \in Slots, Moved(<<c, s>>)
    PROVE  [Scans!ScanNext]_Scans!scanVars
<1>1. <<c, s>> \in Conns \X Slots
  OBVIOUS
<1> QED
  BY <1>1, MapIs

LEMMA ConnKeepsCursors ==
    ASSUME IInv, NEW c \in Conns,
           \/ Attach(c) \/ HostNew(c) \/ HostSet(c) \/ register_sqlink_load_ext(c)
           \/ sqlink_load_ext_xfunc(c) \/ load_and_install(c) \/ NoSuchName(c)
           \/ scalar_xfunc(c) \/ Group(c) \/ GroupEnd(c)
           \/ create_or_connect(c) \/ x_disconnect(c) \/ x_best_index(c)
           \/ x_begin(c) \/ x_update(c) \/ x_savepoint(c) \/ x_release(c) \/ x_rollback_to(c)
           \/ x_sync(c) \/ x_commit(c) \/ x_rollback(c)
    PROVE  cur' = cur
<1>1. CASE \/ Attach(c) \/ HostNew(c) \/ HostSet(c)
  BY <1>1 DEF Attach, HostNew, HostSet
<1>2. CASE \/ register_sqlink_load_ext(c) \/ sqlink_load_ext_xfunc(c) \/ load_and_install(c)
  BY Zenon, <1>2 DEF register_sqlink_load_ext, sqlink_load_ext_xfunc, load_and_install
<1>3. CASE NoSuchName(c) \/ scalar_xfunc(c)
  BY <1>3 DEF NoSuchName, scalar_xfunc
<1>4. CASE Group(c) \/ GroupEnd(c)
  BY <1>4 DEF Group, GroupEnd
<1>5. CASE create_or_connect(c) \/ x_disconnect(c) \/ x_best_index(c) \/ x_begin(c)
  BY <1>5 DEF create_or_connect, x_disconnect, x_best_index, x_begin
<1>6. CASE x_update(c) \/ x_savepoint(c) \/ x_release(c) \/ x_rollback_to(c)
  BY Zenon, <1>6 DEF x_update, x_savepoint, x_release, x_rollback_to
<1>7. CASE x_sync(c) \/ x_commit(c) \/ x_rollback(c)
  BY <1>7 DEF x_sync, x_commit, x_rollback
<1> QED
  BY <1>1, <1>2, <1>3, <1>4, <1>5, <1>6, <1>7

LEMMA SlotMoves ==
    ASSUME IInv, NEW c \in Conns, NEW s \in Slots,
           \/ agg_xstep(c, s) \/ agg_out_of_memory(c, s) \/ agg_xvalue(c, s)
           \/ agg_xinverse(c, s) \/ agg_xfinal(c, s)
           \/ x_open(c, s) \/ x_filter(c, s) \/ x_eof(c, s) \/ x_column(c, s)
           \/ x_next(c, s) \/ x_close(c, s)
    PROVE  Moved(<<c, s>>) \/ cur' = cur
<1>0. BaseInv /\ ScanInv
  BY DEF IInv
<1>1. CASE \/ agg_xstep(c, s) \/ agg_out_of_memory(c, s) \/ agg_xvalue(c, s)
           \/ agg_xinverse(c, s) \/ agg_xfinal(c, s)
  BY Zenon, <1>1 DEF agg_xstep, agg_out_of_memory, agg_xvalue, agg_xinverse, agg_xfinal
<1>2. CASE x_open(c, s)
  BY <1>0, <1>2, OpenMoves
<1>3. CASE x_filter(c, s)
  BY <1>0, <1>3, FilterMoves
<1>4. CASE x_eof(c, s)
  BY <1>0, <1>4, EofMoves
<1>5. CASE x_column(c, s)
  BY <1>0, <1>5, ColumnMoves
<1>6. CASE x_next(c, s)
  BY <1>0, <1>6, NextMoves
<1>7. CASE x_close(c, s)
  BY <1>0, <1>7, CloseMoves
<1> QED
  BY <1>1, <1>2, <1>3, <1>4, <1>5, <1>6, <1>7

LEMMA ScanInitMaps == Init => Scans!ScanInit
<1> SUFFICES ASSUME Init PROVE Scans!ScanInit
  OBVIOUS
<1>1. \A p \in Conns \X Slots : cur[p[1]][p[2]] = NoCursor
  BY DEF Init
<1>2. \A t \in Conns \X Exts : db[t[1]].vtab[t[2]].view = <<>>
  BY DEF Init, NoDb, NoVtab
<1>3. [t \in Conns \X Exts |-> db[t[1]].vtab[t[2]].view] \in [Conns \X Exts -> Seq(Nat)]
  <2>1. <<>> \in Seq(Nat)
    OBVIOUS
  <2> QED
    BY Zenon, <1>2, <2>1
<1> QED
  BY <1>1, <1>3 DEF Scans!ScanInit, Scans!NoScan, NoCursor

LEMMA ScanStepMaps ==
    ASSUME IInv, IInv', [Next]_vars PROVE [Scans!ScanNext]_Scans!scanVars
<1>0. BaseInv /\ BaseInv'
  BY DEF IInv
<1>1. ASSUME NEW c \in Conns,
          \/ Attach(c) \/ HostNew(c) \/ HostSet(c) \/ register_sqlink_load_ext(c)
          \/ sqlink_load_ext_xfunc(c) \/ load_and_install(c) \/ NoSuchName(c)
          \/ scalar_xfunc(c) \/ Group(c) \/ GroupEnd(c)
          \/ create_or_connect(c) \/ x_disconnect(c) \/ x_best_index(c)
          \/ x_begin(c) \/ x_update(c) \/ x_savepoint(c) \/ x_release(c) \/ x_rollback_to(c)
          \/ x_sync(c) \/ x_commit(c) \/ x_rollback(c)
      PROVE  [Scans!ScanNext]_Scans!scanVars
  BY <1>0, <1>1, ConnKeepsCursors, SameCursors
<1>2. ASSUME NEW c \in Conns, NEW s \in Slots,
          \/ agg_xstep(c, s) \/ agg_out_of_memory(c, s) \/ agg_xvalue(c, s)
          \/ agg_xinverse(c, s) \/ agg_xfinal(c, s)
          \/ x_open(c, s) \/ x_filter(c, s) \/ x_eof(c, s) \/ x_column(c, s)
          \/ x_next(c, s) \/ x_close(c, s)
      PROVE  [Scans!ScanNext]_Scans!scanVars
  BY Zenon, <1>0, <1>2, SlotMoves, CursorMaps, SameCursors
<1>3. ASSUME NEW c \in Conns, ScanEnd(c) PROVE [Scans!ScanNext]_Scans!scanVars
  <2>1. ScanMap' = ScanMap /\ TableMap' = TableMap
    BY <1>0, <1>3, ScanEndMoves
  <2>2. UNCHANGED Scans!scanVars
    BY <2>1 DEF Scans!scanVars, ScanMap, TableMap, ScanOf
  <2> QED
    BY <2>2
<1>4. CASE Finished \/ UNCHANGED vars
  <2>1. cur' = cur
    BY <1>4 DEF Finished, vars
  <2> QED
    BY <1>0, <2>1, SameCursors
<1> QED
  BY <1>1, <1>2, <1>3, <1>4 DEF Next

(* Each cursor delivers the rows that its own table has when the scan       *)
(* starts, in order and each once, or the statement fails; rows are missing *)
(* without an error only where xEof got no answer (vtab.rs x_filter, x_eof, *)
(* x_column, x_next; VtabScan).                                             *)
THEOREM ScansAsPromisedHolds == Spec => ScansAsPromised
<1>1. Init => Scans!ScanInit
  BY ScanInitMaps
<1>2. IInv /\ IInv' /\ [Next]_vars => [Scans!ScanNext]_Scans!scanVars
  BY ScanStepMaps
<1> QED
  BY <1>1, <1>2, InductiveInvariant, PTL DEF Spec, ScansAsPromised, Scans!ScanSpec
=============================================================================
