--------------------------- MODULE ResidentsProofs ---------------------------
(***************************************************************************)
(* Proofs about Residents, for any extensions, callers and grants.          *)
(*                                                                         *)
(* The invariant ResidentInv says of every call on every stack which lock   *)
(* it holds (FrameOK, StackOK): a call inside the guest of a lasting store  *)
(* holds that store's lock, no two calls hold the same one, and what it     *)
(* read when it entered is still what the store has.  From this the memory  *)
(* of a store is kept.  A load that waits for its describe knows whose      *)
(* answer it waits for (Describes), and a request under way has passed the  *)
(* gate of its own extension.                                               *)
(***************************************************************************)
EXTENDS Residents, SequenceTheorems, FiniteSetTheorems, TLAPS

Links4 == {"wasi", "cli", "resident", "bridge"}
Asking == {"provider", "build", "send"}
Inside == Asking \cup {"make", "run"}
Pcs == Inside \cup {"lock", "load"}

CellSet == [ext : Exts, kind : {"resident", "bridge", "component"}, grant : Grant,
            inst : {"cold", "warm", "dead"}, holder : Callers \cup {None},
            count : Nat, served : Nat, conn : Nat, sess : [Names -> Nat], live : SUBSET Nat]
FrameSet == [cell : Nat, link : Links4, pc : Pcs, n : Nat, id : Ids \cup {<< >>},
             req : Requests \cup {None}]

Types ==
    /\ cells \in Seq(CellSet)
    /\ stack \in [Callers -> Seq(FrameSet)]
    /\ ops \in Nat
    /\ DOMAIN reg \subseteq Ids /\ \A id \in DOMAIN reg : reg[id] \in 1..Len(cells)
-----------------------------------------------------------------------------
(* A store and what the host keeps with it.                                 *)
Sessions(s) ==
    /\ s.live = {s.sess[n] : n \in Names} \ {0}
    /\ \A m, n \in Names : m # n /\ s.sess[m] # 0 => s.sess[m] # s.sess[n]
MayAsk(s, g) == s.grant = NoGrant \/ [ext |-> s.ext, policy |-> s.grant] \in g
CellOK(s, n, g) ==
    /\ s.count = s.served
    /\ s.inst = "cold" => s.served = 0
    /\ s.kind = "component" => s.holder = None
    /\ Sessions(s)
    /\ IsFiniteSet(s.live) /\ Cardinality(s.live) <= n
    /\ MayAsk(s, g)

(* Who is inside a lasting store, and holds its lock.                       *)
Holds(f) == f.link \notin Fresh /\ f.pc \in Inside

(* What a call f of caller c knows of the store s it is for.                *)
FrameOK(f, c, s) ==
    /\ Holds(f) => s.holder = c
    /\ f.link \notin Fresh => s.kind # "component"
    /\ f.pc = "lock" => f.link \notin Fresh
    /\ f.pc = "make" => IF f.link \in Fresh THEN s.holder # c ELSE s.inst = "cold"
    /\ Holds(f) /\ f.pc # "make" => s.inst = "warm" /\ f.n = s.count
    /\ f.pc \in Asking => f.req \in Requests /\ Gate(s.grant, f.req)

(* f describes the extension that the load l waits to register.             *)
Describes(f, l) ==
    /\ f.pc # "load" /\ f.cell = l.cell
    /\ \E e \in Exts : l.id = Plain(e) /\ (f.link \in Fresh => "stdout" \in Imports[e])

StackOK(q, c, C) ==
    /\ \A i \in 1..Len(q) : q[i].cell \in 1..Len(C) /\ FrameOK(q[i], c, C[q[i].cell])
    /\ \A i \in 1..Len(q) : q[i].pc = "load" => i > 1 /\ Describes(q[i - 1], q[i])
    /\ \A i \in 1..Len(q) : i > 1 => q[i].pc \in {"run", "load"}
    /\ \A i, j \in 1..Len(q) : Holds(q[i]) /\ Holds(q[j]) /\ q[i].cell = q[j].cell => i = j

(* Who holds a lock is inside.                                              *)
HeldBy(q, c, C) ==
    \A k \in 1..Len(C) : C[k].holder = c =>
        \E i \in 1..Len(q) : Holds(q[i]) /\ q[i].cell = k

Answered(id, s) ==
    \A e \in Exts : id = Plain(e) =>
        s.kind = "component" \/ "stdout" \in Imports[e] \/ s.served > 0

CellsOK == \A k \in 1..Len(cells) : CellOK(cells[k], ops, granted)
StacksOK == \A c \in Callers : StackOK(stack[c], c, cells) /\ HeldBy(stack[c], c, cells)
RegOK == \A id \in DOMAIN reg : Answered(id, cells[reg[id]])

ResidentInv == Types /\ CellsOK /\ StacksOK /\ RegOK /\ EgressWasGranted

LEMMA PlainIds == \A e \in Exts : Plain(e) \in Ids
  BY DEF Plain, Ids

-----------------------------------------------------------------------------
(* Sequences: the top is replaced, something is pushed, the top is popped.  *)
LEMMA TopReplaced ==
    ASSUME NEW S, NEW q \in Seq(S), q # << >>, NEW x \in S
    PROVE  LET q2 == <<x>> \o Tail(q) IN
           /\ q2 \in Seq(S) /\ Len(q2) = Len(q) /\ q2[1] = x
           /\ \A i \in 1..Len(q) : i > 1 => q2[i] = q[i]
  <1> DEFINE q2 == <<x>> \o Tail(q)
             n == Len(q)
  <1>1. /\ n \in Nat /\ n > 0 /\ Tail(q) \in Seq(S) /\ Len(Tail(q)) = n - 1
        /\ \A i \in 1..Len(Tail(q)) : Tail(q)[i] = q[i + 1]
    BY HeadTailProperties
  <1>2. <<x>> \in Seq(S) /\ Len(<<x>>) = 1 /\ <<x>>[1] = x
    OBVIOUS
  <1>3. /\ q2 \in Seq(S) /\ Len(q2) = 1 + (n - 1)
        /\ \A i \in 1..Len(q2) : q2[i] = IF i <= 1 THEN <<x>>[i] ELSE Tail(q)[i - 1]
    BY <1>1, <1>2, ConcatProperties
  <1>4. Len(q2) = n /\ 1 \in 1..Len(q2) /\ 1 <= 1
    BY <1>1, <1>3
  <1>5. q2[1] = x
    BY <1>2, <1>3, <1>4
  <1>6. ASSUME NEW i \in 1..n, i > 1 PROVE q2[i] = q[i]
    <2>1. i - 1 \in 1..(n - 1) /\ ~(i <= 1) /\ (i - 1) + 1 = i
      BY <1>1, <1>6
    <2>2. q2[i] = Tail(q)[i - 1]
      BY <1>3, <1>4, <2>1
    <2>3. Tail(q)[i - 1] = q[(i - 1) + 1]
      BY <1>1, <2>1
    <2> QED BY <2>1, <2>2, <2>3
  <1> QED BY <1>3, <1>4, <1>5, <1>6

LEMMA Pushed ==
    ASSUME NEW S, NEW q \in Seq(S), NEW p \in Seq(S)
    PROVE  /\ p \o q \in Seq(S) /\ Len(p \o q) = Len(p) + Len(q)
           /\ \A i \in 1..Len(p) : (p \o q)[i] = p[i]
           /\ \A i \in 1..Len(q) : (p \o q)[Len(p) + i] = q[i]
  <1> DEFINE m == Len(p)
             n == Len(q)
  <1>1. m \in Nat /\ n \in Nat
    OBVIOUS
  <1>2. /\ p \o q \in Seq(S) /\ Len(p \o q) = m + n
        /\ \A i \in 1..(m + n) : (p \o q)[i] = IF i <= m THEN p[i] ELSE q[i - m]
    BY ConcatProperties
  <1> HIDE DEF m, n
  <1>3. \A i \in 1..m : i \in 1..(m + n) /\ i <= m
    BY <1>1
  <1>4. \A i \in 1..n : m + i \in 1..(m + n) /\ ~(m + i <= m) /\ (m + i) - m = i
    BY <1>1
  <1>5. \A i \in 1..m : (p \o q)[i] = p[i]
    BY <1>2, <1>3
  <1>6. \A i \in 1..n : (p \o q)[m + i] = q[i]
    <2> TAKE i \in 1..n
    <2>1. (p \o q)[m + i] = q[(m + i) - m]
      BY <1>2, <1>4
    <2> QED BY <1>4, <2>1
  <1> QED BY <1>2, <1>5, <1>6 DEF m, n

LEMMA Popped ==
    ASSUME NEW S, NEW q \in Seq(S), q # << >>
    PROVE  /\ Tail(q) \in Seq(S) /\ Len(Tail(q)) = Len(q) - 1 /\ Head(q) = q[1]
           /\ \A i \in 1..Len(Tail(q)) : Tail(q)[i] = q[i + 1]
  BY HeadTailProperties
-----------------------------------------------------------------------------
(* Only store k has changed, and not whose it is.                           *)
SameBut(C, C2, k) ==
    /\ Len(C2) = Len(C)
    /\ \A i \in 1..Len(C) : i # k => C2[i] = C[i]
    /\ C2[k].ext = C[k].ext /\ C2[k].kind = C[k].kind /\ C2[k].grant = C[k].grant
(* ... and its lock was, and is, c's or nobody's.                           *)
Mine(C, C2, k, c) ==
    C2[k] = C[k] \/ (C[k].holder \in {None, c} /\ C2[k].holder \in {None, c})

LEMMA OthersStack ==
    ASSUME NEW c \in Callers, NEW d \in Callers, d # c, NEW q, NEW C, NEW C2, NEW k,
           StackOK(q, d, C), HeldBy(q, d, C), SameBut(C, C2, k), Mine(C, C2, k, c)
    PROVE  StackOK(q, d, C2) /\ HeldBy(q, d, C2)
  <1>1. ASSUME NEW f, FrameOK(f, d, C[k]) PROVE FrameOK(f, d, C2[k])
    <2>1. CASE C2[k] = C[k]
      BY <1>1, <2>1
    <2>2. CASE C[k].holder # d /\ C2[k].holder # d
      <3>1. ~Holds(f) /\ (f.pc = "make" => f.link \in Fresh)
        BY <1>1, <2>2 DEF FrameOK, Holds, Inside
      <3> QED BY <1>1, <2>2, <3>1 DEF FrameOK, SameBut
    <2> QED BY <2>1, <2>2, ResidentsAssumption DEF Mine
  <1>2. \A i \in 1..Len(q) : q[i].cell \in 1..Len(C2) /\ FrameOK(q[i], d, C2[q[i].cell])
    <2> TAKE i \in 1..Len(q)
    <2>1. q[i].cell \in 1..Len(C) /\ FrameOK(q[i], d, C[q[i].cell])
      BY DEF StackOK
    <2> QED BY <1>1, <2>1 DEF SameBut
  <1>3. HeldBy(q, d, C2)
    BY ResidentsAssumption DEF HeldBy, SameBut, Mine
  <1> QED BY <1>2, <1>3 DEF StackOK

(* A frame further down neither makes a store nor asks.                     *)
LEMMA DeepFrame ==
    ASSUME NEW f, NEW c, NEW s, NEW s2, FrameOK(f, c, s), f.pc \in {"run", "load"},
           s2.kind = s.kind, ~Holds(f)
    PROVE  FrameOK(f, c, s2)
  BY DEF FrameOK, Asking

(* The call on top goes on, and changes its store.                          *)
LEMMA TopStep ==
    ASSUME NEW c \in Callers, NEW q \in Seq(FrameSet), NEW C, NEW C2, NEW x \in FrameSet,
           NEW q2 \in Seq(FrameSet), q # << >>,
           Len(q2) = Len(q), q2[1] = x, \A i \in 1..Len(q) : i > 1 => q2[i] = q[i],
           StackOK(q, c, C), HeldBy(q, c, C), SameBut(C, C2, q[1].cell),
           x.cell = q[1].cell, x.link = q[1].link, x.pc # "load",
           FrameOK(x, c, C2[x.cell]),
           C2[x.cell] = C[x.cell] \/ Holds(q[1]) \/ C[x.cell].holder # c,
           Holds(x) => Holds(q[1]) \/ C[x.cell].holder # c,
           C2[x.cell].holder = c => Holds(x) \/ (C[x.cell].holder = c /\ ~Holds(q[1]))
    PROVE  StackOK(q2, c, C2) /\ HeldBy(q2, c, C2)
  <1> DEFINE k == q[1].cell
  <1>1. Len(q) \in Nat /\ Len(q) > 0 /\ 1 \in 1..Len(q) /\ k \in 1..Len(C)
    BY DEF StackOK
  <1>2. \A i \in 1..Len(q) : i > 1 /\ Holds(q[i]) /\ q[i].cell = k =>
            ~Holds(q[1]) /\ C[k].holder = c
    BY <1>1 DEF StackOK, FrameOK
  <1>3. ASSUME NEW i \in 1..Len(q), i > 1 PROVE FrameOK(q[i], c, C2[q[i].cell])
    <2>1. FrameOK(q[i], c, C[q[i].cell]) /\ q[i].cell \in 1..Len(C) /\ q[i].pc \in {"run", "load"}
      BY <1>3 DEF StackOK
    <2>2. CASE q[i].cell # k \/ C2[k] = C[k]
      BY <2>1, <2>2 DEF SameBut
    <2>3. CASE q[i].cell = k /\ ~Holds(q[i])
      BY <2>1, <2>3, DeepFrame DEF SameBut
    <2> QED BY <1>2, <1>3, <2>2, <2>3
  <1>4. \A i \in 1..Len(q2) : q2[i].cell \in 1..Len(C2) /\ FrameOK(q2[i], c, C2[q2[i].cell])
    BY <1>1, <1>3 DEF StackOK, SameBut
  <1>5. q[1].pc # "load"
    BY <1>1 DEF StackOK
  <1>6. \A i \in 1..Len(q2) : q2[i].pc = "load" => i > 1 /\ Describes(q2[i - 1], q2[i])
    <2> SUFFICES ASSUME NEW i \in 1..Len(q), q2[i].pc = "load"
                 PROVE  i > 1 /\ Describes(q2[i - 1], q2[i])
      OBVIOUS
    <2>1. i > 1 /\ q2[i] = q[i]
      OBVIOUS
    <2>2. Describes(q[i - 1], q[i])
      BY <2>1 DEF StackOK
    <2>3. CASE i - 1 = 1
      <3>1. Describes(q[1], q[i]) /\ q2[i - 1] = x
        BY <2>2, <2>3
      <3>2. Describes(x, q[i])
        BY <3>1 DEF Describes
      <3> QED BY <2>1, <3>1, <3>2
    <2>4. CASE i - 1 > 1
      <3>1. i - 1 \in 1..Len(q)
        BY <1>1, <2>4
      <3> QED BY <2>1, <2>2, <2>4, <3>1
    <2>5. i - 1 = 1 \/ i - 1 > 1
      BY <2>1
    <2> QED BY <2>3, <2>4, <2>5
  <1>7. \A i \in 1..Len(q2) : i > 1 => q2[i].pc \in {"run", "load"}
    BY DEF StackOK
  <1>8. \A i, j \in 1..Len(q2) : Holds(q2[i]) /\ Holds(q2[j]) /\ q2[i].cell = q2[j].cell => i = j
    <2>1. \A i \in 1..Len(q) : i = 1 \/ i > 1
      BY <1>1
    <2>2. \A i \in 1..Len(q) : i > 1 /\ Holds(x) => ~(Holds(q[i]) /\ q[i].cell = k)
      BY <1>2
    <2> QED BY <2>1, <2>2 DEF StackOK
  <1>9. HeldBy(q2, c, C2)
    <2> SUFFICES ASSUME NEW j \in 1..Len(C), C2[j].holder = c
                 PROVE  \E i \in 1..Len(q) : Holds(q2[i]) /\ q2[i].cell = j
      BY DEF HeldBy, SameBut
    <2>1. CASE j = k /\ Holds(x)
      BY <1>1, <2>1
    <2>2. CASE C[j].holder = c /\ (j = k => ~Holds(q[1]))
      <3>1. PICK i \in 1..Len(q) : Holds(q[i]) /\ q[i].cell = j
        BY <2>2 DEF HeldBy
      <3>2. i > 1
        BY <1>1, <2>2, <3>1
      <3> QED BY <3>1, <3>2
    <2>3. j # k => C[j].holder = c
      BY DEF SameBut
    <2> QED BY <2>1, <2>2, <2>3
  <1> QED BY <1>4, <1>6, <1>7, <1>8, <1>9 DEF StackOK

(* The call on top ends, with the load that waited for it if there is one.  *)
Dropped(q, q2, m) ==
    /\ m <= Len(q) /\ Len(q2) = Len(q) - m
    /\ \A i \in 1..Len(q2) : q2[i] = q[i + m]
    /\ m = 2 => q[2].pc = "load"
    /\ m = 1 /\ q2 # << >> => q[2].pc # "load"
LeavesStore(q, c, C, C2) ==
    /\ C2[q[1].cell] = C[q[1].cell] \/ Holds(q[1]) \/ C[q[1].cell].holder # c
    /\ C2[q[1].cell].holder = c => C[q[1].cell].holder = c /\ ~Holds(q[1])

LEMMA PopStep ==
    ASSUME NEW c \in Callers, NEW q \in Seq(FrameSet), NEW C, NEW C2, NEW m \in 1..2,
           NEW q2 \in Seq(FrameSet), Dropped(q, q2, m),
           StackOK(q, c, C), HeldBy(q, c, C), SameBut(C, C2, q[1].cell),
           LeavesStore(q, c, C, C2)
    PROVE  StackOK(q2, c, C2) /\ HeldBy(q2, c, C2)
  <1> USE DEF Dropped, LeavesStore
  <1> DEFINE k == q[1].cell
             n == Len(q2)
  <1>1. /\ Len(q) \in Nat /\ Len(q) > 0 /\ 1 \in 1..Len(q) /\ k \in 1..Len(C)
        /\ m \in Nat /\ n \in Nat /\ n = Len(q) - m
    BY DEF StackOK
  <1>2. \A i \in 1..n : i + m \in 1..Len(q) /\ i + m > 1
    BY <1>1
  <1>3. \A i \in 1..Len(q) : i > 1 /\ Holds(q[i]) /\ q[i].cell = k =>
            ~Holds(q[1]) /\ C[k].holder = c
    BY <1>1 DEF StackOK, FrameOK
  <1>4. ASSUME NEW i \in 1..Len(q), i > 1 PROVE FrameOK(q[i], c, C2[q[i].cell])
    <2>1. FrameOK(q[i], c, C[q[i].cell]) /\ q[i].cell \in 1..Len(C) /\ q[i].pc \in {"run", "load"}
      BY <1>4 DEF StackOK
    <2>2. CASE q[i].cell # k \/ C2[k] = C[k]
      BY <2>1, <2>2 DEF SameBut
    <2>3. CASE q[i].cell = k /\ ~Holds(q[i])
      BY <2>1, <2>3, DeepFrame DEF SameBut
    <2> QED BY <1>3, <1>4, <2>2, <2>3
  <1>5. \A i \in 1..n : q2[i].cell \in 1..Len(C2) /\ FrameOK(q2[i], c, C2[q2[i].cell])
    <2> TAKE i \in 1..n
    <2>1. q2[i] = q[i + m] /\ q[i + m].cell \in 1..Len(C)
      BY <1>2 DEF StackOK
    <2> QED BY <1>2, <1>4, <2>1 DEF SameBut
  <1>6. n > 0 => q2[1].pc # "load"
    <2> SUFFICES ASSUME n > 0 PROVE q2[1].pc # "load"
      OBVIOUS
    <2>1. q2[1] = q[1 + m]
      BY <1>1
    <2>2. CASE m = 2
      <3>1. 3 \in 1..Len(q) /\ 3 - 1 = 2 /\ q2[1] = q[3]
        BY <1>1, <2>1, <2>2
      <3>2. q[3].pc = "load" => Describes(q[2], q[3])
        BY <3>1 DEF StackOK
      <3> QED BY <2>2, <3>1, <3>2 DEF Describes
    <2>3. CASE m = 1
      <3>1. q2[1] = q[2] /\ q2 # << >>
        BY <2>1, <2>3
      <3> QED BY <2>3, <3>1
    <2> QED BY <2>2, <2>3
  <1>7. \A i \in 1..n : q2[i].pc = "load" => i > 1 /\ Describes(q2[i - 1], q2[i])
    <2> SUFFICES ASSUME NEW i \in 1..n, q2[i].pc = "load"
                 PROVE  i > 1 /\ Describes(q2[i - 1], q2[i])
      OBVIOUS
    <2>1. i > 1
      BY <1>1, <1>6
    <2>2. i - 1 \in 1..n /\ (i - 1) + m = (i + m) - 1
      BY <1>1, <2>1
    <2>3. q2[i] = q[i + m] /\ q2[i - 1] = q[(i + m) - 1]
      BY <2>2
    <2>4. Describes(q[(i + m) - 1], q[i + m])
      BY <1>2, <2>3 DEF StackOK
    <2> QED BY <2>1, <2>3, <2>4
  <1>8. \A i \in 1..n : i > 1 => q2[i].pc \in {"run", "load"}
    BY <1>2 DEF StackOK
  <1>9. \A i, j \in 1..n : Holds(q2[i]) /\ Holds(q2[j]) /\ q2[i].cell = q2[j].cell => i = j
    <2> SUFFICES ASSUME NEW i \in 1..n, NEW j \in 1..n,
                        Holds(q2[i]), Holds(q2[j]), q2[i].cell = q2[j].cell
                 PROVE  i = j
      OBVIOUS
    <2>1. i + m = j + m
      BY <1>2 DEF StackOK
    <2> QED BY <1>1, <2>1
  <1>10. HeldBy(q2, c, C2)
    <2> SUFFICES ASSUME NEW j \in 1..Len(C), C2[j].holder = c
                 PROVE  \E i \in 1..n : Holds(q2[i]) /\ q2[i].cell = j
      BY DEF HeldBy, SameBut
    <2>1. C[j].holder = c /\ (j = k => ~Holds(q[1]))
      BY DEF SameBut
    <2>2. PICK i \in 1..Len(q) : Holds(q[i]) /\ q[i].cell = j
      BY <2>1 DEF HeldBy
    <2>3. i # 1 /\ (m = 2 => i # 2)
      BY <2>1, <2>2 DEF Holds, Inside, Asking
    <2>4. \A a \in Nat, b \in 1..2 : \A d \in 1..a :
            d # 1 /\ (b = 2 => d # 2) => d - b \in 1..(a - b) /\ (d - b) + b = d
      OBVIOUS
    <2>5. i - m \in 1..n /\ (i - m) + m = i
      BY <1>1, <2>3, <2>4
    <2> QED BY <2>2, <2>5
  <1> QED BY <1>5, <1>7, <1>8, <1>9, <1>10 DEF StackOK

(* Stores are only added.                                                   *)
More(C, C2) == Len(C) <= Len(C2) /\ \A i \in 1..Len(C) : C2[i] = C[i]
LEMMA Grown ==
    ASSUME NEW c \in Callers, NEW q, NEW C \in Seq(CellSet), NEW C2 \in Seq(CellSet), More(C, C2),
           StackOK(q, c, C), HeldBy(q, c, C),
           \A k \in 1..Len(C2) : k > Len(C) => C2[k].holder = None
    PROVE  StackOK(q, c, C2) /\ HeldBy(q, c, C2)
  <1>1. /\ Len(C) \in Nat /\ Len(C2) \in Nat
        /\ \A i \in 1..Len(C) : i \in 1..Len(C2)
        /\ \A k \in 1..Len(C2) : k \in 1..Len(C) \/ k > Len(C)
    BY DEF More
  <1>2. HeldBy(q, c, C2)
    BY <1>1, ResidentsAssumption DEF HeldBy, More
  <1>3. \A i \in 1..Len(q) : q[i].cell \in 1..Len(C2) /\ FrameOK(q[i], c, C2[q[i].cell])
    BY <1>1 DEF StackOK, More
  <1> QED BY <1>2, <1>3 DEF StackOK

(* What may be pushed: a call, or a load below the describe it waits for.   *)
Callable(p, c, C) ==
    /\ p \in Seq(FrameSet) /\ Len(p) \in 1..2
    /\ \A i \in 1..Len(p) : p[i].cell \in 1..Len(C) /\ FrameOK(p[i], c, C[p[i].cell]) /\ ~Holds(p[i])
    /\ p[1].pc # "load" /\ (Len(p) = 2 => p[2].pc = "load" /\ Describes(p[1], p[2]))

Pushes(q, p, q2, m) ==
    /\ m = Len(p) /\ Len(q2) = m + Len(q)
    /\ \A i \in 1..m : q2[i] = p[i]
    /\ \A i \in 1..Len(q) : q2[m + i] = q[i]
    /\ q # << >> => q[1].pc = "run"

LEMMA Shifted ==
    \A a \in Nat, b \in 1..2, d \in Nat : d - b \in 1..a /\ d - b > 1 =>
        (d - b) - 1 \in 1..a /\ b + ((d - b) - 1) = d - 1 /\ d > 1
  OBVIOUS

LEMMA PushStep ==
    ASSUME NEW c \in Callers, NEW q \in Seq(FrameSet), NEW p, NEW C, NEW m \in 1..2,
           NEW q2 \in Seq(FrameSet), Pushes(q, p, q2, m), Callable(p, c, C),
           StackOK(q, c, C), HeldBy(q, c, C)
    PROVE  StackOK(q2, c, C) /\ HeldBy(q2, c, C)
  <1> Len(p) = m /\ Len(q2) = m + Len(q)
    BY DEF Pushes
  <1> /\ \A i \in 1..m : q2[i] = p[i]
      /\ \A i \in 1..Len(q) : q2[m + i] = q[i]
      /\ q # << >> => q[1].pc = "run"
    BY DEF Pushes
  <1> /\ \A i \in 1..m : p[i].cell \in 1..Len(C) /\ FrameOK(p[i], c, C[p[i].cell]) /\ ~Holds(p[i])
      /\ p[1].pc # "load" /\ (m = 2 => p[2].pc = "load" /\ Describes(p[1], p[2]))
    BY DEF Callable
  <1> DEFINE n == Len(q)
  <1>1. n \in Nat /\ m \in Nat /\ (n > 0 => q # << >>)
    OBVIOUS
  <1>2. \A i \in 1..(m + n) : i \in 1..m \/ (i - m \in 1..n /\ i = m + (i - m))
    BY <1>1
  <1>3. \A i \in 1..n : m + i \in 1..(m + n)
    BY <1>1
  <1>4. \A i \in 1..(m + n) : q2[i].cell \in 1..Len(C) /\ FrameOK(q2[i], c, C[q2[i].cell])
    <2> TAKE i \in 1..(m + n)
    <2>1. CASE i \in 1..m
      BY <2>1
    <2>2. CASE i - m \in 1..n /\ i = m + (i - m)
      <3>1. q2[i] = q[i - m]
        BY <2>2
      <3> QED BY <2>2, <3>1 DEF StackOK
    <2> QED BY <1>2, <2>1, <2>2
  <1>5. \A i \in 1..(m + n) : q2[i].pc = "load" => i > 1 /\ Describes(q2[i - 1], q2[i])
    <2> SUFFICES ASSUME NEW i \in 1..(m + n), q2[i].pc = "load"
                 PROVE  i > 1 /\ Describes(q2[i - 1], q2[i])
      OBVIOUS
    <2>1. CASE i \in 1..m
      <3>1. i # 1
        BY <2>1
      <3>2. m = 2 /\ i = 2 /\ i - 1 = 1 /\ 1 \in 1..m
        BY <2>1, <3>1
      <3> QED BY <3>2
    <2>2. CASE i - m \in 1..n /\ i = m + (i - m)
      <3>1. q2[i] = q[i - m]
        BY <2>2
      <3>2. i - m > 1 /\ Describes(q[(i - m) - 1], q[i - m])
        BY <2>2, <3>1 DEF StackOK
      <3>a. i \in Nat
        BY <1>1
      <3>3. (i - m) - 1 \in 1..n /\ m + ((i - m) - 1) = i - 1 /\ i > 1
        BY <1>1, <2>2, <3>2, <3>a, Shifted
      <3>4. q2[i - 1] = q[(i - m) - 1]
        BY <3>3
      <3> QED BY <3>1, <3>2, <3>3, <3>4
    <2> QED BY <1>2, <2>1, <2>2
  <1>6. \A i \in 1..(m + n) : i > 1 => q2[i].pc \in {"run", "load"}
    <2> SUFFICES ASSUME NEW i \in 1..(m + n), i > 1 PROVE q2[i].pc \in {"run", "load"}
      OBVIOUS
    <2>1. CASE i \in 1..m
      BY <2>1
    <2>2. CASE i - m \in 1..n /\ i = m + (i - m)
      <3>1. q2[i] = q[i - m]
        BY <2>2
      <3>2. i - m = 1 \/ i - m > 1
        BY <2>2
      <3>3. n > 0
        BY <1>1, <2>2
      <3> QED BY <1>1, <2>2, <3>1, <3>2, <3>3 DEF StackOK
    <2> QED BY <1>2, <2>1, <2>2
  <1>7. \A i \in 1..(m + n) : Holds(q2[i]) => i - m \in 1..n /\ q2[i] = q[i - m]
    BY <1>2
  <1>8. \A i, j \in 1..(m + n) : Holds(q2[i]) /\ Holds(q2[j]) /\ q2[i].cell = q2[j].cell => i = j
    <2> SUFFICES ASSUME NEW i \in 1..(m + n), NEW j \in 1..(m + n),
                        Holds(q2[i]), Holds(q2[j]), q2[i].cell = q2[j].cell
                 PROVE  i = j
      OBVIOUS
    <2>1. /\ i - m \in 1..n /\ q2[i] = q[i - m]
          /\ j - m \in 1..n /\ q2[j] = q[j - m]
      BY <1>7
    <2>2. \A a, b \in 1..n : Holds(q[a]) /\ Holds(q[b]) /\ q[a].cell = q[b].cell => a = b
      BY DEF StackOK
    <2>3. PICK a \in 1..n : a = i - m
      BY <2>1
    <2>4. PICK b \in 1..n : b = j - m
      BY <2>1
    <2>5. Holds(q[a]) /\ Holds(q[b]) /\ q[a].cell = q[b].cell
      BY <2>1, <2>3, <2>4, Zenon
    <2>6. a = b
      BY <2>2, <2>5, Zenon
    <2> QED BY <1>1, <2>3, <2>4, <2>6
  <1>9. HeldBy(q2, c, C)
    <2> SUFFICES ASSUME NEW k \in 1..Len(C), C[k].holder = c
                 PROVE  \E i \in 1..(m + n) : Holds(q2[i]) /\ q2[i].cell = k
      BY DEF HeldBy
    <2>1. PICK i \in 1..n : Holds(q[i]) /\ q[i].cell = k
      BY DEF HeldBy
    <2>2. q2[m + i] = q[i] /\ m + i \in 1..(m + n)
      BY <1>3
    <2> QED BY <2>1, <2>2
  <1> QED BY <1>4, <1>5, <1>6, <1>8, <1>9 DEF StackOK

-----------------------------------------------------------------------------
LEMMA TopFacts ==
    ASSUME ResidentInv, NEW c \in Callers, stack[c] # << >>
    PROVE  /\ Top(c) = stack[c][1] /\ Top(c) \in FrameSet
           /\ Top(c).cell \in 1..Len(cells) /\ Here(c) \in CellSet
           /\ Top(c).pc # "load" /\ FrameOK(Top(c), c, Here(c))
           /\ CellOK(Here(c), ops, granted)
  <1>1. stack[c] \in Seq(FrameSet) /\ cells \in Seq(CellSet) /\ StackOK(stack[c], c, cells)
    BY DEF ResidentInv, Types, StacksOK
  <1>2. 1 \in 1..Len(stack[c]) /\ Top(c) = stack[c][1] /\ Top(c) \in FrameSet
    BY <1>1 DEF Top
  <1>3. Top(c).cell \in 1..Len(cells) /\ FrameOK(Top(c), c, cells[Top(c).cell])
    BY <1>1, <1>2 DEF StackOK
  <1>4. Top(c).pc # "load"
    BY <1>1, <1>2 DEF StackOK
  <1>5. Here(c) \in CellSet
    BY <1>1, <1>3 DEF Here
  <1> QED BY <1>2, <1>3, <1>4, <1>5 DEF Here, ResidentInv, CellsOK

(* More requests may have been made, and more granted.                      *)
LEMMA CellGrows ==
    ASSUME NEW s \in CellSet, NEW n \in Nat, NEW n2 \in Nat, n <= n2, NEW g, NEW g2,
           g \subseteq g2, CellOK(s, n, g)
    PROVE  CellOK(s, n2, g2)
  <1>1. Cardinality(s.live) <= n2
    <2>1. Cardinality(s.live) \in Nat /\ Cardinality(s.live) <= n
      BY FS_CardinalityType DEF CellOK
    <2> QED BY <2>1
  <1> QED BY <1>1 DEF CellOK, MayAsk

(* The store of the call on top becomes s.                                  *)
Same(s, s2) == s2.ext = s.ext /\ s2.kind = s.kind /\ s2.grant = s.grant
Later == ops' \in Nat /\ ops <= ops' /\ granted \subseteq granted'
LEMMA StoreStep ==
    ASSUME ResidentInv, NEW c \in Callers, stack[c] # << >>, NEW s \in CellSet,
           cells' = With(c, s), Same(Here(c), s), CellOK(s, ops', granted'), Later,
           Here(c).served <= s.served,
           s = Here(c) \/ (Here(c).holder \in {None, c} /\ s.holder \in {None, c})
    PROVE  /\ cells' \in Seq(CellSet) /\ CellsOK'
           /\ SameBut(cells, cells', Top(c).cell) /\ cells'[Top(c).cell] = s
           /\ \A id \in Ids, k \in 1..Len(cells) :
                 Answered(id, cells[k]) => Answered(id, cells'[k])
           /\ \A d \in Callers \ {c} : StackOK(stack[d], d, cells') /\ HeldBy(stack[d], d, cells')
  <1> DEFINE k == Top(c).cell
  <1>1. k \in 1..Len(cells) /\ Here(c) = cells[k] /\ Here(c) \in CellSet
    BY TopFacts DEF Here
  <1>2. cells \in Seq(CellSet) /\ ops \in Nat
    BY DEF ResidentInv, Types
  <1>3. /\ cells' \in Seq(CellSet) /\ Len(cells') = Len(cells) /\ cells'[k] = s
        /\ \A i \in 1..Len(cells) : i # k => cells'[i] = cells[i]
    BY <1>1, <1>2 DEF With
  <1>4. SameBut(cells, cells', k) /\ Mine(cells, cells', k, c)
    BY <1>1, <1>3 DEF SameBut, Same, Mine
  <1>5. CellsOK'
    <2> SUFFICES ASSUME NEW i \in 1..Len(cells) PROVE CellOK(cells'[i], ops', granted')
      BY <1>3 DEF CellsOK
    <2>1. CASE i = k
      BY <1>3, <2>1
    <2>2. CASE i # k
      <3>1. CellOK(cells[i], ops, granted) /\ cells[i] \in CellSet /\ cells'[i] = cells[i]
        BY <1>2, <1>3, <2>2 DEF ResidentInv, CellsOK
      <3> QED BY <1>2, <3>1, CellGrows DEF Later
    <2> QED BY <2>1, <2>2
  <1>6. ASSUME NEW id \in Ids, NEW i \in 1..Len(cells), Answered(id, cells[i])
        PROVE  Answered(id, cells'[i])
    <2>1. CASE i # k
      BY <1>3, <1>6, <2>1
    <2>2. CASE i = k
      <3>1. Answered(id, Here(c)) /\ cells'[i] = s
        BY <1>1, <1>3, <1>6, <2>2
      <3>2. Here(c).served > 0 => s.served > 0
        <4>1. Here(c).served \in Nat /\ s.served \in Nat
          BY <1>1 DEF CellSet
        <4> QED BY <4>1
      <3> QED BY <3>1, <3>2 DEF Answered, Same
    <2> QED BY <2>1, <2>2
  <1>7. \A d \in Callers \ {c} : StackOK(stack[d], d, cells') /\ HeldBy(stack[d], d, cells')
    BY <1>4, OthersStack DEF ResidentInv, StacksOK
  <1> QED BY <1>3, <1>4, <1>5, <1>6, <1>7

LEMMA WithSame ==
    ASSUME ResidentInv, NEW c \in Callers, stack[c] # << >>
    PROVE  With(c, Here(c)) = cells
  <1>1. cells \in Seq(CellSet) /\ Top(c).cell \in 1..Len(cells) /\ Here(c) = cells[Top(c).cell]
    BY TopFacts DEF ResidentInv, Types, Here
  <1> QED BY <1>1 DEF With

(* Putting a stack together with the others.                                *)
Settled == Types /\ CellsOK /\ StacksOK /\ RegOK
LEMMA StackSet ==
    ASSUME ResidentInv, NEW c \in Callers, NEW q \in Seq(FrameSet),
           stack' = [stack EXCEPT ![c] = q],
           cells' \in Seq(CellSet), CellsOK', ops' \in Nat,
           DOMAIN reg' \subseteq Ids, \A id \in DOMAIN reg' : reg'[id] \in 1..Len(cells'),
           RegOK',
           StackOK(q, c, cells'), HeldBy(q, c, cells'),
           \A d \in Callers \ {c} : StackOK(stack[d], d, cells') /\ HeldBy(stack[d], d, cells')
    PROVE  Settled'
  <1>1. stack \in [Callers -> Seq(FrameSet)]
    BY DEF ResidentInv, Types
  <1>2. stack' \in [Callers -> Seq(FrameSet)] /\ stack'[c] = q
        /\ \A d \in Callers \ {c} : stack'[d] = stack[d]
    BY <1>1
  <1>3. StacksOK'
    BY <1>2 DEF StacksOK
  <1>4. Types'
    BY <1>2 DEF Types
  <1> QED BY <1>3, <1>4 DEF Settled

StoreOK(c, s) ==
    /\ cells' = With(c, s) /\ Same(Here(c), s) /\ CellOK(s, ops', granted') /\ Later
    /\ Here(c).served <= s.served
    /\ s = Here(c) \/ (Here(c).holder \in {None, c} /\ s.holder \in {None, c})
    /\ s = Here(c) \/ Holds(Top(c)) \/ Here(c).holder # c

(* The call on top becomes x, and its store s.                              *)
LEMMA BecomeInv ==
    ASSUME ResidentInv, NEW c \in Callers, stack[c] # << >>, NEW s \in CellSet, StoreOK(c, s),
           NEW x \in FrameSet, Become(c, x), UNCHANGED reg,
           x.cell = Top(c).cell, x.link = Top(c).link, x.pc # "load", FrameOK(x, c, s),
           Holds(x) => Holds(Top(c)) \/ Here(c).holder # c,
           s.holder = c => Holds(x) \/ (Here(c).holder = c /\ ~Holds(Top(c)))
    PROVE  Settled'
  <1> DEFINE q == stack[c]
             q2 == <<x>> \o Tail(q)
             k == Top(c).cell
  <1>1. /\ cells' \in Seq(CellSet) /\ CellsOK'
        /\ SameBut(cells, cells', k) /\ cells'[k] = s
        /\ \A id \in Ids, i \in 1..Len(cells) : Answered(id, cells[i]) => Answered(id, cells'[i])
        /\ \A d \in Callers \ {c} : StackOK(stack[d], d, cells') /\ HeldBy(stack[d], d, cells')
    BY StoreStep DEF StoreOK
  <1>2. q \in Seq(FrameSet) /\ StackOK(q, c, cells) /\ HeldBy(q, c, cells)
    BY DEF ResidentInv, Types, StacksOK
  <1>3. Top(c) = q[1] /\ Here(c) = cells[k] /\ k \in 1..Len(cells)
    BY TopFacts DEF Here
  <1>4. /\ q2 \in Seq(FrameSet) /\ Len(q2) = Len(q) /\ q2[1] = x
        /\ \A i \in 1..Len(q) : i > 1 => q2[i] = q[i]
    BY <1>2, TopReplaced
  <1>5. stack' = [stack EXCEPT ![c] = q2]
    BY DEF Become
  <1> HIDE DEF q2, q, k
  <1>6. /\ FrameOK(x, c, cells'[x.cell])
        /\ cells'[x.cell] = cells[x.cell] \/ Holds(q[1]) \/ cells[x.cell].holder # c
        /\ Holds(x) => Holds(q[1]) \/ cells[x.cell].holder # c
        /\ cells'[x.cell].holder = c => Holds(x) \/ (cells[x.cell].holder = c /\ ~Holds(q[1]))
        /\ x.cell = q[1].cell /\ x.link = q[1].link /\ k = q[1].cell
    BY <1>1, <1>3 DEF StoreOK, k
  <1>7. StackOK(q2, c, cells') /\ HeldBy(q2, c, cells')
    BY <1>1, <1>2, <1>4, <1>6, TopStep DEF q
  <1>8. /\ DOMAIN reg' \subseteq Ids /\ (\A id \in DOMAIN reg' : reg'[id] \in 1..Len(cells'))
        /\ RegOK'
    BY <1>1 DEF ResidentInv, Types, RegOK, SameBut
  <1>9. ops' \in Nat
    BY DEF StoreOK, Later
  <1> QED BY <1>1, <1>4, <1>5, <1>7, <1>8, <1>9, StackSet

(* The call on top ends, and leaves its store as s.                         *)
LEMMA EndInv ==
    ASSUME ResidentInv, NEW c \in Callers, stack[c] # << >>, NEW s \in CellSet, StoreOK(c, s),
           NEW ok \in BOOLEAN, End(c, ok), ok => Top(c).link \in Fresh \/ s.served > 0,
           s.holder = c => Here(c).holder = c /\ ~Holds(Top(c))
    PROVE  Settled'
  <1> DEFINE q == stack[c]
             rest == Tail(q)
             load == rest # << >> /\ Head(rest).pc = "load"
             k == Top(c).cell
  <1>1. /\ cells' \in Seq(CellSet) /\ CellsOK'
        /\ SameBut(cells, cells', k) /\ cells'[k] = s
        /\ \A id \in Ids, i \in 1..Len(cells) : Answered(id, cells[i]) => Answered(id, cells'[i])
        /\ \A d \in Callers \ {c} : StackOK(stack[d], d, cells') /\ HeldBy(stack[d], d, cells')
    BY StoreStep DEF StoreOK
  <1>2. q \in Seq(FrameSet) /\ q # << >> /\ StackOK(q, c, cells) /\ HeldBy(q, c, cells)
    BY DEF ResidentInv, Types, StacksOK
  <1>3. Top(c) = q[1] /\ Here(c) = cells[k] /\ k \in 1..Len(cells)
    BY TopFacts DEF Here
  <1>4. /\ stack' = [stack EXCEPT ![c] = IF load THEN Tail(rest) ELSE rest]
        /\ reg' = IF load /\ ok THEN Registered(reg, Head(rest).id, Head(rest).cell) ELSE reg
    BY DEF End
  <1>5. /\ rest \in Seq(FrameSet) /\ Len(rest) = Len(q) - 1 /\ Len(q) \in Nat /\ Len(q) > 0
        /\ \A i \in 1..Len(rest) : rest[i] = q[i + 1]
    BY <1>2, Popped
  <1> HIDE DEF q, rest, k
  <1>6. k = q[1].cell /\ LeavesStore(q, c, cells, cells') /\ SameBut(cells, cells', q[1].cell)
    BY <1>1, <1>3 DEF StoreOK, k, LeavesStore
  <1>7. ops' \in Nat
    BY DEF StoreOK, Later
  <1>8. CASE ~load
    <2>1. StackOK(rest, c, cells') /\ HeldBy(rest, c, cells')
      <3>1. rest # << >> => q[2].pc # "load"
        <4>1. rest # << >> => Head(rest) = rest[1] /\ 1 \in 1..Len(rest)
          BY <1>5
        <4> QED BY <1>5, <1>8, <4>1
      <3>2. PICK m \in 1..2 : m = 1
        OBVIOUS
      <3>3. Dropped(q, rest, m)
        BY <1>5, <3>1, <3>2 DEF Dropped
      <3> QED BY <1>2, <1>5, <1>6, <3>3, PopStep
    <2>2. /\ DOMAIN reg' \subseteq Ids /\ (\A id \in DOMAIN reg' : reg'[id] \in 1..Len(cells'))
          /\ RegOK'
      BY <1>1, <1>4, <1>8 DEF ResidentInv, Types, RegOK, SameBut
    <2> QED BY <1>1, <1>4, <1>5, <1>7, <1>8, <2>1, <2>2, StackSet
  <1>9. CASE load
    <2> DEFINE l == q[2]
               low == Tail(rest)
    <2>1. /\ rest # << >> /\ Head(rest) = l /\ l.pc = "load" /\ 2 \in 1..Len(q) /\ 2 - 1 = 1
          /\ l \in FrameSet
      <3>1. Head(rest) = rest[1] /\ 1 \in 1..Len(rest) /\ rest # << >>
        BY <1>5, <1>9
      <3>2. rest[1] = q[2] /\ 2 \in 1..Len(q)
        BY <1>5, <3>1
      <3> QED BY <1>2, <1>9, <3>1, <3>2
    <2>2. Describes(q[1], l)
      BY <1>2, <2>1 DEF StackOK
    <2>3. /\ low \in Seq(FrameSet) /\ Len(low) = Len(q) - 2
          /\ \A i \in 1..Len(low) : low[i] = q[i + 2]
      <3>1. /\ low \in Seq(FrameSet) /\ Len(low) = Len(rest) - 1
            /\ \A i \in 1..Len(low) : low[i] = rest[i + 1]
        BY <1>5, <2>1, Popped
      <3>2. ASSUME NEW i \in 1..Len(low) PROVE low[i] = q[i + 2]
        <4>1. i + 1 \in 1..Len(rest) /\ (i + 1) + 1 = i + 2
          BY <1>5, <3>1
        <4> QED BY <1>5, <3>1, <4>1
      <3> QED BY <1>5, <3>1, <3>2
    <2> HIDE DEF low
    <2>4. StackOK(low, c, cells') /\ HeldBy(low, c, cells')
      <3>1. PICK m \in 1..2 : m = 2
        OBVIOUS
      <3>2. Dropped(q, low, m)
        BY <1>5, <2>1, <2>3, <3>1 DEF Dropped
      <3> QED BY <1>2, <1>6, <2>3, <3>2, PopStep
    <2>5. l.cell = k /\ l.id \in Ids
      <3>1. PICK e \in Exts : l.id = Plain(e)
        BY <2>2 DEF Describes
      <3>2. Plain(e) \in Ids
        BY PlainIds
      <3>3. l.cell = q[1].cell
        BY <2>2 DEF Describes
      <3> QED BY <1>6, <3>1, <3>2, <3>3
    <2>6. ok => Answered(l.id, cells'[k])
      <3> SUFFICES ASSUME ok, NEW e \in Exts, l.id = Plain(e)
                   PROVE  "stdout" \in Imports[e] \/ s.served > 0
        BY <1>1 DEF Answered
      <3>1. PICK e2 \in Exts : l.id = Plain(e2) /\ (q[1].link \in Fresh => "stdout" \in Imports[e2])
        BY <2>2 DEF Describes
      <3>2. e2 = e
        BY <3>1 DEF Plain
      <3> QED BY <1>3, <3>1, <3>2
    <2>7. /\ DOMAIN reg' \subseteq Ids /\ (\A id \in DOMAIN reg' : reg'[id] \in 1..Len(cells'))
          /\ RegOK'
      <3>1. CASE ~ok
        BY <1>1, <1>4, <1>9, <3>1 DEF ResidentInv, Types, RegOK, SameBut
      <3>2. CASE ok
        <4>1. reg' = Put(reg, l.id, k)
          BY <1>4, <1>9, <2>1, <2>5, <3>2 DEF Registered
        <4>2. /\ DOMAIN reg' = DOMAIN reg \cup {l.id} /\ reg'[l.id] = k
              /\ \A id \in DOMAIN reg : id # l.id => reg'[id] = reg[id]
          BY <4>1 DEF Put
        <4> QED BY <1>1, <1>3, <2>5, <2>6, <3>2, <4>2 DEF ResidentInv, Types, RegOK, SameBut
      <3> QED BY <3>1, <3>2
    <2>8. stack' = [stack EXCEPT ![c] = low]
      BY <1>4, <1>9 DEF low
    <2> QED BY <1>1, <1>7, <2>3, <2>4, <2>7, <2>8, StackSet
  <1> QED BY <1>8, <1>9

-----------------------------------------------------------------------------
(* New stores and new calls.                                                *)
LEMMA CellTyped ==
    ASSUME NEW e \in Exts, NEW kind \in {"resident", "bridge", "component"}, NEW p \in Grant,
           NEW n \in Nat, NEW g, p = NoGrant \/ [ext |-> e, policy |-> p] \in g
    PROVE  /\ Cell(e, kind, p) \in CellSet /\ CellOK(Cell(e, kind, p), n, g)
           /\ Cell(e, kind, p).holder = None
  <1> DEFINE s == Cell(e, kind, p)
  <1>1. /\ s.ext = e /\ s.kind = kind /\ s.grant = p /\ s.inst = "cold" /\ s.holder = None
        /\ s.count = 0 /\ s.served = 0 /\ s.sess = [x \in Names |-> 0] /\ s.live = {}
    BY DEF Cell
  <1>2. s \in CellSet
    BY DEF Cell, CellSet
  <1>3. IsFiniteSet(s.live) /\ Cardinality(s.live) <= n
    BY <1>1, FS_EmptySet
  <1>4. Sessions(s)
    BY <1>1 DEF Sessions
  <1> QED BY <1>1, <1>2, <1>3, <1>4 DEF CellOK, MayAsk

LEMMA FrameTyped ==
    ASSUME NEW k \in Nat, NEW link \in Links4
    PROVE  /\ Frame(k, link) \in FrameSet
           /\ Frame(k, link).cell = k /\ Frame(k, link).link = link
           /\ Frame(k, link).pc = IF link \in Fresh THEN "make" ELSE "lock"
  BY DEF Frame, FrameSet, Pcs, Inside

NoGrantTyped == NoGrant \in Grant
LEMMA NoGrantIsGrant == NoGrantTyped
  BY DEF NoGrantTyped, NoGrant, Grant

(* C has the stores there are and new ones, which nobody is inside.         *)
Adds(C) ==
    /\ C \in Seq(CellSet) /\ More(cells, C)
    /\ \A k \in 1..Len(C) : k > Len(cells) =>
          C[k].holder = None /\ CellOK(C[k], ops', granted')

LEMMA AddNone ==
    ASSUME ResidentInv
    PROVE  Adds(cells)
  <1>1. cells \in Seq(CellSet) /\ Len(cells) \in Nat
    BY DEF ResidentInv, Types
  <1> QED BY <1>1 DEF Adds, More

LEMMA AddOne ==
    ASSUME ResidentInv, NEW C, Adds(C), NEW s \in CellSet, s.holder = None,
           CellOK(s, ops', granted')
    PROVE  /\ Adds(C \o <<s>>) /\ Len(C \o <<s>>) = Len(C) + 1 /\ Len(C) \in Nat
           /\ (C \o <<s>>)[Len(C) + 1] = s
           /\ \A i \in 1..Len(C) : (C \o <<s>>)[i] = C[i]
  <1> DEFINE C2 == C \o <<s>>
             n == Len(C)
  <1>1. C \in Seq(CellSet) /\ n \in Nat /\ cells \in Seq(CellSet) /\ Len(cells) \in Nat
    BY DEF Adds, ResidentInv, Types
  <1>2. <<s>> \in Seq(CellSet) /\ Len(<<s>>) = 1 /\ <<s>>[1] = s /\ 1 \in 1..1
    OBVIOUS
  <1>3. /\ C2 \in Seq(CellSet) /\ Len(C2) = n + Len(<<s>>)
        /\ \A i \in 1..n : C2[i] = C[i]
        /\ \A i \in 1..Len(<<s>>) : C2[n + i] = <<s>>[i]
    BY <1>1, <1>2, Pushed
  <1>4. Len(C2) = n + 1 /\ C2[n + 1] = s
    BY <1>2, <1>3
  <1> HIDE DEF C2, n
  <1>5. \A i \in 1..(n + 1) : i \in 1..n \/ i = n + 1
    BY <1>1
  <1>6. n = Len(C) /\ Len(cells) <= n /\ \A i \in 1..Len(cells) : i \in 1..n /\ C[i] = cells[i]
    BY <1>1 DEF Adds, More, n
  <1>7. More(cells, C2)
    BY <1>1, <1>3, <1>4, <1>6 DEF More
  <1>8. \A k \in 1..Len(C2) : k > Len(cells) =>
            C2[k].holder = None /\ CellOK(C2[k], ops', granted')
    BY <1>3, <1>4, <1>5, <1>6 DEF Adds
  <1> QED BY <1>1, <1>3, <1>4, <1>7, <1>8 DEF Adds, C2, n

LEMMA AddsInv ==
    ASSUME ResidentInv, Adds(cells'), Later
    PROVE  /\ CellsOK' /\ \A k \in 1..Len(cells) : cells'[k] = cells[k] /\ k \in 1..Len(cells')
           /\ \A d \in Callers : StackOK(stack[d], d, cells') /\ HeldBy(stack[d], d, cells')
  <1>1. /\ cells \in Seq(CellSet) /\ cells' \in Seq(CellSet) /\ ops \in Nat
        /\ Len(cells) \in Nat /\ Len(cells') \in Nat
    BY DEF Adds, ResidentInv, Types
  <1>2. /\ \A k \in 1..Len(cells) : cells'[k] = cells[k] /\ k \in 1..Len(cells')
        /\ \A k \in 1..Len(cells') : k \in 1..Len(cells) \/ k > Len(cells)
    BY <1>1 DEF Adds, More
  <1>3. ASSUME NEW k \in 1..Len(cells') PROVE CellOK(cells'[k], ops', granted')
    <2>1. CASE k \in 1..Len(cells)
      <3>1. cells'[k] = cells[k] /\ CellOK(cells[k], ops, granted) /\ cells[k] \in CellSet
        BY <1>1, <1>2, <2>1 DEF ResidentInv, CellsOK
      <3> QED BY <1>1, <3>1, CellGrows DEF Later
    <2>2. CASE k > Len(cells)
      BY <2>2 DEF Adds
    <2> QED BY <1>2, <2>1, <2>2
  <1>4. ASSUME NEW d \in Callers
        PROVE  StackOK(stack[d], d, cells') /\ HeldBy(stack[d], d, cells')
    <2>1. StackOK(stack[d], d, cells) /\ HeldBy(stack[d], d, cells)
      BY DEF ResidentInv, StacksOK
    <2>2. \A k \in 1..Len(cells') : k > Len(cells) => cells'[k].holder = None
      BY DEF Adds
    <2> QED BY <1>1, <2>1, <2>2, Grown DEF Adds
  <1> QED BY <1>2, <1>3, <1>4 DEF CellsOK

RegTyped == DOMAIN reg \subseteq Ids /\ \A id \in DOMAIN reg : reg[id] \in 1..Len(cells)

LEMMA PushInv ==
    ASSUME ResidentInv, NEW c \in Callers, NEW p, Adds(cells'), Later,
           Callable(p, c, cells'), stack' = [stack EXCEPT ![c] = p \o stack[c]],
           stack[c] # << >> => Top(c).pc = "run",
           RegTyped', RegOK'
    PROVE  Settled'
  <1> DEFINE q == stack[c]
             q2 == p \o q
  <1>1. q \in Seq(FrameSet) /\ p \in Seq(FrameSet)
    BY DEF ResidentInv, Types, Callable
  <1>2. PICK m \in 1..2 : m = Len(p)
    BY DEF Callable
  <1>3. /\ q2 \in Seq(FrameSet) /\ Len(q2) = m + Len(q)
        /\ \A i \in 1..m : q2[i] = p[i]
        /\ \A i \in 1..Len(q) : q2[m + i] = q[i]
    BY <1>1, <1>2, Pushed
  <1>4. q # << >> => q[1].pc = "run"
    BY TopFacts
  <1>5. /\ CellsOK'
        /\ \A d \in Callers : StackOK(stack[d], d, cells') /\ HeldBy(stack[d], d, cells')
    BY AddsInv
  <1>6. stack' = [stack EXCEPT ![c] = q2] /\ StackOK(q, c, cells') /\ HeldBy(q, c, cells')
    BY <1>5
  <1> HIDE DEF q, q2
  <1>7. Pushes(q, p, q2, m)
    BY <1>2, <1>3, <1>4 DEF Pushes
  <1>8. StackOK(q2, c, cells') /\ HeldBy(q2, c, cells')
    BY <1>1, <1>3, <1>6, <1>7, PushStep
  <1>9. cells' \in Seq(CellSet) /\ ops' \in Nat
    BY DEF Adds, Later
  <1> QED BY <1>3, <1>5, <1>6, <1>8, <1>9, StackSet DEF RegTyped

(* Only the stores and what is registered may have changed.                 *)
LEMMA IdleInv ==
    ASSUME ResidentInv, Adds(cells'), Later, UNCHANGED stack, RegTyped', RegOK'
    PROVE  Settled'
  <1>1. /\ CellsOK'
        /\ \A d \in Callers : StackOK(stack[d], d, cells') /\ HeldBy(stack[d], d, cells')
    BY AddsInv
  <1>2. StacksOK'
    BY <1>1 DEF StacksOK
  <1>3. Types'
    BY DEF ResidentInv, Types, Adds, Later, RegTyped
  <1> QED BY <1>1, <1>2, <1>3 DEF Settled

(* reg is left alone, or gets the store k under id.                         *)
LEMMA RegKept ==
    ASSUME ResidentInv, Adds(cells'), Later, UNCHANGED reg
    PROVE  RegTyped' /\ RegOK'
  <1>1. \A k \in 1..Len(cells) : cells'[k] = cells[k] /\ k \in 1..Len(cells')
    BY AddsInv
  <1> QED BY <1>1 DEF ResidentInv, Types, RegTyped, RegOK

LEMMA RegPut ==
    ASSUME ResidentInv, Adds(cells'), Later, NEW id \in Ids, NEW k \in 1..Len(cells'),
           reg' = Registered(reg, id, k), Answered(id, cells'[k])
    PROVE  RegTyped' /\ RegOK'
  <1>1. \A i \in 1..Len(cells) : cells'[i] = cells[i] /\ i \in 1..Len(cells')
    BY AddsInv
  <1>2. /\ DOMAIN reg' = DOMAIN reg \cup {id} /\ reg'[id] = k
        /\ \A x \in DOMAIN reg : x # id => reg'[x] = reg[x]
    BY DEF Registered, Put
  <1> QED BY <1>1, <1>2 DEF ResidentInv, Types, RegTyped, RegOK

(* Calls and loads as they are pushed.                                      *)
Calls(link, c, s) ==
    /\ link \in Links4
    /\ IF link \in Fresh THEN s.holder # c ELSE s.kind # "component"
LEMMA CallPushed ==
    ASSUME NEW c \in Callers, NEW C \in Seq(CellSet), NEW k \in 1..Len(C), NEW link,
           Calls(link, c, C[k])
    PROVE  Callable(<<Frame(k, link)>>, c, C)
  <1> DEFINE f == Frame(k, link)
             p == <<f>>
  <1>1. /\ f \in FrameSet /\ f.cell = k /\ f.link = link
        /\ f.pc = IF link \in Fresh THEN "make" ELSE "lock"
    BY FrameTyped DEF Calls
  <1> HIDE DEF f
  <1>2. ~Holds(f) /\ f.pc # "load" /\ FrameOK(f, c, C[k])
    BY <1>1 DEF FrameOK, Holds, Inside, Asking, Calls
  <1>3. p \in Seq(FrameSet) /\ Len(p) = 1 /\ p[1] = f
    BY <1>1
  <1> QED BY <1>1, <1>2, <1>3 DEF Callable, f

LEMMA DescribePushed ==
    ASSUME NEW c \in Callers, NEW C \in Seq(CellSet), NEW k \in 1..Len(C), NEW e \in Exts,
           Shape[e] # "component", C[k].kind = Kind(e), C[k].holder # c
    PROVE  Callable(Describing(e, k), c, C)
  <1> DEFINE link == IF Kind(e) = "resident" /\ "stdout" \in Imports[e] THEN "cli" ELSE Kind(e)
             f == Frame(k, link)
             l == [Frame(k, Kind(e)) EXCEPT !.pc = "load", !.id = Plain(e)]
             p == <<f, l>>
  <1>1. Kind(e) \in {"resident", "bridge"} /\ k \in Nat
    BY DEF Kind
  <1>2. /\ f \in FrameSet /\ f.cell = k /\ f.link = link
        /\ f.pc = IF link \in Fresh THEN "make" ELSE "lock"
    BY <1>1, FrameTyped DEF Links4
  <1>3. link \in Fresh => "stdout" \in Imports[e]
    BY <1>1 DEF Fresh
  <1>4. /\ l \in FrameSet /\ l.cell = k /\ l.link = Kind(e) /\ l.pc = "load" /\ l.id = Plain(e)
    BY <1>1, PlainIds DEF Frame, FrameSet, Links4, Pcs
  <1>5. p = Describing(e, k)
    BY DEF Describing
  <1> HIDE DEF f, l, link
  <1>6. ~Holds(f) /\ f.pc # "load" /\ FrameOK(f, c, C[k])
    BY <1>1, <1>2, <1>3 DEF FrameOK, Holds, Inside, Asking
  <1>7. ~Holds(l) /\ FrameOK(l, c, C[k])
    BY <1>1, <1>4 DEF FrameOK, Holds, Inside, Asking
  <1>8. Describes(f, l)
    BY <1>2, <1>3, <1>4, <1>6 DEF Describes
  <1>9. p \in Seq(FrameSet) /\ Len(p) = 2 /\ p[1] = f /\ p[2] = l
    BY <1>2, <1>4
  <1> HIDE DEF p
  <1>10. ASSUME NEW i \in 1..2
         PROVE  p[i].cell \in 1..Len(C) /\ FrameOK(p[i], c, C[p[i].cell]) /\ ~Holds(p[i])
    <2>1. i = 1 \/ i = 2
      OBVIOUS
    <2> QED BY <1>2, <1>4, <1>6, <1>7, <1>9, <2>1
  <1>11. Callable(p, c, C)
    BY <1>4, <1>6, <1>8, <1>9, <1>10 DEF Callable
  <1> QED BY <1>5, <1>11

-----------------------------------------------------------------------------
(* A store with some of its fields changed.                                 *)
Untouched(s, s2) == Same(s, s2) /\ s2.sess = s.sess /\ s2.live = s.live
LEMMA CellAs ==
    ASSUME NEW s, NEW s2, NEW n, NEW g, CellOK(s, n, g), Untouched(s, s2),
           s2.count = s2.served, s2.inst = "cold" => s2.served = 0,
           s2.kind = "component" => s2.holder = None
    PROVE  CellOK(s2, n, g)
  BY DEF CellOK, Untouched, Same, Sessions, MayAsk

LEMMA StandsStill ==
    ASSUME ResidentInv, NEW c \in Callers, stack[c] # << >>, UNCHANGED <<cells, ops, granted>>
    PROVE  StoreOK(c, Here(c)) /\ Here(c) \in CellSet
  <1>1. CellOK(Here(c), ops, granted) /\ Here(c) \in CellSet
    BY TopFacts
  <1>2. cells' = With(c, Here(c)) /\ ops \in Nat /\ Here(c).served \in Nat
    BY <1>1, WithSame DEF ResidentInv, Types, CellSet
  <1> QED BY <1>1, <1>2 DEF StoreOK, Same, Later

(* The lock is taken; a store that trapped is refused.                      *)
LEMMA AcquireInv ==
    ASSUME ResidentInv, NEW c \in Callers, Acquire(c)
    PROVE  Settled'
  <1> DEFINE s == [Here(c) EXCEPT !.holder = c]
             f == Top(c)
  <1>1. stack[c] # << >> /\ f.pc = "lock" /\ Here(c).holder = None
        /\ UNCHANGED <<ops, granted>>
    BY DEF Acquire, At
  <1>2. /\ f \in FrameSet /\ Here(c) \in CellSet /\ FrameOK(f, c, Here(c))
        /\ CellOK(Here(c), ops, granted) /\ ops \in Nat
    BY <1>1, TopFacts DEF ResidentInv, Types
  <1>3. c # None /\ ~Holds(f) /\ f.link \notin Fresh /\ Here(c).kind # "component"
    BY <1>1, <1>2, ResidentsAssumption DEF Holds, Inside, Asking, FrameOK
  <1>4. /\ s \in CellSet /\ Untouched(Here(c), s) /\ s.holder = c /\ s.kind = Here(c).kind
        /\ s.inst = Here(c).inst /\ s.count = Here(c).count /\ s.served = Here(c).served
        /\ s.served \in Nat /\ s.count \in Nat
    BY <1>2 DEF CellSet, Untouched, Same
  <1> HIDE DEF s, f
  <1>5. CellOK(s, ops, granted)
    BY <1>2, <1>3, <1>4, CellAs DEF CellOK
  <1>6. ASSUME cells' = Locked(c) PROVE StoreOK(c, s)
    BY <1>1, <1>2, <1>3, <1>4, <1>5, <1>6 DEF StoreOK, Untouched, Later, Locked, s, f
  <1>7. CASE Here(c).inst = "cold"
    <2> DEFINE x == [f EXCEPT !.pc = "make"]
    <2>1. Become(c, x) /\ cells' = Locked(c) /\ UNCHANGED reg
      BY <1>7 DEF Acquire, Goto, f
    <2>2. x \in FrameSet /\ x.cell = f.cell /\ x.link = f.link /\ x.pc = "make"
      BY <1>2 DEF FrameSet, Pcs, Inside
    <2> HIDE DEF x
    <2>3. Holds(x) /\ FrameOK(x, c, s)
      BY <1>3, <1>4, <1>7, <2>2 DEF Holds, FrameOK, Inside, Asking
    <2>4. StoreOK(c, s) /\ Here(c).holder # c
      BY <1>1, <1>3, <1>6, <2>1
    <2> QED BY <1>1, <1>4, <2>1, <2>2, <2>3, <2>4, BecomeInv DEF f
  <1>8. CASE Here(c).inst = "warm"
    <2> DEFINE x == [f EXCEPT !.pc = "run", !.n = Here(c).count]
    <2>1. Become(c, x) /\ cells' = Locked(c) /\ UNCHANGED reg
      BY <1>8 DEF Acquire, Entered, f
    <2>2. /\ x \in FrameSet /\ x.cell = f.cell /\ x.link = f.link /\ x.pc = "run"
          /\ x.n = Here(c).count
      BY <1>2, <1>4 DEF FrameSet, Pcs, Inside
    <2> HIDE DEF x
    <2>3. Holds(x) /\ FrameOK(x, c, s)
      BY <1>3, <1>4, <1>8, <2>2 DEF Holds, FrameOK, Inside, Asking
    <2>4. StoreOK(c, s) /\ Here(c).holder # c
      BY <1>1, <1>3, <1>6, <2>1
    <2> QED BY <1>1, <1>4, <2>1, <2>2, <2>3, <2>4, BecomeInv DEF f
  <1>9. CASE Here(c).inst = "dead"
    <2>1. End(c, FALSE) /\ UNCHANGED cells
      BY <1>9 DEF Acquire
    <2>2. StoreOK(c, Here(c)) /\ Here(c) \in CellSet
      BY <1>1, <2>1, StandsStill
    <2>3. Here(c).holder # c
      BY <1>1, <1>3
    <2> QED BY <1>1, <2>1, <2>2, <2>3, EndInv
  <1>10. Here(c).inst \in {"cold", "warm", "dead"}
    BY <1>2 DEF CellSet
  <1> QED BY <1>7, <1>8, <1>9, <1>10

(* The store is made, or it stays as it was.                                *)
LEMMA InstantiateInv ==
    ASSUME ResidentInv, NEW c \in Callers, Instantiate(c)
    PROVE  Settled'
  <1> DEFINE s == [Here(c) EXCEPT !.inst = "warm", !.count = 0]
             f == Top(c)
             x == [f EXCEPT !.pc = "run", !.n = 0]
  <1>1. stack[c] # << >> /\ f.pc = "make" /\ Become(c, x) /\ UNCHANGED <<reg, ops, granted>>
    BY DEF Instantiate, At, Entered
  <1>2. /\ f \in FrameSet /\ Here(c) \in CellSet /\ FrameOK(f, c, Here(c))
        /\ CellOK(Here(c), ops, granted) /\ ops \in Nat
    BY <1>1, TopFacts DEF ResidentInv, Types
  <1>3. /\ x \in FrameSet /\ x.cell = f.cell /\ x.link = f.link /\ x.pc = "run" /\ x.n = 0
    BY <1>2 DEF FrameSet, Pcs, Inside
  <1>4. CASE f.link \in Fresh
    <2> HIDE DEF x, f
    <2>1. UNCHANGED cells /\ Here(c).holder # c /\ ~Holds(x) /\ ~Holds(f)
      BY <1>1, <1>2, <1>3, <1>4 DEF Instantiate, FrameOK, Holds, f
    <2>2. StoreOK(c, Here(c))
      BY <1>1, <2>1, StandsStill
    <2>3. FrameOK(x, c, Here(c))
      BY <1>3, <1>4, <2>1 DEF FrameOK, Asking
    <2> QED BY <1>1, <1>2, <1>3, <2>1, <2>2, <2>3, BecomeInv DEF f
  <1>5. CASE f.link \notin Fresh
    <2>1. Holds(f) /\ Here(c).holder = c /\ Here(c).inst = "cold" /\ Here(c).kind # "component"
      BY <1>1, <1>2, <1>5 DEF Holds, Inside, FrameOK
    <2>2. /\ s \in CellSet /\ Untouched(Here(c), s) /\ s.holder = c /\ s.inst = "warm"
          /\ s.count = 0 /\ s.served = Here(c).served /\ s.served = 0 /\ s.kind = Here(c).kind
      BY <1>2, <2>1 DEF CellSet, Untouched, Same, CellOK
    <2>3. cells' = With(c, s)
      BY <1>5 DEF Instantiate
    <2> HIDE DEF s, x, f
    <2>4. CellOK(s, ops, granted)
      BY <1>2, <2>1, <2>2, CellAs
    <2>5. StoreOK(c, s)
      BY <1>1, <1>2, <2>1, <2>2, <2>3, <2>4 DEF StoreOK, Untouched, Later, f
    <2>6. Holds(x) /\ FrameOK(x, c, s)
      BY <1>3, <1>5, <2>1, <2>2 DEF Holds, FrameOK, Inside, Asking
    <2> QED BY <1>1, <1>3, <2>1, <2>2, <2>5, <2>6, BecomeInv DEF f
  <1> QED BY <1>4, <1>5

(* The call fails before it is in the guest: the lock is released.          *)
LEMMA InstantiateFailsInv ==
    ASSUME ResidentInv, NEW c \in Callers, InstantiateFails(c)
    PROVE  Settled'
  <1> DEFINE h == Release(c, Top(c).cell)
             s == [Here(c) EXCEPT !.holder = h]
             f == Top(c)
  <1>1. /\ stack[c] # << >> /\ f.pc = "make" /\ End(c, FALSE) /\ UNCHANGED <<ops, granted>>
        /\ cells' = With(c, s)
    BY DEF InstantiateFails, At
  <1>2. /\ f \in FrameSet /\ Here(c) \in CellSet /\ FrameOK(f, c, Here(c))
        /\ CellOK(Here(c), ops, granted) /\ ops \in Nat
    BY <1>1, TopFacts DEF ResidentInv, Types
  <1>3. h = IF Here(c).holder = c THEN None ELSE Here(c).holder
    BY DEF Release, Here
  <1>4. c # None /\ h \in Callers \cup {None} /\ h # c
    BY <1>2, <1>3, ResidentsAssumption DEF CellSet
  <1> HIDE DEF h
  <1>5. /\ s \in CellSet /\ Untouched(Here(c), s) /\ s.holder = h /\ s.inst = Here(c).inst
        /\ s.count = Here(c).count /\ s.served = Here(c).served /\ s.kind = Here(c).kind
        /\ s.served \in Nat
    BY <1>2, <1>4 DEF CellSet, Untouched, Same
  <1>6. Here(c).holder # c => s = Here(c)
    BY <1>2, <1>3 DEF CellSet
  <1>7. f.link \in Fresh => Here(c).holder # c
    BY <1>1, <1>2 DEF FrameOK
  <1>8. f.link \notin Fresh => Holds(f) /\ Here(c).holder = c /\ h = None
    BY <1>1, <1>2, <1>3 DEF Holds, Inside, FrameOK
  <1> HIDE DEF s, f
  <1>9. CellOK(s, ops, granted)
    BY <1>2, <1>3, <1>5, CellAs DEF CellOK
  <1>10. StoreOK(c, s)
    BY <1>1, <1>2, <1>5, <1>6, <1>7, <1>8, <1>9 DEF StoreOK, Untouched, Later, f
  <1>11. s.holder # c
    BY <1>4, <1>5
  <1> QED BY <1>1, <1>5, <1>10, <1>11, EndInv

IsCounted(s, t, n, m) == t = [s EXCEPT !.count = n, !.served = m, !.holder = None]
LEMMA Counted ==
    ASSUME NEW s \in CellSet, NEW n \in Nat, NEW m \in Nat, NEW t,
           IsCounted(s, t, n, m)
    PROVE  /\ t \in CellSet /\ Untouched(s, t) /\ t.holder = None /\ t.inst = s.inst
           /\ t.count = n /\ t.served = m /\ t.kind = s.kind
  BY DEF CellSet, Untouched, Same, IsCounted

(* The guest answers: what it counted is what was counted for it.           *)
LEMMA ReturnInv ==
    ASSUME ResidentInv, NEW c \in Callers, NEW ok \in BOOLEAN, Return(c, ok)
    PROVE  Settled'
  <1> DEFINE f == Top(c)
             s == [Here(c) EXCEPT !.count = f.n + 1, !.served = Here(c).served + 1,
                                  !.holder = Release(c, f.cell)]
  <1>1. /\ stack[c] # << >> /\ f.pc = "run" /\ End(c, ok) /\ UNCHANGED <<ops, granted>>
        /\ f.link \in Fresh => UNCHANGED cells
        /\ f.link \notin Fresh => cells' = With(c, s)
    BY DEF Return, At
  <1>2. /\ f \in FrameSet /\ Here(c) \in CellSet /\ FrameOK(f, c, Here(c))
        /\ CellOK(Here(c), ops, granted) /\ ops \in Nat
    BY <1>1, TopFacts DEF ResidentInv, Types
  <1>3. c # None
    BY ResidentsAssumption
  <1>4. CASE f.link \in Fresh
    <2>1. StoreOK(c, Here(c)) /\ ~Holds(f)
      BY <1>1, <1>4, StandsStill DEF Holds
    <2> QED BY <1>1, <1>2, <1>4, <2>1, EndInv
  <1>5. CASE f.link \notin Fresh
    <2>1. /\ Holds(f) /\ Here(c).holder = c /\ Here(c).inst = "warm" /\ Here(c).kind # "component"
          /\ f.n = Here(c).count /\ Here(c).count = Here(c).served
      BY <1>1, <1>2, <1>5 DEF Holds, Inside, FrameOK, CellOK
    <2>2. Release(c, f.cell) = None
      BY <2>1 DEF Release, Here
    <2>3. /\ s \in CellSet /\ Untouched(Here(c), s) /\ s.holder = None /\ s.inst = "warm"
          /\ s.count = Here(c).count + 1 /\ s.served = Here(c).served + 1 /\ s.kind = Here(c).kind
          /\ Here(c).served \in Nat
      <3>1. Here(c).count \in Nat /\ Here(c).served \in Nat
        BY <1>2 DEF CellSet
      <3>2. f.n + 1 = Here(c).count + 1 /\ Here(c).count + 1 \in Nat /\ Here(c).served + 1 \in Nat
        BY <2>1, <3>1
      <3>3. IsCounted(Here(c), s, Here(c).count + 1, Here(c).served + 1)
        BY <2>2, <3>2 DEF IsCounted
      <3> HIDE DEF s
      <3> QED BY <1>2, <2>1, <3>1, <3>2, <3>3, Counted
    <2> HIDE DEF s, f
    <2>4. s.count = s.served /\ s.served > 0 /\ Here(c).served <= s.served
      BY <2>1, <2>3
    <2>5. CellOK(s, ops, granted)
      BY <1>2, <2>3, <2>4, CellAs
    <2>6. StoreOK(c, s)
      BY <1>1, <1>2, <1>5, <2>1, <2>3, <2>4, <2>5 DEF StoreOK, Untouched, Later, f
    <2> QED BY <1>1, <1>3, <2>3, <2>4, <2>6, EndInv
  <1> QED BY <1>4, <1>5

(* The guest traps: its store is dead, and lost what it had counted.        *)
LEMMA TrapInv ==
    ASSUME ResidentInv, NEW c \in Callers, Trap(c)
    PROVE  Settled'
  <1> DEFINE f == Top(c)
             s == [Here(c) EXCEPT !.inst = "dead", !.holder = Release(c, f.cell)]
  <1>1. /\ stack[c] # << >> /\ f.pc = "run" /\ End(c, FALSE) /\ UNCHANGED <<ops, granted>>
        /\ f.link \in Fresh => UNCHANGED cells
        /\ f.link \notin Fresh => cells' = With(c, s)
    BY DEF Trap, At
  <1>2. /\ f \in FrameSet /\ Here(c) \in CellSet /\ FrameOK(f, c, Here(c))
        /\ CellOK(Here(c), ops, granted) /\ ops \in Nat
    BY <1>1, TopFacts DEF ResidentInv, Types
  <1>3. c # None
    BY ResidentsAssumption
  <1>4. CASE f.link \in Fresh
    <2>1. StoreOK(c, Here(c)) /\ ~Holds(f)
      BY <1>1, <1>4, StandsStill DEF Holds
    <2> QED BY <1>1, <1>2, <1>4, <2>1, EndInv
  <1>5. CASE f.link \notin Fresh
    <2>1. Holds(f) /\ Here(c).holder = c /\ Here(c).kind # "component"
      BY <1>1, <1>2, <1>5 DEF Holds, Inside, FrameOK
    <2>2. Release(c, f.cell) = None
      BY <2>1 DEF Release, Here
    <2>3. /\ s \in CellSet /\ Untouched(Here(c), s) /\ s.holder = None /\ s.inst = "dead"
          /\ s.count = Here(c).count /\ s.served = Here(c).served /\ s.kind = Here(c).kind
          /\ s.served \in Nat
      BY <1>2, <2>2 DEF CellSet, Untouched, Same
    <2> HIDE DEF s, f
    <2>4. CellOK(s, ops, granted)
      BY <1>2, <2>1, <2>3, CellAs DEF CellOK
    <2>5. StoreOK(c, s)
      BY <1>1, <1>2, <1>5, <2>1, <2>3, <2>4 DEF StoreOK, Untouched, Later, f
    <2> QED BY <1>1, <1>3, <2>3, <2>5, EndInv
  <1> QED BY <1>4, <1>5

-----------------------------------------------------------------------------
(* A call that starts finds a store it may queue for, or makes its own:     *)
(* nobody is inside a component's, and a dot command has no other call.     *)
LEMMA InvokePushed ==
    ASSUME ResidentInv, NEW c \in Callers, NEW id \in DOMAIN reg, NEW f, Push(c, f),
           f = invoke(reg[id]) \/ (f = invoke_cli(reg[id]) /\ stack[c] = << >>),
           stack[c] # << >> => Top(c).pc = "run", Later, UNCHANGED <<cells, reg>>
    PROVE  Settled'
  <1> DEFINE k == reg[id]
             s == cells[k]
             link == IF s.kind = "component" THEN "wasi" ELSE s.kind
  <1>1. k \in 1..Len(cells) /\ cells \in Seq(CellSet) /\ s \in CellSet /\ CellOK(s, ops, granted)
    BY DEF ResidentInv, Types, CellsOK
  <1>2. c # None
    BY ResidentsAssumption
  <1>3. Calls(link, c, s)
    BY <1>1, <1>2 DEF Calls, Links4, Fresh, CellSet, CellOK
  <1>4. stack[c] = << >> => Calls("cli", c, s)
    <2> SUFFICES ASSUME stack[c] = << >> PROVE s.holder # c
      BY DEF Calls, Links4, Fresh
    <2>1. HeldBy(stack[c], c, cells) /\ Len(stack[c]) = 0 /\ 1..Len(stack[c]) = {}
      BY DEF ResidentInv, StacksOK
    <2> QED BY <1>1, <2>1 DEF HeldBy
  <1>5. invoke(k) = Frame(k, link)
    BY DEF invoke
  <1>6. f = Frame(k, link) \/ (f = Frame(k, "cli") /\ stack[c] = << >>)
    BY <1>5 DEF invoke_cli
  <1> HIDE DEF k, s, link
  <1>7. Callable(<<f>>, c, cells)
    BY <1>1, <1>3, <1>4, <1>6, CallPushed DEF s
  <1>8. Adds(cells')
    BY AddNone DEF Adds
  <1>9. RegTyped' /\ RegOK'
    BY <1>8, RegKept
  <1>10. stack' = [stack EXCEPT ![c] = <<f>> \o stack[c]]
    BY DEF Push
  <1>11. Callable(<<f>>, c, cells')
    BY <1>7
  <1> QED BY <1>8, <1>9, <1>10, <1>11, PushInv

OneMoreOp == ops' = ops + 1 /\ granted \subseteq granted'
LEMMA OpsGrow == ASSUME ResidentInv, OneMoreOp PROVE Later
  BY DEF ResidentInv, Types, Later, OneMoreOp

LEMMA ResolveInv ==
    ASSUME ResidentInv, NEW c \in Callers, NEW id \in Ids, resolve_and_invoke(c, id)
    PROVE  Settled'
  <1>1. /\ stack[c] # << >> => Top(c).pc = "run"
        /\ id \in DOMAIN reg /\ Push(c, invoke(reg[id])) /\ UNCHANGED <<cells, reg>> /\ OneMoreOp
    BY DEF resolve_and_invoke, Own, Guest, At, OneMoreOp
  <1> QED BY <1>1, OpsGrow, InvokePushed

LEMMA DispatchInv ==
    ASSUME ResidentInv, NEW c \in Callers, NEW e \in Exts,
           try_provider_invoke(c, e) \/ dispatch_dot_command(c, e)
    PROVE  Settled'
  <1>1. stack[c] = << >> /\ Plain(e) \in DOMAIN reg /\ UNCHANGED <<cells, reg>> /\ OneMoreOp
    BY DEF try_provider_invoke, dispatch_dot_command, Dispatched, OneMoreOp
  <1>2. PICK f : Push(c, f) /\ f \in {invoke(reg[Plain(e)]), invoke_cli(reg[Plain(e)])}
    BY DEF try_provider_invoke, dispatch_dot_command
  <1> QED BY <1>1, <1>2, OpsGrow, InvokePushed

LEMMA AppendOne ==
    ASSUME NEW S, NEW q \in Seq(S), NEW x \in S
    PROVE  Append(q, x) = q \o <<x>>
  OBVIOUS

(* Loads: one or two stores are added, nobody is inside them.               *)
LEMMA BytesInv ==
    ASSUME ResidentInv, NEW c \in Callers, NEW e \in Exts, load_extension_from_bytes(c, e)
    PROVE  Settled'
  <1> DEFINE s == Cell(e, "resident", NoGrant)
             k == Len(cells) + 1
  <1>1. /\ stack[c] # << >> => Top(c).pc = "run"
        /\ Shape[e] = "provider" /\ cells' = Append(cells, s) /\ UNCHANGED reg
        /\ stack' = [stack EXCEPT ![c] = Describing(e, k) \o stack[c]] /\ OneMoreOp
    BY DEF load_extension_from_bytes, Guest, At, OneMoreOp, BytesGrant
  <1>2. Later /\ ops' \in Nat
    BY <1>1, OpsGrow DEF Later
  <1>3. s \in CellSet /\ CellOK(s, ops', granted') /\ s.holder = None /\ s.kind = "resident"
    BY <1>2, CellTyped, NoGrantIsGrant DEF NoGrantTyped, Cell
  <1> HIDE DEF s
  <1>4. cells' = cells \o <<s>> /\ Adds(cells)
    <2>1. cells \in Seq(CellSet)
      BY DEF ResidentInv, Types
    <2>2. Append(cells, s) = cells \o <<s>>
      BY <1>3, <2>1, AppendOne
    <2> QED BY <1>1, <2>2, AddNone
  <1>5. Adds(cells') /\ Len(cells') = k /\ Len(cells) \in Nat /\ cells'[k] = s
    BY <1>3, <1>4, AddOne
  <1>6. k \in 1..Len(cells') /\ cells' \in Seq(CellSet)
    BY <1>5 DEF Adds
  <1> HIDE DEF k
  <1>7. cells'[k].kind = Kind(e) /\ cells'[k].holder # c /\ Shape[e] # "component"
    BY <1>1, <1>3, <1>5, ResidentsAssumption DEF Kind
  <1>8. Callable(Describing(e, k), c, cells')
    BY <1>6, <1>7, DescribePushed
  <1>9. RegTyped' /\ RegOK'
    BY <1>1, <1>2, <1>5, RegKept
  <1> QED BY <1>1, <1>2, <1>5, <1>8, <1>9, PushInv

LEMMA RegisterInv ==
    ASSUME ResidentInv, NEW e \in Exts, register_wasm_provider(e)
    PROVE  Settled'
  <1> DEFINE s == Cell(e, "component", NoGrant)
             k == Len(cells) + 1
  <1>1. /\ cells' = Append(cells, s) /\ UNCHANGED stack /\ OneMoreOp
        /\ reg' = Registered(reg, Plain(e), k)
    BY DEF register_wasm_provider, OneMoreOp
  <1>2. Later /\ ops' \in Nat
    BY <1>1, OpsGrow DEF Later
  <1>3. s \in CellSet /\ CellOK(s, ops', granted') /\ s.holder = None /\ s.kind = "component"
    BY <1>2, CellTyped, NoGrantIsGrant DEF NoGrantTyped, Cell
  <1> HIDE DEF s
  <1>4. cells' = cells \o <<s>> /\ Adds(cells)
    <2>1. cells \in Seq(CellSet)
      BY DEF ResidentInv, Types
    <2>2. Append(cells, s) = cells \o <<s>>
      BY <1>3, <2>1, AppendOne
    <2> QED BY <1>1, <2>2, AddNone
  <1>5. Adds(cells') /\ Len(cells') = k /\ Len(cells) \in Nat /\ cells'[k] = s
    BY <1>3, <1>4, AddOne
  <1>6. k \in 1..Len(cells')
    BY <1>5
  <1> HIDE DEF k
  <1>7. Answered(Plain(e), cells'[k]) /\ Plain(e) \in Ids
    BY <1>3, <1>5, PlainIds DEF Answered
  <1>8. RegTyped' /\ RegOK'
    BY <1>1, <1>2, <1>5, <1>6, <1>7, RegPut
  <1> QED BY <1>1, <1>2, <1>5, <1>8, IdleInv

LEMMA AliasTyped == \A e \in Exts : resolve_shim_alias(e) \in Exts
  <1> TAKE e \in Exts
  <1> DEFINE hop == [x \in Exts |-> IF x \in DOMAIN Alias THEN Alias[x] ELSE x]
             two == [x \in Exts |-> hop[hop[x]]]
             four == [x \in Exts |-> two[two[x]]]
  <1>1. resolve_shim_alias(e) = four[four[e]]
    BY DEF resolve_shim_alias
  <1>2. hop \in [Exts -> Exts]
    BY ResidentsAssumption
  <1> HIDE DEF hop
  <1>3. two \in [Exts -> Exts]
    BY <1>2
  <1> HIDE DEF two
  <1>4. four \in [Exts -> Exts]
    BY <1>3
  <1> HIDE DEF four
  <1> QED BY <1>1, <1>4

LEMMA LoadInv ==
    ASSUME ResidentInv, NEW c \in Callers, NEW l \in Loads, load_extension(c, l.ext, l.policy)
    PROVE  Settled'
  <1> DEFINE e == l.ext
             p == l.policy
             up == resolve_shim_alias(e)
             pre == Composed(e, p)
             mid == cells \o pre
             k == Len(cells) + Len(pre) + 1
             grant == IF Shape[e] = "bridge" THEN NoGrant ELSE p
             s == Cell(e, Kind(e), grant)
  <1>1. e \in Exts /\ p \in Grant /\ up \in Exts
    BY AliasTyped, ResidentsAssumption
  <1>2. /\ stack[c] = << >> /\ Shape[e] # "component" /\ cells' = mid \o <<s>>
        /\ reg' = IF pre = << >> THEN reg
                  ELSE Registered(reg, sub_ext_provider_id(up), Len(cells) + 1)
        /\ stack' = [stack EXCEPT ![c] = Describing(e, k)]
        /\ [ext |-> up, policy |-> p] \in granted' /\ [ext |-> e, policy |-> p] \in granted'
        /\ OneMoreOp
    BY DEF load_extension, OneMoreOp
  <1>3. pre = << >> \/ pre = <<Cell(up, "resident", p)>>
    BY DEF Composed
  <1> HIDE DEF e, p, up, pre
  <1>4. Later /\ ops' \in Nat
    BY <1>2, OpsGrow DEF Later
  <1>5. s \in CellSet /\ CellOK(s, ops', granted') /\ s.holder = None /\ s.kind = Kind(e)
    <2>1. Kind(e) \in {"resident", "bridge", "component"}
      BY DEF Kind
    <2>2. grant \in Grant /\ (grant = NoGrant \/ [ext |-> e, policy |-> grant] \in granted')
      BY <1>1, <1>2, NoGrantIsGrant DEF NoGrantTyped
    <2> HIDE DEF grant
    <2> QED BY <1>1, <1>4, <2>1, <2>2, CellTyped DEF Cell
  <1> HIDE DEF s
  <1>6. /\ Adds(mid) /\ Len(mid) = Len(cells) + Len(pre) /\ Len(mid) \in Nat
        /\ pre # << >> => Len(cells) + 1 \in 1..Len(mid)
    <2>1. cells \in Seq(CellSet) /\ Len(cells) \in Nat /\ Adds(cells)
      BY AddNone DEF ResidentInv, Types
    <2>2. CASE pre = << >>
      <3>1. mid = cells /\ Len(pre) = 0
        BY <2>1, <2>2, ConcatEmptySeq
      <3> QED BY <2>1, <2>2, <3>1
    <2>3. CASE pre # << >>
      <3> DEFINE t == Cell(up, "resident", p)
      <3>1. t \in CellSet /\ CellOK(t, ops', granted') /\ t.holder = None
        BY <1>1, <1>2, <1>4, CellTyped
      <3> HIDE DEF t
      <3>2. pre = <<t>> /\ Len(pre) = 1
        BY <1>3, <2>3 DEF t
      <3>3. Adds(mid) /\ Len(mid) = Len(cells) + 1
        BY <2>1, <3>1, <3>2, AddOne
      <3> QED BY <2>1, <3>2, <3>3
    <2> QED BY <2>2, <2>3
  <1> HIDE DEF mid
  <1>7. Adds(cells') /\ Len(cells') = Len(mid) + 1 /\ Len(mid) \in Nat /\ cells'[Len(mid) + 1] = s
    BY <1>2, <1>5, <1>6, AddOne
  <1>8. /\ k = Len(mid) + 1 /\ k \in 1..Len(cells') /\ cells'[k] = s
        /\ pre # << >> => Len(cells) + 1 \in 1..Len(cells')
        /\ cells' \in Seq(CellSet)
    BY <1>6, <1>7 DEF Adds
  <1> HIDE DEF k
  <1>9. Callable(Describing(e, k), c, cells')
    BY <1>1, <1>2, <1>5, <1>8, DescribePushed, ResidentsAssumption
  <1>10. Describing(e, k) = Describing(e, k) \o stack[c]
    BY <1>2, <1>9, ConcatEmptySeq DEF Callable
  <1>11. RegTyped' /\ RegOK'
    <2>1. CASE pre = << >>
      BY <1>2, <1>4, <1>7, <2>1, RegKept
    <2>2. CASE pre # << >>
      <3>1. sub_ext_provider_id(up) \in Ids
        BY <1>1 DEF sub_ext_provider_id, Ids
      <3>2. Answered(sub_ext_provider_id(up), cells'[Len(cells) + 1])
        BY DEF sub_ext_provider_id, Plain, Answered
      <3> QED BY <1>2, <1>4, <1>7, <1>8, <2>2, <3>1, <3>2, RegPut
    <2> QED BY <2>1, <2>2
  <1>12. stack' = [stack EXCEPT ![c] = Describing(e, k) \o stack[c]]
    BY <1>2, <1>10 DEF k
  <1> QED BY <1>2, <1>4, <1>7, <1>9, <1>11, <1>12, PushInv

-----------------------------------------------------------------------------
(* The call on top goes on inside its store: only the frame changes, or     *)
(* only the store.                                                          *)
LEMMA StillInside ==
    ASSUME NEW f, NEW x, NEW c, NEW s, FrameOK(f, c, s), f.pc \in Inside \ {"make"},
           x.pc \in Inside \ {"make"}, x.link = f.link, x.n = f.n,
           x.pc \in Asking => x.req \in Requests /\ Gate(s.grant, x.req)
    PROVE  FrameOK(x, c, s) /\ (Holds(x) <=> Holds(f)) /\ x.pc # "load"
  BY DEF FrameOK, Holds, Inside, Asking

LEMMA FrameInv ==
    ASSUME ResidentInv, NEW c \in Callers, stack[c] # << >>, UNCHANGED <<cells, reg>>, Later,
           NEW x \in FrameSet, Become(c, x), x.cell = Top(c).cell, x.link = Top(c).link,
           x.n = Top(c).n, Top(c).pc \in Inside \ {"make"}, x.pc \in Inside \ {"make"},
           x.pc \in Asking => x.req \in Requests /\ Gate(Here(c).grant, x.req)
    PROVE  Settled'
  <1>1. /\ FrameOK(Top(c), c, Here(c)) /\ CellOK(Here(c), ops, granted) /\ Here(c) \in CellSet
        /\ ops \in Nat
    BY TopFacts DEF ResidentInv, Types
  <1>2. FrameOK(x, c, Here(c)) /\ (Holds(x) <=> Holds(Top(c))) /\ x.pc # "load"
    BY <1>1, StillInside
  <1>3. CellOK(Here(c), ops', granted')
    BY <1>1, CellGrows DEF Later
  <1>4. StoreOK(c, Here(c))
    <2>1. cells' = With(c, Here(c)) /\ Here(c).served \in Nat
      BY <1>1, WithSame DEF CellSet
    <2> QED BY <1>3, <2>1 DEF StoreOK, Same
  <1>5. Here(c).holder = c => Holds(x) \/ (Here(c).holder = c /\ ~Holds(Top(c)))
    BY <1>2
  <1> QED BY <1>1, <1>2, <1>4, <1>5, BecomeInv

LEMMA HeadAndTail ==
    ASSUME NEW S, NEW q \in Seq(S), q # << >>
    PROVE  q = <<Head(q)>> \o Tail(q)
  <1> DEFINE q2 == <<Head(q)>> \o Tail(q)
  <1>1. /\ Head(q) \in S /\ Head(q) = q[1] /\ Len(q) \in Nat
        /\ \A i \in 1..Len(q) : i = 1 \/ i > 1
    BY HeadTailProperties
  <1>2. /\ q2 \in Seq(S) /\ Len(q2) = Len(q) /\ q2[1] = Head(q)
        /\ \A i \in 1..Len(q) : i > 1 => q2[i] = q[i]
    BY <1>1, TopReplaced
  <1> HIDE DEF q2
  <1>3. \A i \in 1..Len(q) : q2[i] = q[i]
    BY <1>1, <1>2
  <1>4. q2 = q
    BY <1>2, <1>3, SeqEqual
  <1> QED BY <1>4 DEF q2

LEMMA StoreInv ==
    ASSUME ResidentInv, NEW c \in Callers, stack[c] # << >>, UNCHANGED <<stack, reg>>, Later,
           Top(c).pc = "run", Holds(Top(c)), NEW s \in CellSet, cells' = With(c, s),
           Same(Here(c), s), s.holder = Here(c).holder, s.inst = Here(c).inst,
           s.count = Here(c).count, s.served = Here(c).served, CellOK(s, ops', granted')
    PROVE  Settled'
  <1> DEFINE f == Top(c)
  <1>1. /\ f \in FrameSet /\ FrameOK(f, c, Here(c)) /\ Here(c) \in CellSet
    BY TopFacts
  <1>2. Here(c).holder = c /\ Here(c).served <= s.served
    BY <1>1 DEF FrameOK, CellSet
  <1>3. StoreOK(c, s)
    BY <1>2 DEF StoreOK
  <1>4. FrameOK(f, c, s)
    BY <1>1 DEF FrameOK, Same, Asking
  <1>5. Become(c, f)
    <2>1. stack \in [Callers -> Seq(FrameSet)] /\ stack[c] \in Seq(FrameSet)
      BY DEF ResidentInv, Types
    <2>2. stack[c] = <<Head(stack[c])>> \o Tail(stack[c])
      BY <2>1, HeadAndTail
    <2> QED BY <2>1, <2>2 DEF Become, Top
  <1> QED BY <1>1, <1>2, <1>3, <1>4, <1>5, BecomeInv

(* A request is under way only behind its gate.                             *)
LEMMA RequestInv ==
    ASSUME ResidentInv, NEW c \in Callers, NEW r \in Requests, Request(c, r)
    PROVE  Settled'
  <1> DEFINE pc == IF r.surface \in Shared THEN "provider" ELSE "send"
             x == [Top(c) EXCEPT !.req = r, !.pc = pc]
  <1>1. /\ stack[c] # << >> /\ Top(c).pc = "run" /\ UNCHANGED <<cells, reg>> /\ OneMoreOp
        /\ IF Gate(Here(c).grant, r) THEN Become(c, x) ELSE UNCHANGED stack
    BY DEF Request, Own, Guest, At, OneMoreOp
  <1>2. Later /\ Adds(cells)
    BY <1>1, OpsGrow, AddNone
  <1>3. CASE ~Gate(Here(c).grant, r)
    <2>1. Adds(cells') /\ RegTyped' /\ RegOK'
      BY <1>1, <1>2, RegKept DEF Adds
    <2> QED BY <1>1, <1>2, <1>3, <2>1, IdleInv
  <1>4. CASE Gate(Here(c).grant, r)
    <2>1. Top(c) \in FrameSet
      BY <1>1, TopFacts
    <2>2. pc \in Asking \ {"build"} /\ pc \in Pcs /\ pc \in Inside \ {"make"}
      BY DEF Asking, Inside, Pcs
    <2> HIDE DEF pc
    <2>3. /\ x \in FrameSet /\ x.cell = Top(c).cell /\ x.link = Top(c).link /\ x.n = Top(c).n
          /\ x.pc = pc /\ x.req = r
      BY <2>1, <2>2 DEF FrameSet
    <2>4. Become(c, x)
      BY <1>1, <1>4 DEF pc
    <2> HIDE DEF x
    <2>5. Top(c).pc \in Inside \ {"make"}
      BY <1>1 DEF Inside
    <2> QED BY <1>1, <1>2, <1>4, <2>2, <2>3, <2>4, <2>5, FrameInv
  <1> QED BY <1>3, <1>4

(* provider, build, build_fails, Send: the frame moves on.                  *)
LEMMA GotoInv ==
    ASSUME ResidentInv, NEW c \in Callers, NEW pc \in {"build", "send", "run"}, Goto(c, pc),
           stack[c] # << >>, Top(c).pc \in Asking, UNCHANGED <<cells, reg, ops, granted>>
    PROVE  Settled'
  <1> DEFINE f == Top(c)
             x == [f EXCEPT !.pc = pc]
  <1>1. f \in FrameSet /\ FrameOK(f, c, Here(c)) /\ ops \in Nat
    BY TopFacts DEF ResidentInv, Types
  <1>2. f.req \in Requests /\ Gate(Here(c).grant, f.req)
    BY <1>1 DEF FrameOK
  <1>3. /\ x \in FrameSet /\ x.cell = f.cell /\ x.link = f.link /\ x.n = f.n
        /\ x.pc = pc /\ x.req = f.req
    BY <1>1 DEF FrameSet, Pcs, Inside, Asking
  <1>4. Become(c, x)
    BY DEF Goto
  <1> HIDE DEF x
  <1>5. x.pc \in Inside \ {"make"} /\ f.pc \in Inside \ {"make"}
    BY <1>3 DEF Inside, Asking
  <1>6. Later
    BY <1>1 DEF Later
  <1> QED BY <1>2, <1>3, <1>4, <1>5, <1>6, FrameInv

LEMMA EndpointInv ==
    ASSUME ResidentInv, NEW c \in Callers,
           provider(c) \/ build(c) \/ build_fails(c) \/ Send(c)
    PROVE  Settled'
  <1>1. /\ stack[c] # << >> /\ Top(c).pc \in Asking /\ UNCHANGED <<cells, reg, ops, granted>>
        /\ \E pc \in {"build", "send", "run"} : Goto(c, pc)
    BY DEF provider, build, build_fails, Send, At, Asking
  <1> QED BY <1>1, GotoInv

-----------------------------------------------------------------------------
(* The connection and the sessions.                                         *)
LEMMA OwnFacts ==
    ASSUME ResidentInv, NEW c \in Callers, NEW surface, Own(c, surface), OneMoreOp
    PROVE  /\ stack[c] # << >> /\ Top(c).pc = "run" /\ Holds(Top(c)) /\ Later
           /\ Here(c) \in CellSet /\ CellOK(Here(c), ops, granted) /\ ops \in Nat /\ ops < MaxOps
           /\ Here(c).holder = c /\ Here(c).kind # "component"
  <1>1. stack[c] # << >> /\ Top(c).pc = "run" /\ Holds(Top(c)) /\ ops < MaxOps
    BY DEF Own, Guest, At, Holds, Inside
  <1>2. FrameOK(Top(c), c, Here(c)) /\ Here(c) \in CellSet /\ CellOK(Here(c), ops, granted)
    BY <1>1, TopFacts
  <1>3. ops \in Nat
    BY DEF ResidentInv, Types
  <1> QED BY <1>1, <1>2, <1>3, OpsGrow DEF FrameOK, Holds

LEMMA SpiInv ==
    ASSUME ResidentInv, NEW c \in Callers, spi_execute(c) \/ spi_open_db(c)
    PROVE  Settled'
  <1>1. Own(c, "spi") /\ OneMoreOp /\ UNCHANGED <<stack, reg>>
    BY DEF spi_execute, spi_open_db, OneMoreOp
  <1>2. /\ stack[c] # << >> /\ Top(c).pc = "run" /\ Holds(Top(c)) /\ Later
        /\ Here(c) \in CellSet /\ CellOK(Here(c), ops, granted) /\ ops \in Nat
    BY <1>1, OwnFacts
  <1>3. PICK n \in Nat : cells' = With(c, [Here(c) EXCEPT !.conn = n])
    <2>1. Here(c).conn \in Nat /\ Here(c) = cells[Top(c).cell]
      BY <1>2 DEF CellSet, Here
    <2>2. ensure_open(Top(c).cell) \in Nat /\ Here(c).conn + 1 \in Nat
      BY <2>1 DEF ensure_open
    <2> QED BY <2>2 DEF spi_execute, spi_open_db
  <1> DEFINE s == [Here(c) EXCEPT !.conn = n]
  <1>4. /\ s \in CellSet /\ Untouched(Here(c), s) /\ s.holder = Here(c).holder
        /\ s.inst = Here(c).inst /\ s.count = Here(c).count /\ s.served = Here(c).served
        /\ s.kind = Here(c).kind
    BY <1>2 DEF CellSet, Untouched, Same
  <1> HIDE DEF s
  <1>5. CellOK(s, ops, granted)
    BY <1>2, <1>4, CellAs DEF CellOK
  <1>6. CellOK(s, ops', granted')
    BY <1>2, <1>4, <1>5, CellGrows DEF Later
  <1> QED BY <1>1, <1>2, <1>3, <1>4, <1>6, StoreInv DEF s, Untouched

(* SQLite has an id left that is not in use.                                *)
LEMMA FreeId ==
    ASSUME NEW live \in SUBSET Nat, IsFiniteSet(live), NEW n \in Nat, NEW m \in Nat,
           Cardinality(live) <= n, n < m
    PROVE  \E i \in 1..(m + 1) : i \notin live
  <1> SUFFICES ASSUME 1..(m + 1) \subseteq live PROVE FALSE
    OBVIOUS
  <1>1. Cardinality(1..(m + 1)) = m + 1
    <2>1. 1 \in Int /\ m + 1 \in Int /\ 1 <= m + 1 /\ (m + 1) - 1 + 1 = m + 1
      OBVIOUS
    <2> QED BY <2>1, FS_Interval
  <1>2. Cardinality(1..(m + 1)) <= Cardinality(live)
    BY FS_Subset
  <1>3. Cardinality(live) \in Nat
    BY FS_CardinalityType
  <1> QED BY <1>1, <1>2, <1>3

IsCreated(s, t, n, id) ==
    /\ t.sess = [s.sess EXCEPT ![n] = id] /\ t.live = s.live \cup {id}
    /\ \A m \in Names \ {n} : t.sess[m] = s.sess[m]
    /\ t.sess[n] = id
LEMMA CreatedOK ==
    ASSUME NEW s, NEW t, NEW n \in Names, NEW id, Sessions(s), s.sess[n] = 0,
           id \notin s.live, id # 0, IsCreated(s, t, n, id)
    PROVE  Sessions(t)
  <1>1. \A m \in Names : s.sess[m] = 0 \/ s.sess[m] \in s.live
    BY DEF Sessions
  <1>2. ASSUME NEW m \in Names, NEW m2 \in Names, m # m2, t.sess[m] # 0
        PROVE  t.sess[m] # t.sess[m2]
    <2>1. CASE m = n
      BY <1>1, <1>2, <2>1 DEF IsCreated
    <2>2. CASE m2 = n
      BY <1>1, <1>2, <2>2 DEF IsCreated
    <2>3. CASE m # n /\ m2 # n
      BY <1>2, <2>3 DEF IsCreated, Sessions
    <2> QED BY <2>1, <2>2, <2>3
  <1>3. t.live = {t.sess[m] : m \in Names} \ {0}
    <2>1. ASSUME NEW x, x \in t.live PROVE x # 0 /\ \E m \in Names : x = t.sess[m]
      <3>1. CASE x = id
        BY <3>1 DEF IsCreated
      <3>2. CASE x \in s.live
        <4>1. x # 0 /\ x \in {s.sess[m] : m \in Names}
          BY <3>2 DEF Sessions
        <4>2. PICK m \in Names : x = s.sess[m]
          BY <4>1
        <4>3. m # n
          BY <4>1, <4>2
        <4> QED BY <4>1, <4>2, <4>3 DEF IsCreated
      <3> QED BY <2>1, <3>1, <3>2 DEF IsCreated
    <2>2. ASSUME NEW m \in Names, t.sess[m] # 0 PROVE t.sess[m] \in t.live
      <3>1. CASE m = n
        BY <3>1 DEF IsCreated
      <3>2. CASE m # n
        BY <1>1, <2>2, <3>2 DEF IsCreated
      <3> QED BY <3>1, <3>2
    <2> QED BY <2>1, <2>2
  <1> QED BY <1>2, <1>3 DEF Sessions

LEMMA CreateInv ==
    ASSUME ResidentInv, NEW c \in Callers, NEW n \in Names, session_create(c, n)
    PROVE  Settled'
  <1> DEFINE id == CHOOSE i \in 1..(MaxOps + 1) : i \notin Here(c).live
             s == Created(Here(c), n, Top(c).cell, id)
  <1>1. /\ Own(c, "session") /\ OneMoreOp /\ UNCHANGED <<stack, reg>>
        /\ cells' = IF MayCreate(Here(c), n) THEN With(c, s) ELSE cells
    BY DEF session_create, OneMoreOp
  <1>2. /\ stack[c] # << >> /\ Top(c).pc = "run" /\ Holds(Top(c)) /\ Later
        /\ Here(c) \in CellSet /\ CellOK(Here(c), ops, granted) /\ ops \in Nat /\ ops < MaxOps
        /\ Here(c).holder = c
    BY <1>1, OwnFacts
  <1>3. CASE ~MayCreate(Here(c), n)
    <2>1. UNCHANGED cells /\ Adds(cells)
      BY <1>1, <1>3, AddNone
    <2>2. Adds(cells') /\ RegTyped' /\ RegOK'
      BY <1>1, <1>2, <2>1, RegKept DEF Adds
    <2> QED BY <1>1, <1>2, <2>2, IdleInv
  <1>4. CASE MayCreate(Here(c), n)
    <2>1. /\ Here(c).live \in SUBSET Nat /\ IsFiniteSet(Here(c).live)
          /\ Cardinality(Here(c).live) <= ops /\ Sessions(Here(c)) /\ MaxOps \in Nat
          /\ Here(c).sess \in [Names -> Nat] /\ Here(c).conn \in Nat
      BY <1>2, ResidentsAssumption DEF CellSet, CellOK
    <2>2. \E i \in 1..(MaxOps + 1) : i \notin Here(c).live
      BY <1>2, <2>1, FreeId
    <2>3. id \in 1..(MaxOps + 1) /\ id \notin Here(c).live
      BY <2>2
    <2> HIDE DEF id
    <2>4. id \in Nat /\ id # 0 /\ ensure_open(Top(c).cell) \in Nat /\ Here(c).sess[n] = 0
      BY <1>4, <2>1, <2>3 DEF ensure_open, Here, MayCreate
    <2>5. /\ s \in CellSet /\ Same(Here(c), s) /\ s.holder = Here(c).holder
          /\ s.inst = Here(c).inst /\ s.count = Here(c).count /\ s.served = Here(c).served
          /\ s.sess = [Here(c).sess EXCEPT ![n] = id] /\ s.live = Here(c).live \cup {id}
      <3>1. [Here(c).sess EXCEPT ![n] = id] \in [Names -> Nat] /\ Here(c).live \cup {id} \in SUBSET Nat
        BY <2>1, <2>4
      <3> QED BY <1>2, <2>4, <3>1 DEF CellSet, Created, Same
    <2>6. cells' = With(c, s)
      BY <1>1, <1>4 DEF id
    <2> HIDE DEF s
    <2>7. IsCreated(Here(c), s, n, id)
      BY <2>1, <2>5 DEF IsCreated
    <2>8. Sessions(s)
      BY <2>1, <2>3, <2>4, <2>7, CreatedOK
    <2>9. IsFiniteSet(s.live) /\ Cardinality(s.live) <= ops'
      <3>1. IsFiniteSet(Here(c).live \cup {id})
            /\ Cardinality(Here(c).live \cup {id}) = Cardinality(Here(c).live) + 1
        BY <2>1, <2>3, FS_AddElement
      <3>2. Cardinality(Here(c).live) \in Nat
        BY <2>1, FS_CardinalityType
      <3> QED BY <1>1, <1>2, <2>1, <2>5, <3>1, <3>2 DEF OneMoreOp
    <2>10. CellOK(s, ops', granted')
      BY <1>2, <2>5, <2>8, <2>9 DEF CellOK, Same, MayAsk, Later
    <2> QED BY <1>1, <1>2, <2>5, <2>6, <2>10, StoreInv
  <1> QED BY <1>3, <1>4

LEMMA DeletedOK ==
    ASSUME NEW s, NEW t, NEW n \in Names, Sessions(s), s.sess[n] # 0,
           \A m \in Names \ {n} : t.sess[m] = s.sess[m], t.sess[n] = 0,
           t.live = s.live \ {s.sess[n]}
    PROVE  Sessions(t)
  <1>1. \A m \in Names : s.sess[m] = 0 \/ s.sess[m] \in s.live
    BY DEF Sessions
  <1>2. \A m \in Names \ {n} : s.sess[m] # s.sess[n]
    BY DEF Sessions
  <1>3. \A m, m2 \in Names : m # m2 /\ t.sess[m] # 0 => t.sess[m] # t.sess[m2]
    BY DEF Sessions
  <1>4. t.live = {t.sess[m] : m \in Names} \ {0}
    <2>1. ASSUME NEW x, x \in t.live PROVE x # 0 /\ \E m \in Names : x = t.sess[m]
      <3>1. x # 0 /\ x \in {s.sess[m] : m \in Names} /\ x # s.sess[n]
        BY <2>1 DEF Sessions
      <3>2. PICK m \in Names : x = s.sess[m]
        BY <3>1
      <3> QED BY <3>1, <3>2
    <2>2. ASSUME NEW m \in Names, t.sess[m] # 0 PROVE t.sess[m] \in t.live
      BY <1>1, <1>2, <2>2
    <2> QED BY <2>1, <2>2
  <1> QED BY <1>3, <1>4 DEF Sessions

LEMMA DeleteInv ==
    ASSUME ResidentInv, NEW c \in Callers, NEW n \in Names, session_delete(c, n)
    PROVE  Settled'
  <1> DEFINE s == Deleted(Here(c), n)
             id == Here(c).sess[n]
  <1>1. /\ Own(c, "session") /\ OneMoreOp /\ UNCHANGED <<stack, reg>>
        /\ cells' = With(c, s) /\ id # 0
    BY DEF session_delete, OneMoreOp
  <1>2. /\ stack[c] # << >> /\ Top(c).pc = "run" /\ Holds(Top(c)) /\ Later
        /\ Here(c) \in CellSet /\ CellOK(Here(c), ops, granted) /\ ops \in Nat
        /\ Here(c).holder = c
    BY <1>1, OwnFacts
  <1>3. /\ Here(c).live \in SUBSET Nat /\ IsFiniteSet(Here(c).live)
        /\ Cardinality(Here(c).live) <= ops /\ Sessions(Here(c))
        /\ Here(c).sess \in [Names -> Nat]
    BY <1>2 DEF CellSet, CellOK
  <1>4. /\ s \in CellSet /\ Same(Here(c), s) /\ s.holder = Here(c).holder
        /\ s.inst = Here(c).inst /\ s.count = Here(c).count /\ s.served = Here(c).served
        /\ s.sess = [Here(c).sess EXCEPT ![n] = 0] /\ s.live = Here(c).live \ {id}
    <2>1. [Here(c).sess EXCEPT ![n] = 0] \in [Names -> Nat] /\ Here(c).live \ {id} \in SUBSET Nat
      BY <1>3
    <2> QED BY <1>2, <2>1 DEF CellSet, Deleted, Same
  <1> HIDE DEF s
  <1>5. (\A m \in Names \ {n} : s.sess[m] = Here(c).sess[m]) /\ s.sess[n] = 0
    BY <1>3, <1>4
  <1>6. Sessions(s)
    BY <1>1, <1>3, <1>4, <1>5, DeletedOK
  <1>7. IsFiniteSet(s.live) /\ Cardinality(s.live) <= ops'
    <2>1. IsFiniteSet(s.live) /\ Cardinality(s.live) <= Cardinality(Here(c).live)
      BY <1>3, <1>4, FS_Subset
    <2>2. Cardinality(Here(c).live) \in Nat /\ Cardinality(s.live) \in Nat
      BY <1>3, <2>1, FS_CardinalityType
    <2> QED BY <1>1, <1>2, <1>3, <2>1, <2>2 DEF OneMoreOp
  <1>8. CellOK(s, ops', granted')
    BY <1>2, <1>4, <1>6, <1>7 DEF CellOK, Same, MayAsk, Later
  <1> QED BY <1>1, <1>2, <1>4, <1>8, StoreInv

-----------------------------------------------------------------------------
(* What is sent has passed the gate of the extension it is sent for.        *)
Allowed(m, g) ==
    /\ g.ext = m.by
    /\ CASE m.req.surface = "http" -> m.req.host \in g.policy.hosts /\ m.req.method \in g.policy.methods
         [] m.req.surface = "dns" -> m.req.host \in g.policy.domains
         [] OTHER -> g.policy.s3

LEMMA GateGrants ==
    ASSUME NEW s \in CellSet, NEW r \in Requests, NEW g, Gate(s.grant, r), MayAsk(s, g),
           NEW m \in Egress(s.ext, r)
    PROVE  \E x \in g : Allowed(m, x)
  <1>1. r.surface \in {"http", "dns", "s3", "compression", "wal"}
    BY ResidentsAssumption
  <1>2. r.surface # "wal"
    BY DEF Gate, WalFramesHost
  <1>3. r.surface # "compression"
    BY DEF Egress, compression_resident
  <1>4. m = [by |-> s.ext, req |-> r]
    BY <1>1, <1>2, <1>3 DEF Egress, net_http_handle, http_request, net_dns_resolve,
                            s3_dispatch, s3_resident, Sent
  <1>5. s.grant # NoGrant
    <2> SUFFICES ASSUME s.grant = NoGrant PROVE FALSE
      OBVIOUS
    <2>1. s.grant.hosts = {} /\ s.grant.domains = {} /\ s.grant.s3 = FALSE
      BY DEF NoGrant
    <2> QED BY <1>1, <1>2, <1>3, <2>1 DEF Gate, HttpHost, DnsHost, S3BaseHost,
                                          check_http_policy, check_dns_policy
  <1> DEFINE x == [ext |-> s.ext, policy |-> s.grant]
  <1>6. x \in g /\ x.ext = s.ext /\ x.policy = s.grant
    BY <1>5 DEF MayAsk
  <1> HIDE DEF x
  <1>7. m.by = s.ext /\ m.req = r
    BY <1>4
  <1>8. CASE r.surface = "http"
    BY <1>6, <1>7, <1>8 DEF Allowed, Gate, HttpHost, check_http_policy
  <1>9. CASE r.surface = "dns"
    BY <1>6, <1>7, <1>9 DEF Allowed, Gate, DnsHost, check_dns_policy
  <1>10. CASE r.surface = "s3"
    BY <1>6, <1>7, <1>10 DEF Allowed, Gate, S3BaseHost
  <1> QED BY <1>1, <1>2, <1>3, <1>8, <1>9, <1>10

EgressAllowed == \A m \in sent : \E g \in granted : Allowed(m, g)
LEMMA EgressIs == EgressWasGranted <=> EgressAllowed
  BY DEF EgressWasGranted, EgressAllowed, Allowed

LEMMA SendEgress ==
    ASSUME ResidentInv, NEW c \in Callers, Send(c)
    PROVE  EgressAllowed'
  <1>1. /\ stack[c] # << >> /\ Top(c).pc = "send" /\ UNCHANGED granted
        /\ sent' = sent \cup Egress(Here(c).ext, Top(c).req)
    BY DEF Send, At
  <1>2. /\ FrameOK(Top(c), c, Here(c)) /\ Here(c) \in CellSet /\ CellOK(Here(c), ops, granted)
    BY <1>1, TopFacts
  <1>3. Top(c).req \in Requests /\ Gate(Here(c).grant, Top(c).req)
    BY <1>1, <1>2 DEF FrameOK, Asking
  <1>4. EgressAllowed
    BY EgressIs DEF ResidentInv
  <1>5. \A m \in Egress(Here(c).ext, Top(c).req) : \E g \in granted : Allowed(m, g)
    BY <1>2, <1>3, GateGrants DEF CellOK
  <1> QED BY <1>1, <1>4, <1>5 DEF EgressAllowed

LEMMA ResidentInvInit == Init => ResidentInv
  <1> SUFFICES ASSUME Init PROVE ResidentInv
    OBVIOUS
  <1> USE DEF Init
  <1>1. Types
    BY DEF Types
  <1>2. CellsOK
    BY DEF CellsOK
  <1>3. StacksOK
    <2> SUFFICES ASSUME NEW c \in Callers
                 PROVE  StackOK(stack[c], c, cells) /\ HeldBy(stack[c], c, cells)
      BY DEF StacksOK
    <2>1. Len(stack[c]) = 0 /\ Len(cells) = 0 /\ 1..0 = {}
      OBVIOUS
    <2> QED BY <2>1 DEF StackOK, HeldBy
  <1>4. RegOK
    BY DEF RegOK
  <1>5. EgressWasGranted
    BY DEF EgressWasGranted
  <1> QED BY <1>1, <1>2, <1>3, <1>4, <1>5 DEF ResidentInv

LEMMA StepSettled ==
    ASSUME ResidentInv, NEW c \in Callers, Step(c)
    PROVE  Settled' /\ EgressAllowed'
  <1>1. EgressAllowed
    BY EgressIs DEF ResidentInv
  <1>2. ASSUME UNCHANGED <<sent, granted>> PROVE EgressAllowed'
    BY <1>1, <1>2 DEF EgressAllowed
  <1>3. CASE Acquire(c)
    BY <1>2, <1>3, AcquireInv DEF Acquire
  <1>4. CASE Instantiate(c)
    BY <1>2, <1>4, InstantiateInv DEF Instantiate
  <1>5. CASE InstantiateFails(c)
    BY <1>2, <1>5, InstantiateFailsInv DEF InstantiateFails
  <1>6. CASE \E ok \in BOOLEAN : Return(c, ok)
    BY <1>2, <1>6, ReturnInv DEF Return
  <1>7. CASE Trap(c)
    BY <1>2, <1>7, TrapInv DEF Trap
  <1>8. CASE \E id \in Ids : resolve_and_invoke(c, id)
    BY <1>2, <1>8, ResolveInv DEF resolve_and_invoke
  <1>9. CASE \E l \in Loads : load_extension_from_bytes(c, l.ext)
    <2>1. PICK l \in Loads : load_extension_from_bytes(c, l.ext)
      BY <1>9
    <2>2. l.ext \in Exts
      BY ResidentsAssumption
    <2> QED BY <1>2, <2>1, <2>2, BytesInv DEF load_extension_from_bytes
  <1>10. CASE \E r \in Requests : Request(c, r)
    BY <1>2, <1>10, RequestInv DEF Request
  <1>11. CASE provider(c) \/ build(c) \/ build_fails(c)
    BY <1>2, <1>11, EndpointInv DEF provider, build, build_fails
  <1>12. CASE Send(c)
    BY <1>12, EndpointInv, SendEgress
  <1>13. CASE spi_execute(c) \/ spi_open_db(c)
    BY <1>2, <1>13, SpiInv DEF spi_execute, spi_open_db
  <1>14. CASE \E n \in Names : session_create(c, n) \/ session_delete(c, n)
    <2>1. PICK n \in Names : session_create(c, n) \/ session_delete(c, n)
      BY <1>14
    <2>2. UNCHANGED <<sent, granted>>
      BY <2>1 DEF session_create, session_delete
    <2> QED BY <1>2, <2>1, <2>2, CreateInv, DeleteInv
  <1> QED BY <1>3, <1>4, <1>5, <1>6, <1>7, <1>8, <1>9, <1>10, <1>11, <1>12, <1>13, <1>14 DEF Step

LEMMA ResidentInvStep == ResidentInv /\ [Next]_vars => ResidentInv'
  <1> SUFFICES ASSUME ResidentInv, [Next]_vars PROVE Settled' /\ EgressAllowed'
    <2>1. EgressWasGranted' <=> EgressAllowed'
      BY DEF EgressWasGranted, EgressAllowed, Allowed
    <2> QED BY <2>1 DEF Settled, ResidentInv
  <1>1. EgressAllowed
    BY EgressIs DEF ResidentInv
  <1>2. ASSUME UNCHANGED sent, granted \subseteq granted' PROVE EgressAllowed'
    BY <1>1, <1>2 DEF EgressAllowed
  <1>3. CASE UNCHANGED vars
    <2>1. Adds(cells) /\ Later
      BY <1>3, AddNone DEF vars, Later, ResidentInv, Types
    <2>2. Adds(cells') /\ UNCHANGED <<stack, reg, sent, granted>>
      BY <1>3, <2>1 DEF vars, Adds
    <2>3. RegTyped' /\ RegOK'
      BY <2>1, <2>2, RegKept
    <2>4. Settled'
      BY <2>1, <2>2, <2>3, IdleInv
    <2> QED BY <1>2, <2>2, <2>4
  <1>4. CASE \E c \in Callers : Step(c)
    BY <1>4, StepSettled
  <1>5. CASE \E c \in Callers, l \in Loads : load_extension(c, l.ext, l.policy)
    BY <1>2, <1>5, LoadInv DEF load_extension
  <1>6. CASE \E e \in Exts : register_wasm_provider(e)
    BY <1>2, <1>6, RegisterInv DEF register_wasm_provider
  <1>7. CASE \E c \in Callers, e \in Exts : try_provider_invoke(c, e) \/ dispatch_dot_command(c, e)
    BY <1>2, <1>7, DispatchInv DEF try_provider_invoke, dispatch_dot_command
  <1>8. CASE Quiet
    BY <1>3, <1>8 DEF Quiet
  <1> QED BY <1>3, <1>4, <1>5, <1>6, <1>7, <1>8 DEF Next
-----------------------------------------------------------------------------
(* The invariant holds: every call on every stack holds the locks it must,  *)
(* and knows its store (resident_wasm_component_invoke).                    *)
THEOREM ResidentInvHolds == Spec => []ResidentInv
  BY ResidentInvInit, ResidentInvStep, PTL DEF Spec

(* What a provider keeps between calls is neither lost nor orphaned: no     *)
(* answer of a guest is uncounted whatever overlaps, nests and fails, and   *)
(* every session SQLite has is under exactly one name of its store.         *)
THEOREM StateIsKeptHolds == Spec => []StateIsKept
  <1>1. ResidentInv => StateIsKept
    BY DEF ResidentInv, CellsOK, CellOK, Sessions, StateIsKept, MemoryIsKept, SessionsAccounted
  <1> QED BY <1>1, ResidentInvHolds, PTL

(* What leaves the process was granted to the extension it is sent for.     *)
THEOREM EgressWasGrantedHolds == Spec => []EgressWasGranted
  <1>1. ResidentInv => EgressWasGranted
    BY DEF ResidentInv
  <1> QED BY <1>1, ResidentInvHolds, PTL

(* An extension that calls are dispatched to has described itself           *)
(* (instantiate_provider_from_bytes asks it to before it registers it).     *)
THEOREM RegisteredHasAnsweredHolds == Spec => []RegisteredHasAnswered
  <1>1. ResidentInv => RegisteredHasAnswered
    BY DEF ResidentInv, RegOK, Answered, RegisteredHasAnswered
  <1> QED BY <1>1, ResidentInvHolds, PTL
=============================================================================
