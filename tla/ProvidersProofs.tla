--------------------------- MODULE ProvidersProofs ---------------------------
(***************************************************************************)
(* Proofs about Providers, for any clients, programs, policies and files.   *)
(*                                                                         *)
(* OnlyTrustedCode and ResolvedAsAsked follow from TrustInv.  A             *)
(* registration reads the file, the policy, the sidecar and the anchors in  *)
(* separate steps, so the invariant says at each of them what has been      *)
(* established of the task's own copies (Judged), and that the policy and   *)
(* the sidecar in force are among those seen since the call began.          *)
(*                                                                         *)
(* OwnRows follows from StmtInv: a number drawn is nobody else's, even      *)
(* before it is in the table, and a client's rows so far with its           *)
(* statement's cursor are one answer, cut in two.                           *)
(***************************************************************************)
EXTENDS Providers, SequenceTheorems, TLAPS

AllPolicies == Policies \cup {[kind |-> "AllowAll", allow |-> {}, anchors |-> << >>]}

(* A task's record has its seven fields.                                    *)
IsTask(x) == x \in [pc : {x.pc}, call : {x.call}, policy : {x.policy}, bytes : {x.bytes},
                    left : {x.left}, sig : {x.sig}, id : {x.id}]

WithPolicy == {"check", "sidecar", "anchor", "load", "verify", "compile"}
Signing == {"sidecar", "anchor", "load", "verify"}

(* What a registration knows at each step, ps and ss being the policies and *)
(* sidecars seen since it began.                                            *)
Judged(x, ps, ss) ==
    /\ x.pc \in WithPolicy => x.policy \in ps
    /\ x.pc \in Signing =>
          /\ x.policy.kind = "Ed25519Signed"
          /\ x.left \in Seq(Keys)
          /\ \A i \in DOMAIN x.left :
                \E j \in DOMAIN x.policy.anchors : x.policy.anchors[j] = x.left[i]
    /\ x.pc \in Signing \ {"sidecar"} => x.sig \in ss \ {None} /\ x.sig.whole
    /\ x.pc \in {"load", "verify"} => x.left # << >>
    /\ x.pc = "compile" => Acceptable(x.policy, x.bytes, ss, {"blake3"})

(* What a resolution by digest, and a fetch, know.                          *)
Gated(x) == x.pc = "gate" => x.bytes = x.call.digest.of
Sourced(x) ==
    x.pc = "source" => /\ x.left \in Seq(Sources)
                       /\ \A i \in DOMAIN x.left :
                             \E j \in DOMAIN x.call.sources : x.call.sources[j] = x.left[i]

TaskOK(x, ps, ss) ==
    /\ IsTask(x)
    /\ x.pc # "idle" => x.call \in Calls
    /\ Judged(x, ps, ss) /\ Gated(x) /\ Sourced(x)
TasksOK == \A c \in Clients : TaskOK(task[c], seen[c], signed[c])

(* What is in force is among what was seen, and only registrations look at  *)
(* sidecars.                                                                *)
InRegister(x) == x.pc # "idle" /\ x.call.op = "register"
Current ==
    \A c \in Clients :
        /\ task[c].pc # "idle" => policy \in seen[c]
        /\ IF InRegister(task[c]) THEN files[task[c].call.path].sig \in signed[c]
                                   ELSE signed[c] = {}

Shape ==
    /\ DOMAIN task = Clients /\ DOMAIN held = Clients /\ DOMAIN work = Clients
    /\ DOMAIN seen = Clients /\ DOMAIN signed = Clients
    /\ \A c \in Clients : work[c] \in Seq(Calls)
    /\ policy \in AllPolicies

(* A provider is kept under its own tenant, and was accepted.               *)
ProvOK ==
    \A k \in DOMAIN prov :
        /\ prov[k].home = k[1]
        /\ prov[k] # Builtin =>
              \E p \in prov[k].by.policies : Acceptable(p, prov[k].bytes, prov[k].by.sigs, {"blake3"})

(* What a client holds was accepted, is its tenant's, or is what it asked.  *)
HandleOK(h) ==
    /\ h.how = "digest" =>
          \E p \in h.handle.by.policies : Acceptable(p, h.handle.bytes, {}, Algs)
    /\ h.how = "id" => h.handle.home = h.asked
    /\ h.how = "fetch" =>
          \/ h.asked.expected \in {None, h.handle.bytes}
          \/ \E i \in DOMAIN h.asked.sources :
                h.asked.sources[i].kind = "blake3" /\ h.asked.sources[i].of = h.handle.bytes
HeldOK == \A c \in Clients : HandleOK(held[c])

TrustInv == Shape /\ TasksOK /\ Current /\ ProvOK /\ HeldOK
-----------------------------------------------------------------------------
LEMMA IdleTask ==
    IsTask(Idle) /\ Idle.pc = "idle" /\ \A ps, ss : TaskOK(Idle, ps, ss)
  <1>1. IsTask(Idle) /\ Idle.pc = "idle"
    BY DEF Idle, IsTask
  <1>2. \A ps, ss : Judged(Idle, ps, ss)
    BY <1>1 DEF Judged, WithPolicy, Signing
  <1>3. Gated(Idle) /\ Sourced(Idle)
    BY <1>1 DEF Gated, Sourced
  <1> QED BY <1>1, <1>2, <1>3 DEF TaskOK

(* More policies and sidecars seen only help.                               *)
LEMMA TaskOKGrows ==
    ASSUME NEW x, NEW ps, NEW ss, NEW ps2, NEW ss2,
           TaskOK(x, ps, ss), ps \subseteq ps2, ss \subseteq ss2
    PROVE  TaskOK(x, ps2, ss2)
  <1>1. x.pc = "compile" => Acceptable(x.policy, x.bytes, ss2, {"blake3"})
    BY DEF TaskOK, Judged, Acceptable
  <1>2. Judged(x, ps2, ss2)
    BY <1>1 DEF TaskOK, Judged
  <1> QED BY <1>2 DEF TaskOK

(* Steps outside Signing and the gates have nothing to keep.                *)
Free == {"start", "policy", "read", "decide", "insert", "execute", "run", "validate",
         "number", "stash", "collect"}
LEMMA FreeOK ==
    ASSUME NEW x, IsTask(x), x.pc \in Free, x.call \in Calls
    PROVE  \A ps, ss : TaskOK(x, ps, ss)
  BY DEF TaskOK, Judged, Gated, Sourced, WithPolicy, Signing, Free

TablesOK == ProvOK /\ HeldOK
ProcessOK == Shape /\ TasksOK /\ Current

LEMMA TrustInvSplit == TrustInv <=> ProcessOK /\ TablesOK
  BY DEF TrustInv, ProcessOK, TablesOK

(* A call goes on to its next step.                                         *)
LEMMA Proceeds ==
    ASSUME TrustInv, NEW c \in Clients, NEW x, TaskOK(x, seen[c], signed[c]),
           task[c].pc # "idle", x.pc # "idle", x.call = task[c].call,
           task' = [task EXCEPT ![c] = x],
           UNCHANGED <<seen, signed, policy, files, work>>, DOMAIN held' = Clients
    PROVE  ProcessOK'
  <1>1. task'[c] = x /\ \A d \in Clients \ {c} : task'[d] = task[d]
    BY DEF TrustInv, Shape
  <1>2. TasksOK'
    BY <1>1 DEF TrustInv, TasksOK
  <1>3. Current'
    BY <1>1 DEF TrustInv, Current, InRegister
  <1>4. Shape'
    BY DEF TrustInv, Shape
  <1> QED BY <1>2, <1>3, <1>4 DEF ProcessOK

(* A call returns.                                                          *)
LEMMA Returns ==
    ASSUME TrustInv, NEW c \in Clients, Back(c),
           UNCHANGED <<policy, files, work>>, DOMAIN held' = Clients
    PROVE  ProcessOK'
  <1>1. /\ task'[c] = Idle /\ \A d \in Clients \ {c} : task'[d] = task[d]
        /\ \A d \in Clients \ {c} : seen'[d] = seen[d] /\ signed'[d] = signed[d]
        /\ signed'[c] = {}
    BY DEF TrustInv, Shape, Back
  <1>2. TasksOK'
    BY <1>1, IdleTask DEF TrustInv, TasksOK
  <1>3. Current'
    BY <1>1, IdleTask DEF TrustInv, Current, InRegister
  <1>4. Shape'
    BY DEF TrustInv, Shape, Back
  <1> QED BY <1>2, <1>3, <1>4 DEF ProcessOK

LEMMA TablesKept ==
    ASSUME TrustInv, UNCHANGED <<held, prov>>
    PROVE  TablesOK' /\ DOMAIN held' = Clients
  BY DEF TrustInv, TablesOK, ProvOK, HeldOK, Shape

LEMMA HeldSet ==
    ASSUME TrustInv, NEW c \in Clients, NEW h, HandleOK(h),
           held' = [held EXCEPT ![c] = h], UNCHANGED prov
    PROVE  TablesOK' /\ DOMAIN held' = Clients
  BY DEF TrustInv, TablesOK, ProvOK, HeldOK, Shape

LEMMA NothingOK == HandleOK(Nothing)
  BY DEF HandleOK, Nothing

LEMMA TrustInit == Init => TrustInv
  <1> SUFFICES ASSUME Init PROVE TrustInv
    OBVIOUS
  <1>1. Shape
    BY ProvidersAssumption DEF Init, Shape, AllPolicies
  <1>2. TasksOK /\ Current
    BY IdleTask DEF Init, TasksOK, Current, InRegister
  <1>3. ProvOK
    <2>1. Builtin.home = Default
      BY DEF Builtin
    <2> QED BY <2>1 DEF Init, ProvOK
  <1>4. HeldOK
    BY NothingOK DEF Init, HeldOK
  <1> QED BY <1>1, <1>2, <1>3, <1>4 DEF TrustInv
-----------------------------------------------------------------------------
LEMMA HeadCall ==
    ASSUME TrustInv, NEW c \in Clients, work[c] # << >>
    PROVE  Head(work[c]) \in Calls /\ Tail(work[c]) \in Seq(Calls)
  BY HeadTailProperties DEF TrustInv, Shape

LEMMA WorkShape ==
    ASSUME TrustInv, NEW c \in Clients, work[c] # << >>, Next1(c)
    PROVE  DOMAIN work' = Clients /\ \A d \in Clients : work'[d] \in Seq(Calls)
  BY HeadCall DEF TrustInv, Shape, Next1

LEMMA PolicyTrust ==
    ASSUME TrustInv, NEW c \in Clients, set_trust_policy(c)
    PROVE  TrustInv'
  <1>1. policy' \in AllPolicies
    BY HeadCall, ProvidersAssumption DEF set_trust_policy, Called, AllPolicies
  <1>2. /\ UNCHANGED <<task, held, files, prov, signed>> /\ Next1(c) /\ work[c] # << >>
        /\ seen' = [d \in Clients |-> IF task[d].pc = "idle" THEN {} ELSE seen[d] \cup {policy'}]
    BY DEF set_trust_policy, Called
  <1>3. Shape'
    BY <1>1, <1>2, WorkShape DEF TrustInv, Shape
  <1>4. TasksOK'
    <2> SUFFICES ASSUME NEW d \in Clients PROVE TaskOK(task[d], seen'[d], signed[d])
      BY <1>2 DEF TasksOK
    <2>1. CASE task[d].pc = "idle"
      <3>1. Judged(task[d], seen'[d], signed[d])
        BY <2>1 DEF Judged, WithPolicy, Signing
      <3> QED BY <3>1 DEF TrustInv, TasksOK, TaskOK
    <2>2. CASE task[d].pc # "idle"
      <3>1. seen[d] \subseteq seen'[d]
        BY <1>2, <2>2
      <3> QED BY <3>1, TaskOKGrows DEF TrustInv, TasksOK
    <2> QED BY <2>1, <2>2
  <1>5. Current'
    BY <1>2 DEF TrustInv, Current, InRegister
  <1> QED BY <1>2, <1>3, <1>4, <1>5, TablesKept, TrustInvSplit DEF ProcessOK, TrustInv, TablesOK

LEMMA EditTrust ==
    ASSUME TrustInv, NEW c \in Clients, Edit(c)
    PROVE  TrustInv'
  <1>1. /\ UNCHANGED <<task, held, policy, prov, seen>> /\ Next1(c) /\ work[c] # << >>
        /\ signed' = [d \in Clients |->
                IF task[d].pc # "idle" /\ task[d].call.op = "register"
                THEN signed[d] \cup {files'[task[d].call.path].sig} ELSE {}]
    BY DEF Edit, Called
  <1>2. Shape'
    BY <1>1, WorkShape DEF TrustInv, Shape
  <1>3. Current'
    BY <1>1 DEF TrustInv, Current, InRegister
  <1>4. ASSUME NEW d \in Clients PROVE TaskOK(task[d], seen[d], signed'[d])
    <2>1. signed[d] \subseteq signed'[d]
      BY <1>1 DEF TrustInv, Current, InRegister
    <2> QED BY <2>1, TaskOKGrows DEF TrustInv, TasksOK
  <1> QED BY <1>1, <1>2, <1>3, <1>4, TablesKept DEF TrustInv, TasksOK, TablesOK

LEMMA StoreTrust ==
    ASSUME TrustInv, NEW c \in Clients, Store(c)
    PROVE  TrustInv'
  <1>1. /\ UNCHANGED <<task, held, policy, files, prov, seen, signed>>
        /\ Next1(c) /\ work[c] # << >>
    BY DEF Store, Called
  <1>2. Shape'
    BY <1>1, WorkShape DEF TrustInv, Shape
  <1>3. TasksOK' /\ Current'
    BY <1>1 DEF TrustInv, TasksOK, Current
  <1> QED BY <1>1, <1>2, <1>3, TablesKept DEF TrustInv, TablesOK

LEMMA CallTrust ==
    ASSUME TrustInv, NEW c \in Clients, Call(c)
    PROVE  TrustInv'
  <1> DEFINE k == Head(work[c])
             s == IF k.op # "register" THEN "start" ELSE IF k.async THEN "read" ELSE "policy"
             x == [Idle EXCEPT !.call = k, !.pc = s]
  <1>1. /\ UNCHANGED <<held, policy, files, prov>> /\ Next1(c) /\ work[c] # << >>
        /\ task' = [task EXCEPT ![c] = x]
        /\ signed' = [signed EXCEPT ![c] = IF k.op = "register" THEN {files[k.path].sig} ELSE {}]
        /\ seen' = [seen EXCEPT ![c] = {policy}]
    BY DEF Call, tables
  <1>2. x.pc = s /\ x.call = k /\ IsTask(x)
    BY IdleTask DEF IsTask
  <1> HIDE DEF x
  <1>3. k \in Calls
    BY <1>1, HeadCall
  <1>4. x.pc \in Free /\ x.pc # "idle"
    BY <1>2 DEF Free
  <1> HIDE DEF k, s
  <1>5. /\ task'[c] = x /\ \A d \in Clients \ {c} : task'[d] = task[d]
        /\ \A d \in Clients \ {c} : seen'[d] = seen[d] /\ signed'[d] = signed[d]
        /\ seen'[c] = {policy}
        /\ signed'[c] = IF k.op = "register" THEN {files[k.path].sig} ELSE {}
    BY <1>1 DEF TrustInv, Shape
  <1>6. TasksOK'
    BY <1>2, <1>3, <1>4, <1>5, FreeOK DEF TrustInv, TasksOK
  <1>7. Current'
    BY <1>1, <1>2, <1>4, <1>5 DEF TrustInv, Current, InRegister
  <1>8. Shape'
    BY <1>1, WorkShape DEF TrustInv, Shape
  <1> QED BY <1>1, <1>6, <1>7, <1>8, TablesKept DEF TrustInv, TablesOK

(* The facts every step of a call starts from.                              *)
LEMMA InCall ==
    ASSUME TrustInv, NEW c \in Clients, NEW op, NEW pc, pc # "idle", At(c, op, pc)
    PROVE  /\ task[c].pc = pc /\ task[c].call.op = op /\ task[c].pc # "idle"
           /\ TaskOK(task[c], seen[c], signed[c]) /\ IsTask(task[c]) /\ task[c].call \in Calls
           /\ policy \in seen[c]
           /\ op = "register" => files[task[c].call.path].sig \in signed[c]
  BY DEF TrustInv, TasksOK, TaskOK, Current, InRegister, At

(* A call goes on, or returns, and leaves the provider table and what the   *)
(* client holds alone.                                                      *)
LEMMA PlainTrust ==
    ASSUME TrustInv, NEW c \in Clients, task[c].pc # "idle",
           UNCHANGED <<policy, files, work, held, prov>>,
           \/ Back(c)
           \/ /\ UNCHANGED <<seen, signed>>
              /\ \E x : /\ task' = [task EXCEPT ![c] = x]
                        /\ TaskOK(x, seen[c], signed[c])
                        /\ x.pc # "idle" /\ x.call = task[c].call
    PROVE  TrustInv'
  <1>1. TablesOK' /\ DOMAIN held' = Clients
    BY TablesKept
  <1>2. ProcessOK'
    BY <1>1, Returns, Proceeds
  <1> QED BY <1>1, <1>2 DEF TrustInv, ProcessOK, TablesOK

LEMMA GotoOK ==
    ASSUME TrustInv, NEW c \in Clients, NEW s \in Free, Goto(c, s), task[c].pc # "idle"
    PROVE  \E x : /\ task' = [task EXCEPT ![c] = x]
                  /\ TaskOK(x, seen[c], signed[c])
                  /\ x.pc # "idle" /\ x.call = task[c].call
  <1> DEFINE x == [task[c] EXCEPT !.pc = s]
  <1>1. IsTask(task[c]) /\ task[c].call \in Calls
    BY DEF TrustInv, TasksOK, TaskOK
  <1>2. IsTask(x) /\ x.pc = s /\ x.call = task[c].call
    BY <1>1 DEF IsTask
  <1>3. task' = [task EXCEPT ![c] = x]
    BY DEF Goto
  <1> HIDE DEF x
  <1>4. TaskOK(x, seen[c], signed[c])
    BY <1>1, <1>2, FreeOK
  <1>5. x.pc # "idle"
    BY <1>2 DEF Free
  <1> QED BY <1>2, <1>3, <1>4, <1>5

LEMMA SyncPolicyTrust ==
    ASSUME TrustInv, NEW c \in Clients, SyncPolicy(c)
    PROVE  TrustInv'
  <1>1. At(c, "register", "policy") /\ UNCHANGED <<policy, files, work, held, prov>>
    BY DEF SyncPolicy, tables
  <1>2. task[c].pc # "idle" /\ IsTask(task[c]) /\ task[c].call \in Calls /\ policy \in seen[c]
    BY <1>1, InCall
  <1>3. CASE Back(c)
    BY <1>1, <1>2, <1>3, PlainTrust
  <1>4. CASE Goto(c, "read") /\ UNCHANGED <<seen, signed>>
    <2>1. "read" \in Free
      BY DEF Free
    <2> QED BY <1>1, <1>2, <1>4, <2>1, GotoOK, PlainTrust
  <1>5. CASE /\ task' = [task EXCEPT ![c] = [@ EXCEPT !.pc = "check", !.policy = policy]]
             /\ UNCHANGED <<seen, signed>>
    <2> DEFINE x == [task[c] EXCEPT !.pc = "check", !.policy = policy]
    <2>1. IsTask(x) /\ x.pc = "check" /\ x.policy = policy /\ x.call = task[c].call
      BY <1>2 DEF IsTask
    <2>2. task' = [task EXCEPT ![c] = x]
      BY <1>5
    <2> HIDE DEF x
    <2>3. TaskOK(x, seen[c], signed[c])
      BY <1>2, <2>1 DEF TaskOK, Judged, Gated, Sourced, WithPolicy, Signing
    <2> QED BY <1>1, <1>2, <1>5, <2>1, <2>2, <2>3, PlainTrust
  <1> QED BY <1>3, <1>4, <1>5 DEF SyncPolicy

(* What verify accepts is acceptable.                                       *)
LEMMA VerifyAcceptable ==
    ASSUME NEW p, NEW b, NEW ss, verify(p, Digest("blake3", b))
    PROVE  Acceptable(p, b, ss, {"blake3"})
  BY DEF verify, Acceptable

LEMMA SyncCheckTrust ==
    ASSUME TrustInv, NEW c \in Clients, SyncCheck(c)
    PROVE  TrustInv'
  <1> DEFINE b == files[task[c].call.path].bytes
             x == [task[c] EXCEPT !.pc = "compile", !.bytes = b]
  <1>1. At(c, "register", "check") /\ UNCHANGED <<policy, files, work, held, prov>>
    BY DEF SyncCheck, tables
  <1>2. /\ task[c].pc = "check" /\ IsTask(task[c]) /\ task[c].call \in Calls
        /\ TaskOK(task[c], seen[c], signed[c])
    BY <1>1, InCall
  <1>3. CASE Back(c)
    BY <1>1, <1>2, <1>3, PlainTrust
  <1>4. CASE /\ verify(task[c].policy, Digest("blake3", b))
             /\ task' = [task EXCEPT ![c] = x] /\ UNCHANGED <<seen, signed>>
    <2>1. /\ IsTask(x) /\ x.pc = "compile" /\ x.policy = task[c].policy /\ x.bytes = b
          /\ x.call = task[c].call
      BY <1>2 DEF IsTask
    <2>2. task' = [task EXCEPT ![c] = x]
      BY <1>4
    <2> HIDE DEF x, b
    <2>3. Acceptable(x.policy, x.bytes, signed[c], {"blake3"})
      BY <1>4, <2>1, VerifyAcceptable
    <2>4. x.policy \in seen[c]
      BY <1>2, <2>1 DEF TaskOK, Judged, WithPolicy
    <2>5. TaskOK(x, seen[c], signed[c])
      BY <1>2, <2>1, <2>3, <2>4 DEF TaskOK, Judged, Gated, Sourced, Signing
    <2> QED BY <1>1, <1>2, <1>4, <2>1, <2>2, <2>5, PlainTrust
  <1> QED BY <1>3, <1>4 DEF SyncCheck

(* A step that sets one or two fields and goes to a step with nothing to    *)
(* keep.                                                                    *)
LEMMA FreeTrust ==
    ASSUME TrustInv, NEW c \in Clients, task[c].pc # "idle", NEW s \in Free, NEW v,
           UNCHANGED <<policy, files, work, held, prov, seen, signed>>,
           \/ Goto(c, s)
           \/ task' = [task EXCEPT ![c] = [@ EXCEPT !.pc = s, !.bytes = v]]
           \/ task' = [task EXCEPT ![c] = [@ EXCEPT !.pc = s, !.id = v]]
    PROVE  TrustInv'
  <1>1. IsTask(task[c]) /\ task[c].call \in Calls
    BY DEF TrustInv, TasksOK, TaskOK
  <1>2. ASSUME NEW x, task' = [task EXCEPT ![c] = x], IsTask(x), x.pc = s,
               x.call = task[c].call
        PROVE  TrustInv'
    <2>1. TaskOK(x, seen[c], signed[c]) /\ x.pc # "idle"
      BY <1>1, <1>2, FreeOK DEF Free
    <2> QED BY <1>2, <2>1, PlainTrust
  <1>3. CASE Goto(c, s)
    <2> DEFINE x == [task[c] EXCEPT !.pc = s]
    <2>1. task' = [task EXCEPT ![c] = x]
      BY <1>3 DEF Goto
    <2>2. IsTask(x) /\ x.pc = s /\ x.call = task[c].call
      BY <1>1 DEF IsTask
    <2> HIDE DEF x
    <2> QED BY <1>2, <2>1, <2>2
  <1>4. CASE task' = [task EXCEPT ![c] = [@ EXCEPT !.pc = s, !.bytes = v]]
    <2> DEFINE x == [task[c] EXCEPT !.pc = s, !.bytes = v]
    <2>1. task' = [task EXCEPT ![c] = x]
      BY <1>4
    <2>2. IsTask(x) /\ x.pc = s /\ x.call = task[c].call
      BY <1>1 DEF IsTask
    <2> HIDE DEF x
    <2> QED BY <1>2, <2>1, <2>2
  <1>5. CASE task' = [task EXCEPT ![c] = [@ EXCEPT !.pc = s, !.id = v]]
    <2> DEFINE x == [task[c] EXCEPT !.pc = s, !.id = v]
    <2>1. task' = [task EXCEPT ![c] = x]
      BY <1>5
    <2>2. IsTask(x) /\ x.pc = s /\ x.call = task[c].call
      BY <1>1 DEF IsTask
    <2> HIDE DEF x
    <2> QED BY <1>2, <2>1, <2>2
  <1> QED BY <1>3, <1>4, <1>5

LEMMA ReadTrust ==
    ASSUME TrustInv, NEW c \in Clients, AsyncRead(c)
    PROVE  TrustInv'
  <1>1. /\ At(c, "register", "read")
        /\ UNCHANGED <<policy, files, work, held, prov, seen, signed>>
        /\ task' = [task EXCEPT ![c] =
                       [@ EXCEPT !.pc = "decide", !.bytes = files[task[c].call.path].bytes]]
    BY DEF AsyncRead, tables
  <1>2. task[c].pc # "idle" /\ "decide" \in Free
    BY <1>1, InCall DEF Free
  <1> QED BY <1>1, <1>2, FreeTrust

LEMMA DecideTrust ==
    ASSUME TrustInv, NEW c \in Clients, AsyncDecide(c)
    PROVE  TrustInv'
  <1>1. At(c, "register", "decide") /\ UNCHANGED <<policy, files, work, held, prov>>
    BY DEF AsyncDecide, tables
  <1>2. /\ task[c].pc # "idle" /\ IsTask(task[c]) /\ task[c].call \in Calls
        /\ policy \in seen[c]
    BY <1>1, InCall
  <1>3. CASE Back(c)
    BY <1>1, <1>2, <1>3, PlainTrust
  <1>4. CASE /\ policy.kind = "Ed25519Signed" /\ UNCHANGED <<seen, signed>>
             /\ task' = [task EXCEPT ![c] = [@ EXCEPT !.pc = "sidecar", !.policy = policy,
                                                      !.left = policy.anchors]]
    <2> DEFINE x == [task[c] EXCEPT !.pc = "sidecar", !.policy = policy, !.left = policy.anchors]
    <2>1. /\ IsTask(x) /\ x.pc = "sidecar" /\ x.policy = policy /\ x.left = policy.anchors
          /\ x.call = task[c].call
      BY <1>2 DEF IsTask
    <2>2. task' = [task EXCEPT ![c] = x]
      BY <1>4
    <2> HIDE DEF x
    <2>3. policy.anchors \in Seq(Keys)
      <3>1. policy \in AllPolicies
        BY DEF TrustInv, Shape
      <3>2. [kind |-> "AllowAll", allow |-> {}, anchors |-> << >>].anchors \in Seq(Keys)
        OBVIOUS
      <3> QED BY <3>1, <3>2, ProvidersAssumption DEF AllPolicies
    <2>4. Judged(x, seen[c], signed[c])
      BY <1>2, <1>4, <2>1, <2>3 DEF Judged, WithPolicy, Signing
    <2>5. TaskOK(x, seen[c], signed[c])
      BY <1>2, <2>1, <2>4 DEF TaskOK, Gated, Sourced
    <2> QED BY <1>1, <1>2, <1>4, <2>1, <2>2, <2>5, PlainTrust
  <1>5. CASE /\ verify(policy, Digest("blake3", task[c].bytes)) /\ UNCHANGED <<seen, signed>>
             /\ task' = [task EXCEPT ![c] = [@ EXCEPT !.pc = "compile", !.policy = policy]]
    <2> DEFINE x == [task[c] EXCEPT !.pc = "compile", !.policy = policy]
    <2>1. /\ IsTask(x) /\ x.pc = "compile" /\ x.policy = policy /\ x.bytes = task[c].bytes
          /\ x.call = task[c].call
      BY <1>2 DEF IsTask
    <2>2. task' = [task EXCEPT ![c] = x]
      BY <1>5
    <2> HIDE DEF x
    <2>3. Acceptable(x.policy, x.bytes, signed[c], {"blake3"})
      BY <1>5, <2>1, VerifyAcceptable
    <2>4. TaskOK(x, seen[c], signed[c])
      BY <1>2, <2>1, <2>3 DEF TaskOK, Judged, Gated, Sourced, Signing
    <2> QED BY <1>1, <1>2, <1>5, <2>1, <2>2, <2>4, PlainTrust
  <1> QED BY <1>3, <1>4, <1>5 DEF AsyncDecide

LEMMA SidecarTrust ==
    ASSUME TrustInv, NEW c \in Clients, Sidecar(c)
    PROVE  TrustInv'
  <1> DEFINE s == files[task[c].call.path].sig
             x == [task[c] EXCEPT !.pc = "anchor", !.sig = s]
  <1>1. At(c, "register", "sidecar") /\ UNCHANGED <<policy, files, work, held, prov>>
    BY DEF Sidecar, tables
  <1>2. /\ task[c].pc = "sidecar" /\ IsTask(task[c]) /\ task[c].call \in Calls
        /\ TaskOK(task[c], seen[c], signed[c]) /\ s \in signed[c]
    BY <1>1, InCall
  <1>3. CASE Back(c)
    BY <1>1, <1>2, <1>3, PlainTrust
  <1>4. CASE /\ s # None /\ s.whole
             /\ task' = [task EXCEPT ![c] = x] /\ UNCHANGED <<seen, signed>>
    <2>1. /\ IsTask(x) /\ x.pc = "anchor" /\ x.policy = task[c].policy /\ x.sig = s
          /\ x.left = task[c].left /\ x.call = task[c].call
      BY <1>2 DEF IsTask
    <2>2. task' = [task EXCEPT ![c] = x]
      BY <1>4
    <2> HIDE DEF x, s
    <2>3. Judged(x, seen[c], signed[c])
      BY <1>2, <1>4, <2>1 DEF TaskOK, Judged, WithPolicy, Signing
    <2>4. TaskOK(x, seen[c], signed[c])
      BY <1>2, <2>1, <2>3 DEF TaskOK, Gated, Sourced
    <2> QED BY <1>1, <1>2, <1>4, <2>1, <2>2, <2>4, PlainTrust
  <1> QED BY <1>3, <1>4 DEF Sidecar

(* From an anchor to the next, or to the verifier.                          *)
LEMMA AnchorTrust ==
    ASSUME TrustInv, NEW c \in Clients, ensure_loaded(c) \/ LoadVerifier(c)
    PROVE  TrustInv'
  <1>1. /\ task[c].pc \in {"anchor", "load"} /\ task[c].call.op = "register"
        /\ UNCHANGED <<policy, files, work, held, prov>>
    BY DEF ensure_loaded, LoadVerifier, tables, At
  <1>2. /\ task[c].pc # "idle" /\ IsTask(task[c]) /\ task[c].call \in Calls
        /\ TaskOK(task[c], seen[c], signed[c])
    BY <1>1, InCall DEF At
  <1>3. CASE Back(c)
    BY <1>1, <1>2, <1>3, PlainTrust
  <1>4. ASSUME NEW s \in {"load", "verify"}, Goto(c, s), UNCHANGED <<seen, signed>>,
               task[c].left # << >>
        PROVE  TrustInv'
    <2> DEFINE x == [task[c] EXCEPT !.pc = s]
    <2>1. /\ IsTask(x) /\ x.pc = s /\ x.policy = task[c].policy /\ x.sig = task[c].sig
          /\ x.left = task[c].left /\ x.call = task[c].call
      BY <1>2 DEF IsTask
    <2>2. task' = [task EXCEPT ![c] = x]
      BY <1>4 DEF Goto
    <2> HIDE DEF x
    <2>3. Judged(x, seen[c], signed[c])
      BY <1>1, <1>2, <1>4, <2>1 DEF TaskOK, Judged, WithPolicy, Signing
    <2>4. TaskOK(x, seen[c], signed[c]) /\ x.pc # "idle"
      BY <1>2, <2>1, <2>3 DEF TaskOK, Gated, Sourced
    <2> QED BY <1>1, <1>2, <1>4, <2>1, <2>2, <2>4, PlainTrust
  <1>5. CASE ensure_loaded(c)
    BY <1>3, <1>4, <1>5 DEF ensure_loaded
  <1>6. CASE LoadVerifier(c)
    <2>1. task[c].left # << >>
      BY <1>2, <1>6 DEF LoadVerifier, At, TaskOK, Judged
    <2> QED BY <1>3, <1>4, <1>6, <2>1 DEF LoadVerifier
  <1> QED BY <1>5, <1>6

(* A signature that verifies makes the bytes acceptable; one that does not  *)
(* leaves the other anchors.                                                *)
LEMMA VerifyTrust ==
    ASSUME TrustInv, NEW c \in Clients, Verify(c)
    PROVE  TrustInv'
  <1> DEFINE t == task[c]
             y == [t EXCEPT !.pc = "compile"]
             z == [t EXCEPT !.pc = "anchor", !.left = Tail(t.left)]
  <1>1. At(c, "register", "verify") /\ UNCHANGED <<policy, files, work, held, prov>>
    BY DEF Verify, tables
  <1>2. /\ t.pc = "verify" /\ IsTask(t) /\ t.call \in Calls
        /\ TaskOK(t, seen[c], signed[c])
    BY <1>1, InCall
  <1>3. CASE Back(c)
    BY <1>1, <1>2, <1>3, PlainTrust
  <1>4. /\ t.policy \in seen[c] /\ t.policy.kind = "Ed25519Signed"
        /\ t.sig \in signed[c] \ {None} /\ t.sig.whole
        /\ t.left \in Seq(Keys) /\ t.left # << >>
        /\ \A i \in DOMAIN t.left :
              \E j \in DOMAIN t.policy.anchors : t.policy.anchors[j] = t.left[i]
    BY <1>2 DEF TaskOK, Judged, WithPolicy, Signing
  <1>5. CASE /\ verify_ed25519(Head(t.left), t.bytes, t.sig)
             /\ task' = [task EXCEPT ![c] = y] /\ UNCHANGED <<seen, signed>>
    <2>1. /\ IsTask(y) /\ y.pc = "compile" /\ y.policy = t.policy /\ y.bytes = t.bytes
          /\ y.call = t.call
      BY <1>2 DEF IsTask
    <2>2. task' = [task EXCEPT ![c] = y]
      BY <1>5
    <2> HIDE DEF y
    <2>3. Head(t.left) = t.left[1] /\ 1 \in DOMAIN t.left
      BY <1>4
    <2>4. Acceptable(t.policy, t.bytes, signed[c], {"blake3"})
      BY <1>4, <1>5, <2>3 DEF Acceptable, verify_ed25519
    <2>5. TaskOK(y, seen[c], signed[c])
      BY <1>2, <1>4, <2>1, <2>4 DEF TaskOK, Judged, Gated, Sourced, Signing
    <2> QED BY <1>1, <1>2, <1>5, <2>1, <2>2, <2>5, PlainTrust
  <1>6. CASE task' = [task EXCEPT ![c] = z] /\ UNCHANGED <<seen, signed>>
    <2>1. /\ IsTask(z) /\ z.pc = "anchor" /\ z.policy = t.policy /\ z.sig = t.sig
          /\ z.left = Tail(t.left) /\ z.call = t.call
      BY <1>2 DEF IsTask
    <2>2. task' = [task EXCEPT ![c] = z]
      BY <1>6
    <2> HIDE DEF z
    <2>3. /\ z.left \in Seq(Keys)
          /\ \A i \in DOMAIN z.left :
                \E j \in DOMAIN t.policy.anchors : t.policy.anchors[j] = z.left[i]
      <3>1. /\ Tail(t.left) \in Seq(Keys) /\ Len(Tail(t.left)) = Len(t.left) - 1
            /\ \A i \in 1..Len(Tail(t.left)) : Tail(t.left)[i] = t.left[i + 1]
        BY <1>4, HeadTailProperties
      <3>2. Len(t.left) \in Nat /\ DOMAIN t.left = 1..Len(t.left)
        BY <1>4
      <3>3. DOMAIN Tail(t.left) = 1..Len(Tail(t.left))
        BY <3>1
      <3>4. \A i \in DOMAIN Tail(t.left) : i + 1 \in DOMAIN t.left
        BY <3>1, <3>2, <3>3
      <3> QED BY <1>4, <2>1, <3>1, <3>3, <3>4
    <2>4. Judged(z, seen[c], signed[c])
      BY <1>4, <2>1, <2>3 DEF Judged, WithPolicy, Signing
    <2>5. TaskOK(z, seen[c], signed[c])
      BY <1>2, <2>1, <2>4 DEF TaskOK, Gated, Sourced
    <2> QED BY <1>1, <1>2, <1>6, <2>1, <2>2, <2>5, PlainTrust
  <1> QED BY <1>3, <1>5, <1>6 DEF Verify

LEMMA WasmFields ==
    ASSUME NEW b, NEW t, NEW why
    PROVE  LET h == Wasm(b, t, why) IN h.bytes = b /\ h.home = t /\ h.by = why
  BY DEF Wasm

LEMMA RegisterTrust ==
    ASSUME TrustInv, NEW c \in Clients, register_compose_provider_in(c)
    PROVE  TrustInv'
  <1> DEFINE k == task[c].call
             why == [policies |-> seen[c], sigs |-> signed[c]]
             h == Wasm(task[c].bytes, k.tenant, why)
             key == <<k.tenant, k.id>>
  <1>1. /\ At(c, "register", "compile") /\ UNCHANGED <<policy, files, work, held>> /\ Back(c)
        /\ prov' = Put(prov, key, h) \/ UNCHANGED prov
    BY DEF register_compose_provider_in, new_wasm_component_from_bytes
  <1>2. task[c].pc = "compile" /\ TaskOK(task[c], seen[c], signed[c])
    BY <1>1, InCall
  <1>3. ProcessOK' /\ HeldOK'
    BY <1>1, Returns DEF TrustInv, Shape, HeldOK
  <1>4. ProvOK'
    <2>1. CASE UNCHANGED prov
      BY <2>1 DEF TrustInv, ProvOK
    <2>2. CASE prov' = Put(prov, key, h)
      <3>1. h.bytes = task[c].bytes /\ h.home = k.tenant /\ h.by = why
        BY WasmFields
      <3>2. why.policies = seen[c] /\ why.sigs = signed[c]
        OBVIOUS
      <3>3. \E q \in why.policies : Acceptable(q, task[c].bytes, why.sigs, {"blake3"})
        BY <1>2, <3>2 DEF TaskOK, Judged, WithPolicy
      <3>4. key[1] = k.tenant
        OBVIOUS
      <3> HIDE DEF h, why, key
      <3>5. /\ DOMAIN prov' = DOMAIN prov \cup {key}
            /\ \A x \in DOMAIN prov' : prov'[x] = IF x = key THEN h ELSE prov[x]
        BY <2>2 DEF Put
      <3> QED BY <3>1, <3>3, <3>4, <3>5 DEF TrustInv, ProvOK
    <2> QED BY <1>1, <2>1, <2>2
  <1> QED BY <1>3, <1>4 DEF TrustInv, ProcessOK

(* A call returns with a handle.                                            *)
LEMMA HandTrust ==
    ASSUME TrustInv, NEW c \in Clients, NEW h, HandleOK(h),
           held' = [held EXCEPT ![c] = h], Back(c), UNCHANGED <<policy, files, work, prov>>
    PROVE  TrustInv'
  <1>1. TablesOK' /\ DOMAIN held' = Clients
    BY HeldSet
  <1>2. ProcessOK'
    BY <1>1, Returns
  <1> QED BY <1>1, <1>2 DEF TrustInv, ProcessOK, TablesOK

LEMMA ResolveTrust ==
    ASSUME TrustInv, NEW c \in Clients, resolve_by_id(c)
    PROVE  TrustInv'
  <1> DEFINE k == task[c].call
             g == get_compose_provider_in(k.tenant, k.id)
             h == IF g = None THEN Nothing ELSE [how |-> "id", asked |-> k.tenant, handle |-> g]
  <1>1. held' = [held EXCEPT ![c] = h] /\ Back(c) /\ UNCHANGED <<policy, files, work, prov>>
    BY DEF resolve_by_id, tables
  <1>2. HandleOK(h)
    <2>1. CASE g = None
      BY <2>1, NothingOK
    <2>2. CASE g # None
      <3>1. <<k.tenant, k.id>> \in DOMAIN prov /\ g = prov[<<k.tenant, k.id>>]
        BY <2>2 DEF get_compose_provider_in
      <3>2. <<k.tenant, k.id>>[1] = k.tenant
        OBVIOUS
      <3>3. g.home = k.tenant
        BY <3>1, <3>2 DEF TrustInv, ProvOK
      <3> HIDE DEF g
      <3>4. h = [how |-> "id", asked |-> k.tenant, handle |-> g]
        BY <2>2
      <3> QED BY <3>3, <3>4 DEF HandleOK
    <2> QED BY <2>1, <2>2
  <1> HIDE DEF h
  <1> QED BY <1>1, <1>2, HandTrust

LEMMA LookupTrust ==
    ASSUME TrustInv, NEW c \in Clients, DigestLookup(c)
    PROVE  TrustInv'
  <1> DEFINE b == lookup_by_hash(task[c].call.digest)
             x == [task[c] EXCEPT !.pc = "gate", !.bytes = b]
  <1>1. At(c, "digest", "start") /\ UNCHANGED <<policy, files, work, held, prov>>
    BY DEF DigestLookup, tables
  <1>2. task[c].pc # "idle" /\ IsTask(task[c]) /\ task[c].call \in Calls
    BY <1>1, InCall
  <1>3. CASE Back(c)
    BY <1>1, <1>2, <1>3, PlainTrust
  <1>4. CASE b # None /\ task' = [task EXCEPT ![c] = x] /\ UNCHANGED <<seen, signed>>
    <2>1. IsTask(x) /\ x.pc = "gate" /\ x.bytes = b /\ x.call = task[c].call
      BY <1>2 DEF IsTask
    <2>2. b = task[c].call.digest.of
      BY <1>4 DEF lookup_by_hash
    <2>3. task' = [task EXCEPT ![c] = x]
      BY <1>4
    <2> HIDE DEF x, b
    <2>4. TaskOK(x, seen[c], signed[c])
      BY <1>2, <2>1, <2>2 DEF TaskOK, Judged, Gated, Sourced, WithPolicy, Signing
    <2> QED BY <1>1, <1>2, <1>4, <2>1, <2>3, <2>4, PlainTrust
  <1> QED BY <1>3, <1>4 DEF DigestLookup

(* A digest the allowlist holds is a digest of the bytes found under it.    *)
LEMMA DigestTrust ==
    ASSUME TrustInv, NEW c \in Clients, resolve_by_digest(c)
    PROVE  TrustInv'
  <1> DEFINE d == task[c].call.digest
             why == [policies |-> seen[c], sigs |-> {}]
             w == Wasm(task[c].bytes, Default, why)
             g == [how |-> "digest", asked |-> d, handle |-> w]
  <1>1. /\ At(c, "digest", "gate") /\ Back(c) /\ UNCHANGED <<policy, files, work, prov>>
        /\ \/ held' = [held EXCEPT ![c] = Nothing]
           \/ verify(policy, d) /\ held' = [held EXCEPT ![c] = g]
    BY DEF resolve_by_digest, tables
  <1>2. task[c].bytes = d.of /\ policy \in seen[c]
    BY <1>1, InCall DEF TaskOK, Gated
  <1>3. CASE held' = [held EXCEPT ![c] = Nothing]
    BY <1>1, <1>3, NothingOK, HandTrust
  <1>4. CASE verify(policy, d) /\ held' = [held EXCEPT ![c] = g]
    <2>1. Acceptable(policy, task[c].bytes, {}, Algs)
      <3>1. CASE policy.kind = "AllowAll"
        BY <3>1 DEF Acceptable
      <3>2. CASE policy.kind = "DigestAllowlist" /\ d \in policy.allow
        <4>1. policy.allow \subseteq Digests
          <5>1. policy \in AllPolicies
            BY DEF TrustInv, Shape
          <5>2. [kind |-> "AllowAll", allow |-> {}, anchors |-> << >>].allow = {}
            OBVIOUS
          <5> QED BY <5>1, <5>2, ProvidersAssumption DEF AllPolicies
        <4>2. d \in Digests
          BY <3>2, <4>1
        <4>3. d = Digest(d.alg, d.of) /\ d.alg \in Algs
          BY <4>2 DEF Digests, Digest
        <4> HIDE DEF d
        <4> QED BY <1>2, <3>2, <4>3 DEF Acceptable
      <3> QED BY <1>4, <3>1, <3>2 DEF verify
    <2>2. w.bytes = task[c].bytes /\ w.by = why
      BY WasmFields
    <2>3. why.policies = seen[c]
      OBVIOUS
    <2>4. \E q \in why.policies : Acceptable(q, task[c].bytes, {}, Algs)
      BY <1>2, <2>1, <2>3
    <2> HIDE DEF w, why
    <2>5. g.how = "digest" /\ g.handle = w
      OBVIOUS
    <2>6. HandleOK(g)
      BY <2>2, <2>4, <2>5 DEF HandleOK
    <2> HIDE DEF g
    <2> QED BY <1>1, <1>4, <2>6, HandTrust
  <1> QED BY <1>1, <1>3, <1>4

LEMMA UriTrust ==
    ASSUME TrustInv, NEW c \in Clients, load_extension_from_uri(c)
    PROVE  TrustInv'
  <1> DEFINE b == resolve_uri_to_bytes(task[c].call)
             g == [how |-> "uri", asked |-> task[c].call.name, handle |-> Wasm(b, Default, None)]
  <1>1. /\ Back(c) /\ UNCHANGED <<policy, files, work, prov>>
        /\ held' = [held EXCEPT ![c] = Nothing] \/ held' = [held EXCEPT ![c] = g]
    BY DEF load_extension_from_uri, tables
  <1>2. HandleOK(g)
    BY DEF HandleOK
  <1> HIDE DEF g
  <1> QED BY <1>1, <1>2, NothingOK, HandTrust

LEMMA RuntimeTrust ==
    ASSUME TrustInv, NEW c \in Clients,
           register_runtime(c) \/ unregister_runtime(c) \/ run_source(c)
    PROVE  TrustInv'
  <1>1. UNCHANGED <<policy, files, work, prov>> /\ task[c].pc # "idle"
    BY DEF register_runtime, unregister_runtime, run_source, tables, At
  <1>2. {"insert", "execute"} \subseteq Free
    BY DEF Free
  <1>3. CASE Back(c) /\ UNCHANGED held
    BY <1>1, <1>3, PlainTrust
  <1>4. ASSUME NEW s \in {"insert", "execute"}, NEW v, UNCHANGED <<held, seen, signed>>,
               task' = [task EXCEPT ![c] = [@ EXCEPT !.pc = s, !.bytes = v]]
        PROVE  TrustInv'
    BY <1>1, <1>2, <1>4, FreeTrust
  <1>5. CASE run_source(c) /\ Back(c) /\ ~UNCHANGED held
    <2> DEFINE g == [how |-> "run", asked |-> task[c].call.key,
                     handle |-> Wasm(task[c].bytes, Default, files[task[c].call.path].bytes)]
    <2>1. held' = [held EXCEPT ![c] = g]
      BY <1>5 DEF run_source
    <2>2. HandleOK(g)
      BY DEF HandleOK
    <2> HIDE DEF g
    <2> QED BY <1>1, <1>5, <2>1, <2>2, HandTrust
  <1>6. CASE register_runtime(c)
    BY <1>3, <1>4, <1>6 DEF register_runtime
  <1>7. CASE unregister_runtime(c)
    BY <1>3, <1>7 DEF unregister_runtime
  <1>8. CASE run_source(c)
    BY <1>3, <1>4, <1>5, <1>8 DEF run_source
  <1> QED BY <1>6, <1>7, <1>8

(* The statements of sqlite-runtime concern neither policies nor handles.   *)
Statements(c) ==
    \/ NotConnected(c) \/ LockConn(c) \/ Execute(c) \/ Validate(c) \/ Number(c) \/ Stash(c)
    \/ Step(c) \/ Collect(c) \/ Finalize(c)

LEMMA StatementTrust ==
    ASSUME TrustInv, NEW c \in Clients, Statements(c)
    PROVE  TrustInv'
  <1>1. UNCHANGED <<policy, files, work, held, prov>> /\ task[c].pc # "idle"
    BY DEF Statements, NotConnected, LockConn, Execute, Validate, Number, Stash, Step, Collect,
           Finalize, tables, At
  <1>2. CASE Back(c)
    BY <1>1, <1>2, PlainTrust
  <1>3. ASSUME NEW s \in {"run", "validate", "number", "collect"}, Goto(c, s),
               UNCHANGED <<seen, signed>>
        PROVE  TrustInv'
    <2>1. s \in Free
      BY DEF Free
    <2> QED BY <1>1, <1>3, <2>1, FreeTrust
  <1>4. CASE Number(c)
    <2>1. "stash" \in Free
      BY DEF Free
    <2>2. /\ task' = [task EXCEPT ![c] = [@ EXCEPT !.pc = "stash", !.id = StmtNumber]]
          /\ UNCHANGED <<seen, signed>>
      BY <1>4 DEF Number
    <2> QED BY <1>1, <2>1, <2>2, FreeTrust
  <1>5. CASE NotConnected(c) \/ Execute(c) \/ Stash(c) \/ Collect(c) \/ Finalize(c)
    BY <1>2, <1>5 DEF NotConnected, Execute, Stash, Collect, Finalize
  <1>6. CASE LockConn(c)
    BY <1>3, <1>6 DEF LockConn
  <1>7. CASE Validate(c)
    BY <1>2, <1>3, <1>7 DEF Validate
  <1>8. CASE Step(c)
    BY <1>2, <1>3, <1>8 DEF Step
  <1> QED BY <1>4, <1>5, <1>6, <1>7, <1>8 DEF Statements

(* What fetch_artifact may return for call k.                               *)
Asked(k, b) ==
    \/ k.expected \in {None, b}
    \/ \E i \in DOMAIN k.sources : k.sources[i].kind = "blake3" /\ k.sources[i].of = b

LEMMA ReturnedTrust ==
    ASSUME TrustInv, NEW c \in Clients, NEW b, Asked(task[c].call, b), Returned(c, b), Back(c),
           UNCHANGED <<policy, files, work, prov>>
    PROVE  TrustInv'
  <1> DEFINE w == Wasm(b, Default, None)
             g == [how |-> "fetch", asked |-> task[c].call, handle |-> w]
  <1>1. held' = [held EXCEPT ![c] = g]
    BY DEF Returned
  <1>2. w.bytes = b
    BY WasmFields
  <1> HIDE DEF w
  <1>3. g.how = "fetch" /\ g.asked = task[c].call /\ g.handle = w
    OBVIOUS
  <1> HIDE DEF g
  <1>4. HandleOK(g)
    BY <1>2, <1>3 DEF HandleOK, Asked
  <1> QED BY <1>1, <1>4, HandTrust

LEMMA CachedTrust ==
    ASSUME TrustInv, NEW c \in Clients, FetchCached(c)
    PROVE  TrustInv'
  <1> DEFINE k == task[c].call
             bound == IF k.uri \in DOMAIN cache.uris THEN cache.uris[k.uri] ELSE None
             x == [task[c] EXCEPT !.pc = "source", !.left = k.sources]
  <1>1. At(c, "fetch", "start") /\ UNCHANGED <<policy, files, work, prov>>
    BY DEF FetchCached
  <1>2. /\ task[c].pc # "idle" /\ IsTask(task[c]) /\ k \in Calls /\ k.op = "fetch"
    BY <1>1, InCall
  <1>3. CASE k.expected \in {None, bound} /\ Returned(c, bound) /\ Back(c)
    BY <1>1, <1>3, ReturnedTrust DEF Asked
  <1>4. CASE Returned(c, k.expected) /\ Back(c)
    BY <1>1, <1>4, ReturnedTrust DEF Asked
  <1>5. CASE task' = [task EXCEPT ![c] = x] /\ UNCHANGED <<held, seen, signed>>
    <2>1. IsTask(x) /\ x.pc = "source" /\ x.left = k.sources /\ x.call = task[c].call
      BY <1>2 DEF IsTask
    <2>2. task' = [task EXCEPT ![c] = x]
      BY <1>5
    <2> HIDE DEF x
    <2>3. Sourced(x)
      BY <1>2, <2>1, ProvidersAssumption DEF Sourced
    <2>4. TaskOK(x, seen[c], signed[c])
      BY <1>2, <2>1, <2>3 DEF TaskOK, Judged, Gated, WithPolicy, Signing
    <2> QED BY <1>1, <1>2, <1>5, <2>1, <2>2, <2>4, PlainTrust
  <1> QED BY <1>3, <1>4, <1>5 DEF FetchCached

LEMMA SourceTrust ==
    ASSUME TrustInv, NEW c \in Clients, FetchSource(c)
    PROVE  TrustInv'
  <1> DEFINE t == task[c]
             k == t.call
             z == [t EXCEPT !.left = Tail(t.left)]
  <1>1. At(c, "fetch", "source") /\ UNCHANGED <<policy, files, work, prov>>
    BY DEF FetchSource
  <1>2. /\ t.pc = "source" /\ IsTask(t) /\ k \in Calls /\ TaskOK(t, seen[c], signed[c])
    BY <1>1, InCall
  <1>3. /\ t.left \in Seq(Sources)
        /\ \A i \in DOMAIN t.left : \E j \in DOMAIN k.sources : k.sources[j] = t.left[i]
    BY <1>2 DEF TaskOK, Sourced
  <1>4. CASE held' = [held EXCEPT ![c] = Nothing] /\ Back(c)
    BY <1>1, <1>4, NothingOK, HandTrust
  <1>5. ASSUME t.left # << >>, NEW v \in Obtained(Head(t.left)),
               Attempt(k, Head(t.left), v) # None,
               Returned(c, Attempt(k, Head(t.left), v)), Back(c)
        PROVE  TrustInv'
    <2> DEFINE s == Head(t.left)
               b == Attempt(k, s, v)
    <2>1. s = t.left[1] /\ 1 \in DOMAIN t.left
      BY <1>3, <1>5
    <2>2. PICK j \in DOMAIN k.sources : k.sources[j] = s
      BY <1>3, <2>1
    <2>3. b = v /\ (s.kind = "blake3" \/ k.expected \in {None, v})
      BY <1>5 DEF Attempt
    <2>4. s.kind = "blake3" => v = s.of
      BY <1>5, <2>3 DEF Obtained
    <2> HIDE DEF b, s
    <2>5. Asked(k, b)
      BY <2>2, <2>3, <2>4 DEF Asked
    <2>6. Returned(c, b)
      BY <1>5 DEF b, s
    <2> QED BY <1>1, <1>5, <2>5, <2>6, ReturnedTrust
  <1>6. CASE t.left # << >> /\ task' = [task EXCEPT ![c] = z] /\ UNCHANGED <<held, seen, signed>>
    <2>1. IsTask(z) /\ z.pc = "source" /\ z.left = Tail(t.left) /\ z.call = k
      BY <1>2 DEF IsTask
    <2>2. task' = [task EXCEPT ![c] = z]
      BY <1>6
    <2> HIDE DEF z
    <2>3. /\ z.left \in Seq(Sources)
          /\ \A i \in DOMAIN z.left : \E j \in DOMAIN k.sources : k.sources[j] = z.left[i]
      <3>1. /\ Tail(t.left) \in Seq(Sources) /\ Len(Tail(t.left)) = Len(t.left) - 1
            /\ \A i \in 1..Len(Tail(t.left)) : Tail(t.left)[i] = t.left[i + 1]
        BY <1>3, <1>6, HeadTailProperties
      <3>2. Len(t.left) \in Nat /\ DOMAIN t.left = 1..Len(t.left)
        BY <1>3
      <3>3. DOMAIN Tail(t.left) = 1..Len(Tail(t.left))
        BY <3>1
      <3>4. \A i \in DOMAIN Tail(t.left) : i + 1 \in DOMAIN t.left
        BY <3>1, <3>2, <3>3
      <3> QED BY <1>3, <2>1, <3>1, <3>3, <3>4
    <2>4. Sourced(z)
      BY <2>1, <2>3 DEF Sourced
    <2>5. TaskOK(z, seen[c], signed[c])
      BY <1>2, <2>1, <2>4 DEF TaskOK, Judged, Gated, WithPolicy, Signing
    <2> QED BY <1>1, <1>2, <1>6, <2>1, <2>2, <2>5, PlainTrust
  <1> QED BY <1>4, <1>5, <1>6 DEF FetchSource

LEMMA TrustStep == TrustInv /\ [Next]_vars => TrustInv'
  <1> SUFFICES ASSUME TrustInv, [Next]_vars PROVE TrustInv'
    OBVIOUS
  <1>1. CASE UNCHANGED vars
    BY <1>1 DEF vars, tables, TrustInv, Shape, TasksOK, Current, ProvOK, HeldOK
  <1>2. ASSUME NEW c \in Clients, set_trust_policy(c) \/ Edit(c) \/ Store(c) PROVE TrustInv'
    BY <1>2, PolicyTrust, EditTrust, StoreTrust
  <1>3. ASSUME NEW c \in Clients, ClientStep(c) PROVE TrustInv'
    BY <1>3, CallTrust, SyncPolicyTrust, SyncCheckTrust, ReadTrust, DecideTrust, SidecarTrust,
       AnchorTrust, VerifyTrust, RegisterTrust, ResolveTrust, LookupTrust, DigestTrust, UriTrust,
       RuntimeTrust, StatementTrust, CachedTrust, SourceTrust DEF ClientStep, Statements
  <1> QED BY <1>1, <1>2, <1>3 DEF Next

(* The invariant of registration and resolution holds in every reachable    *)
(* state.                                                                   *)
THEOREM TrustInvHolds == Spec => []TrustInv
  BY TrustInit, TrustStep, PTL DEF Spec

(* Whatever set_trust_policy, the file and its sidecar do between the steps *)
(* of register_wasm_provider_in(_async), the bytes it compiles were         *)
(* acceptable to a policy in force during the call, under a signature that  *)
(* lay beside the file; and what resolve_by_digest compiles was accepted.   *)
THEOREM OnlyTrustedCodeHolds == Spec => []OnlyTrustedCode
  <1>1. TrustInv => OnlyTrustedCode
    BY DEF TrustInv, ProvOK, HeldOK, HandleOK, OnlyTrustedCode
  <1> QED BY <1>1, TrustInvHolds, PTL

(* get_compose_provider_in never crosses tenants, and fetch_artifact        *)
(* returns the expected bytes or those of a Blake3 source of the call.      *)
THEOREM ResolvedAsAskedHolds == Spec => []ResolvedAsAsked
  <1>1. TrustInv => ResolvedAsAsked
    BY DEF TrustInv, HeldOK, HandleOK, ResolvedAsAsked, TenantsApart, FetchedAsAsked
  <1> QED BY <1>1, TrustInvHolds, PTL
-----------------------------------------------------------------------------
(* n rows of the answer to sql over a database of `at` rows, from row lo+1. *)
Row(sql, at, n) == [sql |-> sql, at |-> at, n |-> n]
RowsOf(sql, at) == {Row(sql, at, n) : n \in Nat}
Segment(sql, at, lo, n) == [i \in 1..n |-> Row(sql, at, lo + i)]

IsMine(m) == m \in [id : {m.id}, sql : {m.sql}, got : {m.got}]
IsStmt(s) == s \in [sql : {s.sql}, fetched : {s.fetched}, cursor : {s.cursor}]

(* What m has got is the beginning of one answer ...                        *)
Prefix(m, r) == \E at \in 0..r : \E k \in 0..at : m.got = Segment(m.sql, at, 0, k)

(* ... and the cursor of its statement is the rest.                         *)
Reads(m, s, r) ==
    /\ IsStmt(s) /\ s.sql = m.sql
    /\ IF s.fetched
       THEN \E at \in 0..r : \E k \in 0..at : /\ m.got = Segment(m.sql, at, 0, k)
                                             /\ s.cursor = Segment(m.sql, at, k, at - k)
       ELSE m.got = << >>

EngineShape ==
    /\ rows \in Nat /\ nextStmt \in Nat /\ nextStmt > 0
    /\ DOMAIN mine = Clients /\ DOMAIN locks = {"conn", "stmts", "verifier"}
    /\ \A i \in DOMAIN stmts : i \in Nat /\ 0 < i /\ i < nextStmt
    /\ \A c \in Clients : IsMine(mine[c]) /\ mine[c].id \in Nat /\ mine[c].id < nextStmt

(* A number belongs to one client, also while it is only drawn.             *)
Owned == \A c, d \in Clients : mine[c].id = mine[d].id => c = d \/ mine[c].id = 0
Drawn ==
    \A c \in Clients : task[c].pc = "stash" =>
        /\ task[c].id \in Nat /\ 0 < task[c].id /\ task[c].id < nextStmt
        /\ task[c].id \notin DOMAIN stmts
        /\ \A d \in Clients : mine[d].id # task[c].id
        /\ \A d \in Clients : task[d].pc = "stash" /\ task[d].id = task[c].id => d = c

(* Who collects rows has the statements locked, and its own is still there. *)
Collecting ==
    \A c \in Clients : task[c].pc = "collect" =>
        /\ locks.stmts = c
        /\ mine[c].id \in DOMAIN stmts /\ ~stmts[mine[c].id].fetched

Reading ==
    \A c \in Clients : /\ Prefix(mine[c], rows)
                       /\ mine[c].id \in DOMAIN stmts => Reads(mine[c], stmts[mine[c].id], rows)

StmtInv == EngineShape /\ Owned /\ Drawn /\ Collecting /\ Reading

IsSegment(S, sql, at, lo, n) ==
    /\ S \in Seq(RowsOf(sql, at)) /\ Len(S) = n
    /\ \A i \in 1..n : S[i] = Row(sql, at, lo + i)
    /\ S = << >> <=> n = 0
LEMMA SegmentSeq ==
    ASSUME NEW sql, NEW at, NEW lo \in Nat, NEW n \in Nat
    PROVE  IsSegment(Segment(sql, at, lo, n), sql, at, lo, n)
  <1> DEFINE S == Segment(sql, at, lo, n)
             R == RowsOf(sql, at)
  <1>1. /\ \A i \in 1..n : S[i] = Row(sql, at, lo + i)
        /\ S = [i \in 1..n |-> S[i]]
    BY DEF Segment
  <1>2. \A i \in 1..n : S[i] \in R
    <2> TAKE i \in 1..n
    <2>1. lo + i \in Nat
      OBVIOUS
    <2> QED BY <1>1, <2>1 DEF RowsOf
  <1> HIDE DEF S, R
  <1>3. S \in [1..n -> R]
    BY <1>1, <1>2
  <1>4. S \in Seq(R) /\ Len(S) = n
    BY <1>3
  <1>5. S = << >> <=> n = 0
    BY <1>4
  <1> QED BY <1>1, <1>4, <1>5 DEF S, R, IsSegment

(* Taking the first row of the rest keeps both parts of one answer.         *)
Moves(sql, at, z, k, n, k1, n1) ==
    /\ Tail(Segment(sql, at, k, n)) = Segment(sql, at, k1, n1)
    /\ Append(Segment(sql, at, z, k), Head(Segment(sql, at, k, n))) = Segment(sql, at, z, k1)
OneFurther(z, k, n, k1, n1) == z = 0 /\ n > 0 /\ k1 = k + 1 /\ n1 = n - 1
LEMMA SegmentStep ==
    ASSUME NEW sql, NEW at, NEW z \in Nat, NEW k \in Nat, NEW n \in Nat,
           NEW k1 \in Nat, NEW n1 \in Nat, OneFurther(z, k, n, k1, n1)
    PROVE  Moves(sql, at, z, k, n, k1, n1)
  <1> DEFINE R == RowsOf(sql, at)
             got == Segment(sql, at, z, k)
             rest == Segment(sql, at, k, n)
             tl == Segment(sql, at, k1, n1)
             new == Segment(sql, at, z, k1)
  <1> z = 0 /\ n > 0 /\ k1 = k + 1 /\ n1 = n - 1
    BY DEF OneFurther
  <1>10. /\ IsSegment(got, sql, at, z, k) /\ IsSegment(rest, sql, at, k, n)
        /\ IsSegment(tl, sql, at, k1, n1) /\ IsSegment(new, sql, at, z, k1)
    BY SegmentSeq
  <1> HIDE DEF got, rest, tl, new
  <1>1. got \in Seq(R) /\ Len(got) = k /\ \A i \in 1..k : got[i] = Row(sql, at, z + i)
    BY <1>10 DEF IsSegment
  <1>2. /\ rest \in Seq(R) /\ Len(rest) = n /\ rest # << >>
        /\ \A i \in 1..n : rest[i] = Row(sql, at, k + i)
    <2>1. n # 0
      OBVIOUS
    <2> QED BY <1>10, <2>1 DEF IsSegment
  <1>3. tl \in Seq(R) /\ Len(tl) = n1 /\ \A i \in 1..n1 : tl[i] = Row(sql, at, k1 + i)
    BY <1>10 DEF IsSegment
  <1>4. new \in Seq(R) /\ Len(new) = k1 /\ \A i \in 1..k1 : new[i] = Row(sql, at, z + i)
    BY <1>10 DEF IsSegment
  <1> HIDE DEF R
  <1>5. /\ Tail(rest) \in Seq(R) /\ Len(Tail(rest)) = n1
        /\ \A i \in 1..n1 : Tail(rest)[i] = rest[i + 1]
    BY <1>2, HeadTailProperties
  <1>6. Tail(rest) = tl
    <2>1. \A i \in 1..n1 : Tail(rest)[i] = tl[i]
      <3> TAKE i \in 1..n1
      <3>1. i + 1 \in 1..n /\ k + (i + 1) = k1 + i
        OBVIOUS
      <3> QED BY <1>2, <1>3, <1>5, <3>1
    <2> QED BY <1>3, <1>5, <2>1, SeqEqual
  <1>7. Head(rest) = Row(sql, at, k1) /\ Head(rest) \in R
    <2>1. Head(rest) = rest[1] /\ 1 \in 1..n /\ k + 1 = k1
      BY <1>2
    <2>2. Head(rest) \in R
      BY <1>2, HeadTailProperties
    <2> QED BY <1>2, <2>1, <2>2
  <1>8. /\ Append(got, Head(rest)) \in Seq(R) /\ Len(Append(got, Head(rest))) = k1
        /\ \A i \in 1..k : Append(got, Head(rest))[i] = got[i]
        /\ Append(got, Head(rest))[k1] = Head(rest)
    BY <1>1, <1>7, AppendProperties
  <1>9. Append(got, Head(rest)) = new
    <2>1. \A i \in 1..k1 : Append(got, Head(rest))[i] = new[i]
      <3> TAKE i \in 1..k1
      <3>1. CASE i \in 1..k
        BY <1>1, <1>4, <1>8, <3>1
      <3>2. CASE i = k1
        <4>1. z + k1 = k1
          OBVIOUS
        <4> QED BY <1>4, <1>7, <1>8, <3>2, <4>1
      <3>3. i \in 1..k \/ i = k1
        OBVIOUS
      <3> QED BY <3>1, <3>2, <3>3
    <2> QED BY <1>4, <1>8, <2>1, SeqEqual
  <1> QED BY <1>6, <1>9 DEF got, rest, tl, new, Moves

(* The answer when it is fetched.                                           *)
LEMMA SegmentRows ==
    ASSUME rows \in Nat, NEW sql
    PROVE  Rows(sql) = Segment(sql, rows, 0, rows) /\ Segment(sql, rows, 0, 0) = << >>
  <1>1. \A i \in 1..rows : 0 + i = i
    OBVIOUS
  <1>2. Segment(sql, rows, 0, 0) = << >>
    BY SegmentSeq DEF IsSegment
  <1> QED BY <1>1, <1>2 DEF Rows, Segment, Row

LEMMA PrefixGrows ==
    ASSUME NEW m, NEW r \in Nat, NEW r2 \in Nat, r <= r2
    PROVE  /\ Prefix(m, r) => Prefix(m, r2)
           /\ \A s : Reads(m, s, r) => Reads(m, s, r2)
  <1>1. 0..r \subseteq 0..r2
    OBVIOUS
  <1> QED BY <1>1 DEF Prefix, Reads

(* The next row, if there is one, moves from the cursor to the client.      *)
LEMMA GotReads ==
    ASSUME NEW m, IsMine(m), NEW s, s.fetched, NEW r \in Nat, Reads(m, s, r)
    PROVE  LET s2 == [s EXCEPT !.cursor = IF s.cursor = << >> THEN << >> ELSE Tail(s.cursor)]
               m2 == [m EXCEPT !.got = IF s.cursor = << >> THEN m.got
                                       ELSE Append(m.got, Head(s.cursor))]
           IN /\ Reads(m2, s2, r) /\ Prefix(m2, r) /\ s2.fetched
              /\ IsMine(m2) /\ m2.id = m.id
  <1> DEFINE cur == IF s.cursor = << >> THEN << >> ELSE Tail(s.cursor)
             got == IF s.cursor = << >> THEN m.got ELSE Append(m.got, Head(s.cursor))
             s2 == [s EXCEPT !.cursor = cur]
             m2 == [m EXCEPT !.got = got]
  <1>0. PICK at \in 0..r : \E k \in 0..at : /\ m.got = Segment(m.sql, at, 0, k)
                                          /\ s.cursor = Segment(m.sql, at, k, at - k)
    BY DEF Reads
  <1>1. PICK k \in 0..at : /\ m.got = Segment(m.sql, at, 0, k)
                          /\ s.cursor = Segment(m.sql, at, k, at - k)
    BY <1>0
  <1>2. IsStmt(s) /\ s.sql = m.sql
    BY DEF Reads
  <1>3. PICK j \in 0..at : got = Segment(m.sql, at, 0, j) /\ cur = Segment(m.sql, at, j, at - j)
    <2>1. CASE s.cursor = << >>
      BY <1>1, <2>1
    <2>2. CASE s.cursor # << >>
      <3>1. PICK n \in Nat : n = at - k
        OBVIOUS
      <3>10. k \in Nat
        OBVIOUS
      <3>2. IsSegment(s.cursor, m.sql, at, k, n)
        BY <1>1, <3>1, SegmentSeq
      <3>3. n > 0
        <4>1. n # 0
          BY <2>2, <3>2 DEF IsSegment
        <4> QED BY <4>1
      <3>4. PICK z \in Nat : z = 0
        OBVIOUS
      <3>5. PICK k1 \in Nat : k1 = k + 1
        OBVIOUS
      <3>6. PICK n1 \in Nat : n1 = n - 1
        BY <3>3
      <3>7. /\ Tail(Segment(m.sql, at, k, n)) = Segment(m.sql, at, k1, n1)
            /\ Append(Segment(m.sql, at, z, k), Head(Segment(m.sql, at, k, n)))
                  = Segment(m.sql, at, z, k1)
        <4>1. OneFurther(z, k, n, k1, n1)
          BY <3>3, <3>4, <3>5, <3>6 DEF OneFurther
        <4>2. Moves(m.sql, at, z, k, n, k1, n1)
          BY <3>10, <4>1, SegmentStep
        <4> QED BY <4>2 DEF Moves
      <3>8. k1 \in 0..at /\ n1 = at - k1
        BY <3>1, <3>3, <3>5, <3>6
      <3>9. got = Segment(m.sql, at, 0, k1) /\ cur = Segment(m.sql, at, k1, at - k1)
        BY <1>1, <2>2, <3>1, <3>4, <3>7, <3>8
      <3> QED BY <3>8, <3>9
    <2> QED BY <2>1, <2>2
  <1> HIDE DEF cur, got
  <1>4. IsStmt(s2) /\ s2.sql = s.sql /\ s2.fetched /\ s2.cursor = cur
    BY <1>2 DEF IsStmt
  <1>5. IsMine(m2) /\ m2.id = m.id /\ m2.sql = m.sql /\ m2.got = got
    BY DEF IsMine
  <1> HIDE DEF s2, m2
  <1>6. Reads(m2, s2, r) /\ Prefix(m2, r)
    BY <1>2, <1>3, <1>4, <1>5 DEF Reads, Prefix
  <1> QED BY <1>4, <1>5, <1>6 DEF s2, m2, cur, got

LEMMA StmtInit == Init => StmtInv
  <1> SUFFICES ASSUME Init PROVE StmtInv
    OBVIOUS
  <1> DEFINE m == [id |-> 0, sql |-> None, got |-> << >>]
  <1>1. /\ \A c \in Clients : mine[c] = m /\ task[c].pc = "idle"
        /\ DOMAIN mine = Clients /\ DOMAIN stmts = {} /\ rows = 1 /\ nextStmt = 1
        /\ DOMAIN locks = {"conn", "stmts", "verifier"}
    BY IdleTask DEF Init
  <1>2. IsMine(m) /\ m.id = 0 /\ m.got = << >>
    BY DEF IsMine
  <1>3. Prefix(m, 1)
    <2>1. Segment(m.sql, 0, 0, 0) = << >>
      BY SegmentSeq DEF IsSegment
    <2> QED BY <1>2, <2>1 DEF Prefix
  <1> HIDE DEF m
  <1>4. EngineShape
    BY <1>1, <1>2 DEF EngineShape
  <1>5. Owned /\ Drawn /\ Collecting
    BY <1>1, <1>2 DEF Owned, Drawn, Collecting
  <1>6. Reading
    BY <1>1, <1>3 DEF Reading
  <1> QED BY <1>4, <1>5, <1>6 DEF StmtInv

(* Others keep the statements locked, whatever c does with its own locks.   *)
OthersLocked(c) == \A d \in Clients \ {c} : locks.stmts = d => locks'.stmts = d
LEMMA LocksStep ==
    ASSUME StmtInv, NEW c \in Clients,
           \/ UNCHANGED locks
           \/ locks' = Unlocked(c)
           \/ locks' = [locks EXCEPT !.conn = c]
           \/ locks' = [locks EXCEPT !.verifier = c]
           \/ locks.stmts = None /\ locks' = [locks EXCEPT !.stmts = c]
    PROVE  OthersLocked(c) /\ DOMAIN locks' = {"conn", "stmts", "verifier"}
  BY ProvidersAssumption DEF StmtInv, EngineShape, OthersLocked, Unlocked

(* Steps that touch neither the database nor the statements.                *)
LEMMA FrameStmt ==
    ASSUME StmtInv, NEW c \in Clients, UNCHANGED <<rows, stmts, nextStmt, mine>>,
           \A d \in Clients \ {c} : task'[d] = task[d],
           task'[c].pc \notin {"stash", "collect"},
           OthersLocked(c), DOMAIN locks' = {"conn", "stmts", "verifier"}
    PROVE  StmtInv'
  <1>1. EngineShape' /\ Owned' /\ Reading'
    BY DEF StmtInv, EngineShape, Owned, Reading
  <1>2. Drawn'
    BY DEF StmtInv, Drawn
  <1>3. Collecting'
    BY DEF StmtInv, Collecting, OthersLocked
  <1> QED BY <1>1, <1>2, <1>3 DEF StmtInv

LEMMA BackTask ==
    ASSUME TrustInv, StmtInv, NEW c \in Clients, Back(c)
    PROVE  /\ task'[c].pc = "idle" /\ \A d \in Clients \ {c} : task'[d] = task[d]
           /\ OthersLocked(c) /\ DOMAIN locks' = {"conn", "stmts", "verifier"}
  BY IdleTask, LocksStep DEF TrustInv, Shape, Back

(* Where a client goes, and that the statements stay where they are.        *)
Leaves(c, s) == task'[c].pc = s /\ \A d \in Clients \ {c} : task'[d] = task[d]
LEMMA FrameStep ==
    ASSUME TrustInv, StmtInv, NEW c \in Clients, UNCHANGED <<rows, stmts, nextStmt, mine>>,
           \/ Back(c)
           \/ /\ \E s : s \notin {"stash", "collect"} /\ Leaves(c, s)
              /\ \/ UNCHANGED locks
                 \/ locks' = Unlocked(c)
                 \/ locks' = [locks EXCEPT !.conn = c]
                 \/ locks' = [locks EXCEPT !.verifier = c]
    PROVE  StmtInv'
  <1>1. CASE Back(c)
    BY <1>1, BackTask, FrameStmt
  <1>2. ASSUME NEW s, s \notin {"stash", "collect"}, Leaves(c, s),
               \/ UNCHANGED locks
               \/ locks' = Unlocked(c)
               \/ locks' = [locks EXCEPT !.conn = c]
               \/ locks' = [locks EXCEPT !.verifier = c]
        PROVE  StmtInv'
    <2>1. OthersLocked(c) /\ DOMAIN locks' = {"conn", "stmts", "verifier"}
      BY <1>2, LocksStep
    <2> QED BY <1>2, <2>1, FrameStmt DEF Leaves
  <1> QED BY <1>1, <1>2

LEMMA GotoLeaves ==
    ASSUME TrustInv, NEW c \in Clients, NEW s
    PROVE  /\ Goto(c, s) => Leaves(c, s)
           /\ \A v : task' = [task EXCEPT ![c] = [@ EXCEPT !.pc = s, !.policy = v]] => Leaves(c, s)
           /\ \A v : task' = [task EXCEPT ![c] = [@ EXCEPT !.pc = s, !.bytes = v]] => Leaves(c, s)
           /\ \A v : task' = [task EXCEPT ![c] = [@ EXCEPT !.pc = s, !.sig = v]] => Leaves(c, s)
           /\ \A v : task' = [task EXCEPT ![c] = [@ EXCEPT !.pc = s, !.left = v]] => Leaves(c, s)
           /\ \A v : task' = [task EXCEPT ![c] = [@ EXCEPT !.pc = s, !.id = v]]
                     => Leaves(c, s) /\ task'[c].id = v
           /\ \A v, w : task' = [task EXCEPT ![c] = [@ EXCEPT !.pc = s, !.policy = v, !.left = w]]
                        => Leaves(c, s)
           /\ \A v : task' = [task EXCEPT ![c] = [@ EXCEPT !.left = v]] => Leaves(c, task[c].pc)
  <1>1. IsTask(task[c]) /\ DOMAIN task = Clients
    BY DEF TrustInv, Shape, TasksOK, TaskOK
  <1> QED BY <1>1 DEF Goto, Leaves, IsTask

LEMMA CallStmt ==
    ASSUME TrustInv, StmtInv, NEW c \in Clients, Call(c)
    PROVE  StmtInv'
  <1> DEFINE s == IF Head(work[c]).op # "register" THEN "start"
                  ELSE IF Head(work[c]).async THEN "read" ELSE "policy"
  <1>1. Leaves(c, s)
    BY IdleTask DEF Call, Leaves, TrustInv, Shape, IsTask
  <1>2. UNCHANGED <<rows, stmts, nextStmt, mine, locks>>
    BY DEF Call, engine
  <1> QED BY <1>1, <1>2, FrameStep

(* The steps of a registration.                                             *)
LEMMA RegisterStmt ==
    ASSUME TrustInv, StmtInv, NEW c \in Clients,
           \/ SyncPolicy(c) \/ SyncCheck(c) \/ AsyncRead(c) \/ AsyncDecide(c) \/ Sidecar(c)
           \/ ensure_loaded(c) \/ LoadVerifier(c) \/ Verify(c) \/ register_compose_provider_in(c)
    PROVE  StmtInv'
  <1>1. UNCHANGED <<rows, stmts, nextStmt, mine>>
    BY DEF SyncPolicy, SyncCheck, AsyncRead, AsyncDecide, Sidecar, ensure_loaded, LoadVerifier,
           Verify, register_compose_provider_in, engine
  <1>0. IsTask(task[c]) /\ DOMAIN task = Clients
    BY DEF TrustInv, Shape, TasksOK, TaskOK
  <1>2. CASE SyncPolicy(c)
    <2>1. Back(c) \/ (UNCHANGED locks /\ (Leaves(c, "check") \/ Leaves(c, "read")))
      BY <1>0, <1>2 DEF SyncPolicy, Leaves, IsTask, Goto
    <2> QED BY <1>1, <2>1, FrameStep
  <1>3. CASE SyncCheck(c)
    <2>1. Back(c) \/ (UNCHANGED locks /\ Leaves(c, "compile"))
      BY <1>0, <1>3 DEF SyncCheck, Leaves, IsTask, Goto
    <2> QED BY <1>1, <2>1, FrameStep
  <1>4. CASE AsyncRead(c)
    BY <1>1, <1>4, FrameStep, GotoLeaves DEF AsyncRead, engine
  <1>5. CASE AsyncDecide(c)
    <2>1. Back(c) \/ (UNCHANGED locks /\ (Leaves(c, "sidecar") \/ Leaves(c, "compile")))
      BY <1>0, <1>5 DEF AsyncDecide, Leaves, IsTask, Goto
    <2> QED BY <1>1, <2>1, FrameStep
  <1>6. CASE Sidecar(c)
    <2>1. \/ Back(c)
          \/ /\ UNCHANGED locks
             /\ \E v : task' = [task EXCEPT ![c] = [@ EXCEPT !.pc = "anchor", !.sig = v]]
      BY <1>6 DEF Sidecar
    <2>2. Back(c) \/ (UNCHANGED locks /\ Leaves(c, "anchor"))
      BY <2>1, GotoLeaves
    <2> QED BY <1>1, <2>2, FrameStep
  <1>7. CASE ensure_loaded(c)
    BY <1>1, <1>7, FrameStep, GotoLeaves DEF ensure_loaded
  <1>8. CASE LoadVerifier(c)
    BY <1>1, <1>8, FrameStep, GotoLeaves DEF LoadVerifier
  <1>9. CASE Verify(c)
    <2>1. CASE Back(c)
      BY <1>1, <2>1, FrameStep
    <2>2. CASE ~Back(c)
      <3>1. /\ UNCHANGED locks
            /\ \/ task' = [task EXCEPT ![c] = [task[c] EXCEPT !.pc = "compile"]]
               \/ task' = [task EXCEPT ![c] = [task[c] EXCEPT !.pc = "anchor",
                                                              !.left = Tail(task[c].left)]]
        BY <1>9, <2>2 DEF Verify
      <3>2. Goto(c, "compile") \/
            task' = [task EXCEPT ![c] = [@ EXCEPT !.pc = "anchor", !.left = Tail(task[c].left)]]
        BY <3>1 DEF Goto
      <3>3. Leaves(c, "compile") \/ Leaves(c, "anchor")
        BY <3>2, GotoLeaves
      <3> QED BY <1>1, <3>1, <3>3, FrameStep
    <2> QED BY <2>1, <2>2
  <1>10. CASE register_compose_provider_in(c)
    BY <1>1, <1>10, FrameStep DEF register_compose_provider_in
  <1> QED BY <1>2, <1>3, <1>4, <1>5, <1>6, <1>7, <1>8, <1>9, <1>10

(* Resolution, runtimes and fetching.                                       *)
LEMMA ResolveStmt ==
    ASSUME TrustInv, StmtInv, NEW c \in Clients,
           \/ resolve_by_id(c) \/ DigestLookup(c) \/ resolve_by_digest(c)
           \/ load_extension_from_uri(c)
           \/ register_runtime(c) \/ unregister_runtime(c) \/ run_source(c)
           \/ FetchCached(c) \/ FetchSource(c)
    PROVE  StmtInv'
  <1>1. UNCHANGED <<rows, stmts, nextStmt, mine>>
    BY DEF resolve_by_id, DigestLookup, resolve_by_digest, load_extension_from_uri,
           register_runtime, unregister_runtime, run_source, FetchCached, FetchSource
  <1>0. IsTask(task[c]) /\ DOMAIN task = Clients
    BY DEF TrustInv, Shape, TasksOK, TaskOK
  <1>2. CASE Back(c)
    BY <1>1, <1>2, FrameStep
  <1>3. CASE DigestLookup(c)
    <2>1. Back(c) \/ (UNCHANGED locks /\ Leaves(c, "gate"))
      BY <1>0, <1>3 DEF DigestLookup, Leaves, IsTask, At
    <2> QED BY <1>1, <2>1, FrameStep
  <1>4. CASE register_runtime(c)
    <2>1. Back(c) \/ (UNCHANGED locks /\ Leaves(c, "insert"))
      BY <1>0, <1>4 DEF register_runtime, Leaves, IsTask, At
    <2> QED BY <1>1, <2>1, FrameStep
  <1>5. CASE run_source(c)
    <2>1. Back(c) \/ (UNCHANGED locks /\ Leaves(c, "execute"))
      BY <1>0, <1>5 DEF run_source, Leaves, IsTask, At
    <2> QED BY <1>1, <2>1, FrameStep
  <1>6. CASE FetchCached(c)
    <2>1. Back(c) \/ (UNCHANGED locks /\ Leaves(c, "source"))
      BY <1>0, <1>6 DEF FetchCached, Leaves, IsTask, At
    <2> QED BY <1>1, <2>1, FrameStep
  <1>7. CASE FetchSource(c)
    <2>1. Back(c) \/ (UNCHANGED locks /\ Leaves(c, "source"))
      BY <1>0, <1>7 DEF FetchSource, Leaves, IsTask, At
    <2> QED BY <1>1, <2>1, FrameStep
  <1> QED BY <1>2, <1>3, <1>4, <1>5, <1>6, <1>7
          DEF resolve_by_id, resolve_by_digest, load_extension_from_uri, unregister_runtime

(* Nobody else is collecting while c, or nobody, has the statements locked. *)
LEMMA NoneCollects ==
    ASSUME StmtInv, NEW c \in Clients, locks.stmts \in {None, c}
    PROVE  \A d \in Clients \ {c} : task[d].pc # "collect"
  BY ProvidersAssumption DEF StmtInv, Collecting

LEMMA ExecuteStmt ==
    ASSUME TrustInv, StmtInv, NEW c \in Clients, Execute(c)
    PROVE  StmtInv'
  <1>1. UNCHANGED <<stmts, nextStmt, mine>> /\ rows' \in {rows, rows + 1} /\ Back(c)
    BY DEF Execute
  <1>2. rows \in Nat /\ rows' \in Nat /\ rows <= rows'
    BY <1>1 DEF StmtInv, EngineShape
  <1>3. Reading'
    <2>1. \A m : /\ Prefix(m, rows) => Prefix(m, rows')
                 /\ \A s : Reads(m, s, rows) => Reads(m, s, rows')
      BY <1>2, PrefixGrows
    <2> QED BY <1>1, <2>1 DEF StmtInv, Reading
  <1>4. EngineShape' /\ Owned'
    BY <1>1, <1>2, BackTask DEF StmtInv, EngineShape, Owned
  <1>5. Drawn'
    BY <1>1, BackTask DEF StmtInv, Drawn
  <1>6. Collecting'
    BY <1>1, BackTask DEF StmtInv, Collecting, OthersLocked
  <1> QED BY <1>3, <1>4, <1>5, <1>6 DEF StmtInv

LEMMA NumberStmt ==
    ASSUME TrustInv, StmtInv, NEW c \in Clients, Number(c)
    PROVE  StmtInv'
  <1>1. /\ UNCHANGED <<rows, stmts, mine, locks>> /\ nextStmt' = nextStmt + 1
        /\ task' = [task EXCEPT ![c] = [@ EXCEPT !.pc = "stash", !.id = nextStmt]]
    BY DEF Number, StmtNumber
  <1>2. Leaves(c, "stash") /\ task'[c].id = nextStmt
    BY <1>1, GotoLeaves
  <1>3. nextStmt \in Nat /\ nextStmt > 0 /\ nextStmt' \in Nat /\ nextStmt < nextStmt'
    BY <1>1 DEF StmtInv, EngineShape
  <1>4. EngineShape'
    BY <1>1, <1>3 DEF StmtInv, EngineShape
  <1>5. Owned' /\ Reading'
    BY <1>1 DEF StmtInv, Owned, Reading
  <1>6. Collecting'
    BY <1>1, <1>2 DEF StmtInv, Collecting, Leaves
  <1>7. Drawn'
    <2>1. nextStmt \notin DOMAIN stmts /\ \A d \in Clients : mine[d].id # nextStmt
      BY <1>3 DEF StmtInv, EngineShape
    <2>2. \A d \in Clients \ {c} : task[d].pc = "stash" => task[d].id # nextStmt
      BY <1>3 DEF StmtInv, Drawn
    <2>3. ASSUME NEW d \in Clients, task'[d].pc = "stash"
          PROVE  /\ task'[d].id \in Nat /\ 0 < task'[d].id /\ task'[d].id < nextStmt'
                 /\ task'[d].id \notin DOMAIN stmts
                 /\ \A e \in Clients : mine[e].id # task'[d].id
      <3>1. CASE d = c
        BY <1>2, <1>3, <2>1, <3>1
      <3>2. CASE d # c
        <4>1. task'[d] = task[d]
          BY <1>2, <3>2 DEF Leaves
        <4>2. task[d].id \in Nat /\ 0 < task[d].id /\ task[d].id < nextStmt
          BY <2>3, <4>1 DEF StmtInv, Drawn
        <4>3. task[d].id < nextStmt'
          BY <1>3, <4>2
        <4> QED BY <2>3, <4>1, <4>2, <4>3 DEF StmtInv, Drawn
      <3> QED BY <3>1, <3>2
    <2>4. ASSUME NEW d \in Clients, NEW e \in Clients, task'[d].pc = "stash", task'[e].pc = "stash",
                 task'[e].id = task'[d].id
          PROVE  e = d
      BY <1>2, <2>2, <2>4 DEF StmtInv, Drawn, Leaves
    <2> QED BY <1>1, <2>3, <2>4 DEF Drawn
  <1> QED BY <1>4, <1>5, <1>6, <1>7 DEF StmtInv

LEMMA StashStmt ==
    ASSUME TrustInv, StmtInv, NEW c \in Clients, Stash(c)
    PROVE  StmtInv'
  <1> DEFINE i == task[c].id
             q == task[c].call.sql
             s == [sql |-> q, fetched |-> FALSE, cursor |-> << >>]
             m == [id |-> i, sql |-> q, got |-> << >>]
  <1>1. /\ UNCHANGED <<rows, nextStmt>> /\ Back(c) /\ locks.stmts = None
        /\ stmts' = Put(stmts, i, s) /\ mine' = [mine EXCEPT ![c] = m]
        /\ task[c].pc = "stash"
    BY DEF Stash, At
  <1>2. /\ i \in Nat /\ 0 < i /\ i < nextStmt /\ i \notin DOMAIN stmts
        /\ \A d \in Clients : mine[d].id # i
        /\ \A d \in Clients \ {c} : task[d].pc = "stash" => task[d].id # i
    BY <1>1 DEF StmtInv, Drawn
  <1>3. /\ IsMine(m) /\ m.id = i /\ m.sql = q /\ m.got = << >>
        /\ IsStmt(s) /\ s.sql = q /\ s.fetched = FALSE
    BY DEF IsMine, IsStmt
  <1> HIDE DEF m, s, i, q
  <1>4. /\ DOMAIN stmts' = DOMAIN stmts \cup {i} /\ stmts'[i] = s
        /\ \A j \in DOMAIN stmts : j # i => stmts'[j] = stmts[j]
        /\ DOMAIN mine' = Clients /\ mine'[c] = m /\ \A d \in Clients \ {c} : mine'[d] = mine[d]
    BY <1>1 DEF Put, StmtInv, EngineShape
  <1>5. /\ task'[c].pc = "idle" /\ \A d \in Clients \ {c} : task'[d] = task[d]
        /\ DOMAIN locks' = {"conn", "stmts", "verifier"}
    BY <1>1, BackTask
  <1>6. EngineShape'
    BY <1>1, <1>2, <1>3, <1>4, <1>5 DEF StmtInv, EngineShape
  <1>7. Owned'
    BY <1>2, <1>3, <1>4 DEF StmtInv, Owned
  <1>8. Drawn'
    BY <1>1, <1>2, <1>3, <1>4, <1>5 DEF StmtInv, Drawn
  <1>9. Collecting'
    BY <1>1, <1>5, NoneCollects DEF Collecting
  <1>10. Reading'
    <2>1. Prefix(m, rows) /\ Reads(m, s, rows)
      <3>1. 0 \in 0..rows /\ 0 \in 0..0
        BY DEF StmtInv, EngineShape
      <3>2. IsSegment(Segment(q, 0, 0, 0), q, 0, 0, 0)
        BY SegmentSeq
      <3>3. Segment(q, 0, 0, 0) = << >>
        BY <3>2 DEF IsSegment
      <3> QED BY <1>3, <3>1, <3>3 DEF Prefix, Reads
    <2> QED BY <1>1, <1>2, <1>3, <1>4, <2>1 DEF StmtInv, Reading
  <1> QED BY <1>6, <1>7, <1>8, <1>9, <1>10 DEF StmtInv

(* The client takes a row off the cursor of its statement, s.               *)
LEMMA GotStmt ==
    ASSUME TrustInv, StmtInv, NEW c \in Clients, locks.stmts \in {None, c},
           mine[c].id \in DOMAIN stmts, NEW s, s.fetched, Reads(mine[c], s, rows),
           Got(c, s), Back(c), UNCHANGED <<rows, nextStmt>>
    PROVE  StmtInv'
  <1> DEFINE s2 == [s EXCEPT !.cursor = IF s.cursor = << >> THEN << >> ELSE Tail(s.cursor)]
             m == mine[c]
             m2 == [m EXCEPT !.got = IF s.cursor = << >> THEN m.got
                                     ELSE Append(m.got, Head(s.cursor))]
  <1>1. /\ Reads(m2, s2, rows) /\ Prefix(m2, rows) /\ s2.fetched
        /\ IsMine(m2) /\ m2.id = m.id
    BY GotReads DEF StmtInv, EngineShape
  <1>2. stmts' = Put(stmts, m.id, s2) /\ mine' = [mine EXCEPT ![c] = m2]
    BY DEF Got, StmtInv, EngineShape
  <1> HIDE DEF s2, m2
  <1>3. /\ DOMAIN stmts' = DOMAIN stmts /\ stmts'[m.id] = s2
        /\ \A j \in DOMAIN stmts : j # m.id => stmts'[j] = stmts[j]
        /\ DOMAIN mine' = Clients /\ mine'[c] = m2 /\ \A d \in Clients \ {c} : mine'[d] = mine[d]
        /\ \A d \in Clients : mine'[d].id = mine[d].id
    BY <1>1, <1>2 DEF Put, StmtInv, EngineShape
  <1>4. /\ task'[c].pc = "idle" /\ \A d \in Clients \ {c} : task'[d] = task[d]
        /\ DOMAIN locks' = {"conn", "stmts", "verifier"}
    BY BackTask
  <1>5. EngineShape'
    BY <1>1, <1>3, <1>4 DEF StmtInv, EngineShape
  <1>6. Owned'
    BY <1>3 DEF StmtInv, Owned
  <1>7. Drawn'
    BY <1>3, <1>4 DEF StmtInv, Drawn
  <1>8. Collecting'
    BY <1>4, NoneCollects DEF Collecting
  <1>9. Reading'
    <2>1. ASSUME NEW d \in Clients, d # c PROVE mine[d].id \in DOMAIN stmts => mine[d].id # m.id
      <3>1. mine[d].id = m.id => m.id = 0
        BY <2>1 DEF StmtInv, Owned
      <3>2. m.id # 0
        BY DEF StmtInv, EngineShape
      <3> QED BY <3>1, <3>2
    <2> QED BY <1>1, <1>3, <2>1 DEF StmtInv, Reading
  <1> QED BY <1>5, <1>6, <1>7, <1>8, <1>9 DEF StmtInv

LEMMA StepStmt ==
    ASSUME TrustInv, StmtInv, NEW c \in Clients, Step(c)
    PROVE  StmtInv'
  <1>1. UNCHANGED <<rows, nextStmt>> /\ locks.stmts = None
    BY DEF Step
  <1>2. CASE mine[c].id \notin DOMAIN stmts
    BY <1>1, <1>2, FrameStep DEF Step
  <1>3. CASE mine[c].id \in DOMAIN stmts /\ Fetched(c)
    <2>1. Got(c, stmts[mine[c].id]) /\ Back(c)
      BY <1>3 DEF Step
    <2>2. stmts[mine[c].id].fetched /\ Reads(mine[c], stmts[mine[c].id], rows)
      BY <1>3 DEF Fetched, StmtInv, Reading
    <2> QED BY <1>1, <1>3, <2>1, <2>2, GotStmt
  <1>4. CASE mine[c].id \in DOMAIN stmts /\ ~Fetched(c)
    <2>1. /\ locks' = [locks EXCEPT !.stmts = c] /\ Goto(c, "collect")
          /\ UNCHANGED <<stmts, mine>>
      BY <1>4 DEF Step
    <2>2. Leaves(c, "collect")
      BY <2>1, GotoLeaves
    <2>3. locks'.stmts = c /\ DOMAIN locks' = {"conn", "stmts", "verifier"}
      BY <2>1 DEF StmtInv, EngineShape
    <2>4. EngineShape' /\ Owned' /\ Reading'
      BY <1>1, <2>1, <2>3 DEF StmtInv, EngineShape, Owned, Reading
    <2>5. Drawn'
      BY <1>1, <2>1, <2>2 DEF StmtInv, Drawn, Leaves
    <2>6. Collecting'
      BY <1>1, <1>4, <2>1, <2>2, <2>3, NoneCollects DEF Collecting, Leaves, Fetched
    <2> QED BY <2>4, <2>5, <2>6 DEF StmtInv
  <1> QED BY <1>2, <1>3, <1>4

LEMMA CollectStmt ==
    ASSUME TrustInv, StmtInv, NEW c \in Clients, Collect(c)
    PROVE  StmtInv'
  <1> DEFINE m == mine[c]
             s == stmts[m.id]
             w == [s EXCEPT !.fetched = TRUE, !.cursor = Rows(s.sql)]
  <1>1. UNCHANGED <<rows, nextStmt>> /\ Back(c) /\ task[c].pc = "collect"
    BY DEF Collect, At
  <1>2. locks.stmts = c /\ m.id \in DOMAIN stmts /\ ~s.fetched
    BY <1>1 DEF StmtInv, Collecting
  <1>3. CASE UNCHANGED <<stmts, mine>>
    BY <1>1, <1>3, FrameStep
  <1>4. CASE Got(c, w)
    <2>1. IsStmt(s) /\ s.sql = m.sql /\ m.got = << >>
      BY <1>2 DEF StmtInv, Reading, Reads
    <2>2. IsStmt(w) /\ w.sql = m.sql /\ w.fetched = TRUE /\ w.cursor = Rows(m.sql)
      BY <2>1 DEF IsStmt
    <2>3. Got(c, w)
      BY <1>4
    <2> HIDE DEF w, s, m
    <2>4. PICK r \in Nat : r = rows
      BY DEF StmtInv, EngineShape
    <2>5. Rows(m.sql) = Segment(m.sql, rows, 0, rows) /\ Segment(m.sql, rows, 0, 0) = << >>
      BY <2>4, SegmentRows
    <2>6. r \in 0..r /\ 0 \in 0..r /\ r - 0 = r
      OBVIOUS
    <2>7. Reads(m, w, rows)
      BY <2>1, <2>2, <2>4, <2>5, <2>6 DEF Reads
    <2> QED BY <1>1, <1>2, <2>2, <2>3, <2>7, GotStmt DEF m
  <1> QED BY <1>3, <1>4 DEF Collect

LEMMA FinalizeStmt ==
    ASSUME TrustInv, StmtInv, NEW c \in Clients, Finalize(c)
    PROVE  StmtInv'
  <1> DEFINE i == mine[c].id
             m == [mine[c] EXCEPT !.id = 0]
  <1>1. /\ UNCHANGED <<rows, nextStmt>> /\ Back(c) /\ locks.stmts = None
        /\ stmts' = Drop(stmts, i) /\ mine' = [mine EXCEPT ![c] = m]
    BY DEF Finalize
  <1>2. IsMine(m) /\ m.id = 0 /\ m.sql = mine[c].sql /\ m.got = mine[c].got
    BY DEF StmtInv, EngineShape, IsMine
  <1> HIDE DEF m, i
  <1>3. /\ DOMAIN stmts' = DOMAIN stmts \ {i} /\ \A j \in DOMAIN stmts' : stmts'[j] = stmts[j]
        /\ DOMAIN mine' = Clients /\ mine'[c] = m /\ \A d \in Clients \ {c} : mine'[d] = mine[d]
    BY <1>1 DEF Drop, StmtInv, EngineShape
  <1>4. /\ task'[c].pc = "idle" /\ \A d \in Clients \ {c} : task'[d] = task[d]
        /\ DOMAIN locks' = {"conn", "stmts", "verifier"}
    BY <1>1, BackTask
  <1>5. EngineShape'
    BY <1>1, <1>2, <1>3, <1>4 DEF StmtInv, EngineShape
  <1>6. Owned'
    BY <1>2, <1>3 DEF StmtInv, Owned
  <1>7. Drawn'
    BY <1>1, <1>2, <1>3, <1>4 DEF StmtInv, Drawn
  <1>8. Collecting'
    BY <1>1, <1>4, NoneCollects DEF Collecting
  <1>9. Reading'
    <2>1. Prefix(m, rows) /\ 0 \notin DOMAIN stmts
      BY <1>2 DEF StmtInv, EngineShape, Reading, Prefix
    <2> QED BY <1>1, <1>2, <1>3, <2>1 DEF StmtInv, Reading
  <1> QED BY <1>5, <1>6, <1>7, <1>8, <1>9 DEF StmtInv

LEMMA StatementStmt ==
    ASSUME TrustInv, StmtInv, NEW c \in Clients, Statements(c)
    PROVE  StmtInv'
  <1>1. CASE NotConnected(c)
    BY <1>1, FrameStep DEF NotConnected
  <1>2. CASE LockConn(c)
    <2>1. Leaves(c, "run")
      BY <1>2, GotoLeaves DEF LockConn
    <2> QED BY <1>2, <2>1, FrameStep DEF LockConn
  <1>3. CASE Validate(c)
    <2>1. Back(c) \/ Leaves(c, "validate") \/ Leaves(c, "number")
      BY <1>3, GotoLeaves DEF Validate
    <2> QED BY <1>3, <2>1, FrameStep DEF Validate, Validated
  <1> QED BY <1>1, <1>2, <1>3, ExecuteStmt, NumberStmt, StashStmt, StepStmt, CollectStmt,
             FinalizeStmt DEF Statements

LEMMA StmtStep == TrustInv /\ StmtInv /\ [Next]_vars => StmtInv'
  <1> SUFFICES ASSUME TrustInv, StmtInv, [Next]_vars PROVE StmtInv'
    OBVIOUS
  <1>1. CASE UNCHANGED <<task, engine>>
    BY <1>1 DEF engine, StmtInv, EngineShape, Owned, Drawn, Collecting, Reading
  <1>2. ASSUME NEW c \in Clients, set_trust_policy(c) \/ Edit(c) \/ Store(c) PROVE StmtInv'
    BY <1>1, <1>2 DEF set_trust_policy, Edit, Store
  <1>3. ASSUME NEW c \in Clients, ClientStep(c) PROVE StmtInv'
    BY <1>3, CallStmt, RegisterStmt, ResolveStmt, StatementStmt DEF ClientStep, Statements
  <1> QED BY <1>1, <1>2, <1>3 DEF Next, vars

(* The invariant of the statement table holds in every reachable state.     *)
THEOREM StmtInvHolds == Spec => []StmtInv
  <1>1. TrustInv /\ StmtInv /\ [Next]_vars => TrustInv' /\ StmtInv'
    BY TrustStep, StmtStep
  <1> QED BY <1>1, TrustInit, StmtInit, PTL DEF Spec

(* The rows a client has stepped through are the first rows, in order, of   *)
(* its own query as the database was at one moment, whatever other clients  *)
(* of sqlite_runtime_invoke write, prepare, step and finalize.              *)
THEOREM OwnRowsHolds == Spec => []OwnRows
  <1>1. ASSUME StmtInv PROVE OwnRows
    <2> SUFFICES ASSUME NEW c \in Clients
                 PROVE  \E at \in 0..rows :
                           /\ Len(mine[c].got) <= at
                           /\ \A n \in DOMAIN mine[c].got :
                                 mine[c].got[n] = [sql |-> mine[c].sql, at |-> at, n |-> n]
      BY DEF OwnRows
    <2>1. PICK at \in 0..rows : \E k \in 0..at : mine[c].got = Segment(mine[c].sql, at, 0, k)
      BY <1>1 DEF StmtInv, Reading, Prefix
    <2>2. PICK k \in 0..at : mine[c].got = Segment(mine[c].sql, at, 0, k)
      BY <2>1
    <2>3. k \in Nat /\ k <= at
      BY <1>1 DEF StmtInv, EngineShape
    <2>4. IsSegment(mine[c].got, mine[c].sql, at, 0, k)
      BY <2>2, <2>3, SegmentSeq
    <2>5. Len(mine[c].got) = k /\ DOMAIN mine[c].got = 1..k
      BY <2>3, <2>4 DEF IsSegment
    <2>6. \A n \in 1..k : 0 + n = n
      BY <2>3
    <2>7. \A n \in 1..k : mine[c].got[n] = Row(mine[c].sql, at, n)
      BY <2>4, <2>6 DEF IsSegment
    <2> QED BY <2>3, <2>5, <2>7 DEF Row
  <1> QED BY <1>1, StmtInvHolds, PTL
=============================================================================
