----------------------------- MODULE Residents -----------------------------
(***************************************************************************)
(* Resident providers (host/src/compose_provider.rs): the one warm store of  *)
(* each loaded extension, the calls that queue for it, what the extension    *)
(* does while it runs (calls other providers, loads extensions, uses its     *)
(* SQL connection and its sessions, sends requests), and the endpoints that  *)
(* all extensions of the process share for their requests.                   *)
(*                                                                           *)
(* Abstractions.  A cell is one ProviderHandle with its resident slot, or    *)
(* one dynlink bridge; a load makes new ones.  The guest's memory is a       *)
(* counter, read when a call enters and written when it returns, so that     *)
(* calls that overlapped or a store that was made twice would show.  A       *)
(* request is [surface, host, method]; payloads, SQL and the encodings are   *)
(* left out.  The guest (external) may do at any time what its imports let   *)
(* it do, at most MaxOps times in a behaviour; MaxFaults bounds what fails.  *)
(* Unloading is in HostRegistry; describing without loading is a load that   *)
(* fails, as far as this state goes.                                         *)
(***************************************************************************)
EXTENDS Naturals, Sequences, FiniteSets

CONSTANTS
    Callers,        \* dispatches that may be under way at a time
    Exts,           \* what can be loaded
    Shape,          \* Shape[e]: provider, bridge or component
    Imports,        \* Imports[e]: the host surfaces e imports
    Links,          \* Links[e]: the provider ids e resolves
    Bridges,        \* Bridges[e]: e when it is a sub-extension with a bridge
    Alias,          \* shim_aliases: sub-extension -> the one it shares
    Prebuilt,       \* sub-extensions with a prebuilt provider
    Loads,          \* [ext, policy] the operator may ask for
    Requests,       \* what a guest may ask for
    Names,          \* names of sessions
    MaxCells, MaxOps, MaxFaults,
    None

(* Provider ids: `ext:<name>` and `<name>-composed`.                        *)
Plain(e) == <<"ext", e>>
sub_ext_provider_id(e) == <<"composed", e>>
Ids == {"ext", "composed"} \X Exts

Surfaces == {"linker", "spi", "session", "loader", "stdout",
             "http", "dns", "s3", "compression", "wal"}
Shared == {"http", "s3", "compression"}     \* surfaces served by an endpoint
Grant == [hosts : SUBSET {r.host : r \in Requests}, methods : SUBSET {r.method : r \in Requests},
          domains : SUBSET {r.host : r \in Requests}, s3 : BOOLEAN]
NoGrant == [hosts |-> {}, methods |-> {}, domains |-> {}, s3 |-> FALSE]

(* An extension never reaches itself through the providers it resolves: the *)
(* mutex of a resident is not reentrant.                                    *)
ASSUME ResidentsAssumption ==
    /\ Shape \in [Exts -> {"provider", "bridge", "component"}]
    /\ Imports \in [Exts -> SUBSET Surfaces]
    /\ Links \in [Exts -> SUBSET Ids]
    /\ Bridges \subseteq Exts /\ Prebuilt \subseteq Exts
    /\ DOMAIN Alias \subseteq Exts /\ \A e \in DOMAIN Alias : Alias[e] \in Exts
    /\ Loads \subseteq [ext : Exts, policy : Grant]
    /\ \A r \in Requests : r.surface \in {"http", "dns", "s3", "compression", "wal"}
    /\ {MaxCells, MaxOps, MaxFaults} \subseteq Nat
    /\ None \notin Callers

ASSUME LinksAreAcyclic ==
    \E rank \in [Exts -> 0..Cardinality(Exts)] :
        \A e \in Exts : \A id \in Links[e] : rank[id[2]] < rank[e]

VARIABLES
    cells,      \* every provider handle and bridge ever made
    reg,        \* compose_providers, provider_backed and dynlink_bridges: id -> cell
    stack,      \* stack[c]: the calls of dispatch c, innermost first
    endpoint,   \* endpoint[s]: the process-wide OnceCell of surface s
    sent,       \* requests that left the process: [by, req]
    ops, faults,
    \* history
    granted     \* [ext, policy] of every load the operator asked for

vars == <<cells, reg, stack, endpoint, sent, ops, faults, granted>>

Put(f, k, v) == [x \in DOMAIN f \cup {k} |-> IF x = k THEN v ELSE f[x]]

(* The store of a handle: none yet (cold), made (warm), or left by a trap   *)
(* (dead).  served counts, beside the guest's own count, what it answered.  *)
Cell(e, kind, p) ==
    [ext |-> e, kind |-> kind, grant |-> p, inst |-> "cold", holder |-> None,
     count |-> 0, served |-> 0, conn |-> 0, sess |-> [n \in Names |-> 0], live |-> {}]

(* A call: the linker its store is made with, and where it is.  A store     *)
(* with nothing but WASI, or for one dot command, is of this call alone.    *)
Fresh == {"wasi", "cli"}
Frame(k, link) == [cell |-> k, link |-> link, pc |-> IF link \in Fresh THEN "make" ELSE "lock",
                   n |-> 0, id |-> <<>>, req |-> None]

Init ==
    /\ cells = <<>>
    /\ reg = <<>>
    /\ stack = [c \in Callers |-> <<>>]
    /\ endpoint = [s \in Shared |-> [state |-> "cold", by |-> None]]
    /\ sent = {}
    /\ ops = 0 /\ faults = 0
    /\ granted = {}
-----------------------------------------------------------------------------
(* The call on top, and what becomes of it.                                 *)
Top(c) == Head(stack[c])
At(c, pc) == stack[c] # <<>> /\ Top(c).pc = pc
Become(c, f) == stack' = [stack EXCEPT ![c] = <<f>> \o Tail(stack[c])]
Goto(c, pc) == Become(c, [Top(c) EXCEPT !.pc = pc])
Push(c, f) == stack' = [stack EXCEPT ![c] = <<f>> \o stack[c]]

Here(c) == cells[Top(c).cell]
Guest(c, surface) == At(c, "run") /\ surface \in Imports[Here(c).ext] /\ ops < MaxOps
With(c, s) == [cells EXCEPT ![Top(c).cell] = s]     \* its cell changed to s
Own(c, surface) == Guest(c, surface) /\ Top(c).link \notin Fresh

(* invoke_cli drives a component that imports cli-stdout in a store of its  *)
(* own; a provider registered from a file never has a lasting one.          *)
is_resident(k) == cells[k].kind = "resident"
is_streaming_cli(k) == cells[k].kind # "bridge" /\ "stdout" \in Imports[cells[k].ext]

invoke(k) == Frame(k, IF cells[k].kind = "component" THEN "wasi" ELSE cells[k].kind)
invoke_cli(k) == IF is_streaming_cli(k) THEN Frame(k, "cli") ELSE invoke(k)

(* The end of the call on top: its lock is released, and when it was the    *)
(* describe of a load, the load registers what it described, or fails.      *)
Registered(r, id, k) == Put(r, id, k)

Release(c, k) == IF cells[k].holder = c THEN None ELSE cells[k].holder

End_always(c, ok) ==
    LET rest == Tail(stack[c])
        load == rest # <<>> /\ Head(rest).pc = "load" IN
    /\ stack' = [stack EXCEPT ![c] = IF load THEN Tail(rest) ELSE rest]
    /\ reg' = IF load THEN Registered(reg, Head(rest).id, Head(rest).cell) ELSE reg

End(c, ok) ==
    LET rest == Tail(stack[c])
        load == rest # <<>> /\ Head(rest).pc = "load" IN
    /\ stack' = [stack EXCEPT ![c] = IF load THEN Tail(rest) ELSE rest]
    /\ reg' = IF load /\ ok THEN Registered(reg, Head(rest).id, Head(rest).cell) ELSE reg
-----------------------------------------------------------------------------
(* Loading.  A provider is described through invoke_cli before it is        *)
(* registered; a bridge is instantiated for that.                           *)
Kind(e) == IF Shape[e] = "bridge" THEN "bridge" ELSE "resident"
Describing(e, k) == <<Frame(k, IF Kind(e) = "resident" /\ "stdout" \in Imports[e] THEN "cli" ELSE Kind(e)),
                      [Frame(k, Kind(e)) EXCEPT !.pc = "load", !.id = Plain(e)]>>

(* shim_alias is followed for at most eight hops.                           *)
resolve_shim_alias(e) ==
    LET hop == [x \in Exts |-> IF x \in DOMAIN Alias THEN Alias[x] ELSE x]
        two == [x \in Exts |-> hop[hop[x]]]
        four == [x \in Exts |-> two[two[x]]]
    IN four[four[e]]
has_bridge(e) == e \in Bridges \cup Prebuilt

(* .load of a sub-extension: its prebuilt is registered first, as a new     *)
(* provider under the shared id, with the grants of this load; then the     *)
(* bridge, or the prebuilt itself, is loaded like any component.            *)
Composed(e, p) ==
    LET up == resolve_shim_alias(e) IN
    IF has_bridge(e) /\ up \in Prebuilt THEN <<Cell(up, "resident", p)>> ELSE <<>>

load_extension(c, e, p) ==
    LET pre == Composed(e, p)
        k == Len(cells) + Len(pre) + 1
        id == sub_ext_provider_id(resolve_shim_alias(e)) IN
    /\ stack[c] = <<>> /\ ops < MaxOps /\ k <= MaxCells
    /\ Shape[e] # "component"
    /\ cells' = (cells \o pre) \o <<Cell(e, Kind(e), IF Shape[e] = "bridge" THEN NoGrant ELSE p)>>
    /\ reg' = IF pre = <<>> THEN reg ELSE Registered(reg, id, Len(cells) + 1)
    /\ stack' = [stack EXCEPT ![c] = Describing(e, k)]
    /\ granted' = granted \cup {[ext |-> resolve_shim_alias(e), policy |-> p], [ext |-> e, policy |-> p]}
    /\ ops' = ops + 1
    /\ UNCHANGED <<endpoint, sent, faults>>

(* A provider registered from a file (Providers has its checks): compiled   *)
(* now, a fresh store at every call, no surface but WASI.                   *)
register_wasm_provider(e) ==
    /\ Shape[e] = "component" /\ Plain(e) \notin DOMAIN reg
    /\ Len(cells) < MaxCells /\ ops < MaxOps
    /\ cells' = Append(cells, Cell(e, "component", NoGrant))
    /\ reg' = Registered(reg, Plain(e), Len(cells) + 1)
    /\ ops' = ops + 1
    /\ UNCHANGED <<stack, endpoint, sent, faults, granted>>

(* loader-bridge.load-extension-from-bytes, called by a running guest: the  *)
(* same load, of a provider, without grants.                                *)
BytesGrant_inherited(c) == Here(c).grant
BytesGrant(c) == NoGrant

load_extension_from_bytes(c, e) ==
    LET k == Len(cells) + 1 IN
    /\ Guest(c, "loader") /\ is_resident(Top(c).cell)
    /\ Shape[e] = "provider" /\ k <= MaxCells
    /\ cells' = Append(cells, Cell(e, "resident", BytesGrant(c)))
    /\ stack' = [stack EXCEPT ![c] = Describing(e, k) \o stack[c]]
    /\ ops' = ops + 1
    /\ UNCHANGED <<reg, endpoint, sent, faults, granted>>

(* A call of the host: a function, a hook, a table (invoke), or a dot       *)
(* command (invoke_cli).                                                    *)
Dispatched(c, e) == stack[c] = <<>> /\ ops < MaxOps /\ Plain(e) \in DOMAIN reg

try_provider_invoke(c, e) ==
    /\ Dispatched(c, e)
    /\ Push(c, invoke(reg[Plain(e)]))
    /\ ops' = ops + 1
    /\ UNCHANGED <<cells, reg, endpoint, sent, faults, granted>>

dispatch_dot_command(c, e) ==
    /\ Dispatched(c, e) /\ is_streaming_cli(reg[Plain(e)])
    /\ Push(c, invoke_cli(reg[Plain(e)]))
    /\ ops' = ops + 1
    /\ UNCHANGED <<cells, reg, endpoint, sent, faults, granted>>
-----------------------------------------------------------------------------
(* resident_wasm_component_invoke.  The lock is held to the end of the      *)
(* call; the store is made by the first call that finds none, and the       *)
(* engine refuses a store that trapped.                                     *)
Entered(c, n) == Become(c, [Top(c) EXCEPT !.pc = "run", !.n = n])
Locked_not(c) == cells
Locked(c) == With(c, [Here(c) EXCEPT !.holder = c])

Acquire(c) ==
    /\ At(c, "lock") /\ Here(c).holder = None
    /\ CASE Here(c).inst = "cold" -> Goto(c, "make") /\ cells' = Locked(c) /\ UNCHANGED reg
         [] Here(c).inst = "warm" -> Entered(c, Here(c).count) /\ cells' = Locked(c) /\ UNCHANGED reg
         [] Here(c).inst = "dead" -> End(c, FALSE) /\ UNCHANGED cells
    /\ UNCHANGED <<endpoint, sent, ops, faults, granted>>

(* What each linker offers; a component that imports more does not start.   *)
WasiLinked == {}
BridgeLinked == {"linker"}
CliLinked == {"stdout", "spi", "loader"}
ResidentLinked == Surfaces
Linked == [wasi |-> WasiLinked, bridge |-> BridgeLinked, cli |-> CliLinked, resident |-> ResidentLinked]
CanLink(c) == Imports[Here(c).ext] \subseteq Linked[Top(c).link]

Instantiate(c) ==
    /\ At(c, "make")
    /\ CanLink(c)
    /\ cells' = IF Top(c).link \in Fresh THEN cells
                ELSE With(c, [Here(c) EXCEPT !.inst = "warm", !.count = 0])
    /\ Entered(c, 0)
    /\ UNCHANGED <<reg, endpoint, sent, ops, faults, granted>>

(* Linking or instantiation fails: the slot stays empty.                    *)
InstantiateFails(c) ==
    /\ At(c, "make")
    /\ \/ ~CanLink(c) /\ faults' = faults
       \/ faults < MaxFaults /\ faults' = faults + 1
    /\ End(c, FALSE)
    /\ cells' = With(c, [Here(c) EXCEPT !.holder = Release(c, Top(c).cell)])
    /\ UNCHANGED <<endpoint, sent, ops, granted>>

(* The guest returns a result or an error of its own.                       *)
Return(c, ok) ==
    /\ At(c, "run")
    /\ End(c, ok)
    /\ cells' = IF Top(c).link \in Fresh THEN cells
                ELSE With(c, [Here(c) EXCEPT !.count = Top(c).n + 1, !.served = Here(c).served + 1,
                                             !.holder = Release(c, Top(c).cell)])
    /\ UNCHANGED <<endpoint, sent, ops, faults, granted>>

Trap(c) ==
    /\ At(c, "run") /\ faults < MaxFaults
    /\ End(c, FALSE)
    /\ cells' = IF Top(c).link \in Fresh THEN cells
                ELSE With(c, [Here(c) EXCEPT !.inst = "dead", !.holder = Release(c, Top(c).cell)])
    /\ faults' = faults + 1
    /\ UNCHANGED <<endpoint, sent, ops, granted>>

(* compose:dynlink/linker: the guest resolves an id and invokes what it     *)
(* finds, which keeps its store although the id may get another provider.   *)
resolve_and_invoke(c, id) ==
    /\ Own(c, "linker") /\ id \in Links[Here(c).ext] /\ id \in DOMAIN reg
    /\ Push(c, invoke(reg[id]))
    /\ ops' = ops + 1
    /\ UNCHANGED <<cells, reg, endpoint, sent, faults, granted>>
-----------------------------------------------------------------------------
(* The surfaces for requests.  Each checks what its own extension was       *)
(* granted before anything is sent; wal-frames is always refused.           *)
check_http_policy(p, r) == r.host \in p.hosts /\ r.method \in p.methods
check_dns_policy(p, r) == r.host \in p.domains
HttpHost(p, r) == check_http_policy(p, r)
DnsHost(p, r) == check_dns_policy(p, r)
S3BaseHost(p, r) == p.s3
CompressionHost(p, r) == TRUE
WalFramesHost(p, r) == FALSE

Gate(p, r) ==
    CASE r.surface = "http" -> HttpHost(p, r)
      [] r.surface = "dns" -> DnsHost(p, r)
      [] r.surface = "s3" -> S3BaseHost(p, r)
      [] r.surface = "compression" -> CompressionHost(p, r)
      [] r.surface = "wal" -> WalFramesHost(p, r)

(* What leaves the process, through the shared endpoint or (dns) directly;  *)
(* compression is computed in its endpoint.                                 *)
Sent(e, r) == {[by |-> e, req |-> r]}
http_request(e, r) == Sent(e, r)
net_http_handle(e, r) == http_request(e, r)
net_dns_resolve(e, r) == Sent(e, r)
s3_resident(e, r) == Sent(e, r)
s3_dispatch(e, r) == s3_resident(e, r)
compression_resident(e, r) == {}

Egress(e, r) ==
    CASE r.surface = "http" -> net_http_handle(e, r)
      [] r.surface = "dns" -> net_dns_resolve(e, r)
      [] r.surface = "s3" -> s3_dispatch(e, r)
      [] r.surface = "compression" -> compression_resident(e, r)

(* A refused request comes back to the guest as an error.                   *)
Request(c, r) ==
    /\ Own(c, r.surface)
    /\ ops' = ops + 1
    /\ IF Gate(Here(c).grant, r)
       THEN Become(c, [Top(c) EXCEPT !.req = r,
                                     !.pc = IF r.surface \in Shared THEN "provider" ELSE "send"])
       ELSE UNCHANGED stack
    /\ UNCHANGED <<cells, reg, endpoint, sent, faults, granted>>

(* provider(): OnceCell::get_or_try_init.  One caller builds, the others    *)
(* wait; after a failure the next one tries.                                *)
provider(c) ==
    LET s == Top(c).req.surface IN
    /\ At(c, "provider") /\ endpoint[s].state # "building"
    /\ IF endpoint[s].state = "warm"
       THEN Goto(c, "send") /\ UNCHANGED endpoint
       ELSE Goto(c, "build") /\ endpoint' = [endpoint EXCEPT ![s] = [state |-> "building", by |-> c]]
    /\ UNCHANGED <<cells, reg, sent, ops, faults, granted>>

build(c) ==
    /\ At(c, "build")
    /\ endpoint' = [endpoint EXCEPT ![Top(c).req.surface] = [state |-> "warm", by |-> None]]
    /\ Goto(c, "send")
    /\ UNCHANGED <<cells, reg, sent, ops, faults, granted>>

Emptied_not(s) == endpoint[s]
Emptied(s) == [state |-> "cold", by |-> None]

build_fails(c) ==
    /\ At(c, "build") /\ faults < MaxFaults
    /\ endpoint' = [endpoint EXCEPT ![Top(c).req.surface] = Emptied(Top(c).req.surface)]
    /\ Goto(c, "run")
    /\ faults' = faults + 1
    /\ UNCHANGED <<cells, reg, sent, ops, granted>>

Send(c) ==
    /\ At(c, "send")
    /\ sent' = sent \cup Egress(Here(c).ext, Top(c).req)
    /\ Goto(c, "run")
    /\ UNCHANGED <<cells, reg, endpoint, ops, faults, granted>>
-----------------------------------------------------------------------------
(* The provider's own SQL connection: opened at the first use, replaced by  *)
(* open_db.  Connections are numbered within the cell.                      *)
ensure_open(k) == IF cells[k].conn = 0 THEN 1 ELSE cells[k].conn

spi_execute(c) ==
    /\ Own(c, "spi") /\ Here(c).conn = 0
    /\ cells' = With(c, [Here(c) EXCEPT !.conn = ensure_open(Top(c).cell)])
    /\ ops' = ops + 1
    /\ UNCHANGED <<reg, stack, endpoint, sent, faults, granted>>

spi_open_db(c) ==
    /\ Own(c, "spi")
    /\ cells' = With(c, [Here(c) EXCEPT !.conn = Here(c).conn + 1])
    /\ ops' = ops + 1
    /\ UNCHANGED <<reg, stack, endpoint, sent, faults, granted>>

(* Sessions: live holds the ids sqlite3session_create gave out and          *)
(* sqlite3session_delete has not taken back.                                *)
MayCreate(s, n) == s.sess[n] = 0

Created(s, n, k, id) == [s EXCEPT !.conn = ensure_open(k), !.sess = [s.sess EXCEPT ![n] = id],
                                  !.live = s.live \cup {id}]
Deleted(s, n) == [s EXCEPT !.sess = [s.sess EXCEPT ![n] = 0], !.live = s.live \ {s.sess[n]}]

session_create(c, n) ==
    LET id == CHOOSE i \in 1..(MaxOps + 1) : i \notin Here(c).live IN
    /\ Own(c, "session")
    /\ cells' = IF MayCreate(Here(c), n) THEN With(c, Created(Here(c), n, Top(c).cell, id)) ELSE cells
    /\ ops' = ops + 1
    /\ UNCHANGED <<reg, stack, endpoint, sent, faults, granted>>

session_delete(c, n) ==
    /\ Own(c, "session") /\ Here(c).sess[n] # 0
    /\ cells' = With(c, Deleted(Here(c), n))
    /\ ops' = ops + 1
    /\ UNCHANGED <<reg, stack, endpoint, sent, faults, granted>>
-----------------------------------------------------------------------------
Step(c) ==
    \/ Acquire(c) \/ Instantiate(c) \/ InstantiateFails(c)
    \/ (\E ok \in BOOLEAN : Return(c, ok)) \/ Trap(c)
    \/ \E id \in Ids : resolve_and_invoke(c, id)
    \/ \E l \in Loads : load_extension_from_bytes(c, l.ext)
    \/ \E r \in Requests : Request(c, r)
    \/ provider(c) \/ build(c) \/ build_fails(c) \/ Send(c)
    \/ spi_execute(c) \/ spi_open_db(c)
    \/ \E n \in Names : session_create(c, n) \/ session_delete(c, n)

(* A caller has nothing to ask for.                                         *)
Quiet == (\E c \in Callers : stack[c] = <<>>) /\ UNCHANGED vars

Next ==
    \/ Quiet
    \/ \E c \in Callers : Step(c)
    \/ \E c \in Callers, l \in Loads : load_extension(c, l.ext, l.policy)
    \/ \E e \in Exts : register_wasm_provider(e)
    \/ \E c \in Callers, e \in Exts : try_provider_invoke(c, e) \/ dispatch_dot_command(c, e)

(* The runtime drives every task that can go on, so does the engine a       *)
(* guest; the guest uses its imports finitely often and then returns.       *)
Spec == Init /\ [][Next]_vars /\ \A c \in Callers : WF_vars(Step(c))
-----------------------------------------------------------------------------
TypeOK ==
    /\ \A k \in 1..Len(cells) :
        /\ cells[k].ext \in Exts
        /\ cells[k].kind \in {"resident", "bridge", "component"}
        /\ cells[k].grant \in {l.policy : l \in Loads} \cup {NoGrant}
        /\ cells[k].inst \in {"cold", "warm", "dead"}
        /\ cells[k].holder \in Callers \cup {None}
    /\ DOMAIN reg \subseteq Ids /\ \A id \in DOMAIN reg : reg[id] \in 1..Len(cells)
    /\ \A s \in Shared : endpoint[s].state \in {"cold", "building", "warm"}
    /\ ops \in 0..MaxOps /\ faults \in 0..MaxFaults

(* A resident keeps its memory: whatever callers, nested calls and failures *)
(* there were, its guest has counted every call it ever answered, once.     *)
(* Two calls in one store at a time, or a store made a second time, would   *)
(* lose accumulators and cursors.                                           *)
MemoryIsKept == \A k \in 1..Len(cells) : cells[k].count = cells[k].served

(* What leaves the process was granted: a request sent for an extension is  *)
(* one that a load of that extension by the operator allowed, although the  *)
(* endpoint was warmed by another extension, although extensions load       *)
(* extensions, and although the same name is loaded with other grants.      *)
EgressWasGranted ==
    \A m \in sent :
        \E g \in granted :
            /\ g.ext = m.by
            /\ CASE m.req.surface = "http" -> m.req.host \in g.policy.hosts /\ m.req.method \in g.policy.methods
                 [] m.req.surface = "dns" -> m.req.host \in g.policy.domains
                 [] OTHER -> g.policy.s3

(* An extension that calls are dispatched to has described itself: a load   *)
(* that failed half-way registers nothing under the extension's name.       *)
RegisteredHasAnswered ==
    \A e \in Exts : Plain(e) \in DOMAIN reg =>
        LET k == reg[Plain(e)] IN
        cells[k].kind = "component" \/ "stdout" \in Imports[e] \/ cells[k].served > 0

(* Every session SQLite still has is reachable under exactly one name, so   *)
(* that session-delete can free it, and no name leads to a freed one.       *)
SessionsAccounted ==
    \A k \in 1..Len(cells) :
        /\ cells[k].live = {cells[k].sess[n] : n \in Names} \ {0}
        /\ \A m, n \in Names : m # n /\ cells[k].sess[m] # 0 => cells[k].sess[m] # cells[k].sess[n]

(* What a provider keeps between calls, in its guest and in the host, is    *)
(* neither lost nor orphaned by calls that overlap, nest and fail.          *)
StateIsKept == MemoryIsKept /\ SessionsAccounted

(* Every call returns: nested calls, loads from inside a call (of the same  *)
(* extension too), failed stores and failed endpoints leave no lock and no  *)
(* half-built endpoint behind that somebody waits for.                      *)
EveryCallReturns == \A c \in Callers : []<>(stack[c] = <<>>)

(* A second load of a sub-extension leaves the provider it shares alone, as *)
(* the comment in load_extension has it.                                    *)
SecondLoadIsNoOp ==
    [][\A id \in DOMAIN reg : id[1] = "composed" => reg'[id] = reg[id]]_vars
=============================================================================
