----------------------------- MODULE MCProviders -----------------------------
(* The provider table with three clients: one registers, resolves or fetches,  *)
(* the others change policies, files and the store under it; and three that  *)
(* share the statements of the built-in provider.                            *)
EXTENDS Providers

CONSTANTS a, b2, c3, good, other, lib, ours, theirs, text, k1, k2, uri, q1, q2

mc_Clients == {a, b2, c3}
mc_Contents == {good, other}
mc_Paths == {lib}
mc_Tenants == {ours, theirs}
mc_Ids == {text, SqliteRuntime}
mc_Keys == {k1, k2}

Policy(kind, allow, anchors) == [kind |-> kind, allow |-> allow, anchors |-> anchors]
Open == Policy("AllowAll", {}, << >>)
Deny == Policy("DenyAll", {}, << >>)
Listed == Policy("DigestAllowlist", {Digest("blake3", good), Digest("sha256", other)}, << >>)
Signed == Policy("Ed25519Signed", {}, <<k1, k2>>)
mc_Policies == {Open, Deny, Listed, Signed}

Sig(k, of) == [by |-> k, of |-> of, whole |-> TRUE]
File(x, sig) == [bytes |-> x, sig |-> sig]
mc_FirstFiles == [p \in Paths |-> File(good, Sig(k2, good))]

Set(p) == [op |-> "policy", policy |-> p]
Write(x, sig) == [op |-> "edit", path |-> lib, file |-> File(x, sig)]
PutIn(x) == [op |-> "put", bytes |-> x, uri |-> uri]
Evict(x) == [op |-> "evict", bytes |-> x]
Register(t, async, tokio) ==
    [op |-> "register", tenant |-> t, id |-> text, path |-> lib, async |-> async, tokio |-> tokio]
Resolve(t) == [op |-> "resolve", tenant |-> t, id |-> text]
ByDigest(alg, x) == [op |-> "digest", digest |-> Digest(alg, x)]
Load(scheme, name) == [op |-> "load", scheme |-> scheme, name |-> name]
Fetch(u, x, sources) == [op |-> "fetch", uri |-> u, expected |-> x, sources |-> sources]
Local == [kind |-> "local", path |-> lib]
Hash(x) == [kind |-> "blake3", of |-> x]
Https == [kind |-> "https"]
Custom == [kind |-> "custom"]
Runtime(op) == [op |-> op, key |-> "lua", path |-> lib]
Connect == [op |-> "resolve", tenant |-> ours, id |-> SqliteRuntime]
Do(op) == [op |-> op]
Prepare(q) == [op |-> "prepare", sql |-> q]

(* Registrations, against a changing policy, file and sidecar.              *)
Registering == {<<Register(t, y[1], y[2]), Resolve(ours)>> :
                    t \in Tenants, y \in {<<FALSE, FALSE>>, <<FALSE, TRUE>>, <<TRUE, TRUE>>}}
               \cup {<<Register(ours, TRUE, FALSE), Register(theirs, FALSE, FALSE)>>}
Changing ==
    {<<Set(Signed), Register(ours, TRUE, FALSE), Write(other, Sig(k1, good))>>,
     <<Set(Signed), Write(other, Sig(k1, other)), Write(other, None)>>,
     <<Set(Listed), Write(other, None), Set(Deny)>>,
     <<Set(Deny), Set(Listed), Write(other, Sig(k1, other)), Set(Signed)>>,
     <<Set(Signed), Write(good, [Sig(k1, good) EXCEPT !.whole = FALSE]), Resolve(theirs)>>}

(* Names, hashes and runtimes, against a changing store and file.           *)
Naming ==
    {<<ByDigest("blake3", good), ByDigest("sha256", other)>>,
     <<Load("digest", Digest("sha256", good)), Load("file", lib), Load("https", uri)>>,
     <<Fetch(uri, good, <<Custom, Https, Local, Hash(other)>>), Fetch(uri, None, <<Local>>)>>,
     <<Fetch(None, other, <<Local>>), Fetch(uri, other, <<Hash(good), Local>>)>>,
     <<Runtime("register_runtime"), Runtime("run_source"), Runtime("unregister_runtime")>>}
Storing ==
    {<<PutIn(good), Set(Listed), Evict(good), PutIn(other), Set(Deny)>>,
     <<Write(other, None), PutIn(other), Set(Signed), Fetch(uri, good, << >>)>>,
     <<Runtime("register_runtime"), Write(other, None), Runtime("run_source")>>}

(* Statements.                                                              *)
Reading == {<<Connect, Prepare(q1), Do("finalize"), Prepare(q1), Do("step"), Do("step")>>,
            <<Connect, Do("execute"), Prepare(q1), Do("step"), Do("execute"), Do("step")>>}
Sharing == {<<Connect, Prepare(q2), Do("step"), Do("step"), Do("finalize"), Do("step")>>,
            <<Connect, Prepare(q2), Do("step"), Do("execute"), Do("step")>>,
            <<[Connect EXCEPT !.tenant = theirs], Prepare(q2), Do("execute")>>}

(* A third client now and then.                                              *)
Third == {<<Register(theirs, TRUE, FALSE)>>, <<Set(Open)>>}
Writer == <<Connect, Do("execute"), Do("execute")>>

Three(s, t, u) == [c \in Clients |-> IF c = a THEN s ELSE IF c = b2 THEN t ELSE u]
mc_Programs ==
    {Three(s, t, << >>) : s \in Registering, t \in Changing} \cup
    {Three(<<Register(ours, TRUE, TRUE)>>, t, u) : t \in Changing, u \in Third} \cup
    {Three(s, t, << >>) : s \in Naming, t \in Storing} \cup
    {Three(s, t, Writer) : s \in Reading, t \in Sharing}
=============================================================================
