------------------------ MODULE MCLoadableExtension ------------------------
EXTENDS LoadableExtension

CONSTANTS c1, c2, p, b

MCConns == {c1, c2}
MCExts == {p, b}
MCBridged == {b}
(* The provider is found beside the component in the extension directory;   *)
(* the bridge only in the working directory.                                *)
MCFiles ==
    [e \in MCExts |-> [x \in {"path", "dir", "root", "cwd"} |->
        CASE e = p /\ x = "dir" -> {"provider", "component"}
          [] e = p /\ x = "root" -> {"component"}
          [] e = b /\ x = "cwd" -> {"bridge"}
          [] OTHER -> {}]]
MCEager == <<p>>
MCInitial == [c \in MCConns |-> IF c = c1 THEN <<1, 2>> ELSE <<7>>]

Attached == <<[op |-> "attach", ext |-> p]>>
Load(e, arg) == <<[op |-> "load", ext |-> e, arg |-> arg]>>
Call(e, fn, x) == <<[op |-> "scalar", ext |-> e, fn |-> fn, cell |-> x]>>
Do(op, e, slots, rows) == <<[op |-> op, ext |-> e, slots |-> slots, rows |-> rows]>>
Drops(e) == Do("drop", e, 0, 0)

(* What the two connections do.                                             *)
Pair(x, y) == [c \in MCConns |-> Attached \o (IF c = c1 THEN x ELSE y)]
MCPrograms ==
    {Pair(Do("window", p, 1, 2), <<>>), Pair(Do("group", p, 2, 2), <<>>),
     Pair(Do("group", p, 1, 1), Do("group", p, 1, 2)),
     Pair(Do("scan", p, 2, 0) \o Drops(p), <<>>),
     Pair(Do("scan", p, 1, 0), Do("scan", p, 1, 0) \o Drops(p)),
     Pair(Do("write", p, 0, 2) \o Do("scan", p, 1, 0), <<>>),
     Pair(Do("write", p, 0, 1), Do("write", p, 0, 1)),
     Pair(Load(p, "text") \o Do("group", b, 1, 1), Load(b, "blob") \o Do("scan", b, 1, 0))}
    \cup {Pair(Call(p, "echo", x), Load(b, "null") \o Call(b, "echo", x)) : x \in Cells}
    \cup {Pair(Call(p, f, "null"), Load(b, "null") \o Call(b, f, "null") \o Do("group", b, 1, 1)) :
             f \in {"make", "nan"}}
=============================================================================
