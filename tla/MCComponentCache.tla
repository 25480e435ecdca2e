-------------------------- MODULE MCComponentCache --------------------------
(* Two hosts of the same engine; the first runs two loads at once, the      *)
(* second has a capacity of zero.                                           *)
EXTENDS ComponentCache, TLC

CONSTANTS t1, t2, t3, s1, s2

MCHostOf == t1 :> "h1" @@ t2 :> "h1" @@ t3 :> "h2"
MCEngine == [h \in {"h1", "h2"} |-> "v1"]
MCCap1 == [h \in {"h1", "h2"} |-> IF h = "h1" THEN 2 ELSE 0]
MCSize == [d \in {"d1", "d2"} |-> IF d = "d1" THEN 1 ELSE 2]
MCForeignRows == {<<"d1", "v1">>}
Sym == Permutations({t1, t2}) \cup Permutations({s1, s2})
=============================================================================
