--------------------------- MODULE MCHostRegistry ---------------------------
(* Three extensions; a and b share a sanitized prefix, whose first          *)
(* alternative is the prefix of c.                                          *)
EXTENDS HostRegistry

MCArtifact(e, v, kind, s, g, c, t, h) ==
    [ext |-> e, version |-> v, kind |-> kind, scalars |-> s, aggregates |-> g,
     collations |-> c, vtabs |-> t, hooks |-> h]

MCProviders ==
    {MCArtifact("a", 1, "provider", {"f"}, {}, {}, {}, {"authorizer"}),
     MCArtifact("a", 2, "provider", {"abs"}, {}, {}, {"t"}, {}),
     MCArtifact("c", 1, "provider", {}, {"g"}, {}, {}, {"authorizer"})}

MCBridges ==
    {MCArtifact("b", 1, "mutating", {"f"}, {}, {}, {"t"}, {}),
     MCArtifact("b", 2, "mutating", {}, {}, {"k"}, {"t"}, {})}

(* Two extensions with a scalar of the same name.                           *)
MCSameScalar ==
    {MCArtifact("a", 1, "provider", {"f"}, {}, {}, {}, {}),
     MCArtifact("b", 1, "bridge", {"f"}, {}, {}, {}, {})}

MCArtifacts == MCProviders \cup MCBridges
MCExts == {"a", "b", "c"}
MCBuiltins == {<<"fn", <<"abs">>>>, <<"coll", <<"NOCASE">>>>}
MCPrefixes == {"p", "p2"}
MCSanitize == [e \in MCExts |-> IF e = "c" THEN "p2" ELSE "p"]
MCAlias == [x \in MCPrefixes |-> IF x = "p" THEN <<"p2">> ELSE <<>>]
MCDatabases == {"d1", "d2"}
MCPrefixRows == [d \in MCDatabases |-> [x \in MCPrefixes |-> "none"]]
MCBusyExts == {"c"}
=============================================================================
