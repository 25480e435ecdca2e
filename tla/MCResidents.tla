---------------------------- MODULE MCResidents ----------------------------
(* Residents with a loading tool, a network extension, a provider of its   *)
(* own store per call, and two sub-extensions that share one provider.      *)
EXTENDS Residents

MCExts == {"meta", "net", "file", "core", "topo"}
MCShape == [e \in MCExts |-> CASE e = "topo" -> "bridge" [] e = "file" -> "component" [] OTHER -> "provider"]
MCImports == [e \in MCExts |->
    CASE e = "meta" -> {"stdout", "loader"}
      [] e = "net" -> {"http", "dns", "linker"}
      [] e = "core" -> {"s3", "spi", "session"}
      [] e = "topo" -> {"linker"}
      [] OTHER -> {}]
MCLinks == [e \in MCExts |->
    CASE e = "net" -> {Plain("file")}
      [] e = "topo" -> {sub_ext_provider_id("core")}
      [] OTHER -> {}]
MCBridges == {"topo"}
MCAlias == [e \in {"topo"} |-> "core"]
MCPrebuilt == {"core"}
To(s) == [surface |-> s, host |-> "h", method |-> "GET"]
MCRequests == {To("http"), To("dns"), To("s3")}
Some == [hosts |-> {"h"}, methods |-> {"GET"}, domains |-> {"h"}, s3 |-> TRUE]
MCLoads == [ext : {"meta", "net", "topo"}, policy : {Some}] \cup {[ext |-> "net", policy |-> NoGrant]}
=============================================================================
