------------------------------ MODULE MCResources ------------------------------
(* Two database machines, a proxy and a runner; and a Picodata topology with  *)
(* two groups of instances.                                                   *)
EXTENDS RunResources

Topology(kind, features, counts) ==
  [kind |-> kind, topologies |-> {kind}, preset |-> FALSE, features |-> features,
   counts |-> counts, proxies |-> 1, machines |-> <<>>, script |-> ""]

UniformDef == { Topology("postgres", {}, <<1, 1>>), Topology("mysql", {"proxy"}, <<1>>) }
TieredDef  == { Topology("picodata", {}, <<1, 1>>) }
================================================================================
