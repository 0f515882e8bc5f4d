------------------------------ MODULE MCDeployment ------------------------------
(* Run configurations with two database machines, a proxy and a runner.       *)
EXTENDS Deployment

Preset(kind, features) ==
  [kind |-> kind, topologies |-> {kind}, preset |-> FALSE, features |-> features,
   counts |-> <<1, 1>>, proxies |-> 1, machines |-> <<>>, script |-> ""]

(* The machines are listed by hand, and the proxy is forgotten.               *)
ByHand ==
  [Preset("postgres", {"proxy"}) EXCEPT
     !.machines = <<[role |-> "database", count |-> 2], [role |-> "stroppy", count |-> 1]>>]

(* A topology without machine counts.                                         *)
EmptyDef == { [Preset("postgres", {}) EXCEPT !.counts = <<0>>] }

(* A preset that gave the run no topology.                                    *)
Unresolved == [Preset("mysql", {}) EXCEPT !.topologies = {}, !.preset = TRUE]

Runner == {<<"stroppy", 1>>}

ConfigsDef ==
  { Preset("postgres", {"etcd", "patroni"}),
    Preset("postgres", {"pgbouncer"}),
    Preset("mysql", {"proxy"}),
    Preset("mysql", {"group"}),
    [Preset("picodata", {"proxy"}) EXCEPT !.counts = <<2>>],
    [Preset("ydb", {"proxy"}) EXCEPT !.counts = <<2, 1>>],
    ByHand, Unresolved } \cup EmptyDef
================================================================================
