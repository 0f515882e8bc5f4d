-------------------------------- MODULE RunPlan --------------------------------
(******************************************************************************)
(* What a run configuration becomes: the machines, the phases with their      *)
(* dependencies, and the command each phase sends to which machines.          *)
(* A configuration is a record:                                               *)
(*   kind        the database to test                                         *)
(*   topologies  the kinds whose topology is set (one, when it is right)      *)
(*   preset      whether it names a preset, which may have no topology either *)
(*   features    the parts its topology switches on                           *)
(*   counts      the machine counts of its database specifications            *)
(*   proxies     the count of its proxy specification                         *)
(*   machines    explicit machine specifications, or <<>>                     *)
(*   script      the benchmark script, or "" for none                         *)
(* Sizes, options and rendered files are left out.                            *)
(******************************************************************************)
EXTENDS Integers, Sequences, FiniteSets, SequencesExt

Kinds == {"postgres", "mysql", "picodata", "ydb"}

(* Which databases a benchmark script runs on; unknown scripts run anywhere.  *)
ScriptKinds(script) ==
  IF script \in {"tpcc/procs", "tpcb/procs"} THEN {"postgres", "mysql"} ELSE Kinds

(* A topology of another kind is rejected, except a YDB one.                  *)
ValidConfig(cfg) ==
  /\ cfg.kind \in Kinds
  /\ cfg.topologies # {} \/ cfg.preset
  /\ cfg.topologies \ {cfg.kind, "ydb"} = {}
  /\ cfg.kind \in ScriptKinds(cfg.script)

HasTopology(cfg) == cfg.kind \in cfg.topologies

Needs(cfg, part) == HasTopology(cfg) /\ part \in cfg.features

NeedsEtcd(cfg)      == cfg.kind = "postgres" /\ Needs(cfg, "etcd")
NeedsPatroni(cfg)   == cfg.kind = "postgres" /\ Needs(cfg, "patroni")
NeedsPgBouncer(cfg) == cfg.kind = "postgres" /\ Needs(cfg, "pgbouncer")
NeedsProxy(cfg)     == Needs(cfg, "proxy")
NeedsYDBInit(cfg)   == cfg.kind = "ydb" /\ HasTopology(cfg)
--------------------------------------------------------------------------------
(* Machines.  A target is <<role, i>>, the name the server gives the machine. *)

Total(counts) == FoldLeft(LAMBDA a, b : a + b, 0, counts)
Largest(counts) == FoldLeft(LAMBDA a, b : IF a < b THEN b ELSE a, 0, counts)

DatabaseSpec(n) == [role |-> "database", count |-> n]

DatabaseSpecs(cfg) ==
  IF ~HasTopology(cfg) THEN <<>>
  ELSE IF cfg.kind = "picodata"
    THEN [i \in DOMAIN cfg.counts |-> DatabaseSpec(cfg.counts[i])]
  ELSE IF cfg.kind = "ydb" THEN <<DatabaseSpec(Largest(cfg.counts))>>
  ELSE <<DatabaseSpec(Total(cfg.counts))>>

FillMachinesFromTopology(cfg) ==
  IF cfg.machines # <<>> THEN cfg.machines
  ELSE DatabaseSpecs(cfg)
       \o (IF NeedsProxy(cfg) THEN <<[role |-> "proxy", count |-> cfg.proxies]>> ELSE <<>>)
       \o <<[role |-> "stroppy", count |-> 1]>>

(* The entries of a list that are of one role, in their order.                *)
OfRole(list, role) ==
  FoldLeft(LAMBDA mine, e : IF e.role = role THEN Append(mine, e) ELSE mine, <<>>, list)

(* The machines of one role, specification by specification: the index starts *)
(* again with every specification.                                            *)
TargetsOfRole(cfg, role) ==
  LET mine == OfRole(FillMachinesFromTopology(cfg), role)
  IN  FlattenSeq([k \in DOMAIN mine |-> [i \in 1 .. mine[k].count |-> <<role, i>>]])

(* Where the workload connects: the first database machine, or the first      *)
(* proxy unless the database is Picodata.                                     *)
Service(kind) ==
  CASE kind = "postgres" -> "postgres"
    [] kind = "mysql"    -> "mysql"
    [] kind = "picodata" -> "picodata"
    [] kind = "ydb"      -> "ydbd"

ProxyService(kind) == IF kind = "mysql" THEN "proxysql" ELSE "haproxy"

EndpointOf(cfg, db, proxy) ==
  IF proxy # <<>> /\ cfg.kind # "picodata"
    THEN [host |-> proxy[1], service |-> ProxyService(cfg.kind)]
  ELSE IF db # <<>> THEN [host |-> db[1], service |-> Service(cfg.kind)]
  ELSE [host |-> <<"none", 0>>, service |-> "none"]

(* The run state before and after the machines task.  The last stroppy        *)
(* machine is the one that is kept; nothing sets monitor targets.             *)
NewState ==
  [database |-> <<>>, monitor |-> <<>>, proxy |-> <<>>, stroppy |-> <<>>,
   endpoint |-> [host |-> <<"none", 0>>, service |-> "none"]]

Provisioned(cfg) ==
  LET db == TargetsOfRole(cfg, "database")
      proxy == TargetsOfRole(cfg, "proxy")
      runner == TargetsOfRole(cfg, "stroppy")
  IN  [database |-> db, monitor |-> <<>>, proxy |-> proxy,
       stroppy |-> IF runner = <<>> THEN <<>> ELSE <<runner[Len(runner)]>>,
       endpoint |-> EndpointOf(cfg, db, proxy)]

AllTargets(st) == st.database \o st.monitor \o st.proxy \o st.stroppy

(* The saved form of the run state is one list of targets with their roles;   *)
(* it is read back role by role.                                              *)
ExportRunState(st) ==
  LET tagged(role) == [i \in DOMAIN st[role] |-> [target |-> st[role][i], role |-> role]]
  IN  [targets |-> tagged("database") \o tagged("monitor") \o tagged("proxy")
                   \o tagged("stroppy"),
       endpoint |-> st.endpoint]

ImportRunState(rs) ==
  LET of(role) ==
        LET mine == OfRole(rs.targets, role)
        IN  [i \in DOMAIN mine |-> mine[i].target]
  IN  [database |-> of("database"), monitor |-> of("monitor"), proxy |-> of("proxy"),
       stroppy |-> of("stroppy"), endpoint |-> rs.endpoint]
--------------------------------------------------------------------------------
(* Phases and their dependencies.                                             *)

Phases(cfg) ==
  {"network", "machines", "install_db", "configure_db", "install_monitor",
   "configure_monitor", "install_stroppy", "run_stroppy", "teardown"}
  \cup (IF NeedsEtcd(cfg) THEN {"install_etcd", "configure_etcd"} ELSE {})
  \cup (IF NeedsPatroni(cfg) THEN {"install_patroni", "configure_patroni"} ELSE {})
  \cup (IF NeedsPgBouncer(cfg) THEN {"install_pgbouncer", "configure_pgbouncer"} ELSE {})
  \cup (IF NeedsProxy(cfg) THEN {"install_proxy", "configure_proxy"} ELSE {})
  \cup (IF NeedsYDBInit(cfg) THEN {"init_ydb_cluster", "start_ydb_database"} ELSE {})

Installs ==
  {"install_db", "install_monitor", "install_stroppy", "install_etcd",
   "install_patroni", "install_pgbouncer", "install_proxy"}

(* A slip in ConfigDBDeps: the database is not configured after etcd.         *)
ConfigDBDepsNoEtcd(cfg) == {"install_db"}

ConfigDBDeps(cfg) ==
  {"install_db"} \cup (IF NeedsEtcd(cfg) THEN {"configure_etcd"} ELSE {})

DatabaseDeps(cfg, p) ==
  CASE p = "configure_etcd"    -> {"install_etcd"}
    [] p = "configure_patroni" -> ConfigDBDeps(cfg) \cup {"install_patroni"}
    [] p = "configure_db"      -> IF NeedsPatroni(cfg) THEN {"configure_patroni"}
                                                       ELSE ConfigDBDeps(cfg)
    [] p = "init_ydb_cluster"   -> {"configure_db"}
    [] p = "start_ydb_database" -> {"init_ydb_cluster"}

(* A slip in RunStroppyDeps: the optional phases are not added to them.       *)
RunStroppyDepsFixed(cfg) == {"configure_db", "configure_monitor", "install_stroppy"}

RunStroppyDeps(cfg) ==
  {"configure_db", "configure_monitor", "install_stroppy"}
  \cup ({"configure_pgbouncer", "configure_proxy", "start_ydb_database"} \cap Phases(cfg))

DepsOf(cfg, p) ==
  CASE p = "network"  -> {}
    [] p = "machines" -> {"network"}
    [] p \in Installs -> {"machines"}
    [] p = "configure_monitor" ->
         {"install_monitor", "configure_db"} \cup ({"start_ydb_database"} \cap Phases(cfg))
    [] p = "configure_pgbouncer" -> {"install_pgbouncer", "configure_db"}
    [] p = "configure_proxy"     -> {"install_proxy", "configure_db"}
    [] p = "run_stroppy" -> RunStroppyDeps(cfg)
    [] p = "teardown"    -> {"run_stroppy"}
    [] OTHER             -> DatabaseDeps(cfg, p)
--------------------------------------------------------------------------------
(* The command a phase sends, to whom, and how.                               *)

UpTo(k, s) == SubSeq(s, 1, IF Len(s) > k THEN k ELSE Len(s))

(* A slip in IsNoop: Patroni does not replace the phase.                      *)
IsNoopNever(cfg, p) == FALSE

(* With Patroni, configure_db is a placeholder that does nothing: Patroni     *)
(* starts the database.                                                       *)
IsNoop(cfg, p) == p = "configure_db" /\ NeedsPatroni(cfg)

(* How a task sends its command.  "sequence": one machine after the other, up *)
(* to the first error.  "each": all at once, and all are waited for.  "all":  *)
(* all at once, and the first error gives up on the others.                   *)
InSequence(targets) == [to |-> targets, how |-> "sequence"]
ToEach(targets)     == [to |-> targets, how |-> "each"]
ToAll(targets)      == [to |-> targets, how |-> "all"]

Noop              == ToAll(<<>>)
EtcdInstall(st)   == ToAll(UpTo(3, st.database))
EtcdConfig(st)    == ToEach(UpTo(3, st.database))
PatroniInstall(st) == ToAll(st.database)
PatroniConfig(st)  == InSequence(st.database)
PgInstall(st)     == ToAll(st.database)
PgConfig(st)      == InSequence(st.database)
MySQLInstall(st)  == ToAll(st.database)
MySQLConfig(st)   == InSequence(st.database)
PicoInstall(st)   == ToAll(st.database)
PicoConfig(st)    == InSequence(st.database)
YDBInstall(st)    == ToAll(st.database)
YDBConfig(st)     == ToEach(st.database)
YDBInit(st)       == ToAll(UpTo(1, st.database))
YDBStartDB(st)    == ToEach(st.database)
PgBouncerInstall(st) == ToAll(st.database)
PgBouncerConfig(st)  == ToAll(st.database)
ProxyInstall(st)  == ToAll(st.proxy)
ProxyConfig(st)   == ToAll(st.proxy)
MonitorInstall(st) == ToAll(AllTargets(st))
MonitorConfig(st)  == ToAll(AllTargets(st))
StroppyInstall(st) == ToAll(st.stroppy)
StroppyRun(st)     == ToAll(st.stroppy)

InstallDB(cfg, st) ==
  CASE cfg.kind = "postgres" -> PgInstall(st)
    [] cfg.kind = "mysql"    -> MySQLInstall(st)
    [] cfg.kind = "picodata" -> PicoInstall(st)
    [] cfg.kind = "ydb"      -> YDBInstall(st)

ConfigDB(cfg, st) ==
  IF IsNoop(cfg, "configure_db") THEN Noop
  ELSE CASE cfg.kind = "postgres" -> PgConfig(st)
         [] cfg.kind = "mysql"    -> MySQLConfig(st)
         [] cfg.kind = "picodata" -> PicoConfig(st)
         [] cfg.kind = "ydb"      -> YDBConfig(st)

TaskOf(cfg, st, p) ==
  CASE p = "install_etcd"        -> EtcdInstall(st)
    [] p = "configure_etcd"      -> EtcdConfig(st)
    [] p = "install_patroni"     -> PatroniInstall(st)
    [] p = "configure_patroni"   -> PatroniConfig(st)
    [] p = "install_db"          -> InstallDB(cfg, st)
    [] p = "configure_db"        -> ConfigDB(cfg, st)
    [] p = "init_ydb_cluster"    -> YDBInit(st)
    [] p = "start_ydb_database"  -> YDBStartDB(st)
    [] p = "install_pgbouncer"   -> PgBouncerInstall(st)
    [] p = "configure_pgbouncer" -> PgBouncerConfig(st)
    [] p = "install_proxy"       -> ProxyInstall(st)
    [] p = "configure_proxy"     -> ProxyConfig(st)
    [] p = "install_monitor"     -> MonitorInstall(st)
    [] p = "configure_monitor"   -> MonitorConfig(st)
    [] p = "install_stroppy"     -> StroppyInstall(st)
    [] p = "run_stroppy"         -> StroppyRun(st)
    [] OTHER                     -> Noop

TargetsOf(cfg, st, p) == TaskOf(cfg, st, p).to
SendMode(cfg, p)      == TaskOf(cfg, NewState, p).how

(* A task that finds no machine of the role it cannot do without returns an   *)
(* error; one that sends to a list of machines is then done at once.          *)
FailsOutright(cfg, st, p) ==
  p \in {"init_ydb_cluster", "install_stroppy", "run_stroppy"} /\ TargetsOf(cfg, st, p) = <<>>

(* A task that dereferences a topology nobody set, or the first of no         *)
(* machines, panics; nothing recovers, and the server process ends.           *)
Panics(cfg, st, p) ==
  /\ p = "configure_db"
  /\ ~IsNoop(cfg, p)
  /\ ~HasTopology(cfg) \/ (cfg.kind = "postgres" /\ st.database = <<>>)

(* The role of a database machine in its cluster is its place in the list.    *)
IsFirst(st, m) == st.database # <<>> /\ m = st.database[1]
================================================================================
