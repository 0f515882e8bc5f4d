----------------------------- MODULE AgentScripts ------------------------------
(******************************************************************************)
(* What the agent does for a command: each handler of executor.go is a short  *)
(* sequence of steps on the machine it runs on.  A machine is a record:       *)
(*   boot   whether the base packages are installed: "no", "ok", "failed"     *)
(*   have   the software that is installed                                    *)
(*   up     the services that run                                             *)
(*   data   the cluster its database belongs to, 0 for none                   *)
(* The environment of a command says what it sees beyond its machine:         *)
(*   first    it runs on the first database machine                           *)
(*   group    MySQL group replication                                         *)
(*   peer     the cluster of the first database machine if its database runs  *)
(*   quorum   etcd has a quorum                                               *)
(*   nodes    every database machine runs its storage node                    *)
(*   known    the cluster etcd knows of, 0 for none                           *)
(*   member   some other machine belongs to that cluster                      *)
(*   fresh    a number no cluster has had                                     *)
(*   strict   what the scripts cannot know: a repeated creation is refused,   *)
(*            and a fault that nobody looks for shows                         *)
(* Rendering of files, defaults and log lines are left out.                   *)
(******************************************************************************)
EXTENDS RunPlan

Handler ==
  [postgres |-> "config_postgres", mysql |-> "config_mysql",
   picodata |-> "config_picodata", ydb |-> "config_ydb"]

(* The agent's action for a phase.                                            *)
Action(cfg, p) ==
  CASE p = "install_db"      -> IF cfg.kind = "ydb" THEN "install_ydb"
                                                    ELSE "install_package"
    [] p = "configure_db"    -> Handler[cfg.kind]
    [] p = "install_proxy"   -> IF cfg.kind = "mysql" THEN "install_proxysql"
                                                      ELSE "install_haproxy"
    [] p = "configure_proxy" -> IF cfg.kind = "mysql" THEN "config_proxysql"
                                                      ELSE "config_haproxy"
    [] OTHER                 -> p

(* Steps.                                                                     *)
Install(s)    == [op |-> "install", arg |-> s]   \* download or apt-get, every time
Fetch(s)      == [op |-> "fetch",   arg |-> s]   \* unless it is there already
Use(s)        == [op |-> "use",     arg |-> s]   \* run a program that must be there
Stop(u)       == [op |-> "stop",    arg |-> u]   \* the error is ignored
TryRestart(u) == [op |-> "try",     arg |-> u]   \* restart, the error is ignored
Restart(u)    == [op |-> "restart", arg |-> u]
Start(u)      == [op |-> "start",   arg |-> u]   \* refused while it runs
Daemon(u)     == [op |-> "daemon",  arg |-> u]   \* one more process, never refused
Wipe(us)      == [op |-> "wipe",    arg |-> us]  \* clear the data the services us work on
TryWipe(us)   == [op |-> "trywipe", arg |-> us]  \* the error is ignored
Found(u)      == [op |-> "found",   arg |-> u]   \* a cluster of its own, if it has none
Bootstrap     == [op |-> "bootstrap", arg |-> ""] \* a new cluster in any case
Join          == [op |-> "join",    arg |-> ""]  \* the cluster of the first machine
Replicate     == [op |-> "replicate", arg |-> ""] \* join at leisure, refused while a member
Elect         == [op |-> "elect",   arg |-> ""]  \* Patroni decides from what etcd knows
Form          == [op |-> "form",    arg |-> ""]  \* initialise the storage of all nodes

(* The errors of these steps do not reach the script's result; the wait for a *)
(* first PostgreSQL that does not answer ends without one.                    *)
Tolerated(s, ms) ==
  \/ s.op \in {"stop", "try", "trywipe"}
  \/ s.op = "fetch" /\ s.arg \in ms.have
  \/ s.op = "install" /\ s.arg = "mysql" /\ s.arg \in ms.have
  \/ s.op = "found" /\ s.arg = "postgres"

(* Those of these steps may or may not: a process that exits after its start  *)
(* is not looked for, the port of a YDB database node is served by the        *)
(* storage node of its machine, a replica goes on looking for its primary,    *)
(* and MySQL may have its binary although its installation has failed.        *)
Unseen(s) ==
  \/ s.op \in {"daemon", "replicate"}
  \/ s.op = "start" /\ s.arg \in {"pgbouncer", "ydbd-database"}
  \/ s.op = "install" /\ s.arg = "mysql"
--------------------------------------------------------------------------------
(* The handlers.                                                              *)

InstallPackage(cfg) == <<Install(cfg.kind)>>

ConfigPostgres(env) ==
  IF env.first THEN <<Use("postgres"), TryRestart("postgres"), Found("postgres")>>
  ELSE <<Use("postgres"), Stop("postgres"), TryWipe({"postgres", "patroni"}), Join,
         Start("postgres")>>

(* A restart takes a machine out of its replication group.                    *)
ConfigMySQL(env) ==
  <<Use("mysql"), Restart("mysql")>>
  \o (IF env.group
        THEN IF env.first THEN <<Bootstrap>> ELSE <<Join>>
        ELSE IF env.first THEN <<Found("mysql")>> ELSE <<Replicate>>)

ConfigPicodata(env) ==
  <<Stop("picodata"), Use("picodata"), Start("picodata"),
    IF env.first THEN Found("picodata") ELSE Join>>

InstallMonitor(cfg, m) ==
  <<Fetch("node_exporter")>>
  \o (IF m[1] = "database" /\ cfg.kind = "mysql" THEN <<Fetch("mysqld_exporter")>> ELSE <<>>)
  \o (IF m[1] = "database" /\ cfg.kind = "postgres"
        THEN <<Install("postgres_exporter")>> ELSE <<>>)
  \o <<Fetch("vmagent")>>

ConfigMonitor ==
  <<Use("node_exporter"), Daemon("node_exporter"), Use("vmagent"), Daemon("vmagent")>>

InstallStroppy == <<Fetch("stroppy")>>
RunStroppy     == <<Use("stroppy")>>

InstallEtcd == <<Install("etcd")>>
ConfigEtcd  == <<Stop("etcd"), Use("etcd"), Start("etcd")>>

InstallPatroni == <<Install("patroni")>>

(* The data go before the old unit is stopped.                                *)
ConfigPatroni ==
  <<Stop("postgres"), TryWipe({"postgres", "patroni"}), Stop("patroni"),
    Use("patroni"), Use("postgres"), Start("patroni"), Elect>>

InstallPgBouncer == <<Install("pgbouncer")>>
ConfigPgBouncer  == <<Use("pgbouncer"), Start("pgbouncer")>>

InstallHAProxy == <<Install("haproxy")>>
ConfigHAProxy  == <<Use("haproxy"), Daemon("haproxy")>>

InstallProxySQL == <<Install("proxysql")>>
ConfigProxySQL  == <<Use("proxysql"), Daemon("proxysql")>>

(* The disk is cleared before the old unit is stopped.                        *)
InstallYDB == <<Fetch("ydb")>>
ConfigYDB  == <<Use("ydb"), Wipe({"ydbd"}), Stop("ydbd"), Start("ydbd")>>
InitYDB    == <<Use("ydb"), Form>>
StartYDBDB == <<Stop("ydbd-database"), Use("ydb"), Start("ydbd-database")>>

Script(cfg, p, m, env) ==
  LET a == Action(cfg, p) IN
  CASE a = "install_package"     -> InstallPackage(cfg)
    [] a = "config_postgres"     -> ConfigPostgres(env)
    [] a = "config_mysql"        -> ConfigMySQL(env)
    [] a = "config_picodata"     -> ConfigPicodata(env)
    [] a = "install_monitor"     -> InstallMonitor(cfg, m)
    [] a = "configure_monitor"   -> ConfigMonitor
    [] a = "install_stroppy"     -> InstallStroppy
    [] a = "run_stroppy"         -> RunStroppy
    [] a = "install_etcd"        -> InstallEtcd
    [] a = "configure_etcd"      -> ConfigEtcd
    [] a = "install_patroni"     -> InstallPatroni
    [] a = "configure_patroni"   -> ConfigPatroni
    [] a = "install_pgbouncer"   -> InstallPgBouncer
    [] a = "configure_pgbouncer" -> ConfigPgBouncer
    [] a = "install_haproxy"     -> InstallHAProxy
    [] a = "config_haproxy"      -> ConfigHAProxy
    [] a = "install_proxysql"    -> InstallProxySQL
    [] a = "config_proxysql"     -> ConfigProxySQL
    [] a = "install_ydb"         -> InstallYDB
    [] a = "config_ydb"          -> ConfigYDB
    [] a = "init_ydb_cluster"    -> InitYDB
    [] a = "start_ydb_database"  -> StartYDBDB
--------------------------------------------------------------------------------
(* Running a script.  "err" is why it stopped: "missing", something it needs  *)
(* is not there; "repeat", it met its own earlier work; "fault", the machine  *)
(* or the network failed it.  "notes" collects what it did not report: a      *)
(* swallowed fault or a primary that was not there, data cleared under a      *)
(* running service.                                                           *)

Err(x, e)     == [x EXCEPT !.err = e]
Run(x, us)    == [x EXCEPT !.up = @ \cup us]
Member(x, c)  == [x EXCEPT !.data = c]
Note(x, n)    == [x EXCEPT !.notes = @ \cup {n}]

Cleared(x, us) ==
  Member(IF us \cap x.up # {} THEN Note(x, "underfoot") ELSE x, 0)

(* Patroni founds the cluster that etcd does not know, else copies it from a  *)
(* member, else waits for one in vain.                                        *)
Elected(x, env) ==
  IF ~env.quorum THEN Err(x, "missing")
  ELSE IF env.known = 0 THEN Run(Member(x, env.fresh), {"postgres"})
  ELSE IF env.member THEN Run(Member(x, env.known), {"postgres"})
  ELSE Err(x, "repeat")

Do(x, s, env) ==
  CASE s.op \in {"install", "fetch"} -> [x EXCEPT !.have = @ \cup {s.arg}]
    [] s.op = "use"       -> IF s.arg \in x.have THEN x ELSE Err(x, "missing")
    [] s.op = "stop"      -> [x EXCEPT !.up = @ \ {s.arg}]
    [] s.op = "try"       -> Run(x, {s.arg})
    [] s.op = "restart"   -> Run(IF env.group THEN Member(x, 0) ELSE x, {s.arg})
    [] s.op = "start"     -> IF s.arg \in x.up THEN Err(x, "repeat") ELSE Run(x, {s.arg})
    [] s.op = "daemon"    -> Run(x, {s.arg})
    [] s.op \in {"wipe", "trywipe"} -> Cleared(x, s.arg)
    [] s.op = "found"     -> IF x.data = 0 THEN Member(x, env.fresh) ELSE x
    [] s.op = "bootstrap" -> Member(x, env.fresh)
    [] s.op = "join"      -> IF env.peer = 0 THEN Err(x, "missing") ELSE Member(x, env.peer)
    [] s.op = "replicate" -> IF x.data # 0 THEN Err(x, "repeat")
                             ELSE IF env.peer = 0 THEN Note(x, "swallowed")
                             ELSE Member(x, env.peer)
    [] s.op = "elect"     -> Elected(x, env)
    [] s.op = "form"      -> IF ~env.nodes THEN Err(x, "missing")
                             ELSE IF x.data # 0 /\ env.strict THEN Err(x, "repeat")
                             ELSE Member(x, env.fresh)

(* A fault hits step s.                                                       *)
Hit(x, s, env) ==
  IF Tolerated(s, x) THEN Note(x, "swallowed")
  ELSE IF Unseen(s) /\ ~env.strict
    THEN Note(IF s.op = "install" THEN Do(x, s, env) ELSE x, "swallowed")
  ELSE Err(x, "fault")

(* The effect of a script whose step "bad" is hit by a fault (0: none is).    *)
Executed(script, machine, env, bad) ==
  LET start == [have |-> machine.have, up |-> machine.up, data |-> machine.data,
                err |-> "none", notes |-> {}]
      Step(x, i) ==
        IF x.err # "none" THEN x
        ELSE IF i # bad THEN Do(x, script[i], env)
        ELSE Hit(x, script[i], env)
  IN  FoldLeftDomain(Step, start, script)
================================================================================
