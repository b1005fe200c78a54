----------------------------- MODULE MCDatabases -----------------------------
(***************************************************************************)
(* What keeps a database in service: restarts, the parameters that need    *)
(* one, the metadata of Citus, semi-synchronous replication of MySQL.  A   *)
(* behaviour is a behaviour of one of these modules, chosen at the start;  *)
(* the others rest.                                                        *)
(***************************************************************************)
EXTENDS Restarts, Parameters, Citus, SemiSync

VARIABLE database  \* what is looked at

databasesVars == <<database, rsVars, prVars, ciVars, ssVars>>
Serves(d) == /\ database = d /\ UNCHANGED database
             /\ d # "restart" => UNCHANGED rsVars
             /\ d # "parameters" => UNCHANGED prVars
             /\ d # "citus" => UNCHANGED ciVars
             /\ d # "semisync" => UNCHANGED ssVars

DatabasesInit ==
    /\ database \in {"restart", "parameters", "citus", "semisync"}
    /\ RsInit /\ PrInit /\ CiInit /\ SsInit
    /\ database # "restart" => rsRole = "replica"
    /\ database # "citus" => ciWorker.leader = Min(Hosts)
    /\ database # "semisync" => ssLock = CHOOSE n \in SsNodes : TRUE

DatabasesNext ==
    \/ Serves("restart") /\ RsNext
    \/ Serves("parameters") /\ PrNext
    \/ Serves("citus") /\ CiNext
    \/ Serves("semisync") /\ SsNext

(***************************************************************************)
(* The HA loops, their jobs, and the servers go on; time passes until a    *)
(* scheduled restart is due; the Citus thread goes on (its weak fairness   *)
(* is spelled out, with ThreadCanGo for ENABLED CiThreadGoes).             *)
(***************************************************************************)
DatabasesFairness ==
    /\ WF_databasesVars((Serves("restart") /\ RsHa) \/ (Serves("citus") /\ CiSync)
                          \/ (Serves("semisync") /\ \E n \in SsNodes : SsRace(n)))
    /\ WF_databasesVars((Serves("restart") /\ RsJob) \/ (Serves("citus") /\ CiLoadView) \/ (Serves("semisync") /\ SsLockExpires))
    /\ WF_databasesVars((Serves("restart") /\ RsPrimary) \/ (Serves("citus") /\ DeadlinePasses))
    /\ WF_databasesVars((Serves("restart") /\ RsTouch) \/ (Serves("citus") /\ WorkerPromoted))
    /\ WF_databasesVars((Serves("restart") /\ StartedLate) \/ (Serves("citus") /\ HandleEvent))
    /\ WF_databasesVars(Serves("restart") /\ RsTimePasses /\ rsSched.due = "early")
    /\ []<>~(database = "citus" /\ ThreadCanGo) \/ []<><<Serves("citus") /\ CiThreadGoes>>_databasesVars
    /\ \A n \in PrNodes : /\ WF_databasesVars(Serves("parameters") /\ PrHa(n))
                          /\ WF_databasesVars(Serves("parameters") /\ PrJob(n))
                          /\ WF_databasesVars(Serves("parameters") /\ PrReplay(n))
    /\ \A n \in SsNodes : /\ WF_databasesVars(Serves("semisync") /\ SafetyCheck(n))
                          /\ WF_databasesVars(Serves("semisync") /\ (SsPromote(n) \/ SsAlreadyPrimary(n) \/ SsEnable(n)))
                          /\ WF_databasesVars(Serves("semisync") /\ SsFollow(n)) /\ WF_databasesVars(Serves("semisync") /\ SsLink(n))

DatabasesSpec == DatabasesInit /\ [][DatabasesNext]_databasesVars /\ DatabasesFairness
=============================================================================
