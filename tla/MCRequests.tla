----------------------------- MODULE MCRequests -----------------------------
(***************************************************************************)
(* What operators ask of a cluster: changes of the configuration, manual   *)
(* failover, the commands of patronictl.  A behaviour is a behaviour of    *)
(* one of these modules, chosen at the start; the others rest.             *)
(***************************************************************************)
EXTENDS Configuration, ManualFailover, Patronictl

NoSettings == [k \in Settings |-> Unset]
MCFirstConfig == [NoSettings EXCEPT !["ttl"] = 30]
MCBootstrap == [NoSettings EXCEPT !["ttl"] = 20, !["retry_timeout"] = 10]
MCFiles == {[n |-> 1, ok |-> TRUE, work_mem |-> Unset], [n |-> 2, ok |-> TRUE, work_mem |-> 8],
            [n |-> 3, ok |-> FALSE, work_mem |-> Unset]}
MCPatches == {[ttl |-> 15], [loop_wait |-> 40, retry_timeout |-> 2], [retry_timeout |-> Bad]}
MCKindOf == [e \in Editors |-> IF e = "e2" THEN "put" ELSE "patch"]

\* A failover to b, a switchover from a to b, a scheduled switchover to anybody.
MCRequests == {[leader |-> "none", cand |-> "b", at |-> 0, ver |-> 0], [leader |-> "a", cand |-> "b", at |-> 0, ver |-> 0],
               [leader |-> "a", cand |-> "none", at |-> 1, ver |-> 0]}

VARIABLE request  \* the kind of request that is looked at

requestsVars == <<request, cfVars, mfVars, ctVars>>
Asks(r) == /\ request = r /\ UNCHANGED request
           /\ r # "configuration" => UNCHANGED cfVars
           /\ r # "failover" => UNCHANGED mfVars
           /\ r # "patronictl" => UNCHANGED ctVars

RequestsInit ==
    /\ request \in {"configuration", "failover", "patronictl"}
    /\ CfInit /\ MfInit /\ CtInit
    /\ request # "patronictl" => ~ctConf.pause /\ ~ctConf.standby /\ \A n \in CtNodes : ctNode[n].job = "none"

RequestsNext ==
    \/ Asks("configuration") /\ CfNext
    \/ Asks("failover") /\ MfNext
    \/ Asks("patronictl") /\ CtNext

(***************************************************************************)
(* The HA loops and their jobs go on, time passes, the tool goes on.       *)
(***************************************************************************)
RequestsFairness ==
    /\ WF_requestsVars((Asks("configuration") /\ DaemonLoop) \/ (Asks("patronictl") /\ CtTool) \/ (Asks("failover") /\ MfTick))
    /\ \A n \in MfNodes : WF_requestsVars((Asks("failover") /\ MfCycle(n))
                                             \/ (n \in CtNodes /\ Asks("patronictl") /\ (CtLoad(n) \/ CtCycle(n))))
    /\ \A n \in CtNodes : /\ WF_requestsVars(Asks("patronictl") /\ CtJob(n))
                          /\ WF_requestsVars(Asks("patronictl") /\ CtRestart(n))
                          /\ WF_requestsVars(Asks("patronictl") /\ CtSlow(n) /\ ctNode[n].slow)

RequestsSpec == RequestsInit /\ [][RequestsNext]_requestsVars /\ RequestsFairness
=============================================================================
