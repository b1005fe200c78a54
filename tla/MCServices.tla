----------------------------- MODULE MCServices -----------------------------
(***************************************************************************)
(* The services of one node that share no state with each other: the       *)
(* asynchronous executor, callback scripts, log queue, the process control *)
(* of PostgreSQL and the creation of a MySQL replica.  A behaviour is one  *)
(* of one of them, chosen at the start, while the others rest in their     *)
(* initial state, so the states of the run are the disjoint union of those *)
(* of the modules.                                                         *)
(***************************************************************************)
EXTENDS AsyncExec, Callbacks, LogQueue, Postmaster, MySqlClone

VARIABLE service  \* the one that runs

servicesVars == <<service, vars, cbVars, logVars, pmVars, myVars>>
Rest(s) == /\ service = s /\ UNCHANGED service
           /\ s # "executor" => UNCHANGED vars
           /\ s # "callbacks" => UNCHANGED cbVars
           /\ s # "log" => UNCHANGED logVars
           /\ s # "postmaster" => UNCHANGED pmVars
           /\ s # "clone" => UNCHANGED myVars

ServicesInit ==
    /\ service \in {"executor", "callbacks", "log", "postmaster", "clone"}
    /\ Init /\ CbInit /\ LogInit /\ PmInit /\ MyInit

ServicesNext ==
    \/ Rest("executor") /\ Next
    \/ Rest("callbacks") /\ CbNext
    \/ Rest("log") /\ LogNext
    \/ Rest("postmaster") /\ PmNext
    \/ Rest("clone") /\ MyNext

\* The fairness of the modules; each holds trivially where its module does not run.
ServicesFairness ==
    /\ \A t \in Tasks : WF_servicesVars(Rest("executor") /\ Worker(t))
    /\ \A c \in Callers : WF_servicesVars(Rest("executor") /\ Canceller(c))
    /\ WF_servicesVars(Rest("callbacks") /\ CbWork)
    /\ WF_servicesVars(Rest("callbacks") /\ CbScript /\ ~cbProc'.runs)
    /\ WF_servicesVars(Rest("log") /\ (Writer \/ LogJoined))
    /\ WF_servicesVars(Rest("postmaster") /\ PmTaskGoes)
    /\ WF_servicesVars(Rest("postmaster") /\ PmHaGoes)
    /\ \A p \in Pids : WF_servicesVars(Rest("postmaster") /\ PidfileWritten(p))
    /\ \A p \in Pids : WF_servicesVars(Rest("postmaster") /\ Exits(p) /\ pmAt["ha"] = "terminated")
    /\ WF_servicesVars(Rest("clone") /\ MyCloneStep)

ServicesSpec == ServicesInit /\ [][ServicesNext]_servicesVars /\ ServicesFairness
=============================================================================
