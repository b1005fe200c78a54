---------------------------- MODULE MCReplication ----------------------------
(***************************************************************************)
(* How nodes come to replicate and keep replicating: bootstrap and replica *)
(* creation, pg_rewind, the slots of members, and logical slots.  A        *)
(* behaviour is a behaviour of one of these modules, chosen at the start;  *)
(* the others rest in their initial state.                                 *)
(***************************************************************************)
EXTENDS Bootstrap, Rewind, MemberSlots, LogicalSlots

MCRwConfigs ==
    {[rewind |-> TRUE, diverged |-> FALSE, failure |-> FALSE],
     [rewind |-> FALSE, diverged |-> TRUE, failure |-> FALSE],
     [rewind |-> TRUE, diverged |-> FALSE, failure |-> TRUE]}

VARIABLE part  \* the one that is looked at

replicationVars == <<part, bsVars, rwVars, msVars, lsVars>>
Looks(p) == /\ part = p /\ UNCHANGED part
            /\ p # "bootstrap" => UNCHANGED bsVars
            /\ p # "rewind" => UNCHANGED rwVars
            /\ p # "members" => UNCHANGED msVars
            /\ p # "logical" => UNCHANGED lsVars

ReplicationInit ==
    /\ part \in {"bootstrap", "rewind", "members", "logical"}
    /\ MsInit /\ LsInit
    /\ BsInit /\ (part # "bootstrap" => bsSystems = 0)
    /\ RwInit /\ (part # "rewind" => rwConfig = CHOOSE c \in MCRwConfigs : c.rewind)

ReplicationNext ==
    \/ Looks("bootstrap") /\ BsNext
    \/ Looks("rewind") /\ RwNext
    \/ Looks("members") /\ MsNext
    \/ Looks("logical") /\ LsNext

(***************************************************************************)
(* The HA loops and the jobs they start go on, the leader does its part    *)
(* and streams, and time passes.                                           *)
(***************************************************************************)
ReplicationFairness ==
    /\ \A n \in BsNodes : /\ WF_replicationVars(Looks("bootstrap") /\ BsCycle(n))
                          /\ WF_replicationVars(Looks("bootstrap") /\ BsJobs(n))
    /\ \A n \in MsNodes : WF_replicationVars(Looks("members") /\ MsCycle(n))
    /\ WF_replicationVars((Looks("bootstrap") /\ BsLeaderExpires) \/ (Looks("members") /\ MsTick))
    /\ WF_replicationVars((Looks("rewind") /\ RwCycle) \/ (Looks("logical") /\ LsHa))
    /\ WF_replicationVars((Looks("rewind") /\ RwJobs) \/ (Looks("logical") /\ LsAdvance))
    /\ WF_replicationVars((Looks("rewind") /\ RwLeader) \/ (Looks("logical") /\ PrimaryCycle))
    /\ WF_replicationVars((Looks("rewind") /\ RwStream) \/ (Looks("logical") /\ Stream))

ReplicationSpec == ReplicationInit /\ [][ReplicationNext]_replicationVars /\ ReplicationFairness
=============================================================================
