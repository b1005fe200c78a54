-------------------------- MODULE GroupReplication --------------------------
(***************************************************************************)
(* MySQL Group Replication after the loss of its majority: the election of *)
(* the member that bootstraps a new group, by the GTID sets published in   *)
(* the DCS, and the others that rejoin it (run_mgr_cycle and               *)
(* _handle_mgr_majority_loss of patroni/mysql/__init__.py;                 *)
(* process_healthy_cluster and _is_healthiest_node of patroni/ha.py).      *)
(*                                                                         *)
(* A GTID set is a set of transactions.  Members are numbered in the order *)
(* of their names.  A group that keeps its majority reconfigures itself.   *)
(***************************************************************************)
EXTENDS Integers, FiniteSets, FiniteSetsExt

CONSTANTS GrNodes,      \* members, numbered by their names
          SlowRejoin,   \* a rejoin may take longer than the ttl
          MaxGroups,    \* bound: groups bootstrapped
          MaxTxns,      \* bound: transactions
          MaxGrEvents   \* bound: crashes, failed statements, timeouts

ASSUME GroupAssumption ==
    GrNodes \subseteq Nat \ {0} /\ GrNodes # {} /\ MaxGroups \in Nat \ {0} /\ {MaxTxns, MaxGrEvents} \subseteq Nat

GrNobody == 0
NoMember == [there |-> FALSE, gtid |-> {}, role |-> "none"]

VARIABLES grGtid,    \* gtid_executed of a node
          grGroup,   \* the group a node is a member of, 0 if none
          grLead,    \* the primary of a group
          grRole,    \* role of the handler
          grUp,      \* the node runs
          grKey,     \* member key
          grLock,    \* leader key
          grView,    \* cluster as loaded by the cycle
          grAt,      \* where the cycle is
          grPaused,  \* pause in /config
          grGroups,  \* groups so far
          grTxns,    \* transactions so far
          grEvents

grVars == <<grGtid, grGroup, grLead, grRole, grUp, grKey, grLock, grView, grAt, grPaused, grGroups, grTxns, grEvents>>
grData == <<grGtid, grGroup, grLead, grGroups, grTxns>>

GrNoView == [lock |-> GrNobody, paused |-> FALSE, keys |-> [n \in GrNodes |-> NoMember]]

\* New nodes without transactions, or a group of all nodes.
GrInit ==
    /\ grGtid = [n \in GrNodes |-> {}]
    /\ \/ /\ grGroup = [n \in GrNodes |-> 0] /\ grGroups = 0
          /\ grLead = [g \in 1..MaxGroups |-> GrNobody]
          /\ grRole = [n \in GrNodes |-> "replica"] /\ grLock = GrNobody
       \/ /\ grGroup = [n \in GrNodes |-> 1] /\ grGroups = 1
          /\ grLead = [g \in 1..MaxGroups |-> IF g = 1 THEN Min(GrNodes) ELSE GrNobody]
          /\ grRole = [n \in GrNodes |-> IF n = Min(GrNodes) THEN "mgr_primary" ELSE "mgr_secondary"]
          /\ grLock = Min(GrNodes)
    /\ grUp = [n \in GrNodes |-> TRUE]
    /\ grKey = [n \in GrNodes |-> [there |-> TRUE, gtid |-> {}, role |-> grRole[n]]]
    /\ grView = [n \in GrNodes |-> GrNoView]
    /\ grAt = [n \in GrNodes |-> "idle"]
    /\ grPaused = FALSE /\ grTxns = 0 /\ grEvents = 0

GrEvent == grEvents < MaxGrEvents /\ grEvents' = grEvents + 1
GrGoes(n, at) == grAt' = [grAt EXCEPT ![n] = at]
GrRoleIs(n, role) == grRole' = [grRole EXCEPT ![n] = role]

\* The end of a cycle: touch_member publishes the GTID set and the role (set before).
GrEnds(n) ==
    /\ grAt' = [grAt EXCEPT ![n] = "idle"]
    /\ grView' = [grView EXCEPT ![n] = GrNoView]
    /\ grKey' = [grKey EXCEPT ![n] = [there |-> TRUE, gtid |-> grGtid'[n], role |-> grRole'[n]]]

-----------------------------------------------------------------------------
(***************************************************************************)
(* The election.                                                           *)
(***************************************************************************)

\* gtid_relation, GTID sets that are not known left out before
Relation(a, b) ==
    CASE a = b -> "equal"
      [] a # b /\ a \subseteq b -> "b_ahead"
      [] a # b /\ b \subseteq a -> "a_ahead"
      [] OTHER -> "incomparable"

\* _mgr_gtid_candidates: the node itself and the members that publish a GTID set
Candidates(gtid) == {n \in DOMAIN gtid : gtid[n] # {}}

\* _mgr_maximal_candidates
Maximal(gtid) ==
    {n \in Candidates(gtid) : \A m \in Candidates(gtid) : m = n \/ Relation(gtid[n], gtid[m]) # "b_ahead"}

\* select_mgr_bootstrap_winner: none if there is a fork
Winner(gtid) ==
    IF Maximal(gtid) # {} /\ \A m, n \in Maximal(gtid) : Relation(gtid[m], gtid[n]) = "equal"
    THEN Min(Maximal(gtid))
    ELSE GrNobody

\* Altered form: only the members of a group are compared.
SeenGrouped(n) ==
    [m \in GrNodes |-> IF m = n THEN grGtid[n] ELSE IF grView[n].keys[m].role # "replica" THEN grView[n].keys[m].gtid ELSE {}]

\* The GTID sets as node n sees them: its own, and those in the view.
Seen(n) == [m \in GrNodes |-> IF m = n THEN grGtid[n] ELSE grView[n].keys[m].gtid]

\* _find_mgr_primary_member
Advertised(n) == {m \in GrNodes \ {n} : grView[n].keys[m].role = "mgr_primary"}

-----------------------------------------------------------------------------
(***************************************************************************)
(* The cycle.                                                              *)
(***************************************************************************)

GrLoad(n) ==
    /\ grUp[n] /\ grAt[n] = "idle"
    /\ grView' = [grView EXCEPT ![n] = [lock |-> grLock, paused |-> grPaused, keys |-> grKey]]
    /\ GrGoes(n, "loaded")
    /\ UNCHANGED <<grData, grRole, grUp, grKey, grLock, grPaused, grEvents>>

\* _is_healthiest_node: the nodes that answer are asked; sets that cannot be compared are decided by positions
\* in binary logs, which say nothing.
Healthiest(n) == \A m \in GrNodes \ {n} : grUp[m] => Relation(grGtid[n], grGtid[m]) # "b_ahead"

\* enforce_primary_role: is_primary() holds on a server without replication channels, whatever its group says.
Enforced(n, role) == role = grRole[n] \/ (role = "primary" /\ grRole[n] # "mgr_primary")

\* No leader: the race, unless the cluster is paused or a node that answers looks like a primary.
GrRace(n) ==
    /\ grAt[n] = "loaded" /\ grView[n].lock = GrNobody
    /\ \/ /\ ~grView[n].paused /\ Healthiest(n) /\ grLock = GrNobody
          /\ grLock' = n
          /\ \E role \in {grRole[n], "primary"} : Enforced(n, role) /\ GrRoleIs(n, role)
       \/ UNCHANGED <<grLock, grRole>>
    /\ UNCHANGED <<grData, grUp, grPaused, grEvents>>
    /\ GrEnds(n)

\* update_lock fails: a server that looks like a primary is made read-only and told to replicate (_demote_mysql).
\* It keeps running, and remains in its group.
GrLostLock(n) ==
    /\ grAt[n] = "loaded" /\ grView[n].lock = n /\ grLock # n
    /\ \E role \in {grRole[n], "demoted", "replica"} : GrRoleIs(n, role)
    /\ UNCHANGED <<grData, grUp, grLock, grPaused, grEvents>>
    /\ GrEnds(n)

\* A paused cluster whose lock holder does not look like a primary: the lock is removed.
GrPausedRelease(n) ==
    /\ grAt[n] = "loaded" /\ grView[n].lock = n /\ grView[n].paused
    /\ grLock' = IF grLock = n THEN GrNobody ELSE grLock
    /\ UNCHANGED <<grData, grRole, grUp, grPaused, grEvents>>
    /\ GrEnds(n)

HasLock(n) == grView[n].lock = n /\ grLock = n
Locked(n) == grAt[n] = "loaded" /\ grView[n].lock # GrNobody /\ (grView[n].lock = n => grLock = n)

\* The group is active: the role follows it.
GrActive(n) ==
    /\ Locked(n) /\ grGroup[n] # 0
    /\ LET role == IF grLead[grGroup[n]] = n THEN "mgr_primary" ELSE "mgr_secondary"
       IN  IF role # grRole[n]
           THEN GrRoleIs(n, role)
           ELSE \E enforced \in {role, "primary"} :
                   Enforced(n, enforced) /\ (enforced # role => HasLock(n)) /\ GrRoleIs(n, enforced)
    /\ UNCHANGED <<grData, grUp, grLock, grPaused, grEvents>>
    /\ GrEnds(n)

\* No transactions yet: the lock holder forms the first group, unless a peer has transactions.
ElectEmpty(n) ==
    /\ grGtid[n] = {}
    /\ \/ HasLock(n) /\ Candidates(Seen(n)) = {} /\ GrGoes(n, "bootstrap") /\ UNCHANGED <<grView, grKey>>
       \/ ~(HasLock(n) /\ Candidates(Seen(n)) = {}) /\ Advertised(n) # {} /\ GrGoes(n, "rejoin") /\ UNCHANGED <<grView, grKey>>
       \/ ~(HasLock(n) /\ Candidates(Seen(n)) = {}) /\ Advertised(n) = {} /\ GrEnds(n)
    /\ UNCHANGED <<grLock, grPaused>>

\* GTID sets that cannot be compared: read-only, and the cluster is paused (_handle_mgr_gtid_fork).
ElectFork(n) ==
    /\ grGtid[n] # {} /\ Winner(Seen(n)) = GrNobody
    /\ grPaused' = TRUE
    /\ GrEnds(n)
    /\ UNCHANGED grLock

\* Another node is ahead: the lock is released for it, or its group joined.
ElectOther(n) ==
    /\ grGtid[n] # {} /\ Winner(Seen(n)) \notin {GrNobody, n}
    /\ \/ HasLock(n) /\ grLock' = GrNobody /\ GrEnds(n)
       \/ ~HasLock(n) /\ Advertised(n) # {} /\ GrGoes(n, "rejoin") /\ UNCHANGED <<grView, grKey, grLock>>
       \/ ~HasLock(n) /\ Advertised(n) = {} /\ GrEnds(n) /\ UNCHANGED grLock
    /\ UNCHANGED grPaused

\* The node is the winner: with the lock it bootstraps, unless another one advertises a group that can be joined.
ElectSelf(n) ==
    /\ grGtid[n] # {} /\ Winner(Seen(n)) = n
    /\ \/ ~HasLock(n) /\ Advertised(n) # {} /\ GrGoes(n, "rejoin") /\ UNCHANGED <<grView, grKey>>
       \/ ~HasLock(n) /\ Advertised(n) = {} /\ GrEnds(n)
       \/ HasLock(n) /\ GrGoes(n, IF Advertised(n) # {} THEN "rejoin_or_bootstrap" ELSE "bootstrap") /\ UNCHANGED <<grView, grKey>>
    /\ UNCHANGED <<grLock, grPaused>>

\* _handle_mgr_majority_loss
GrElect(n) ==
    /\ Locked(n) /\ grGroup[n] = 0
    /\ UNCHANGED <<grData, grRole>>
    /\ (ElectEmpty(n) \/ ElectFork(n) \/ ElectOther(n) \/ ElectSelf(n))
    /\ UNCHANGED <<grUp, grEvents>>

\* A member joins the group of one that has its transactions; those it lacks are transferred.
CanJoin(n, m) == grUp[m] /\ grGroup[m] # 0 /\ grGtid[n] \subseteq grGtid[m]

\* rejoin_mgr_group: up to 60 seconds, until the member is ONLINE or RECOVERING
GrJoins(n) ==
    /\ grAt[n] \in {"rejoin", "rejoin_or_bootstrap"}
    /\ \E m \in Advertised(n) :
          /\ CanJoin(n, m)
          /\ grGroup' = [grGroup EXCEPT ![n] = grGroup[m]]
          /\ grGtid' = [grGtid EXCEPT ![n] = grGtid[m]]
    /\ GrRoleIs(n, "mgr_secondary")
    /\ grLock' = IF grLock = n /\ grAt[n] = "rejoin_or_bootstrap" THEN GrNobody ELSE grLock
    /\ UNCHANGED <<grLead, grGroups, grTxns, grUp, grPaused, grEvents>>
    /\ GrEnds(n)

\* It fails: the group is gone, or does not accept the member, or is too slow.
GrJoinFails(n) ==
    /\ grAt[n] \in {"rejoin", "rejoin_or_bootstrap"}
    /\ \/ (\A m \in Advertised(n) : ~CanJoin(n, m)) /\ UNCHANGED grEvents
       \/ (\E m \in Advertised(n) : CanJoin(n, m)) /\ GrEvent
    /\ UNCHANGED <<grData, grRole, grUp, grLock, grPaused>>
    /\ \/ grAt[n] = "rejoin" /\ GrEnds(n)
       \/ grAt[n] = "rejoin_or_bootstrap" /\ GrGoes(n, "bootstrap") /\ UNCHANGED <<grView, grKey>>

\* bootstrap_mgr_group
GrBootstrap(n) ==
    /\ grAt[n] = "bootstrap"
    /\ \/ /\ grGroups < MaxGroups
          /\ grGroups' = grGroups + 1
          /\ grGroup' = [grGroup EXCEPT ![n] = grGroups + 1]
          /\ grLead' = [grLead EXCEPT ![grGroups + 1] = n]
          /\ GrRoleIs(n, "mgr_primary")
          /\ UNCHANGED grEvents
       \/ /\ GrEvent
          /\ UNCHANGED <<grGroups, grGroup, grLead, grRole>>
    /\ UNCHANGED <<grGtid, grTxns, grUp, grLock, grPaused>>
    /\ GrEnds(n)

-----------------------------------------------------------------------------
(***************************************************************************)
(* MySQL, the DCS and the failures.                                        *)
(***************************************************************************)

GroupOf(g) == {n \in GrNodes : grGroup[n] = g}

\* A transaction is committed on the primary when a majority of the group has received it; the others apply it later.
GrCommit(g) ==
    /\ grTxns < MaxTxns /\ grLead[g] \in GroupOf(g)
    /\ grTxns' = grTxns + 1
    /\ grGtid' = [grGtid EXCEPT ![grLead[g]] = @ \union {grTxns + 1}]
    /\ UNCHANGED <<grGroup, grLead, grGroups, grRole, grUp, grKey, grLock, grView, grAt, grPaused, grEvents>>

GrApply(n) ==
    /\ grGroup[n] # 0 /\ grGtid[n] # grGtid[grLead[grGroup[n]]]
    /\ grGtid' = [grGtid EXCEPT ![n] = grGtid[grLead[grGroup[n]]]]
    /\ UNCHANGED <<grGroup, grLead, grGroups, grTxns, grRole, grUp, grKey, grLock, grView, grAt, grPaused, grEvents>>

Survives(g, C) == 2 * Cardinality(GroupOf(g) \ C) > Cardinality(GroupOf(g))

\* Nodes fail at the same time.  What is left of a group goes on if it is a majority, and a new primary applies what
\* was committed; else it stops.
GrCrash(C) ==
    /\ C # {} /\ \A n \in C : grUp[n]
    /\ GrEvent
    /\ grUp' = [n \in GrNodes |-> grUp[n] /\ n \notin C]
    /\ \E lead \in [1..MaxGroups -> GrNodes \union {GrNobody}] :
          /\ \A g \in 1..MaxGroups :
                IF Survives(g, C) /\ grLead[g] \in C THEN lead[g] \in GroupOf(g) \ C ELSE lead[g] = grLead[g]
          /\ grLead' = lead
          /\ grGtid' = [n \in GrNodes |->
                IF grGroup[n] # 0 /\ lead[grGroup[n]] = n THEN grGtid[n] \union grGtid[grLead[grGroup[n]]] ELSE grGtid[n]]
    /\ grGroup' = [n \in GrNodes |-> IF n \in C \/ ~Survives(grGroup[n], C) THEN 0 ELSE grGroup[n]]
    /\ grRole' = [n \in GrNodes |-> IF n \in C THEN "replica" ELSE grRole[n]]
    /\ grAt' = [n \in GrNodes |-> IF n \in C THEN "idle" ELSE grAt[n]]
    /\ grView' = [n \in GrNodes |-> IF n \in C THEN GrNoView ELSE grView[n]]
    /\ UNCHANGED <<grGroups, grTxns, grKey, grLock, grPaused>>

GrRestart(n) ==
    /\ ~grUp[n]
    /\ grUp' = [grUp EXCEPT ![n] = TRUE]
    /\ UNCHANGED <<grData, grRole, grKey, grLock, grView, grAt, grPaused, grEvents>>

\* Keys expire when their node does not write them for the ttl: it is down, it waits to join, or it is cut off.
Silent(n) ==
    \/ ~grUp[n] /\ UNCHANGED grEvents
    \/ SlowRejoin /\ grAt[n] \in {"rejoin", "rejoin_or_bootstrap"} /\ UNCHANGED grEvents
    \/ grUp[n] /\ grAt[n] = "loaded" /\ GrEvent

GrKeyExpires(n) ==
    /\ grKey[n].there /\ Silent(n)
    /\ grKey' = [grKey EXCEPT ![n] = NoMember]
    /\ grLock' = IF grLock = n THEN GrNobody ELSE grLock
    /\ UNCHANGED <<grData, grRole, grUp, grView, grAt, grPaused>>

\* The operator resumes the cluster, after repairing it or not.
GrResume ==
    /\ grPaused
    /\ grPaused' = FALSE
    /\ UNCHANGED <<grData, grRole, grUp, grKey, grLock, grView, grAt, grEvents>>

-----------------------------------------------------------------------------
GrCycle(n) ==
    \/ GrLoad(n) \/ GrRace(n) \/ GrLostLock(n) \/ GrPausedRelease(n) \/ GrActive(n) \/ GrElect(n) \/ GrJoins(n) \/ GrJoinFails(n) \/ GrBootstrap(n)

GrNext ==
    \/ \E n \in GrNodes : GrCycle(n) \/ GrApply(n) \/ GrRestart(n) \/ GrKeyExpires(n)
    \/ \E g \in 1..MaxGroups : GrCommit(g)
    \/ \E C \in SUBSET GrNodes : GrCrash(C)
    \/ GrResume

GrSpec == GrInit /\ [][GrNext]_grVars

-----------------------------------------------------------------------------
\* Type invariant.
GrTypeOK ==
    /\ grGtid \in [GrNodes -> SUBSET (1..MaxTxns)]
    /\ grGroup \in [GrNodes -> 0..MaxGroups] /\ grLead \in [1..MaxGroups -> GrNodes \union {GrNobody}]
    /\ grRole \in [GrNodes -> {"replica", "primary", "demoted", "mgr_primary", "mgr_secondary"}]
    /\ grUp \in [GrNodes -> BOOLEAN] /\ grLock \in GrNodes \union {GrNobody} /\ grPaused \in BOOLEAN
    /\ grAt \in [GrNodes -> {"idle", "loaded", "rejoin", "rejoin_or_bootstrap", "bootstrap"}]

\* At most one group is alive.
OneGroup == \A m, n \in GrNodes : grGroup[m] # 0 /\ grGroup[n] # 0 => grGroup[m] = grGroup[n]

\* The winner of the election has every published transaction; there is none exactly when no member has them all.
\* All nodes that see the same GTID sets elect the same one (select_mgr_bootstrap_winner,
\* on all sets of three members; evaluated before the first group is formed).
ElectionSound ==
    grGroups = 0 /\ (\A n \in GrNodes : grAt[n] = "idle") => \A gtid \in [1..3 -> SUBSET (1..3)] :
        LET holds(n) == gtid[n] # {} /\ \A m \in 1..3 : gtid[m] \subseteq gtid[n]
        IN  IF \E n \in 1..3 : holds(n)
            THEN holds(Winner(gtid)) /\ \A n \in 1..3 : holds(n) => Winner(gtid) <= n
            ELSE Winner(gtid) = GrNobody

\* The group is bootstrapped by a node that has all the transactions that the members had published when it loaded
\* the cluster, also when it tried to join another group first.
NothingPublishedLost ==
    [][\A n \in GrNodes :
          grAt[n] = "bootstrap" /\ grGroup'[n] # grGroup[n] =>
              \A m \in GrNodes : grView[n].keys[m].gtid \subseteq grGtid[n]]_grVars

\* The winner bootstraps only while it holds the DCS lock.
BootstrapsWithLock ==
    [][\A n \in GrNodes : grAt[n] = "bootstrap" /\ grGroup'[n] # grGroup[n] => grLock = n]_grVars
=============================================================================
