------------------------------ MODULE Failsafe ------------------------------
(***************************************************************************)
(* DCS failsafe mode (failsafe_mode: true).  A primary that cannot reach   *)
(* the DCS goes on without the leader key as long as every member listed   *)
(* in the /failsafe key accepts its POST /failsafe; a member that accepted *)
(* one takes its sender for the leader for ttl seconds and stays out of    *)
(* the leader race, and a member that is not listed may not race at all.   *)
(*                                                                         *)
(* Time is discrete and every deadline is a countdown, as in module        *)
(* HaLoop.  age[n] is the time since the DCS applied n's write, or a       *)
(* member accepted n's request, while n has not yet fed its watchdog       *)
(* (ReplyDelay bounds it), or since n has found the cluster without a      *)
(* leader while it has not yet tried to get the key (RaceDelay).  A        *)
(* Patroni process may otherwise be as slow as it likes: only the watchdog *)
(* ends a primary whose loop does not get round.                           *)
(* How demote() stops PostgreSQL and what the promotion job does are the   *)
(* subject of module HaLoop; here a demotion is the moment PostgreSQL      *)
(* stops accepting commits, and the promotion of a node that is demoted is *)
(* over.                                                                   *)
(***************************************************************************)
EXTENDS Naturals, FiniteSets

CONSTANTS Node, None,
          First,            \* the node that leads at the start
          Known,            \* the nodes that have a member key at the start
          NoList,           \* the /failsafe key does not exist
          TTL,              \* ttl of the leader key and of the failsafe state
          WatchdogTimeout,  \* time from a keepalive to the reset of the machine
          ReplyDelay,       \* bound on: write applied or request accepted -> keepalive
          RaceDelay,        \* bound on: cluster found without a leader -> attempt to get the key
          Faults,           \* failures that may happen
          MaxFaults         \* bound on their number

ASSUME ConstantsAssumption ==
    /\ IsFiniteSet(Node) /\ None \notin Node /\ First \in Known /\ Known \subseteq Node
    /\ \A S \in SUBSET Node : NoList # S
    /\ TTL \in Nat \ {0} /\ WatchdogTimeout \in Nat \ {0} /\ ReplyDelay \in Nat /\ RaceDelay \in Nat
    /\ Faults \subseteq {"outage", "partition", "restart", "forget", "lost_write", "lost_newcomer", "lost_answer"}
    /\ MaxFaults \in Nat

VARIABLES key,       \* the leader key: owner and remaining ttl
          failkey,   \* the /failsafe key: the listed members
          members,   \* the nodes with a member key
          dcs,       \* the nodes that can reach the DCS
          cut,       \* pairs of nodes that cannot reach each other
          pc,        \* where the HA thread is
          list,      \* AbstractDCS._last_failsafe
          seen,      \* Ha.cluster.members: those with a member key when the cluster was loaded
          asked,     \* members whose answer is outstanding
          accepted,  \* all answers so far were 'Accepted'
          age,
          left,      \* time left of Failsafe._last_update + ttl
          boss,      \* Failsafe._name
          pg,        \* the local PostgreSQL
          hw,        \* time left of the watchdog device; WdOff when not armed
          faults

loopVars == <<pc, list, seen, asked, accepted, age>>
fsVars == <<left, boss>>
pgVars == <<pg, hw>>
envVars == <<dcs, cut, faults>>
vars == <<key, failkey, members, loopVars, fsVars, pgVars, envVars>>

WdOff == WatchdogTimeout + 1
Lists == {NoList} \cup SUBSET Node
Pairs == {{n, m} : n, m \in Node}
\* PostgreSQL accepts commits from the promotion on, before Patroni has set the role.
Writable == {"promoting", "primary"}

Init ==
    /\ key = [owner |-> First, ttl |-> TTL]
    /\ failkey = NoList
    /\ members = Known
    /\ dcs = Node
    /\ cut = {}
    /\ pc = [n \in Node |-> "idle"]
    /\ list = [n \in Node |-> {}]
    /\ seen = [n \in Node |-> {}]
    /\ asked = [n \in Node |-> {}]
    /\ accepted = [n \in Node |-> TRUE]
    /\ age = [n \in Node |-> 0]
    /\ left = [n \in Node |-> 0]
    /\ boss = [n \in Node |-> None]
    /\ pg = [n \in Node |-> IF n = First THEN "primary" ELSE "replica"]
    /\ hw = [n \in Node |-> IF n = First THEN WatchdogTimeout ELSE WdOff]
    /\ faults = 0

Fault(kind) == kind \in Faults /\ faults < MaxFaults /\ faults' = faults + 1
Goto(n, label) == pc' = [pc EXCEPT ![n] = label]

\* Failsafe.set_is_active(0)
ResetFailsafe(n) ==
    /\ left' = [left EXCEPT ![n] = 0]
    /\ boss' = [boss EXCEPT ![n] = None]

Demote(n) ==
    /\ pg' = [pg EXCEPT ![n] = "replica"]
    /\ hw' = [hw EXCEPT ![n] = WdOff]

(***************************************************************************)
(* A cycle of a node that is not or no longer the leader ends: a primary   *)
(* is demoted; a promotion is cancelled if PostgreSQL was not yet told to  *)
(* promote (the watchdog stays armed) and left alone otherwise.            *)
(***************************************************************************)
WithoutLock(n) ==
    /\ Goto(n, "idle")
    /\ \/ pg[n] = "primary" /\ Demote(n)
       \/ pg[n] = "promoting" /\ pg' = [pg EXCEPT ![n] = "replica"] /\ UNCHANGED hw
       \/ pg[n] # "primary" /\ UNCHANGED pgVars

-----------------------------------------------------------------------------
(***************************************************************************)
(* load_cluster_from_dcs.  When nobody holds the key, a sender of an       *)
(* accepted POST /failsafe counts as the leader (Failsafe.update_cluster). *)
(* The member key that touch_member writes at the end of the cycle is put  *)
(* in place here.                                                          *)
(***************************************************************************)
Leader(n) == IF key.owner = None /\ left[n] > 0 THEN boss[n] ELSE key.owner

LoadCluster(n) ==
    /\ pg[n] # "off" /\ pc[n] = "idle"
    /\ IF n \in dcs
       THEN /\ list' = [list EXCEPT ![n] = failkey]
            /\ seen' = [seen EXCEPT ![n] = members]
            /\ members' = members \cup {n}
            /\ CASE Leader(n) = n -> Goto(n, "mine") /\ UNCHANGED pgVars
                 [] Leader(n) = None -> Goto(n, "race") /\ UNCHANGED pgVars
                 [] OTHER -> WithoutLock(n)
       ELSE Goto(n, "error") /\ UNCHANGED <<list, seen, members, pgVars>>
    /\ age' = [age EXCEPT ![n] = 0]
    /\ UNCHANGED <<key, failkey, asked, accepted, fsVars, envVars>>

\* update_lock: the key is extended if it is still ours.
UpdateLock(n) ==
    /\ pc[n] = "mine"
    /\ CASE n \notin dcs -> Goto(n, "error") /\ UNCHANGED <<key, pgVars>>
         [] n \in dcs /\ key.owner = n ->
              Goto(n, "updated") /\ key' = [key EXCEPT !.ttl = TTL] /\ UNCHANGED pgVars
         [] OTHER -> WithoutLock(n) /\ UNCHANGED key
    /\ age' = [age EXCEPT ![n] = 0]
    /\ UNCHANGED <<failkey, members, list, seen, asked, accepted, fsVars, envVars>>

\* write_failsafe; an error leaves the remembered list alone, also when the DCS has applied the write.
\* An answer that is lost when a member was added to a list is a fault of its own.
WriteFailsafe(n, new) ==
    \/ n \in dcs /\ failkey' = new /\ list' = [list EXCEPT ![n] = new] /\ UNCHANGED faults
    \/ /\ n \in dcs /\ failkey' = new /\ UNCHANGED list
       /\ Fault(IF list[n] # NoList /\ ~(new \subseteq list[n]) THEN "lost_newcomer" ELSE "lost_write")
    \/ n \notin dcs /\ UNCHANGED <<failkey, list, faults>>

WriteList(n) ==
    /\ pc[n] = "updated"
    /\ LET config == seen[n] \cup {n} IN
       IF list[n] = config THEN UNCHANGED <<failkey, list, faults>> ELSE WriteFailsafe(n, config)
    /\ Goto(n, "keepalive")
    /\ UNCHANGED <<key, members, seen, asked, accepted, age, fsVars, pgVars, dcs, cut>>

\* The end of a cycle with the key: keepalive, or activate and promote; then set_is_active(0).
Keepalive(n) ==
    /\ pc[n] = "keepalive"
    /\ hw' = [hw EXCEPT ![n] = WatchdogTimeout]
    /\ pg' = [pg EXCEPT ![n] = IF @ = "replica" THEN "promoting" ELSE @]
    /\ ResetFailsafe(n)
    /\ Goto(n, "idle")
    /\ UNCHANGED <<key, failkey, members, list, seen, asked, accepted, age, envVars>>

Promoted(n) ==
    /\ pg[n] = "promoting"
    /\ pg' = [pg EXCEPT ![n] = "primary"]
    /\ UNCHANGED <<key, failkey, members, loopVars, fsVars, hw, envVars>>

(***************************************************************************)
(* is_healthiest_node and acquire_lock.  A replica asks all members it     *)
(* knows of and stays out when one of those it hears from is a primary;    *)
(* WAL positions may keep it out, too.                                     *)
(***************************************************************************)
\* Altered form: a member that the key does not list may race.
AnybodyMayRace(n) == TRUE

MayRace(n) == list[n] \notin {NoList, {}} => n \in list[n]

Reachable(n) == {m \in Node \ {n} : {n, m} \notin cut /\ pg[m] # "off"}
IsHealthiest(n) ==
    \/ pg[n] = "primary"
    \/ /\ pg[n] = "replica"
       /\ MayRace(n)
       /\ \E heard \in SUBSET Reachable(n) : \A m \in heard : pg[m] \notin Writable

AcquireLock(n) ==
    /\ pc[n] = "race" /\ IsHealthiest(n)
    /\ CASE n \notin dcs -> Goto(n, "error") /\ UNCHANGED <<key, pgVars>>
         [] n \in dcs /\ key.owner = None ->
              key' = [owner |-> n, ttl |-> TTL] /\ Goto(n, "acquired") /\ UNCHANGED pgVars
         [] OTHER -> WithoutLock(n) /\ UNCHANGED key
    /\ age' = [age EXCEPT ![n] = 0]
    /\ UNCHANGED <<failkey, members, list, seen, asked, accepted, fsVars, envVars>>

\* The new leader loads the cluster again.
Reload(n) ==
    /\ pc[n] = "acquired"
    /\ IF n \in dcs
       THEN /\ list' = [list EXCEPT ![n] = failkey]
            /\ seen' = [seen EXCEPT ![n] = members]
            /\ Goto(n, "keepalive")
       ELSE Goto(n, "error") /\ UNCHANGED <<list, seen>>
    /\ UNCHANGED <<key, failkey, members, asked, accepted, age, fsVars, pgVars, envVars>>

\* A node with a promotion still running takes no part in the race.
NotHealthiest(n) ==
    /\ pc[n] = "race" /\ pg[n] # "primary"
    /\ WithoutLock(n)
    /\ UNCHANGED <<key, failkey, members, list, seen, asked, accepted, age, fsVars, envVars>>

-----------------------------------------------------------------------------
(***************************************************************************)
(* _handle_dcs_error and check_failsafe_topology: all listed members are   *)
(* asked at the same time.                                                 *)
(***************************************************************************)
\* What is_primary() returns; PostgreSQL may or may not have left recovery during a promotion.
IsPrimary(n) == CASE pg[n] = "primary" -> {TRUE} [] pg[n] = "promoting" -> BOOLEAN [] OTHER -> {FALSE}

HandleDcsError(n) ==
    /\ pc[n] = "error"
    /\ \E primary \in IsPrimary(n) :
       IF primary /\ list[n] # NoList /\ n \in list[n]
       THEN /\ Goto(n, "ask")
            /\ asked' = [asked EXCEPT ![n] = list[n] \ {n}]
            /\ accepted' = [accepted EXCEPT ![n] = TRUE]
            /\ age' = [age EXCEPT ![n] = 0]
            /\ UNCHANGED <<fsVars, pgVars>>
       ELSE /\ Goto(n, "idle")
            /\ IF primary THEN Demote(n) /\ ResetFailsafe(n) ELSE UNCHANGED <<pgVars, fsVars>>
            /\ UNCHANGED <<asked, accepted, age>>
    /\ UNCHANGED <<key, failkey, members, list, seen, envVars>>

\* update_failsafe on m for a request of n; a node with the role of a primary refuses,
\* one that is being promoted (role PROMOTED) does not.
UpdateFailsafe(n, m) ==
    /\ pg[m] # "primary"
    /\ left' = [left EXCEPT ![m] = TTL]
    /\ boss' = [boss EXCEPT ![m] = n]

\* call_failsafe_member: accepted; accepted but the answer got lost; refused or not reachable.
Ask(n, m) ==
    /\ pc[n] = "ask" /\ m \in asked[n]
    /\ asked' = [asked EXCEPT ![n] = @ \ {m}]
    /\ \/ m \in Reachable(n) /\ UpdateFailsafe(n, m) /\ UNCHANGED <<accepted, faults>>
       \/ /\ m \in Reachable(n) /\ UpdateFailsafe(n, m) /\ Fault("lost_answer")
          /\ accepted' = [accepted EXCEPT ![n] = FALSE]
       \/ /\ m \notin Reachable(n) \/ pg[m] = "primary"
          /\ accepted' = [accepted EXCEPT ![n] = FALSE]
          /\ UNCHANGED <<fsVars, faults>>
    /\ UNCHANGED <<key, failkey, members, pc, list, seen, age, pgVars, dcs, cut>>

Conclude(n) ==
    /\ pc[n] = "ask" /\ asked[n] = {}
    /\ IF accepted[n]
       THEN /\ left' = [left EXCEPT ![n] = TTL]
            /\ hw' = [hw EXCEPT ![n] = WatchdogTimeout]
            /\ Goto(n, "idle") /\ UNCHANGED <<boss, pg>>
       ELSE ResetFailsafe(n) /\ Demote(n) /\ Goto(n, "idle")
    /\ UNCHANGED <<key, failkey, members, list, seen, asked, accepted, age, envVars>>

-----------------------------------------------------------------------------
KeyExpires ==
    /\ key.owner # None /\ key.ttl = 0
    /\ key' = [key EXCEPT !.owner = None]
    /\ UNCHANGED <<failkey, members, loopVars, fsVars, pgVars, envVars>>

MemberKeyExpires(n) ==
    /\ n \in members /\ (n \notin dcs \/ pg[n] = "off")
    /\ members' = members \ {n}
    /\ UNCHANGED <<key, failkey, loopVars, fsVars, pgVars, envVars>>

WatchdogFires(n) ==
    /\ hw[n] = 0
    /\ pg' = [pg EXCEPT ![n] = "off"]
    /\ hw' = [hw EXCEPT ![n] = WdOff]
    /\ ResetFailsafe(n)
    /\ pc' = [pc EXCEPT ![n] = "idle"]
    /\ UNCHANGED <<key, failkey, members, list, seen, asked, accepted, age, envVars>>

\* What n has read, or what somebody has done on its request, is getting old.
Waiting(n) ==
    \/ pc[n] \in {"race", "updated", "acquired", "keepalive"}
    \/ pc[n] = "ask" /\ asked[n] # list[n] \ {n}

Patience(n) == IF pc[n] = "race" THEN RaceDelay ELSE ReplyDelay

Less(k) == IF k = 0 THEN 0 ELSE k - 1

Tick ==
    /\ key.owner # None => key.ttl > 0
    /\ \A n \in Node : hw[n] > 0 /\ (Waiting(n) => age[n] < Patience(n))
    /\ key' = [key EXCEPT !.ttl = Less(@)]
    /\ left' = [n \in Node |-> Less(left[n])]
    /\ hw' = [n \in Node |-> IF hw[n] = WdOff THEN WdOff ELSE Less(hw[n])]
    /\ age' = [n \in Node |-> IF Waiting(n) THEN age[n] + 1 ELSE 0]
    /\ UNCHANGED <<failkey, members, pc, list, seen, asked, accepted, boss, pg, envVars>>

\* Network between a node and the DCS, and between two nodes.
LoseDcs(n) ==
    /\ n \in dcs /\ Fault("outage") /\ dcs' = dcs \ {n}
    /\ UNCHANGED <<key, failkey, members, loopVars, fsVars, pgVars, cut>>

RegainDcs(n) ==
    /\ n \notin dcs /\ dcs' = dcs \cup {n}
    /\ UNCHANGED <<key, failkey, members, loopVars, fsVars, pgVars, cut, faults>>

Partition(p) ==
    /\ p \notin cut /\ Fault("partition") /\ cut' = cut \cup {p}
    /\ UNCHANGED <<key, failkey, members, loopVars, fsVars, pgVars, dcs>>

Heal(p) ==
    /\ p \in cut /\ cut' = cut \ {p}
    /\ UNCHANGED <<key, failkey, members, loopVars, fsVars, pgVars, dcs, faults>>

\* Patroni of n is restarted; the failsafe state is kept in memory only, and a restart
\* that forgets one is a fault of its own.
Restart(n) ==
    /\ pg[n] # "off" /\ Fault(IF left[n] > 0 /\ boss[n] # None THEN "forget" ELSE "restart")
    /\ Goto(n, "idle")
    /\ list' = [list EXCEPT ![n] = {}]
    /\ ResetFailsafe(n)
    /\ UNCHANGED <<key, failkey, members, seen, asked, accepted, age, pgVars, dcs, cut>>

-----------------------------------------------------------------------------
Cycle(n) ==
    \/ LoadCluster(n) \/ UpdateLock(n) \/ WriteList(n) \/ Keepalive(n) \/ Promoted(n)
    \/ AcquireLock(n) \/ Reload(n) \/ NotHealthiest(n) \/ HandleDcsError(n) \/ Conclude(n)
    \/ \E m \in Node : Ask(n, m)

Next ==
    \/ Tick \/ KeyExpires
    \/ \E n \in Node : Cycle(n) \/ MemberKeyExpires(n) \/ WatchdogFires(n)
                       \/ LoseDcs(n) \/ RegainDcs(n) \/ Restart(n)
    \/ \E p \in Pairs : Cardinality(p) = 2 /\ (Partition(p) \/ Heal(p))

Spec == Init /\ [][Next]_vars

-----------------------------------------------------------------------------
\* Type invariant.
TypeOK ==
    /\ key \in [owner : Node \cup {None}, ttl : 0..TTL]
    /\ failkey \in Lists
    /\ members \subseteq Node /\ dcs \subseteq Node /\ cut \subseteq Pairs
    /\ pc \in [Node -> {"idle", "mine", "race", "acquired", "updated", "keepalive", "error", "ask"}]
    /\ list \in [Node -> Lists]
    /\ seen \in [Node -> SUBSET Node]
    /\ asked \in [Node -> SUBSET Node]
    /\ accepted \in [Node -> BOOLEAN]
    /\ age \in [Node -> 0..(ReplyDelay + RaceDelay)]
    /\ left \in [Node -> 0..TTL]
    /\ boss \in [Node -> Node \cup {None}]
    /\ pg \in [Node -> {"replica", "off"} \cup Writable]
    /\ hw \in [Node -> 0..WdOff]
    /\ faults \in 0..MaxFaults

(***************************************************************************)
(* Failsafe mode does not cost what the leader key is for: there are never *)
(* two nodes that accept commits, although the primary may have lost its   *)
(* key long ago and other members can still reach the DCS.                 *)
(***************************************************************************)
OnePrimary == \A n, m \in Node : pg[n] \in Writable /\ pg[m] \in Writable => n = m

(***************************************************************************)
(* When the DCS is back the primary keeps its place: a cycle that reaches  *)
(* the DCS demotes a primary that did not lose its key in the very same    *)
(* cycle only if somebody else has the key, never because of a failsafe    *)
(* request it accepted before, or its own failsafe state, still counts.    *)
(***************************************************************************)
DemotedForAnother ==
    [][\A n \in Node : pg[n] = "primary" /\ pg'[n] = "replica" /\ pc[n] \in {"idle", "race"}
                       => key.owner \notin {n, None}]_vars
=============================================================================
