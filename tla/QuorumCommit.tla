---------------------------- MODULE QuorumCommit ----------------------------
(***************************************************************************)
(* Quorum commit (synchronous_mode: quorum).  The primary keeps two places *)
(* in step: synchronous_standby_names in its PostgreSQL, which says which  *)
(* standbys acknowledge a commit, and the /sync key in the DCS, which says *)
(* whom a candidate has to compare its WAL position with before it may     *)
(* promote.  Ha._process_quorum_replication runs the resolver of module    *)
(* QuorumResolver and applies its transitions one by one; anything can     *)
(* happen between two of them.                                             *)
(*                                                                         *)
(* A WAL position is a number of transactions.  What two nodes have in     *)
(* common after a failover is what the new primary's history keeps, so a   *)
(* promotion cuts every position at the new primary's (pg_rewind and       *)
(* timelines are left out; PostgreSQL never streams a diverged history).   *)
(* That there is one primary at a time is what module HaLoop is about.     *)
(***************************************************************************)
EXTENDS QuorumResolver

CONSTANTS FirstPrimary,    \* the node that bootstrapped the cluster
          Setups,          \* the clusters to look at, see below
          MaxQuorum        \* bound: quorum written to the /sync key

(***************************************************************************)
(* A setup is a cluster and the bounds of its exploration: its nodes, the  *)
(* values synchronous_node_count may take, synchronous_mode_strict, the    *)
(* runs of the resolver in which a calm cluster must reach the desired     *)
(* state (0: it never calms down), the bound on transactions written and   *)
(* the bound on promotions.                                                *)
(***************************************************************************)
ASSUME ParametersAssumption ==
    /\ FirstPrimary \in Nodes /\ MaxQuorum \in Nat
    /\ \A s \in Setups : /\ DOMAIN s = {"nodes", "counts", "strict", "calmRuns", "wal", "failovers"}
                         /\ FirstPrimary \in s.nodes /\ s.nodes \subseteq Nodes
                         /\ s.counts \subseteq Nat \ {0} /\ s.counts # {} /\ s.strict \in BOOLEAN
                         /\ s.calmRuns \in Nat /\ s.wal \in Nat /\ s.failovers \in Nat

VARIABLES setup,      \* the cluster of this behaviour
          primary,    \* the node that holds the leader key and runs as primary
          key,        \* /sync: leader, quorum, voters
          guc,        \* synchronous_standby_names of the primary: num, names, star
          todo,       \* transitions of the running _process_quorum_replication not yet applied
          failure,    \* the exception the last run of the resolver ended with
          seen,       \* seen[n]: SyncHandler._synchronous_standby_names of n
          flush,      \* flush[n]: SyncHandler._primary_flush_lsn of n
          ready,      \* ready[n]: SyncHandler._ready_replicas of n
          wal,        \* wal[n]: WAL position of n
          acked,      \* position up to which transactions were acknowledged to clients
          calm,       \* runs started since the cluster has calmed down, plus one; 0 before
          target,     \* active standbys and synchronous_node_count of the calm cluster
          failovers   \* promotions so far

handler == <<seen, flush, ready>>
data == <<wal, acked>>
vars == <<setup, primary, key, guc, todo, failure, seen, flush, ready, wal, acked, calm, target, failovers>>

Cluster == setup.nodes
SyncCounts == setup.counts
Strict == setup.strict
CalmRuns == setup.calmRuns
MaxWal == setup.wal
MaxFailovers == setup.failovers

MinSync == IF Strict THEN 1 ELSE 0
Unset == [num |-> 0, names |-> {}, star |-> FALSE]
Star == [num |-> 1, names |-> {}, star |-> TRUE]
Members == IF key.leader = NoNode THEN {} ELSE {key.leader} \union key.voters

Init ==
    /\ setup \in Setups
    /\ primary = FirstPrimary
    /\ key = [leader |-> NoNode, quorum |-> 0, voters |-> {}]
    /\ guc = IF Strict THEN Star ELSE Unset
    /\ todo = <<>>
    /\ failure = "none"
    /\ seen = [n \in Cluster |-> Unset]
    /\ flush = [n \in Cluster |-> 0]
    /\ ready = [n \in Cluster |-> {}]
    /\ wal = [n \in Cluster |-> 0]
    /\ acked = 0
    /\ calm = 0
    /\ target = [active |-> {}, wanted |-> 0]
    /\ failovers = 0

-----------------------------------------------------------------------------
(***************************************************************************)
(* SyncHandler.                                                            *)
(***************************************************************************)
(***************************************************************************)
(* set_synchronous_standby_names: an empty list is written as '*' if       *)
(* num >= 1 and as no setting at all, which is read as 0, otherwise.       *)
(* PostgreSQL refuses "ANY 0 (...)" and keeps the old value.               *)
(***************************************************************************)
Setting(old, num, names) ==
    IF num <= 0 /\ names # {} THEN old
    ELSE [num |-> Higher(num, 0), names |-> names, star |-> num >= 1 /\ names = {}]

(***************************************************************************)
(* _handle_synchronous_standby_names_change: forget standbys that are no   *)
(* longer listed and remember the WAL position newly listed ones have to   *)
(* reach.                                                                  *)
(***************************************************************************)
StillListed(n, setting) == IF setting = seen[n] THEN ready[n] ELSE ready[n] \intersect setting.names
FlushLsn(n, setting) == IF setting = seen[n] THEN flush[n] ELSE wal[n]

HandleChange(n, setting) ==
    /\ seen' = [seen EXCEPT ![n] = setting]
    /\ flush' = [flush EXCEPT ![n] = FlushLsn(n, setting)]
    /\ ready' = [ready EXCEPT ![n] = StillListed(n, setting)]

\* _process_replica_readiness: standbys that may be counted as synchronous from now on.
CaughtUp(n, active) == {m \in guc.names \intersect active : wal[m] >= FlushLsn(n, guc)}

-----------------------------------------------------------------------------
(***************************************************************************)
(* Ha._process_quorum_replication on the primary.                          *)
(***************************************************************************)
\* _maybe_enable_synchronous_mode: the first run writes the leader's name.
EnableSynchronousMode ==
    /\ key.leader = NoNode
    /\ key' = [leader |-> primary, quorum |-> 0, voters |-> {}]
    /\ UNCHANGED <<setup, primary, guc, todo, failure, handler, data, calm, target, failovers>>

(***************************************************************************)
(* current_state() and the resolver.  "active" are the standbys that       *)
(* stream from the primary and are eligible, "reported" those that caught  *)
(* up and that PostgreSQL already shows with sync_state = 'quorum'.        *)
(***************************************************************************)
Started(result, known) ==
    /\ key.leader # NoNode
    /\ todo = <<>>
    /\ seen' = [seen EXCEPT ![primary] = guc]
    /\ flush' = [flush EXCEPT ![primary] = FlushLsn(primary, guc)]
    /\ ready' = [ready EXCEPT ![primary] = known]
    /\ todo' = result.transitions
    /\ failure' = result.err
    /\ calm' = IF calm \in 1..CalmRuns THEN calm + 1 ELSE calm
    /\ UNCHANGED <<setup, primary, key, guc, data, target, failovers>>

StartRunWith(active, reported, wanted) ==
    LET known == StillListed(primary, guc) \union reported
    IN Started(Resolve(Resolver(key, guc.num, guc.names, Cardinality(known \intersect active),
                                active, wanted, primary)), known)

StartRun ==
    IF calm > 0 THEN StartRunWith(target.active, CaughtUp(primary, target.active), target.wanted)
    ELSE \E active \in SUBSET (Cluster \ {primary}), wanted \in SyncCounts :
           \E reported \in SUBSET CaughtUp(primary, active) : StartRunWith(active, reported, wanted)

\* A 'quorum' transition: write_sync_state.
UpdateKey ==
    /\ todo # <<>> /\ Head(todo).type = "quorum" /\ Head(todo).num <= MaxQuorum
    /\ key' = [leader |-> Head(todo).leader, quorum |-> Head(todo).num, voters |-> Head(todo).names]
    /\ todo' = Tail(todo)
    /\ UNCHANGED <<setup, primary, guc, failure, handler, data, calm, target, failovers>>

(***************************************************************************)
(* A 'sync' transition: the number is raised to the minimum replication    *)
(* factor, the setting is written and, unless it is '*', the change is     *)
(* handled at once.                                                        *)
(***************************************************************************)
UpdateSettings ==
    LET new == Setting(guc, Higher(Head(todo).num, MinSync), Head(todo).names)
    IN /\ todo # <<>> /\ Head(todo).type = "sync"
       /\ guc' = new
       /\ IF new.star \/ new = guc THEN UNCHANGED handler ELSE HandleChange(primary, new)
       /\ todo' = Tail(todo)
       /\ UNCHANGED <<setup, primary, key, failure, data, calm, target, failovers>>

\* A 'restart' transition: the resolver is run again on a fresh state.
Restart ==
    /\ todo # <<>> /\ Head(todo).type = "restart"
    /\ todo' = <<>>
    /\ UNCHANGED <<setup, primary, key, guc, failure, handler, data, calm, target, failovers>>

\* loop_wait is over (_check_timeout), or the key could not be written (the bound on the quorum included).
Interrupt ==
    /\ todo # <<>>
    /\ calm = 0 \/ (Head(todo).type = "quorum" /\ Head(todo).num > MaxQuorum)
    /\ todo' = <<>>
    /\ UNCHANGED <<setup, primary, key, guc, failure, handler, data, calm, target, failovers>>

\* Patroni of n is started again: SyncHandler.__init__.
RestartPatroni(n) ==
    /\ calm = 0
    /\ seen' = [seen EXCEPT ![n] = Unset]
    /\ flush' = [flush EXCEPT ![n] = 0]
    /\ ready' = [ready EXCEPT ![n] = {}]
    /\ todo' = IF n = primary THEN <<>> ELSE todo
    /\ UNCHANGED <<setup, primary, key, guc, failure, data, calm, target, failovers>>

-----------------------------------------------------------------------------
(***************************************************************************)
(* The leader race, Ha._is_healthiest_node, on a standby c that can reach  *)
(* the nodes in "reachable".                                               *)
(***************************************************************************)
Asked(c, reachable) == (reachable \ {c}) \intersect (IF Members = {} THEN Cluster ELSE Members)
Ahead(c, reachable) == {m \in Asked(c, reachable) : wal[m] > wal[c]}

\* Altered form: a candidate that is no member of the key needs no more votes than a member.
VotesForAnybody(c, reachable) == Cardinality({m \in Asked(c, reachable) \intersect Members : wal[m] <= wal[c]})

Votes(c, reachable) ==
    Cardinality({m \in Asked(c, reachable) \intersect Members : wal[m] <= wal[c]}) - (IF c \in Members THEN 0 ELSE 1)

IsHealthiest(c, reachable) ==
    /\ Ahead(c, reachable) \subseteq (IF Members = {} THEN {} ELSE {key.leader})
    /\ \/ Members = {}
       \/ Votes(c, reachable) >= key.quorum
       \/ c = key.leader /\ Ahead(c, reachable) = {}

CanWin(c) == \E reachable \in SUBSET (Cluster \ {c}) : IsHealthiest(c, reachable)

\* Altered form: a candidate that is no member of the key counts itself, too.
PrePromoteCountsSelf(c) ==
    IF Members = {} THEN Setting(Unset, MinSync, {})
    ELSE Setting(Unset, Cardinality(Members) - key.quorum - 1, Members \ {c})

(***************************************************************************)
(* process_sync_replication_prepromote: the candidate asks all members of  *)
(* the /sync key but itself for as many acknowledgements as its quorum     *)
(* leaves necessary.                                                       *)
(***************************************************************************)
PrePromoteSetting(c) ==
    IF Members = {} THEN Setting(Unset, MinSync, {})
    ELSE Setting(Unset, Cardinality(Members) - key.quorum - (IF c \in Members THEN 1 ELSE 0), Members \ {c})

\* The primary is gone: c wins the leader race and promotes.
Promote(c) ==
    /\ calm = 0 /\ failovers < MaxFailovers
    /\ c # primary
    /\ CanWin(c)
    /\ primary' = c
    /\ guc' = PrePromoteSetting(c)
    /\ wal' = [n \in Cluster |-> Lower(wal[n], wal[c])]
    /\ acked' = Lower(acked, wal[c])
    /\ todo' = <<>>
    /\ failovers' = failovers + 1
    /\ UNCHANGED <<setup, key, failure, handler, calm, target>>

-----------------------------------------------------------------------------
(***************************************************************************)
(* Clients, PostgreSQL and its replication.                                *)
(***************************************************************************)
Write ==
    /\ wal[primary] < MaxWal
    /\ wal' = [wal EXCEPT ![primary] = @ + 1]
    /\ UNCHANGED <<setup, primary, key, guc, todo, failure, handler, acked, calm, target, failovers>>

Replicate(n) ==
    /\ wal[n] < wal[primary]
    /\ wal' = [wal EXCEPT ![n] = @ + 1]
    /\ UNCHANGED <<setup, primary, key, guc, todo, failure, handler, acked, calm, target, failovers>>

\* The next transaction is acknowledged when synchronous_standby_names is satisfied.
Holders(position) ==
    {n \in Cluster \ {primary} : wal[n] >= position /\ (guc.star \/ n \in guc.names)}

Acknowledge ==
    /\ acked < wal[primary]
    /\ Cardinality(Holders(acked + 1)) >= guc.num
    /\ acked' = acked + 1
    /\ UNCHANGED <<setup, primary, key, guc, todo, failure, handler, wal, calm, target, failovers>>

CalmDown ==
    /\ calm = 0 /\ CalmRuns > 0
    /\ calm' = 1
    /\ target' \in [active : SUBSET (Cluster \ {primary}), wanted : SyncCounts]
    /\ UNCHANGED <<setup, primary, key, guc, todo, failure, handler, data, failovers>>

-----------------------------------------------------------------------------
Run == EnableSynchronousMode \/ StartRun \/ UpdateKey \/ UpdateSettings \/ Restart

Next ==
    \/ Run \/ Interrupt \/ Write \/ Acknowledge \/ CalmDown
    \/ \E n \in Cluster : RestartPatroni(n) \/ Promote(n) \/ Replicate(n)

Spec == Init /\ [][Next]_vars

-----------------------------------------------------------------------------
Settings == [num : 0..Cardinality(Cluster), names : SUBSET Cluster, star : BOOLEAN]

\* Type invariant: the /sync key, synchronous_standby_names and the state of every SyncHandler.
TypeOK ==
    /\ setup \in Setups
    /\ primary \in Cluster
    /\ key \in [leader : Cluster \union {NoNode}, quorum : 0..MaxQuorum, voters : SUBSET Cluster]
    /\ guc \in Settings
    /\ failure \in {"none", "QuorumError", "AssertionError"}
    /\ seen \in [Cluster -> Settings]
    /\ flush \in [Cluster -> 0..MaxWal]
    /\ ready \in [Cluster -> SUBSET Cluster]
    /\ wal \in [Cluster -> 0..MaxWal]
    /\ acked \in 0..MaxWal
    /\ calm \in 0..(CalmRuns + 1)
    /\ target \in [active : SUBSET Cluster, wanted : SyncCounts \union {0}]
    /\ failovers \in 0..MaxFailovers

(***************************************************************************)
(* QuorumStateResolver raises no exception in any state that interrupted   *)
(* runs, restarts and changes of the standbys and of                       *)
(* synchronous_node_count leave behind, as long as the first primary       *)
(* leads.  After an exception nothing is applied and the same exception    *)
(* comes back in every HA loop.                                            *)
(***************************************************************************)
ResolverNeverFails == failovers = 0 => failure = "none"

(***************************************************************************)
(* The resolver reaches the desired state its documentation names, from    *)
(* whatever state it finds: once nothing changes any more, it takes at     *)
(* most CalmRuns runs until synchronous_standby_names and /sync list       *)
(* exactly the active standbys with the wanted replication factor.         *)
(***************************************************************************)
DesiredState ==
    LET active == target.active
        num == Lower(target.wanted, Cardinality(active))
    IN /\ guc = Setting(guc, Higher(num, MinSync), active)
       /\ key = [leader |-> primary, quorum |-> Cardinality(active) - num, voters |-> active]

ReachesDesiredState == calm > 0 /\ calm = CalmRuns + 1 /\ todo = <<>> => DesiredState

(***************************************************************************)
(* At all times every group of nodes that may acknowledge a commit by      *)
(* synchronous_standby_names of the primary has a node in common with      *)
(* every group that may elect a leader by the /sync key, also between two  *)
(* transitions, after an interruption and right after a promotion.         *)
(***************************************************************************)
Electorates == {E \in SUBSET Members : Cardinality(E) = key.quorum + 1}
AckSets == {A \in SUBSET (guc.names \ {primary}) : Cardinality(A) = guc.num}
QuorumsOverlap == \A E \in Electorates, A \in AckSets : (A \union {primary}) \intersect E # {}

(***************************************************************************)
(* A transaction for which synchronous_standby_names of the primary is     *)
(* satisfied, so that its commit is acknowledged to the client, is on      *)
(* every node that can win the leader race, whichever nodes that candidate *)
(* can reach: it counts the votes it needs by the /sync key, which was     *)
(* written at another time and by another node.  The exception is the node *)
(* the key names as leader, whom _is_healthiest_node() counts healthy      *)
(* without any vote; it matters while a new primary has not yet put its    *)
(* own name there.                                                         *)
(***************************************************************************)
CommitSurvives ==
    key.leader # NoNode =>
        \A p \in 1..wal[primary] : Cardinality(Holders(p)) >= guc.num =>
            \A c \in Cluster \ {key.leader} : CanWin(c) => wal[c] >= p

(***************************************************************************)
(* More than CommitSurvives: whoever can win the leader race holds every   *)
(* transaction that was acknowledged under any earlier setting.            *)
(***************************************************************************)
NoCommitLost == key.leader # NoNode => \A c \in Cluster : CanWin(c) => wal[c] >= acked

(***************************************************************************)
(* The quorum of the /sync key can be met: a voter that sees all other     *)
(* members of the key, the leader included, has enough votes.              *)
(***************************************************************************)
QuorumAttainable == key.voters # {} => key.quorum <= Cardinality(key.voters)
=============================================================================
