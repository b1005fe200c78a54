--------------------------- MODULE QuorumResolver ---------------------------
(***************************************************************************)
(* QuorumStateResolver (patroni/quorum.py): given the /sync key of the DCS *)
(* (leader, quorum, voters), synchronous_standby_names of the primary      *)
(* (numsync, sync), the number of standbys confirmed to have caught up,    *)
(* the active standbys and the wanted replication factor, it computes the  *)
(* list of updates of the two places, in the order they must be made.      *)
(*                                                                         *)
(* The resolver object is a record r; a method of the class is an operator *)
(* from records to records.  r.out is the list of transitions yielded so   *)
(* far and r.err is the exception that ended the computation, if any: once *)
(* it is set, every later update leaves the record alone.                  *)
(***************************************************************************)
EXTENDS Integers, Sequences, FiniteSets

CONSTANTS Nodes,       \* names of the members; integers, because the code sorts them
          NoNode       \* None

ASSUME NodesAssumption == Nodes \subseteq Int /\ IsFiniteSet(Nodes) /\ NoNode \notin Nodes

Lower(a, b) == IF a < b THEN a ELSE b
Higher(a, b) == IF a > b THEN a ELSE b

\* sorted(S)[:k] and sorted(S, reverse=True)[:k]
FirstNames(S, k) == {n \in S : Cardinality({o \in S : o < n}) < k}
LastNames(S, k) == {n \in S : Cardinality({o \in S : o > n}) < k}

Transition(type, leader, num, names) ==
    [type |-> type, leader |-> leader, num |-> num, names |-> names]

(***************************************************************************)
(* __init__: numsync cannot be bigger than the number of listed names.     *)
(***************************************************************************)
Resolver(key, numsync, sync, confirmed, active, wanted, leaderWanted) ==
    [leader |-> key.leader, quorum |-> key.quorum, voters |-> key.voters,
     numsync |-> Lower(numsync, Cardinality(sync)), sync |-> sync,
     confirmed |-> confirmed, active |-> active, wanted |-> wanted,
     leaderWanted |-> leaderWanted, out |-> <<>>, err |-> "none"]

Raise(r, e) == [r EXCEPT !.err = e]
MustHold(r, cond) == IF r.err # "none" \/ cond THEN r ELSE Raise(r, "AssertionError")

(***************************************************************************)
(* check_invariants: what may acknowledge a commit overlaps what may elect *)
(* a leader, and one of the two sets contains the other.                   *)
(***************************************************************************)
InvariantsHold(r) ==
    LET voters == r.voters \union {r.leader}
        sync == r.sync \union {r.leaderWanted}
    IN /\ r.voters # {} => Cardinality(voters \union sync) <= r.quorum + r.numsync + 1
       /\ voters \subseteq sync \/ sync \subseteq voters

CheckInvariants(r) == IF r.err # "none" \/ InvariantsHold(r) THEN r ELSE Raise(r, "QuorumError")

Yield(r, t) == IF r.err # "none" THEN r ELSE [r EXCEPT !.out = Append(r.out, t)]

(***************************************************************************)
(* quorum_update: the /sync key.  With nobody confirmed and no voters the  *)
(* key stays without voters; otherwise the quorum grows by the number of   *)
(* listed standbys that have not caught up.  An update that changes        *)
(* nothing is skipped, or, when there are no voters, announced as a        *)
(* restart.                                                                *)
(***************************************************************************)
WriteKey(r, leader, quorum, voters) ==
    LET t(type) == Transition(type, leader, quorum, voters)
    IN IF <<leader, quorum, voters>> = <<r.leader, r.quorum, r.voters>>
       THEN IF voters # {} THEN r ELSE Yield(CheckInvariants(Yield(r, t("restart"))), t("quorum"))
       ELSE Yield(CheckInvariants([r EXCEPT !.leader = leader, !.quorum = quorum, !.voters = voters]), t("quorum"))

QuorumUpdate(r, quorum, voters, leader, adjust) ==
    IF r.err # "none" THEN r
    ELSE IF quorum < 0 \/ (quorum > 0 /\ quorum >= Cardinality(voters)) THEN Raise(r, "QuorumError")
    ELSE IF leader # NoNode THEN WriteKey(r, leader, quorum, voters)
    ELSE IF r.confirmed = 0 /\ r.voters = {} THEN WriteKey(r, r.leader, 0, {})
    ELSE WriteKey(r, r.leader, IF adjust THEN quorum + Higher(r.numsync - r.confirmed, 0) ELSE quorum, voters)

\* sync_update: synchronous_standby_names.
SyncUpdate(r, numsync, sync) ==
    IF r.err # "none" THEN r
    ELSE IF numsync < 0 \/ numsync > Cardinality(sync) THEN Raise(r, "QuorumError")
    ELSE Yield(CheckInvariants([r EXCEPT !.numsync = numsync, !.sync = sync]),
               Transition("sync", r.leader, numsync, sync))

(***************************************************************************)
(* __handle_non_steady_cases: finish what an interrupted run left behind.  *)
(***************************************************************************)
DropGoneVoters(r) ==
    LET gone == r.voters \ (r.sync \union r.active)
    IN IF gone = {} THEN r
       ELSE QuorumUpdate(r, Cardinality(r.voters) - Cardinality(gone) - r.numsync,
                         r.voters \ gone, NoNode, r.sync \subseteq r.active)

SyncToVoters(r) ==
    LET add == (r.voters \intersect r.active) \ r.sync
    IN IF add = {} THEN r ELSE SyncUpdate(r, r.numsync, r.sync \union add)

\* Case 1: sync is a proper subset of voters.
VotersAhead(r) == SyncToVoters(DropGoneVoters(r))

DropFromSync(r, names) ==
    SyncUpdate(r, Lower(r.numsync, Cardinality(r.sync) - Cardinality(names)), r.sync \ names)

DropDead(r) ==
    LET alive == r.sync \intersect r.active
    IN IF alive \notin {{}, r.sync} /\ (r.voters = {} \/ alive \intersect r.voters # {})
       THEN DropFromSync(r, r.sync \ alive) ELSE r

AddSyncedVoters(r) ==
    LET voters == r.voters \union (r.sync \intersect r.active)
    IN IF voters = r.voters THEN r ELSE QuorumUpdate(r, Cardinality(voters) - r.numsync, voters, NoNode, TRUE)

DropNonVoters(r) == IF r.sync \subseteq r.voters THEN r ELSE DropFromSync(r, r.sync \ r.voters)

\* Case 2: sync is a proper superset of voters.
SyncAhead(r) == DropNonVoters(AddSyncedVoters(DropDead(r)))

\* Cases 3 and 4: the quorum is larger than the replication factor requires.
ReduceMargin(r) ==
    LET size == Cardinality(r.voters \union r.sync)
        inMiddle == r.quorum + Lower(r.numsync, r.confirmed) > size
        ahead == r.numsync = r.wanted /\ r.quorum + r.numsync > size /\ r.numsync > r.confirmed
    IN CASE r.err # "none" -> r
         [] r.err = "none" /\ inMiddle /\ r.numsync > r.wanted ->
              SyncUpdate(r, Higher(r.wanted, Cardinality(r.voters) - r.quorum), r.sync)
         [] r.err = "none" /\ (IF inMiddle THEN r.numsync <= r.wanted ELSE ahead) ->
              QuorumUpdate(r, Cardinality(r.sync) - r.numsync, r.voters, NoNode, TRUE)
         [] OTHER -> r

MustMatch(r) == MustHold(r, r.voters = r.sync)

NonSteadyCases(r) ==
    ReduceMargin(MustMatch(CASE r.sync \subseteq r.voters /\ r.sync # r.voters -> VotersAhead(r)
                             [] r.voters \subseteq r.sync /\ r.sync # r.voters -> SyncAhead(r)
                             [] OTHER -> r))

(***************************************************************************)
(* __remove_gone_nodes: all listed standbys are gone, or some of them:     *)
(* first as many as the quorum allows, then the rest.                      *)
(***************************************************************************)
RemoveVoters(r, remove, gone) ==
    QuorumUpdate(r, Cardinality(r.voters \ remove) - r.numsync, r.voters \ remove, NoNode, gone \intersect r.sync = {})

RemoveUpToQuorum(r, gone) ==
    LET remove == LastNames(gone, r.quorum)
        sync == r.sync \ remove
    IN RemoveVoters(SyncUpdate(r, Lower(Higher(r.wanted, r.numsync), Cardinality(sync)), sync), remove, gone)

RemoveRest(r, gone) ==
    LET numsync == r.numsync - Cardinality(gone)
        voters == r.voters \ gone
        decrease == numsync - Lower(r.wanted, Cardinality(r.sync \ gone))
    IN IF gone = {} THEN r
       ELSE SyncUpdate(QuorumUpdate(MustHold(r, r.quorum = 0),
                                    IF decrease = 0 THEN 0 ELSE Lower(decrease, Cardinality(voters) - 1),
                                    voters, NoNode, FALSE),
                       numsync, r.sync \ gone)

RemoveStillListed(r, gone) == RemoveRest(r, gone \intersect r.sync)

RemoveGoneNodes(r) ==
    LET gone == r.sync \ r.active
    IN CASE r.err # "none" \/ gone = {} -> r
         [] r.err = "none" /\ gone # {} /\ gone = r.sync ->
              SyncUpdate(QuorumUpdate(r, 0, {}, NoNode, FALSE), 0, {})
         [] OTHER -> RemoveStillListed(IF r.quorum = 0 THEN r ELSE RemoveUpToQuorum(r, gone), gone)

(***************************************************************************)
(* __add_new_nodes: first reach the wanted replication factor, then list   *)
(* the remaining active standbys.                                          *)
(***************************************************************************)
AddVoters(r, add, wanted, adjust) ==
    QuorumUpdate(r, Cardinality(r.voters \union add) - wanted, r.voters \union add, NoNode, adjust)

IncreaseFactor(r, new, wanted) ==
    LET add == IF r.sync = {} THEN new ELSE FirstNames(new, wanted - r.numsync)
        by == IF r.sync = {} THEN wanted - r.numsync ELSE Cardinality(add)
    IN IF wanted <= r.numsync THEN r
       ELSE AddVoters(SyncUpdate(r, r.numsync + by, r.sync \union add), add, wanted, TRUE)

AddRemaining(r, rest, wanted) ==
    IF rest = {} THEN r
    ELSE SyncUpdate(AddVoters(r, rest, wanted, wanted > r.confirmed), wanted, r.sync \union rest)

AddNotListed(r, new, wanted) == AddRemaining(r, new \ r.sync, wanted)

AddNewNodes(r) ==
    LET new == r.active \ r.sync
        wanted == Lower(r.wanted, Cardinality(r.sync \union new))
    IN IF r.err # "none" \/ new = {} THEN r ELSE AddNotListed(IncreaseFactor(r, new, wanted), new, wanted)

\* Altered form: a change of synchronous_node_count alone is not noticed.
KeepReplicationFactor(r) == r

\* __handle_replication_factor_change: synchronous_node_count was changed.
LowerQuorum(r) == QuorumUpdate(r, Cardinality(r.voters) - r.numsync, r.voters, NoNode, TRUE)

ReplicationFactorChange(r) ==
    LET increase == Lower(r.wanted, Cardinality(r.sync)) - r.numsync
        numsync == r.numsync + increase
    IN CASE r.err # "none" \/ increase = 0 -> r
         [] r.err = "none" /\ increase > 0 -> LowerQuorum(SyncUpdate(r, numsync, r.sync))
         [] OTHER ->
              SyncUpdate(IF r.quorum - increase >= Cardinality(r.voters) THEN r
                         ELSE QuorumUpdate(r, Cardinality(r.voters) - numsync, r.voters, NoNode, r.wanted > r.confirmed),
                         numsync, r.sync)

(***************************************************************************)
(* _generate_transitions.  After a failover the old leader becomes a voter *)
(* and, if no listed standby is connected yet, nothing else is done.  A    *)
(* QuorumError of this first part is caught: the key is recomputed from    *)
(* synchronous_standby_names.                                              *)
(***************************************************************************)
NewLeader(r, voters) == QuorumUpdate(r, r.quorum, voters, r.leaderWanted, TRUE)

Failover(r) ==
    LET voters == (r.voters \ {r.leaderWanted}) \union {r.leader}
    IN NewLeader(IF r.sync = {} THEN SyncUpdate(r, Cardinality(voters) - r.quorum, voters) ELSE r, voters)

Repair(r) ==
    IF r.err = "QuorumError"
    THEN QuorumUpdate([r EXCEPT !.err = "none"], Cardinality(r.sync) - r.numsync, r.sync, NoNode, TRUE)
    ELSE r

LeaderMustMatch(r) == MustHold(r, r.leader = r.leaderWanted)

\* After a restart or a failover nobody is confirmed yet: the number is taken from the quorum.
AdoptConfirmed(r) ==
    LET connected == r.sync \intersect r.active
    IN IF r.confirmed = 0 /\ connected # {}
       THEN [r EXCEPT !.confirmed = Lower(Cardinality(connected), Cardinality(r.voters) - r.quorum)]
       ELSE r

Proceed(r) ==
    IF r.err # "none" THEN r ELSE ReplicationFactorChange(AddNewNodes(RemoveGoneNodes(NonSteadyCases(r))))

AfterLeaderCheck(r, failover) ==
    IF failover /\ r.err = "none" /\ r.sync \intersect r.active = {} THEN r
    ELSE Proceed(AdoptConfirmed(LeaderMustMatch(Repair(r))))

GenerateTransitions(r) ==
    IF r.leaderWanted # r.leader THEN AfterLeaderCheck(Failover(r), TRUE)
    ELSE AfterLeaderCheck(CheckInvariants(r), FALSE)

(***************************************************************************)
(* __iter__: of neighbours of the same type only the last one is kept, and *)
(* a restart ends the list.  An exception loses the whole list.            *)
(***************************************************************************)
Merged(out) ==
    LET last(i) == i = Len(out) \/ out[i].type # out[i + 1].type
        stop(i) == \E j \in 1..(i - 1) : last(j) /\ out[j].type = "restart"
        kept == {i \in 1..Len(out) : last(i) /\ ~stop(i)}
        nth(k) == CHOOSE i \in kept : Cardinality({j \in kept : j <= i}) = k
    IN [k \in 1..Cardinality(kept) |-> out[nth(k)]]

Outcome(g) == [err |-> g.err, transitions |-> IF g.err = "none" THEN Merged(g.out) ELSE <<>>]

Resolve(r) == Outcome(GenerateTransitions(r))
=============================================================================
