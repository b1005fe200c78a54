----------------------------- MODULE MultiSync -----------------------------
(***************************************************************************)
(* Synchronous replication without quorum commit (synchronous_mode: on).   *)
(* Ha._process_multisync_replication keeps the list of standbys that must  *)
(* acknowledge a commit (synchronous_standby_names of the primary) and the *)
(* list of standbys that may be promoted (/sync key in the DCS) in step by *)
(* writing the two places in the right order.  All writes of the key are   *)
(* conditional on its version; a node that was suspended in the middle of  *)
(* the procedure goes on with what it has read, whoever leads by then.     *)
(*                                                                         *)
(* A version is not a number here: fresh[n] says whether the key is still  *)
(* the one n has read or written last.  A WAL position is a number of      *)
(* transactions; a promotion cuts all histories at the new primary's.      *)
(***************************************************************************)
EXTENDS Naturals, FiniteSets

CONSTANTS Nodes, NoNode,
          FirstPrimary,    \* the node that bootstrapped the cluster
          NodeCount,       \* synchronous_node_count
          Strict,          \* synchronous_mode_strict
          MaxWal,          \* bound: transactions written
          MaxFailovers     \* bound: promotions

ASSUME MultiSyncAssumption ==
    /\ IsFiniteSet(Nodes) /\ NoNode \notin Nodes /\ FirstPrimary \in Nodes
    /\ NodeCount \in Nat \ {0} /\ Strict \in BOOLEAN
    /\ MaxWal \in Nat /\ MaxFailovers \in Nat

VARIABLES primary,   \* the node that leads
          key,       \* /sync: leader, voters
          fresh,     \* fresh[n]: the version n knows is the current one
          proc,      \* proc[n]: where n is in the procedure and what it holds in local variables
          guc,       \* synchronous_standby_names of the primary: names, star
          seen, flush, ready,  \* SyncHandler of every node
          wal, acked,
          failovers

handler == <<seen, flush, ready>>
data == <<wal, acked>>
vars == <<primary, key, fresh, proc, guc, seen, flush, ready, wal, acked, failovers>>

NoNames == [names |-> {}, star |-> FALSE]
Star == [names |-> {}, star |-> TRUE]
Idle == [pc |-> "idle", sync |-> [leader |-> NoNode, voters |-> {}], loaded |-> {},
         picked |-> {}, allow |-> {}]

Init ==
    /\ primary = FirstPrimary
    /\ key = [leader |-> NoNode, voters |-> {}]
    /\ fresh = [n \in Nodes |-> FALSE]
    /\ proc = [n \in Nodes |-> Idle]
    /\ guc = IF Strict THEN Star ELSE NoNames
    /\ seen = [n \in Nodes |-> NoNames]
    /\ flush = [n \in Nodes |-> 0]
    /\ ready = [n \in Nodes |-> {}]
    /\ wal = [n \in Nodes |-> 0]
    /\ acked = 0
    /\ failovers = 0

-----------------------------------------------------------------------------
(***************************************************************************)
(* write_sync_state: the write happens if the version is still current;    *)
(* the writer then knows the new one and nobody else does.                 *)
(***************************************************************************)
\* Altered form: the key is written whatever its version.
WriteUnconditionally(n, leader, voters, next) ==
    /\ key' = [leader |-> leader, voters |-> voters]
    /\ fresh' = [o \in Nodes |-> o = n]
    /\ proc' = [proc EXCEPT ![n] = [next EXCEPT !.sync = key']]

WriteSyncState(n, leader, voters, next) ==
    IF fresh[n]
    THEN /\ key' = [leader |-> leader, voters |-> voters]
         /\ fresh' = [o \in Nodes |-> o = n]
         /\ proc' = [proc EXCEPT ![n] = [next EXCEPT !.sync = key']]
    ELSE /\ proc' = [proc EXCEPT ![n] = Idle]
         /\ UNCHANGED <<key, fresh>>

Continue(n, next) == proc' = [proc EXCEPT ![n] = next] /\ UNCHANGED <<key, fresh>>

(***************************************************************************)
(* SyncHandler.current_state.  Listed standbys are ready when /sync names  *)
(* them already, or when PostgreSQL shows them as 'sync' and they reached  *)
(* the WAL position of the change; "shown" are the picked standbys that    *)
(* PostgreSQL shows as 'sync'.                                             *)
(***************************************************************************)
StillListed(n) == IF guc = seen[n] THEN ready[n] ELSE ready[n] \intersect guc.names

FlushLsn(n) == IF guc = seen[n] THEN flush[n] ELSE wal[n]

NewlyReady(n, active, shown) ==
    {m \in guc.names \intersect active : m \in proc[n].loaded \/ (m \in shown /\ wal[m] >= FlushLsn(n))}

Picks == {S \in SUBSET (Nodes \ {primary}) : Cardinality(S) <= NodeCount}

HandleCurrentState(n, active, shown) ==
    /\ seen' = [seen EXCEPT ![n] = guc]
    /\ flush' = [flush EXCEPT ![n] = FlushLsn(n)]
    /\ ready' = [ready EXCEPT ![n] = StillListed(n) \union NewlyReady(n, active, shown)]

\* Standbys that current_state counts as sync_confirmed.
Confirmed(n, active, shown) == active \intersect shown \intersect (StillListed(n) \union NewlyReady(n, active, shown))

-----------------------------------------------------------------------------
(***************************************************************************)
(* The procedure.  Step Load stands for load_cluster_from_dcs at the start *)
(* of the cycle.                                                           *)
(***************************************************************************)
Load(n) ==
    /\ n = primary /\ proc[n].pc = "idle"
    /\ proc' = [proc EXCEPT ![n] = [Idle EXCEPT !.pc = "loaded", !.sync = key, !.loaded = key.voters]]
    /\ fresh' = [fresh EXCEPT ![n] = TRUE]
    /\ UNCHANGED <<primary, key, guc, handler, data, failovers>>

\* _maybe_enable_synchronous_mode
Enable(n) ==
    /\ proc[n].pc = "loaded" /\ proc[n].sync.leader = NoNode
    /\ WriteSyncState(n, n, {}, proc[n])
    /\ UNCHANGED <<primary, guc, handler, data, failovers>>

Pick(n) ==
    /\ n = primary
    /\ proc[n].pc = "loaded" /\ proc[n].sync.leader # NoNode
    /\ \E active \in Picks : \E shown \in SUBSET (active \intersect guc.names) :
         /\ HandleCurrentState(n, active, shown)
         /\ Continue(n, [proc[n] EXCEPT !.pc = "picked", !.picked = active, !.allow = Confirmed(n, active, shown)])
    /\ UNCHANGED <<primary, guc, data, failovers>>

\* The key names another leader: it is taken over without standbys.
TakeOver(n) ==
    /\ proc[n].pc = "picked"
    /\ LET next == [proc[n] EXCEPT !.pc = "owned"]
       IN IF proc[n].sync.leader # n THEN WriteSyncState(n, n, {}, next) ELSE Continue(n, next)
    /\ UNCHANGED <<primary, guc, handler, data, failovers>>

\* The picked standbys are in the key, but not all of them are confirmed.
Correct(n) ==
    /\ proc[n].pc = "owned"
    /\ LET p == proc[n]
           next == [p EXCEPT !.pc = "corrected"]
       IN IF p.picked = p.sync.voters /\ p.sync.voters # p.allow THEN WriteSyncState(n, n, p.allow, next)
          ELSE Continue(n, next)
    /\ UNCHANGED <<primary, guc, handler, data, failovers>>

\* Both places agree, or the standbys that are not kept are withdrawn from the key first.
Withdraw(n) ==
    /\ proc[n].pc = "corrected"
    /\ LET p == proc[n]
           common == p.sync.voters \intersect p.allow
           agree == p.picked = p.sync.voters /\ p.picked = seen[n].names /\ ~seen[n].star
           next == [p EXCEPT !.pc = "withdrawn"]
       IN CASE agree -> Continue(n, Idle)
            [] ~agree /\ common # p.sync.voters -> WriteSyncState(n, n, common, next)
            [] OTHER -> Continue(n, next)
    /\ UNCHANGED <<primary, guc, handler, data, failovers>>

\* set_synchronous_standby_names, which handles the change at once unless it is '*'.
Assign(n) ==
    /\ proc[n].pc = "withdrawn"
    /\ LET p == proc[n]
           new == IF p.picked = {} THEN (IF Strict THEN Star ELSE NoNames) ELSE [names |-> p.picked, star |-> FALSE]
       IN /\ guc' = IF n = primary THEN new ELSE guc
          /\ IF n = primary /\ new # guc /\ ~new.star
             THEN /\ seen' = [seen EXCEPT ![n] = new]
                  /\ flush' = [flush EXCEPT ![n] = IF new = seen[n] THEN @ ELSE wal[n]]
                  /\ ready' = [ready EXCEPT ![n] = IF new = seen[n] THEN @ ELSE @ \intersect new.names]
             ELSE UNCHANGED handler
          /\ Continue(n, [p EXCEPT !.pc = IF p.picked # {} /\ p.allow # p.picked THEN "assigned" ELSE "publish"])
    /\ UNCHANGED <<primary, data, failovers>>

\* Two seconds later: current_state once more.
Recheck(n) ==
    /\ n = primary /\ proc[n].pc = "assigned"
    /\ \E active \in Picks : \E shown \in SUBSET (active \intersect guc.names) :
         /\ HandleCurrentState(n, active, shown)
         /\ Continue(n, [proc[n] EXCEPT !.pc = "publish", !.allow = Confirmed(n, active, shown)])
    /\ UNCHANGED <<primary, guc, data, failovers>>

Publish(n) ==
    /\ proc[n].pc = "publish"
    /\ LET p == proc[n]
       IN IF p.allow # {} /\ p.allow # p.sync.voters THEN WriteSyncState(n, n, p.allow, Idle) ELSE Continue(n, Idle)
    /\ UNCHANGED <<primary, guc, handler, data, failovers>>

Procedure(n) ==
    \/ Load(n) \/ Enable(n) \/ Pick(n) \/ TakeOver(n) \/ Correct(n)
    \/ Withdraw(n) \/ Assign(n) \/ Recheck(n) \/ Publish(n)

\* Patroni of n is restarted, or an exception ends its cycle.
Restart(n) ==
    /\ proc' = [proc EXCEPT ![n] = Idle]
    /\ seen' = [seen EXCEPT ![n] = NoNames]
    /\ flush' = [flush EXCEPT ![n] = 0]
    /\ ready' = [ready EXCEPT ![n] = {}]
    /\ UNCHANGED <<primary, key, fresh, guc, data, failovers>>

-----------------------------------------------------------------------------
\* is_healthiest_node: with an active /sync key only its members take part in the leader race.
Candidates(sync) == IF sync.leader = NoNode THEN Nodes ELSE {sync.leader} \union sync.voters

\* A standby loads the cluster and finds that it may take part.
Campaign(c) ==
    /\ c # primary /\ proc[c].pc = "idle" /\ failovers < MaxFailovers
    /\ c \in Candidates(key)
    /\ proc' = [proc EXCEPT ![c] = [Idle EXCEPT !.pc = "candidate", !.sync = key]]
    /\ fresh' = [fresh EXCEPT ![c] = TRUE]
    /\ UNCHANGED <<primary, key, guc, handler, data, failovers>>

(***************************************************************************)
(* It has got the leader key: process_sync_replication_prepromote takes    *)
(* the /sync key over, or the promotion is postponed.                      *)
(***************************************************************************)
Promote(c) ==
    /\ proc[c].pc = "candidate"
    /\ c # primary
    /\ WriteSyncState(c, c, {}, Idle)
    /\ IF fresh[c]
       THEN /\ primary' = c
            /\ guc' = IF Strict THEN Star ELSE NoNames
            /\ wal' = [n \in Nodes |-> IF wal[n] > wal[c] THEN wal[c] ELSE wal[n]]
            /\ acked' = IF acked > wal[c] THEN wal[c] ELSE acked
            /\ failovers' = failovers + 1
       ELSE UNCHANGED <<primary, guc, data, failovers>>
    /\ UNCHANGED handler

-----------------------------------------------------------------------------
Write ==
    /\ wal[primary] < MaxWal
    /\ wal' = [wal EXCEPT ![primary] = @ + 1]
    /\ UNCHANGED <<primary, key, fresh, proc, guc, handler, acked, failovers>>

Replicate(n) ==
    /\ wal[n] < wal[primary]
    /\ wal' = [wal EXCEPT ![n] = @ + 1]
    /\ UNCHANGED <<primary, key, fresh, proc, guc, handler, acked, failovers>>

\* A commit is acknowledged when all listed standbys have it; '*' asks for one standby.
Acknowledge ==
    /\ acked < wal[primary]
    /\ \A n \in guc.names : wal[n] > acked
    /\ guc.star => \E n \in Nodes \ {primary} : wal[n] > acked
    /\ acked' = acked + 1
    /\ UNCHANGED <<primary, key, fresh, proc, guc, handler, wal, failovers>>

Next ==
    \/ Write \/ Acknowledge
    \/ \E n \in Nodes : Procedure(n) \/ Restart(n) \/ Campaign(n) \/ Promote(n) \/ Replicate(n)

Spec == Init /\ [][Next]_vars

-----------------------------------------------------------------------------
Lists == [names : SUBSET Nodes, star : BOOLEAN]
Keys == [leader : Nodes \union {NoNode}, voters : SUBSET Nodes]

\* Type invariant: the key, the list of the primary and the state of every node.
TypeOK ==
    /\ primary \in Nodes
    /\ key \in Keys
    /\ fresh \in [Nodes -> BOOLEAN]
    /\ proc \in [Nodes -> [pc : {"idle", "loaded", "picked", "owned", "corrected", "withdrawn", "assigned",
                                 "publish", "candidate"},
                           sync : Keys, loaded : SUBSET Nodes, picked : SUBSET Nodes, allow : SUBSET Nodes]]
    /\ guc \in Lists
    /\ seen \in [Nodes -> Lists]
    /\ flush \in [Nodes -> 0..MaxWal]
    /\ ready \in [Nodes -> SUBSET Nodes]
    /\ wal \in [Nodes -> 0..MaxWal]
    /\ acked \in 0..MaxWal
    /\ failovers \in 0..MaxFailovers

(***************************************************************************)
(* "We only consider promoting standbys that were guaranteed to be         *)
(* replicating synchronously": every node the /sync key allows to be       *)
(* promoted holds all acknowledged transactions, at every point of the     *)
(* procedure, whoever was suspended in the middle of it or restarted.      *)
(***************************************************************************)
CandidatesHoldCommits ==
    key.leader # NoNode => \A c \in Candidates(key) : wal[c] >= acked

(***************************************************************************)
(* A standby named by the key acknowledges every further commit: nobody is *)
(* promotable who is not on the primary's list.                            *)
(***************************************************************************)
VotersAreListed == key.leader = primary => key.voters \subseteq guc.names
=============================================================================
