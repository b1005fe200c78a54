--------------------------- MODULE ManualFailover ---------------------------
(***************************************************************************)
(* Manual failover and switchover: requests to the REST API put the        *)
(* /failover key in place, the leader steps down because of it, the other  *)
(* nodes find out who is to take over, and the key is removed              *)
(* (patroni/api.py, patroni/ha.py).                                        *)
(*                                                                         *)
(* Synchronous modes are the subject of other modules and are off here.    *)
(***************************************************************************)
EXTENDS Integers, FiniteSets

CONSTANTS MfNodes,
          Nobody1,     \* no node: no leader, no candidate, no name
          Clients,
          MfRequests,  \* what clients ask for: records [leader, cand, at]; at = 0 is "now"
          MaxMfNow,    \* bound: time, in units of loop_wait
          MaxMfEvents  \* bound: requests, pauses, failures

ASSUME ManualFailoverAssumption ==
    /\ MfNodes # {} /\ Nobody1 \notin MfNodes
    /\ MfRequests \subseteq [leader : MfNodes \union {Nobody1}, cand : MfNodes \union {Nobody1}, at : Nat, ver : {0}]
    /\ MaxMfNow \in Nat /\ MaxMfEvents \in Nat

NoRequest == [leader |-> Nobody1, cand |-> Nobody1, at |-> 0, ver |-> 0]

VARIABLES mfLeader,  \* leader key
          mfKey,     \* /failover
          mfPaused,  \* pause in /config
          mfUp,      \* nodes whose Patroni and PostgreSQL run
          mfGood,    \* nodes without a failover limitation (tags, lag, watchdog)
          mfRole,    \* role of PostgreSQL
          mfView,    \* cluster object of each node
          mfAt,      \* where its HA cycle is
          mfCause,   \* version of the key for which it demotes itself
          mfClient,  \* clients: what they have asked for, what they found
          mfVer, mfNow,
          mfServed,  \* auxiliary: versions of the key that led to a demotion
          mfPromise, \* auxiliary: candidate for which the leader stepped down
          mfBroken,  \* auxiliary: a node that took over did not remove the key, being lost or not knowing of it
          mfEvents

mfVars == <<mfLeader, mfKey, mfPaused, mfUp, mfGood, mfRole, mfView, mfAt, mfCause, mfClient, mfVer, mfNow, mfServed, mfPromise, mfBroken, mfEvents>>
mfAux == <<mfServed, mfPromise, mfBroken>>
mfWorld == <<mfPaused, mfUp, mfGood, mfNow>>

IdleClient == [at |-> "idle", req |-> NoRequest, leader |-> Nobody1]

MfInit ==
    LET n == CHOOSE k \in MfNodes : TRUE
    IN  /\ mfLeader = n
        /\ mfKey = NoRequest
        /\ mfPaused = FALSE /\ mfUp = MfNodes /\ mfGood = MfNodes
        /\ mfRole = [k \in MfNodes |-> IF k = n THEN "primary" ELSE "replica"]
        /\ mfView = [k \in MfNodes |-> [leader |-> n, key |-> NoRequest, paused |-> FALSE]]
        /\ mfAt = [k \in MfNodes |-> "idle"]
        /\ mfCause = [k \in MfNodes |-> 0]
        /\ mfClient = [c \in Clients |-> IdleClient]
        /\ mfVer = 0 /\ mfNow = 0
        /\ mfServed = {} /\ mfPromise = Nobody1 /\ mfBroken = FALSE
        /\ mfEvents = 0

MfEvent == mfEvents < MaxMfEvents /\ mfEvents' = mfEvents + 1
MfGoes(n, here, there) == n \in mfUp /\ mfAt[n] = here /\ mfAt' = [mfAt EXCEPT ![n] = there]

Asked(key) == key.leader # Nobody1 \/ key.cand # Nobody1

\* The key as it is after a write; names may be empty.
WriteKey(req) == /\ mfVer' = mfVer + 1
                 /\ mfKey' = [leader |-> req.leader, cand |-> req.cand, at |-> req.at, ver |-> mfVer']
                 /\ mfPromise' = Nobody1

\* A conditional update of the key as it was found, without effect if it has changed.
WriteKeyIf(req, ver) == IF mfKey.ver = ver THEN WriteKey(req) ELSE UNCHANGED <<mfKey, mfVer, mfPromise>>

Good(n) == n \in mfUp /\ n \in mfGood

-----------------------------------------------------------------------------
(***************************************************************************)
(* REST API.                                                               *)
(***************************************************************************)

\* is_failover_possible
PossibleForApi(req) ==
    /\ req.leader # Nobody1 => mfLeader = req.leader
    /\ \E m \in MfNodes : Good(m) /\ IF req.cand # Nobody1 THEN m = req.cand ELSE m # mfLeader

\* do_POST_failover up to the write: the request is checked against the cluster.
PostFailover(c) ==
    /\ mfClient[c].at = "idle" /\ MfEvent
    /\ \E req \in MfRequests :
          /\ Asked(req) /\ req.leader # req.cand
          /\ req.leader = Nobody1 => req.cand # Nobody1 /\ req.at = 0
          /\ mfPaused => req.cand # Nobody1 /\ req.at = 0
          /\ req.at # 0 => req.at >= mfNow
          /\ req.at = 0 => PossibleForApi(req)
          /\ mfClient' = [mfClient EXCEPT ![c] = [at |-> "write", req |-> req, leader |-> mfLeader]]
    /\ UNCHANGED <<mfLeader, mfKey, mfWorld, mfRole, mfView, mfAt, mfCause, mfVer, mfAux>>

\* manual_failover, whatever the key was; a scheduled request is answered at once.
WriteRequest(c) ==
    LET req == mfClient[c].req
    IN  /\ mfClient[c].at = "write"
        /\ WriteKey(req)
        /\ mfClient' = [mfClient EXCEPT ![c] = IF req.at # 0 THEN IdleClient ELSE [@ EXCEPT !.at = "poll"]]
        /\ UNCHANGED <<mfLeader, mfWorld, mfRole, mfView, mfAt, mfCause, mfServed, mfBroken, mfEvents>>

\* poll_failover_result: done when another node leads, failed when the key is gone.
PollResult(c) ==
    /\ mfClient[c].at = "poll"
    /\ \/ mfLeader \notin {Nobody1, mfClient[c].leader}
       \/ ~Asked(mfKey)
    /\ mfClient' = [mfClient EXCEPT ![c].at = IF mfLeader \notin {Nobody1, mfClient[c].leader} THEN "done" ELSE "failed"]
    /\ UNCHANGED <<mfLeader, mfKey, mfWorld, mfRole, mfView, mfAt, mfCause, mfVer, mfAux, mfEvents>>

\* The client gives up, or goes on to its next request.
PollEnded(c) ==
    /\ mfClient[c].at \in {"done", "failed", "poll"} /\ MfEvent
    /\ mfClient' = [mfClient EXCEPT ![c] = IdleClient]
    /\ UNCHANGED <<mfLeader, mfKey, mfWorld, mfRole, mfView, mfAt, mfCause, mfVer, mfAux>>

\* do_DELETE_switchover: the key is read and then conditionally emptied.
DeleteSwitchover(c) ==
    /\ mfClient[c].at = "idle" /\ mfKey.at # 0 /\ MfEvent
    /\ mfClient' = [mfClient EXCEPT ![c] = [at |-> "delete", req |-> mfKey, leader |-> mfLeader]]
    /\ UNCHANGED <<mfLeader, mfKey, mfWorld, mfRole, mfView, mfAt, mfCause, mfVer, mfAux>>

DeleteWrites(c) ==
    /\ mfClient[c].at = "delete"
    /\ WriteKeyIf(NoRequest, mfClient[c].req.ver)
    /\ mfClient' = [mfClient EXCEPT ![c] = IdleClient]
    /\ UNCHANGED <<mfLeader, mfWorld, mfRole, mfView, mfAt, mfCause, mfServed, mfBroken, mfEvents>>

-----------------------------------------------------------------------------
(***************************************************************************)
(* The HA loop.                                                            *)
(***************************************************************************)
MfLoad(n) ==
    /\ MfGoes(n, "idle", "loaded")
    /\ mfView' = [mfView EXCEPT ![n] = [leader |-> mfLeader, key |-> mfKey, paused |-> mfPaused]]
    /\ UNCHANGED <<mfLeader, mfKey, mfWorld, mfRole, mfCause, mfClient, mfVer, mfAux, mfEvents>>

MfUnchanged == UNCHANGED <<mfLeader, mfWorld, mfRole, mfView, mfClient, mfEvents>>

\* should_run_scheduled_action: the time has come, and not too long ago.
Due(key, paused) == key.at = 0 \/ (~paused /\ mfNow >= key.at /\ mfNow <= key.at + 1)
Stale(key, paused) == key.at # 0 /\ ~paused /\ mfNow > key.at + 1

\* is_failover_possible of the leader, or of the former leader without the candidate.
FailoverPossible(n, key, excluded) ==
    \E m \in MfNodes \ {n} : Good(m) /\ (IF excluded THEN m # key.cand ELSE key.cand = Nobody1 \/ m = key.cand)

\* The request is about this leader and somebody can take over.
StepDown(n, key, paused) ==
    key.leader \in {Nobody1, n} /\ key.cand # n /\ ~(key.cand = Nobody1 /\ paused) /\ FailoverPossible(n, key, FALSE)

\* The node has the leader key; in pause that says something only of a primary.
InOffice(n) == mfView[n].leader = n /\ mfLeader = n /\ (mfView[n].paused => mfRole[n] = "primary")

\* What follows in the same cycle: a leader that is still a replica is promoted.
Onward(n) == IF mfRole[n] = "replica" THEN "acquired" ELSE "idle"

\* process_manual_failover_from_leader, the leader key having been updated: the leader steps down in a task ...
LeaderStepsDown(n) ==
    LET v == mfView[n]
    IN  /\ MfGoes(n, "loaded", "demoting")
        /\ InOffice(n) /\ Asked(v.key)
        /\ Due(v.key, v.paused) /\ StepDown(n, v.key, v.paused)
        /\ mfCause' = [mfCause EXCEPT ![n] = v.key.ver]
        /\ mfServed' = mfServed \union {v.key.ver}
        /\ mfPromise' = IF mfKey = v.key THEN v.key.cand ELSE mfPromise
        /\ UNCHANGED <<mfKey, mfVer, mfBroken>> /\ MfUnchanged

\* ... or removes a key that is stale or cannot be followed.
LeaderCleans(n) ==
    LET v == mfView[n]
    IN  /\ MfGoes(n, "loaded", Onward(n))
        /\ InOffice(n) /\ Asked(v.key)
        /\ \/ Stale(v.key, v.paused)
           \/ Due(v.key, v.paused) /\ ~StepDown(n, v.key, v.paused)
        /\ WriteKeyIf(NoRequest, v.key.ver)
        /\ UNCHANGED <<mfCause, mfServed, mfBroken>> /\ MfUnchanged

\* The leader has nothing to do, or its time has not come.
LeaderWaits(n) ==
    LET v == mfView[n]
    IN  /\ MfGoes(n, "loaded", Onward(n))
        /\ InOffice(n) /\ (Asked(v.key) => ~Due(v.key, v.paused) /\ ~Stale(v.key, v.paused))
        /\ UNCHANGED <<mfKey, mfVer, mfCause, mfServed, mfPromise, mfBroken>> /\ MfUnchanged

\* In pause a leader that is a replica waits for its promotion if it is the candidate, or gives the key back.
UnpromotedWaits(n) ==
    /\ MfGoes(n, "loaded", "idle")
    /\ mfView[n].leader = n /\ mfLeader = n /\ mfRole[n] = "replica" /\ mfView[n].paused /\ mfView[n].key.cand = n
    /\ UNCHANGED <<mfKey, mfVer, mfCause, mfServed, mfPromise, mfBroken>> /\ MfUnchanged

LeaderGivesBack(n) ==
    /\ MfGoes(n, "loaded", "idle")
    /\ mfView[n].leader = n /\ mfLeader = n /\ mfRole[n] = "replica" /\ mfView[n].paused /\ mfView[n].key.cand # n
    /\ mfLeader' = Nobody1
    /\ UNCHANGED <<mfKey, mfWorld, mfRole, mfView, mfCause, mfClient, mfVer, mfAux, mfEvents>>

\* Altered form: the leader key is not released.
DemotedKeepingKey(n) ==
    /\ MfGoes(n, "demoting", "idle")
    /\ mfRole' = [mfRole EXCEPT ![n] = "replica"]
    /\ mfCause' = [mfCause EXCEPT ![n] = 0]
    /\ UNCHANGED <<mfLeader, mfKey, mfWorld, mfView, mfClient, mfVer, mfAux, mfEvents>>

\* demote('graceful'): PostgreSQL is stopped, the leader key released, and PostgreSQL started as a replica.
Demoted1(n) ==
    /\ MfGoes(n, "demoting", "idle")
    /\ mfRole' = [mfRole EXCEPT ![n] = "replica"]
    /\ mfLeader' = IF mfLeader = n THEN Nobody1 ELSE mfLeader
    /\ mfCause' = [mfCause EXCEPT ![n] = 0]
    /\ UNCHANGED <<mfKey, mfWorld, mfView, mfClient, mfVer, mfAux, mfEvents>>

-----------------------------------------------------------------------------
(***************************************************************************)
(* Without a leader.                                                       *)
(***************************************************************************)

\* _is_healthiest_node: nobody among the others is a primary that is alive.
Healthiest(n, members) == n \in mfGood /\ \A m \in members \ {n} : Good(m) => mfRole[m] # "primary"

\* manual_failover_process_no_leader
ManualNoLeader(n, key, paused) ==
    CASE key.cand = n -> TRUE
      [] key.cand # n /\ paused -> FALSE
      [] key.cand \notin {n, Nobody1} /\ ~paused /\ Good(key.cand) -> FALSE
      [] OTHER -> IF key.leader = n THEN ~FailoverPossible(n, key, key.cand # Nobody1)
                  ELSE Healthiest(n, MfNodes \ {key.leader})

\* In pause a running primary removes a request for a candidate that is gone.
CandidateGone(n) ==
    LET v == mfView[n]
    IN v.paused /\ Asked(v.key) /\ v.key.at = 0 /\ v.key.cand \notin mfUp \union {n, Nobody1} /\ mfRole[n] = "primary"

\* is_healthiest_node: what it may answer.  The timeline of a primary without the key may be behind or not.
IsHealthiest(n) ==
    LET v == mfView[n]
    IN IF v.paused
       THEN IF Asked(v.key) /\ v.key.at = 0 /\ ~CandidateGone(n) THEN {ManualNoLeader(n, v.key, TRUE)} ELSE {mfRole[n] = "primary"}
       ELSE IF mfRole[n] = "primary" THEN BOOLEAN
       ELSE IF Asked(v.key) THEN {ManualNoLeader(n, v.key, FALSE)} ELSE {Healthiest(n, MfNodes)}

\* process_unhealthy_cluster: the race is entered and won, or lost, or not entered.
Race(n) ==
    \E healthy \in IsHealthiest(n) : LET won == healthy /\ mfLeader = Nobody1 IN
        /\ MfGoes(n, "loaded", IF won THEN "cleanup" ELSE "follow")
        /\ mfView[n].leader = Nobody1
        /\ mfLeader' = IF won THEN n ELSE mfLeader
        /\ mfPromise' = IF mfLeader' # Nobody1 THEN Nobody1 ELSE mfPromise
        /\ IF CandidateGone(n) THEN mfKey.ver = mfView[n].key.ver /\ mfVer' = mfVer + 1 /\ mfKey' = [NoRequest EXCEPT !.ver = mfVer']
           ELSE UNCHANGED <<mfKey, mfVer>>
        /\ mfBroken' = (mfBroken \/ (won /\ mfView[n].key # mfKey))
        /\ UNCHANGED <<mfWorld, mfRole, mfView, mfCause, mfClient, mfServed, mfEvents>>

CandidateGoneChanged(n) ==
    /\ MfGoes(n, "loaded", "idle")
    /\ mfView[n].leader = Nobody1 /\ CandidateGone(n) /\ mfKey.ver # mfView[n].key.ver
    /\ UNCHANGED <<mfKey, mfVer, mfCause, mfServed, mfPromise, mfBroken>> /\ MfUnchanged

\* The new leader removes the key; in pause it only removes the name of the former leader.
CleanupAfterAcquire(n) ==
    LET v == mfView[n]
    IN  /\ MfGoes(n, "cleanup", "acquired")
        /\ CASE ~Asked(v.key) -> UNCHANGED <<mfKey, mfVer, mfPromise>>
             [] Asked(v.key) /\ v.paused /\ v.key.leader # Nobody1 /\ v.key.cand # Nobody1 ->
                    WriteKeyIf([v.key EXCEPT !.leader = Nobody1], v.key.ver)
             [] OTHER -> WriteKey(NoRequest)
        /\ UNCHANGED <<mfCause, mfServed, mfBroken>> /\ MfUnchanged

\* enforce_primary_role: the promotion.
MfPromoted(n) ==
    /\ MfGoes(n, "acquired", "idle")
    /\ mfRole' = [mfRole EXCEPT ![n] = "primary"]
    /\ UNCHANGED <<mfLeader, mfKey, mfWorld, mfView, mfCause, mfClient, mfVer, mfAux, mfEvents>>

\* The promotion fails, and with it the leader key may be released.
NotPromoted(n) ==
    /\ MfGoes(n, "acquired", "idle") /\ mfRole[n] = "replica" /\ MfEvent
    /\ mfLeader' \in {mfLeader, IF mfLeader = n /\ ~mfPaused THEN Nobody1 ELSE mfLeader}
    /\ UNCHANGED <<mfKey, mfWorld, mfRole, mfView, mfCause, mfClient, mfVer, mfAux>>

\* follow: a primary without the key is demoted, except in pause.
MfFollows(n) ==
    /\ \/ MfGoes(n, "follow", "idle") /\ mfRole' = IF mfPaused THEN mfRole ELSE [mfRole EXCEPT ![n] = "replica"]
       \/ /\ MfGoes(n, "loaded", "idle")
          /\ mfView[n].leader # Nobody1 /\ ~(mfView[n].leader = n /\ mfLeader = n)
          /\ mfRole' = IF mfView[n].paused THEN mfRole ELSE [mfRole EXCEPT ![n] = "replica"]
    /\ UNCHANGED <<mfLeader, mfKey, mfWorld, mfView, mfCause, mfClient, mfVer, mfAux, mfEvents>>

-----------------------------------------------------------------------------
(***************************************************************************)
(* Faults.                                                                 *)
(***************************************************************************)
MfCrash(n) ==
    /\ n \in mfUp /\ mfUp # {n} /\ MfEvent
    /\ mfUp' = mfUp \ {n}
    /\ mfLeader' = IF mfLeader = n THEN Nobody1 ELSE mfLeader
    /\ mfRole' = [mfRole EXCEPT ![n] = "replica"]
    /\ mfAt' = [mfAt EXCEPT ![n] = "idle"]
    /\ mfCause' = [mfCause EXCEPT ![n] = 0]
    /\ mfPromise' = IF mfPromise = n THEN Nobody1 ELSE mfPromise
    /\ mfBroken' = (mfBroken \/ mfAt[n] = "cleanup")
    /\ UNCHANGED <<mfKey, mfPaused, mfGood, mfNow, mfView, mfClient, mfVer, mfServed>>

\* The node starts to lag, or its watchdog fails.
Limited(n) ==
    /\ n \in mfGood /\ MfEvent
    /\ mfGood' = mfGood \ {n}
    /\ mfPromise' = IF mfPromise = n THEN Nobody1 ELSE mfPromise
    /\ UNCHANGED <<mfLeader, mfKey, mfPaused, mfUp, mfNow, mfRole, mfView, mfAt, mfCause, mfClient, mfVer, mfServed, mfBroken>>

TogglePause ==
    /\ MfEvent
    /\ mfPaused' = ~mfPaused /\ mfPromise' = Nobody1
    /\ UNCHANGED <<mfLeader, mfKey, mfUp, mfGood, mfNow, mfRole, mfView, mfAt, mfCause, mfClient, mfVer, mfServed, mfBroken>>

\* In pause a primary whose key has expired goes on.
KeyLapses ==
    /\ mfPaused /\ mfLeader # Nobody1 /\ MfEvent
    /\ mfLeader' = Nobody1
    /\ UNCHANGED <<mfKey, mfWorld, mfRole, mfView, mfAt, mfCause, mfClient, mfVer, mfAux>>

MfTick ==
    /\ mfNow < MaxMfNow /\ mfNow' = mfNow + 1
    /\ UNCHANGED <<mfLeader, mfKey, mfPaused, mfUp, mfGood, mfRole, mfView, mfAt, mfCause, mfClient, mfVer, mfAux, mfEvents>>

-----------------------------------------------------------------------------
MfCycle(n) == \/ MfLoad(n) \/ LeaderStepsDown(n) \/ LeaderCleans(n) \/ LeaderWaits(n) \/ UnpromotedWaits(n)
              \/ LeaderGivesBack(n) \/ Demoted1(n)
              \/ Race(n) \/ CandidateGoneChanged(n) \/ CleanupAfterAcquire(n) \/ MfPromoted(n) \/ MfFollows(n)
MfClient(c) == PostFailover(c) \/ WriteRequest(c) \/ PollResult(c) \/ PollEnded(c) \/ DeleteSwitchover(c) \/ DeleteWrites(c)

MfNext ==
    \/ \E n \in MfNodes : MfCycle(n) \/ NotPromoted(n) \/ MfCrash(n) \/ Limited(n)
    \/ \E c \in Clients : MfClient(c)
    \/ TogglePause \/ KeyLapses \/ MfTick

MfSpec == MfInit /\ [][MfNext]_mfVars /\ (\A n \in MfNodes : WF_mfVars(MfCycle(n))) /\ WF_mfVars(MfTick)

-----------------------------------------------------------------------------
(***************************************************************************)
(* A candidate for which the leader has stepped down, and that is healthy  *)
(* all the time, becomes the leader: of those that know of the request and *)
(* are no primaries nobody else takes the leader key, as long as the       *)
(* request is not replaced by another one.                                 *)
(***************************************************************************)
CandidateTakesOver ==
    [][mfPromise # Nobody1 /\ mfLeader = Nobody1 /\ mfLeader' # Nobody1
          => mfLeader' = mfPromise \/ mfView[mfLeader'].key # mfKey \/ mfRole[mfLeader'] = "primary"]_mfVars

(***************************************************************************)
(* A request leads to one demotion at most, unless the node that took over *)
(* was lost before it removed the key, or had found no leader before the   *)
(* request was made and thus leaves the key alone.                         *)
(***************************************************************************)
OneDemotionPerRequest ==
    [][\A n \in MfNodes : mfAt[n] = "loaded" /\ mfAt'[n] = "demoting" => mfView[n].key.ver \notin mfServed \/ mfBroken]_mfVars

(***************************************************************************)
(* A request that the leader found stale or impossible takes no other      *)
(* request with it: a key is removed by a node that has read it, or by one *)
(* that took over because of it.                                           *)
(***************************************************************************)
NewRequestStays ==
    [][Asked(mfKey) /\ ~Asked(mfKey') => \/ \E n \in MfNodes : mfAt[n] = "cleanup" /\ mfAt'[n] = "acquired"
                                         \/ \E n \in MfNodes : mfAt[n] = "loaded" /\ mfView[n].key = mfKey
                                         \/ \E c \in Clients : mfClient[c].at = "delete" /\ mfClient[c].req = mfKey]_mfVars

(***************************************************************************)
(* No request stays for ever: in the end the key is empty, except in       *)
(* pause, where a request may wait for its candidate or its time.          *)
(***************************************************************************)
RequestsEnd == []<>(~Asked(mfKey) \/ mfPaused)

=============================================================================
