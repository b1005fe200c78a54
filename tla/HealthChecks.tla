---------------------------- MODULE HealthChecks ----------------------------
(***************************************************************************)
(* The health checks of the REST API on one node while its HA loop runs,   *)
(* waits or hangs (do_GET, do_GET_liveness and get_postgresql_status of    *)
(* patroni/api.py; is_leader of patroni/ha.py; schedule_next_run of        *)
(* patroni/__main__.py).                                                   *)
(*                                                                         *)
(* One clock.  The node "me" holds the leader key or competes for it with  *)
(* the node "other".  A request reads the state in two steps: the server   *)
(* is asked first, then the view of the DCS and the expiry of the lock.    *)
(***************************************************************************)
EXTENDS Integers

CONSTANTS HcTtl, HcLoopWait, HcRetry,  \* ttl, loop_wait and retry_timeout
          MaxHcNow,                    \* bound: the clock
          MaxHcEvents                  \* bound: failures, changes of the configuration

ASSUME HealthAssumption ==
    /\ HcLoopWait \in Nat \ {0} /\ HcRetry \in Nat \ {0} /\ HcTtl \in Nat /\ HcLoopWait + 2 * HcRetry <= HcTtl
    /\ MaxHcNow \in Nat

VARIABLES hcNow,
          hcKey,      \* the leader key: [holder, until]
          hcHeld,     \* until when the last key of this node was valid
          hcExpiry,   \* _leader_expiry
          hcValid,    \* _cluster_valid_till
          hcSeen,     \* the paused flag of the last view
          hcPause,    \* pause in /config
          hcRole,     \* role of the server
          hcAt,       \* where the HA loop is
          hcSince,    \* since when it waits for the DCS
          hcNextRun,  \* next_run
          hcStuck,    \* since when the HA loop hangs, -1 if it does not
          hcGet,      \* a request that has asked the server
          hcAnswer,   \* the last answers: [primary, replica]
          hcEvents

hcVars == <<hcNow, hcKey, hcHeld, hcExpiry, hcValid, hcSeen, hcPause, hcRole, hcAt, hcSince, hcNextRun, hcStuck, hcGet, hcAnswer, hcEvents>>
hcRest == <<hcGet, hcAnswer>>
hcDcs == <<hcKey, hcHeld, hcPause>>
hcMind == <<hcExpiry, hcValid, hcSeen, hcRole>>

NoAnswer == [primary |-> FALSE, replica |-> FALSE]
NoGet == [asked |-> FALSE, role |-> "replica", pause |-> FALSE]

HcInit ==
    /\ hcNow = 0 /\ hcKey = [holder |-> "none", until |-> 0] /\ hcHeld = 0
    /\ hcExpiry = 0 /\ hcValid = 0 /\ hcSeen = FALSE /\ hcPause = FALSE /\ hcRole = "replica"
    /\ hcAt = "wait" /\ hcSince = 0 /\ hcNextRun = 0 /\ hcStuck = -1
    /\ hcGet = NoGet /\ hcAnswer = NoAnswer /\ hcEvents = 0

HcEvent == hcEvents < MaxHcEvents /\ hcEvents' = hcEvents + 1

-----------------------------------------------------------------------------
(***************************************************************************)
(* The HA loop.                                                            *)
(***************************************************************************)
HcRuns(at) == hcStuck = -1 /\ hcAt = at

\* schedule_next_run
NextRun == IF hcNextRun + HcLoopWait <= hcNow THEN hcNow ELSE hcNextRun + HcLoopWait

HcEnds == hcAt' = "wait" /\ hcNextRun' = NextRun /\ UNCHANGED hcSince

HcCycle ==
    /\ HcRuns("wait") /\ hcNextRun <= hcNow
    /\ hcAt' = "load" /\ hcSince' = hcNow
    /\ UNCHANGED <<hcNow, hcDcs, hcMind, hcNextRun, hcStuck, hcRest, hcEvents>>

\* watch returns early
HcWakes ==
    /\ HcRuns("wait") /\ hcNextRun > hcNow
    /\ HcEvent /\ hcNextRun' = hcNow
    /\ UNCHANGED <<hcNow, hcDcs, hcMind, hcAt, hcSince, hcStuck, hcRest>>

\* set_is_leader(True): counted from the answer of the DCS
Lease == hcNow + HcTtl

\* load_cluster_from_dcs: with the lock, or if nobody has it, the key is written next
HcLoads ==
    /\ HcRuns("load")
    /\ hcValid' = hcNow + HcTtl /\ hcSeen' = hcPause
    /\ hcExpiry' = IF hcKey.holder = "me" /\ hcKey.until > hcNow THEN hcExpiry ELSE 0
    /\ IF hcKey.holder # "me" /\ hcKey.until > hcNow
       THEN IF hcRole = "primary" /\ ~hcPause
            THEN hcAt' = "demote" /\ UNCHANGED <<hcSince, hcNextRun>>
            ELSE HcEnds
       ELSE hcAt' = "asked" /\ hcSince' = hcNow /\ UNCHANGED hcNextRun
    /\ UNCHANGED <<hcNow, hcDcs, hcRole, hcStuck, hcRest, hcEvents>>

\* The DCS writes the key.
HcStores ==
    /\ hcAt = "asked" /\ (hcKey.holder = "me" \/ hcKey.until <= hcNow)
    /\ hcKey' = [holder |-> "me", until |-> hcNow + HcTtl] /\ hcHeld' = hcNow + HcTtl
    /\ hcAt' = "stored"
    /\ UNCHANGED <<hcNow, hcPause, hcMind, hcSince, hcNextRun, hcStuck, hcRest, hcEvents>>

\* The answer: update_lock or acquire_lock returns, a standby is promoted
HcHolds ==
    /\ HcRuns("stored")
    /\ hcExpiry' = Lease /\ hcRole' = "primary"
    /\ HcEnds
    /\ UNCHANGED <<hcNow, hcDcs, hcValid, hcSeen, hcStuck, hcRest, hcEvents>>

\* The key is somebody else's by now.
HcRefused ==
    /\ HcRuns("asked") /\ hcKey.holder = "other" /\ hcKey.until > hcNow
    /\ hcExpiry' = 0
    /\ IF hcRole = "primary" THEN hcAt' = "demote" /\ UNCHANGED <<hcSince, hcNextRun>> ELSE HcEnds
    /\ UNCHANGED <<hcNow, hcDcs, hcValid, hcSeen, hcRole, hcStuck, hcRest, hcEvents>>

\* No answer for retry_timeout: _handle_dcs_error
HcDcsError ==
    /\ hcStuck = -1 /\ hcAt \in {"load", "asked", "stored"} /\ hcNow = hcSince + HcRetry
    /\ HcEvent
    /\ hcValid' = IF hcAt = "load" THEN 0 ELSE hcValid
    /\ IF hcRole = "primary" /\ ~hcSeen
       THEN hcAt' = "demote" /\ UNCHANGED <<hcSince, hcNextRun>>
       ELSE HcEnds
    /\ UNCHANGED <<hcNow, hcDcs, hcExpiry, hcSeen, hcRole, hcStuck, hcRest>>

\* demote: the server is stopped, then the lock is forgotten
HcDemotes ==
    /\ HcRuns("demote")
    /\ hcRole' = "replica" /\ hcExpiry' = 0
    /\ HcEnds
    /\ UNCHANGED <<hcNow, hcDcs, hcValid, hcSeen, hcStuck, hcRest, hcEvents>>

\* The loop hangs.
HcHangs ==
    /\ hcStuck = -1 /\ hcAt # "wait" /\ HcEvent
    /\ hcStuck' = hcNow
    /\ UNCHANGED <<hcNow, hcDcs, hcMind, hcAt, hcSince, hcNextRun, hcRest>>

-----------------------------------------------------------------------------
(***************************************************************************)
(* The REST API.                                                           *)
(***************************************************************************)

\* is_leader
IsLeader == hcExpiry > hcNow

\* get_postgresql_status: what the query says, and the configuration of the view
HcAsks ==
    /\ ~hcGet.asked
    /\ hcGet' = [asked |-> TRUE, role |-> hcRole, pause |-> hcSeen]
    /\ hcAnswer' = NoAnswer
    /\ UNCHANGED <<hcNow, hcDcs, hcMind, hcAt, hcSince, hcNextRun, hcStuck, hcEvents>>

\* do_GET: /primary and /replica
PrimaryStatus == IF hcValid <= hcNow /\ hcGet.pause THEN hcGet.role = "primary" ELSE IsLeader
ReplicaStatus == hcGet.role = "replica"

HcAnswers ==
    /\ hcGet.asked
    /\ hcGet' = NoGet
    /\ hcAnswer' = [primary |-> PrimaryStatus, replica |-> ReplicaStatus]
    /\ UNCHANGED <<hcNow, hcDcs, hcMind, hcAt, hcSince, hcNextRun, hcStuck, hcEvents>>

\* Altered form: counted from the time until which the view of the DCS is valid.
LivenessOfView == hcSeen \/ hcValid + (IF hcRole = "primary" THEN 1 ELSE 2) * HcTtl > hcNow

\* do_GET_liveness: 200
Liveness == hcSeen \/ hcNextRun + (IF hcRole = "primary" THEN 1 ELSE 2) * HcTtl > hcNow

-----------------------------------------------------------------------------
(***************************************************************************)
(* Time, the other node and the operator.                                  *)
(***************************************************************************)

\* Time passes; a loop that does not hang runs when it is due, and waits for the DCS no longer than retry_timeout.
HcTick ==
    /\ hcNow < MaxHcNow
    /\ hcStuck = -1 => /\ hcAt = "wait" => hcNextRun > hcNow
                       /\ hcAt \in {"load", "asked", "stored"} => hcNow < hcSince + HcRetry
                       /\ hcAt # "demote"
    /\ hcNow' = hcNow + 1
    /\ UNCHANGED <<hcDcs, hcMind, hcAt, hcSince, hcNextRun, hcStuck, hcRest, hcEvents>>

HcOtherTakes ==
    /\ hcKey.until <= hcNow /\ hcKey.holder # "other"
    /\ hcKey' = [holder |-> "other", until |-> MaxHcNow + 1]
    /\ UNCHANGED <<hcNow, hcHeld, hcPause, hcMind, hcAt, hcSince, hcNextRun, hcStuck, hcRest, hcEvents>>

HcOtherReleases ==
    /\ hcKey.holder = "other" /\ HcEvent
    /\ hcKey' = [holder |-> "none", until |-> hcNow]
    /\ UNCHANGED <<hcNow, hcHeld, hcPause, hcMind, hcAt, hcSince, hcNextRun, hcStuck, hcRest>>

HcPauses ==
    /\ HcEvent /\ hcPause' = ~hcPause
    /\ UNCHANGED <<hcNow, hcKey, hcHeld, hcMind, hcAt, hcSince, hcNextRun, hcStuck, hcRest>>

-----------------------------------------------------------------------------
HcNext ==
    \/ HcCycle \/ HcWakes \/ HcLoads \/ HcHolds \/ HcRefused \/ HcDcsError \/ HcDemotes \/ HcHangs
    \/ HcStores \/ HcAsks \/ HcAnswers \/ HcTick \/ HcOtherTakes \/ HcOtherReleases \/ HcPauses

HcSpec == HcInit /\ [][HcNext]_hcVars

-----------------------------------------------------------------------------
\* Type invariant.
HcTypeOK ==
    /\ hcNow \in 0..MaxHcNow /\ hcKey.holder \in {"none", "me", "other"}
    /\ hcRole \in {"primary", "replica"} /\ hcAt \in {"wait", "load", "asked", "stored", "demote"}
    /\ {hcSeen, hcPause, hcGet.asked, hcGet.pause, hcAnswer.primary, hcAnswer.replica} \subseteq BOOLEAN

Answered == hcGet.asked /\ ~hcGet'.asked

\* GET /primary returns 200 at most retry_timeout after the key of this node expired, also when the HA loop hangs,
\* unless the cluster is paused and the DCS is not accessible.
PrimaryAnswerBounded ==
    [][Answered /\ hcAnswer'.primary /\ ~(hcGet.pause /\ hcValid <= hcNow) => hcNow < hcHeld + HcRetry]_hcVars

\* GET /primary returns 200 only with the leader lock.
PrimaryHasLock ==
    [][Answered /\ hcAnswer'.primary /\ ~(hcGet.pause /\ hcValid <= hcNow) =>
          hcKey.holder = "me" /\ hcKey.until > hcNow]_hcVars

\* GET /liveness does not fail on a node whose HA loop goes on, however long the DCS takes to answer.
NoFalseAlarm == hcStuck = -1 => Liveness

\* GET /liveness fails when the HA loop has hung for twice the ttl, unless the cluster is paused.
StuckReported == hcStuck # -1 /\ ~hcSeen /\ hcNow >= hcStuck + 2 * HcTtl => ~Liveness
=============================================================================
