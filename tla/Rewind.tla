------------------------------- MODULE Rewind -------------------------------
(***************************************************************************)
(* pg_rewind: a node that lost the leadership, or followed a leader that   *)
(* did, finds out whether its WAL diverged from that of the new leader,    *)
(* rewinds or reinitializes itself, and follows                            *)
(* (patroni/postgresql/rewind.py, and recover, follow and demote of        *)
(* patroni/ha.py).                                                         *)
(*                                                                         *)
(* A WAL is the sequence of the timelines of its records; a timeline is    *)
(* made by one promotion.  One node is modelled in detail; the leaders     *)
(* that succeed each other are other nodes, or the node itself.            *)
(***************************************************************************)
EXTENDS Integers, Sequences, SequencesExt, FiniteSets

CONSTANTS RwConfigs,   \* settings: records [rewind, diverged, failure] of Booleans
          MaxWalLen,   \* bound: records of a WAL that are not written by promotions or checkpoints
          MaxRwEvents  \* bound: lost leaders, failures, restarts

ASSUME RewindAssumption ==
    /\ RwConfigs \subseteq [rewind : BOOLEAN, diverged : BOOLEAN, failure : BOOLEAN]
    /\ {MaxWalLen, MaxRwEvents} \subseteq Nat

NoLead == [who |-> "none", log |-> <<>>, recovery |-> TRUE, control |-> 0, role |-> "replica",
           ready |-> FALSE, state |-> "initial", task |-> "none"]
NoView == [gen |-> 0, role |-> "replica", ready |-> FALSE, timeline |-> 0]

VARIABLES rwLead,   \* the leader: its WAL, timeline in pg_control, what it published (role, ready), its Rewind state
          rwGen,    \* number of leaders so far
          rwMe,     \* the node: WAL, PostgreSQL, pg_control
          rwState,  \* REWIND_STATUS of the node
          rwFresh,  \* not cb_called: the first start as a replica is not yet noticed
          rwView,   \* the leader as found by the cycle
          rwAt,     \* where the cycle is
          rwFollows,\* leader in primary_conninfo
          rwJob,    \* asynchronous task, and the leader it was given
          rwCrash,  \* _crash_recovery_started
          rwRecovering,
          rwConfig,
          rwEvents

rwVars == <<rwLead, rwGen, rwMe, rwState, rwFresh, rwView, rwAt, rwFollows, rwJob, rwCrash, rwRecovering, rwConfig, rwEvents>>
rwOthers == <<rwLead, rwGen, rwConfig>>
rwLoop == <<rwView, rwAt, rwFollows, rwFresh, rwCrash, rwRecovering>>

NoJob == [name |-> "none", view |-> NoView]

RwInit ==
    /\ rwLead = [NoLead EXCEPT !.who = "me", !.log = <<1>>, !.recovery = FALSE, !.control = 1]
    /\ rwGen = 1
    /\ rwMe = [log |-> <<1>>, pg |-> "primary", control |-> "in production"]
    /\ rwState = "initial" /\ rwFresh = FALSE
    /\ rwView = NoView /\ rwAt = "idle" /\ rwFollows = 0
    /\ rwJob = NoJob
    /\ rwCrash = FALSE /\ rwRecovering = FALSE
    /\ rwConfig \in RwConfigs
    /\ rwEvents = 0

RwEvent == rwEvents < MaxRwEvents /\ rwEvents' = rwEvents + 1

CanRewind == rwConfig.rewind /\ rwMe.control \notin {"broken", "none"}
RewindAllowed == rwConfig.diverged \/ CanRewind

\* Altered form: one check is enough.
TriggeredOnce(state) == IF RewindAllowed /\ state = "initial" THEN "check" ELSE state

\* trigger_check_diverged_lsn
Triggered(state) == IF RewindAllowed /\ state # "need" THEN "check" ELSE state
Executed == rwState \in {"success", "failed"}

-----------------------------------------------------------------------------
(***************************************************************************)
(* The decision.                                                           *)
(***************************************************************************)

\* What the node is compared by: the replayed position, or the last checkpoint of a primary.
LocalKnown == rwMe.pg = "replica" \/ rwMe.control \in {"shut down", "shut down in recovery", "in archive recovery", "never consistent"}
InRecovery == rwMe.pg = "replica" \/ rwMe.control \in {"shut down in recovery", "in archive recovery"}

\* The end of the checkpoint record that pg_waldump finds; more records after it cannot be parsed.
CheckpointEnd == IF rwMe.control = "shut down" THEN Len(rwMe.log) ELSE 0

Switchpoint(log, timeline) == CHOOSE i \in 1..Len(log) : log[i] = timeline /\ (i < Len(log) => log[i + 1] # timeline)

\* _check_timeline_and_lsn against the timelines of the leader.
NeedRewind(log) ==
    LET local == Last(rwMe.log)
    IN CASE local > Last(log) -> TRUE
         [] local = Last(log) -> FALSE
         [] local < Last(log) ->
                \/ local \notin Range(log)
                \/ LET switchpoint == Switchpoint(log, local)
                   IN IF InRecovery
                      THEN Len(rwMe.log) > switchpoint
                      ELSE \/ Len(rwMe.log) - 1 >= switchpoint
                           \/ switchpoint # CheckpointEnd

\* The server of a leader answers as long as it is the leader.
Reachable(view) == view.gen = rwGen /\ rwLead.who = "other"
IsPrimary(view) == Reachable(view) /\ ~rwLead.recovery

\* rewind_or_reinitialize_needed_and_possible
RewindChecked(state, view) ==
    IF state = "check" /\ view.gen # 0 /\ LocalKnown /\ view.role = "primary" /\ IsPrimary(view)
    THEN IF NeedRewind(rwLead.log) THEN "need" ELSE "not need"
    ELSE state

-----------------------------------------------------------------------------
(***************************************************************************)
(* The leader.                                                             *)
(***************************************************************************)
LeadWrites ==
    /\ rwLead.who # "none" /\ ~rwLead.recovery /\ Len(rwLead.log) < MaxWalLen
    /\ rwLead.who = "me" => rwMe.pg = "primary"
    /\ rwLead' = [rwLead EXCEPT !.log = Append(@, Last(@))]
    /\ rwMe' = IF rwLead.who = "me" THEN [rwMe EXCEPT !.log = rwLead'.log] ELSE rwMe
    /\ UNCHANGED <<rwGen, rwState, rwLoop, rwJob, rwConfig, rwEvents>>

\* Another node, which holds a part of the WAL of the node or of the last leader, gets the leader key; it led before.
OtherAcquires ==
    /\ rwLead.who = "none"
    /\ \E base \in {s \in Prefixes(rwLead.log) \union Prefixes(rwMe.log) : s # <<>>} :
           rwLead' = [NoLead EXCEPT !.who = "other", !.log = base, !.control = Last(base), !.state = "checkpoint"]
    /\ rwGen' = rwGen + 1
    /\ UNCHANGED <<rwMe, rwState, rwLoop, rwJob, rwConfig, rwEvents>>

\* promote: before_promote resets the state of Rewind.
OtherPromotes ==
    /\ rwLead.who = "other" /\ rwLead.recovery
    /\ rwLead' = [rwLead EXCEPT !.recovery = FALSE, !.log = Append(@, rwGen), !.state = "initial", !.task = "none"]
    /\ UNCHANGED <<rwGen, rwMe, rwState, rwLoop, rwJob, rwConfig, rwEvents>>

\* touch_member of the leader.
OtherTouches ==
    /\ rwLead.who = "other" /\ ~rwLead.recovery
    /\ rwLead' = [rwLead EXCEPT !.role = "primary", !.ready = rwLead.state = "checkpoint"]
    /\ rwLead' # rwLead
    /\ UNCHANGED <<rwGen, rwMe, rwState, rwLoop, rwJob, rwConfig, rwEvents>>

\* ensure_checkpoint_after_promote of the leader; the checkpoint runs in a thread and may fail.
EnsureCheckpoint ==
    /\ rwLead.who = "other" /\ ~rwLead.recovery /\ rwLead.state # "checkpoint"
    /\ CASE rwLead.task = "done" -> rwLead' = [rwLead EXCEPT !.state = "checkpoint", !.task = "none"]
         [] rwLead.task = "failed" -> rwLead' = [rwLead EXCEPT !.task = "none"]
         [] rwLead.task = "none" -> rwLead' = IF rwLead.control = Last(rwLead.log)
                                              THEN [rwLead EXCEPT !.state = "checkpoint"]
                                              ELSE [rwLead EXCEPT !.task = "running"]
         [] OTHER -> FALSE
    /\ UNCHANGED <<rwGen, rwMe, rwState, rwLoop, rwJob, rwConfig, rwEvents>>

CheckpointRuns ==
    /\ rwLead.who = "other" /\ rwLead.task = "running"
    /\ \/ /\ rwLead' = [rwLead EXCEPT !.control = Last(rwLead.log), !.task = "done"]
          /\ UNCHANGED rwEvents
       \/ /\ rwLead' = [rwLead EXCEPT !.task = "failed"]
          /\ RwEvent
    /\ UNCHANGED <<rwGen, rwMe, rwState, rwLoop, rwJob, rwConfig>>

OtherLost ==
    /\ rwLead.who = "other" /\ RwEvent
    /\ rwLead' = [NoLead EXCEPT !.log = rwLead.log]
    /\ UNCHANGED <<rwGen, rwMe, rwState, rwLoop, rwJob, rwConfig>>

-----------------------------------------------------------------------------
(***************************************************************************)
(* The node stops being a primary.                                         *)
(***************************************************************************)

\* PostgreSQL of the primary crashes, or a replica does.
PgCrashes ==
    /\ rwMe.pg # "down" /\ RwEvent
    /\ rwMe' = [rwMe EXCEPT !.pg = "down"]
    /\ UNCHANGED <<rwOthers, rwState, rwLoop, rwJob>>

\* The leader key of the node expires.
LockExpires ==
    /\ rwLead.who = "me" /\ RwEvent
    /\ rwLead' = [NoLead EXCEPT !.log = rwLead.log]
    /\ UNCHANGED <<rwGen, rwMe, rwState, rwLoop, rwJob, rwConfig>>

\* demote('graceful'): a shutdown checkpoint is written and the key released, then the node follows.
GracefulDemote ==
    /\ rwLead.who = "me" /\ rwMe.pg = "primary" /\ rwJob.name = "none" /\ RwEvent
    /\ rwMe' = [log |-> Append(rwMe.log, Last(rwMe.log)), pg |-> "down", control |-> "shut down"]
    /\ rwState' = Triggered(rwState)
    /\ rwLead' = [NoLead EXCEPT !.log = rwMe'.log]
    /\ rwJob' = [NoJob EXCEPT !.name = "demote"]
    /\ UNCHANGED <<rwGen, rwLoop, rwConfig>>

\* Patroni is restarted.
RwRestart ==
    /\ RwEvent
    /\ rwState' = "initial" /\ rwFresh' = TRUE
    /\ rwView' = NoView /\ rwAt' = "idle" /\ rwJob' = NoJob
    /\ rwCrash' = FALSE /\ rwRecovering' = FALSE
    /\ UNCHANGED <<rwOthers, rwMe, rwFollows>>

-----------------------------------------------------------------------------
(***************************************************************************)
(* The HA cycle of the node.                                               *)
(***************************************************************************)
LeadView == IF rwLead.who = "other"
            THEN [gen |-> rwGen, role |-> rwLead.role, ready |-> rwLead.ready,
                  timeline |-> IF rwLead.role = "primary" THEN Last(rwLead.log) ELSE 0]
            ELSE NoView

RwLoad ==
    /\ rwAt = "idle" /\ rwJob.name = "none" /\ (rwLead.who = "me" => rwMe.pg # "primary")
    /\ rwView' = LeadView /\ rwAt' = "loaded"
    /\ UNCHANGED <<rwOthers, rwMe, rwState, rwFollows, rwFresh, rwJob, rwCrash, rwRecovering, rwEvents>>

RunAsync(name) == rwJob' = [name |-> name, view |-> rwView]

\* _handle_rewind_or_reinitialize with the state found by the check: what it starts, "none" if nothing.
Handled(state) ==
    CASE state # "need" \/ rwView.gen = 0 -> "none"
      [] state = "need" /\ rwView.gen # 0 /\ CanRewind ->
            IF rwMe.pg = "down" /\ rwMe.control \in {"in archive recovery", "never consistent"} /\ ~rwCrash THEN "crash recovery" ELSE "rewind"
      [] OTHER -> IF rwConfig.diverged THEN "reinitialize" ELSE "none"

Handle(state) == RunAsync(Handled(state)) /\ rwCrash' = (rwCrash \/ Handled(state) = "crash recovery")

\* A primary without the lock: demote('immediate-nolock'), PostgreSQL is started again in a task.
RwDemote ==
    /\ rwAt = "loaded" /\ rwMe.pg = "primary" /\ rwLead.who # "me"
    /\ rwAt' = "idle"
    /\ rwMe' = [rwMe EXCEPT !.pg = "down"]
    /\ rwState' = Triggered(rwState)
    /\ RunAsync("follow")
    /\ UNCHANGED <<rwOthers, rwView, rwFollows, rwFresh, rwCrash, rwRecovering, rwEvents>>

\* recover: crash recovery of a former primary.
RecoverCrashed ==
    /\ rwAt = "loaded" /\ rwMe.pg = "down" /\ rwMe.control = "in production"
    /\ ~rwCrash /\ (rwView.gen = 0 \/ CanRewind)
    /\ rwAt' = "idle" /\ rwCrash' = TRUE
    /\ RunAsync("crash recovery")
    /\ UNCHANGED <<rwOthers, rwMe, rwState, rwView, rwFollows, rwFresh, rwRecovering, rwEvents>>

\* recover: with the lock the node is started to be promoted; otherwise it is checked, and started if there is no need.
Recover ==
    /\ rwAt = "loaded" /\ rwMe.pg = "down" /\ rwMe.control # "none"
    /\ ~(rwMe.control = "in production" /\ ~rwCrash /\ (rwView.gen = 0 \/ CanRewind))
    /\ rwAt' = "idle"
    /\ LET state == IF rwLead.who = "me" THEN "initial"
                    ELSE RewindChecked(IF Executed THEN rwState ELSE Triggered(rwState), rwView)
       IN /\ rwState' = state
          /\ IF Handled(state) # "none" /\ rwLead.who # "me"
             THEN Handle(state) /\ UNCHANGED <<rwRecovering, rwFollows>>
             ELSE RunAsync("follow") /\ rwRecovering' = TRUE /\ rwFollows' = rwView.gen /\ UNCHANGED rwCrash
    /\ UNCHANGED <<rwOthers, rwMe, rwView, rwFresh, rwEvents>>

\* The data directory is empty: bootstrap clones the leader.
Clone ==
    /\ rwAt = "loaded" /\ rwMe.pg = "down" /\ rwMe.control = "none"
    /\ rwAt' = "idle"
    /\ IF rwView.gen # 0 THEN RunAsync("reinitialize") ELSE UNCHANGED rwJob
    /\ UNCHANGED <<rwOthers, rwMe, rwState, rwView, rwFollows, rwFresh, rwCrash, rwRecovering, rwEvents>>

\* follow of a running replica, then the checks of a first start.
RwFollow ==
    /\ rwAt = "loaded" /\ rwMe.pg = "replica" /\ rwLead.who # "me"
    /\ rwAt' = "idle" /\ rwRecovering' = FALSE
    /\ LET reset == IF rwRecovering /\ rwState = "success" THEN "initial" ELSE rwState
           first == RewindChecked(reset, rwView)
           changed == rwView.gen # 0 /\ rwView.gen # rwFollows
           behind == ~changed /\ rwView.timeline > Last(rwMe.log)
           second == IF changed THEN Triggered(first)
                     ELSE IF behind THEN RewindChecked(Triggered(first), rwView) ELSE first
       IN IF Handled(first) # "none"
          THEN /\ rwState' = first
               /\ Handle(first)
               /\ UNCHANGED <<rwFollows, rwFresh>>
          ELSE /\ rwState' = IF rwFresh THEN Triggered(second) ELSE second
               /\ rwFresh' = FALSE
               /\ rwFollows' = IF changed THEN rwView.gen ELSE rwFollows
               /\ IF behind THEN Handle(second) ELSE UNCHANGED <<rwJob, rwCrash>>
    /\ UNCHANGED <<rwOthers, rwMe, rwView, rwEvents>>

\* The node, a replica, becomes the leader and is promoted.
MePromotes ==
    /\ rwAt = "loaded" /\ rwView.gen = 0 /\ rwMe.pg = "replica" /\ rwLead.who \in {"none", "me"}
    /\ rwAt' = "idle" /\ rwRecovering' = FALSE
    /\ rwGen' = rwGen + 1
    /\ rwMe' = [rwMe EXCEPT !.log = Append(@, rwGen'), !.pg = "primary", !.control = "in production"]
    /\ rwLead' = [NoLead EXCEPT !.who = "me", !.log = rwMe'.log, !.recovery = FALSE, !.control = rwGen']
    /\ rwState' = "initial" /\ rwFresh' = FALSE
    /\ UNCHANGED <<rwView, rwFollows, rwJob, rwCrash, rwConfig, rwEvents>>

\* The lock is still, or again, held by somebody else: nothing more in this cycle.
RwNothing ==
    /\ rwAt = "loaded"
    /\ \/ rwMe.pg = "primary" /\ rwLead.who = "me"
       \/ rwMe.pg = "replica" /\ rwLead.who = "me" /\ rwView.gen # 0
    /\ rwAt' = "idle"
    /\ UNCHANGED <<rwOthers, rwMe, rwState, rwView, rwFollows, rwFresh, rwJob, rwCrash, rwRecovering, rwEvents>>

-----------------------------------------------------------------------------
(***************************************************************************)
(* The asynchronous tasks.                                                 *)
(***************************************************************************)
Started == CASE rwMe.control \in {"broken", "none"} -> rwMe
             [] OTHER -> [rwMe EXCEPT !.pg = "replica", !.control = "in archive recovery"]

\* ensure_clean_shutdown: PostgreSQL runs alone and writes a checkpoint; it may fail.
JobCrashRecovery ==
    /\ rwJob.name = "crash recovery" /\ rwJob' = NoJob
    /\ \/ /\ rwMe' = [rwMe EXCEPT !.log = Append(@, Last(@)), !.control = "shut down"]
          /\ UNCHANGED rwEvents
       \/ UNCHANGED rwMe /\ RwEvent
    /\ UNCHANGED <<rwOthers, rwState, rwLoop>>

\* Postgresql.follow: what is left of a former primary may die before it is consistent.
JobFollow ==
    /\ rwJob.name = "follow" /\ rwJob' = NoJob
    /\ \/ rwMe' = Started /\ UNCHANGED rwEvents
       \/ rwMe.control = "in production" /\ rwMe' = [rwMe EXCEPT !.control = "never consistent"] /\ RwEvent
    /\ UNCHANGED <<rwOthers, rwState, rwLoop>>

\* The end of demote('graceful').
JobDemote ==
    /\ rwJob.name = "demote" /\ rwJob' = NoJob
    /\ rwState' = RewindChecked(rwState, LeadView)
    /\ IF rwState' = "need" /\ LeadView.gen # 0
       THEN UNCHANGED <<rwMe, rwFollows>>
       ELSE rwMe' = Started /\ rwFollows' = LeadView.gen
    /\ UNCHANGED <<rwOthers, rwView, rwAt, rwFresh, rwCrash, rwRecovering, rwEvents>>

Stopped == IF rwMe.pg = "replica" THEN [rwMe EXCEPT !.pg = "down", !.control = "shut down in recovery"] ELSE rwMe

\* execute: PostgreSQL is stopped; the leader must have had its checkpoint and must not be in recovery.
ExecuteChecks ==
    /\ rwJob.name = "rewind"
    /\ rwMe' = Stopped
    /\ rwJob' = IF rwJob.view.role = "primary" /\ rwJob.view.ready /\ IsPrimary(rwJob.view)
                THEN [rwJob EXCEPT !.name = "pg_rewind"] ELSE NoJob
    /\ UNCHANGED <<rwOthers, rwState, rwLoop, rwEvents>>

\* pg_rewind does nothing if pg_control of both has the same timeline.
Rewound == IF rwLead.control = Last(rwMe.log) THEN rwMe
           ELSE [log |-> rwLead.log, pg |-> "down", control |-> "shut down in recovery"]

RewindSucceeds ==
    /\ rwJob.name = "pg_rewind" /\ rwJob' = NoJob /\ IsPrimary(rwJob.view)
    /\ rwMe' = Rewound
    /\ rwState' = "success"
    /\ UNCHANGED <<rwOthers, rwLoop, rwEvents>>

\* It fails, and may have damaged pg_control; the leader may be the reason.
RewindFails ==
    /\ rwJob.name = "pg_rewind" /\ rwJob' = NoJob
    /\ IF Reachable(rwJob.view) THEN RwEvent ELSE UNCHANGED rwEvents
    /\ \E control \in {rwMe.control, "broken"} :
          LET failed == IsPrimary(rwJob.view) \/ control = "broken"
              removed == failed /\ (rwConfig.failure \/ rwConfig.diverged)
          IN /\ rwMe' = [rwMe EXCEPT !.control = IF removed THEN "none" ELSE control]
             /\ rwState' = IF removed THEN "initial" ELSE IF failed THEN "failed" ELSE rwState
    /\ UNCHANGED <<rwOthers, rwLoop>>

\* clone: the data directory is removed and copied, and the state reset.
JobReinitialize ==
    /\ rwJob.name = "reinitialize" /\ rwJob' = NoJob
    /\ rwState' = "initial"
    /\ rwMe' = IF IsPrimary(rwJob.view)
               THEN [log |-> rwLead.log, pg |-> "replica", control |-> "in archive recovery"]
               ELSE [rwMe EXCEPT !.pg = "down", !.control = "none"]
    /\ rwFollows' = rwJob.view.gen
    /\ UNCHANGED <<rwOthers, rwView, rwAt, rwFresh, rwCrash, rwRecovering, rwEvents>>

\* WAL of the leader reaches a replica that follows it and did not diverge.
RwStream ==
    /\ rwMe.pg = "replica" /\ IsPrimary([gen |-> rwFollows])
    /\ IsPrefix(rwMe.log, rwLead.log) /\ rwMe.log # rwLead.log
    /\ rwMe' = [rwMe EXCEPT !.log = rwLead.log]
    /\ UNCHANGED <<rwOthers, rwState, rwLoop, rwJob, rwEvents>>

-----------------------------------------------------------------------------
RwCycle == RwLoad \/ RwDemote \/ RecoverCrashed \/ Recover \/ Clone \/ RwFollow \/ MePromotes \/ RwNothing
RwJobs == JobCrashRecovery \/ JobFollow \/ JobDemote \/ ExecuteChecks \/ RewindSucceeds \/ RewindFails \/ JobReinitialize
RwLeader == OtherAcquires \/ OtherPromotes \/ OtherTouches \/ EnsureCheckpoint \/ CheckpointRuns

RwNext ==
    \/ RwCycle \/ RwJobs \/ RwLeader
    \/ LeadWrites \/ RwStream \/ OtherLost \/ PgCrashes \/ LockExpires \/ GracefulDemote \/ RwRestart

RwSpec == RwInit /\ [][RwNext]_rwVars /\ WF_rwVars(RwCycle) /\ WF_rwVars(RwJobs) /\ WF_rwVars(RwLeader) /\ WF_rwVars(RwStream)

-----------------------------------------------------------------------------
Diverged == ~IsPrefix(rwMe.log, rwLead.log)

(***************************************************************************)
(* A node that is found not to need pg_rewind has no WAL that the leader   *)
(* does not have; one that is found to need it has, unless the end of its  *)
(* WAL could not be read.                                                  *)
(***************************************************************************)
DecisionExact ==
    [][/\ rwState' = "not need" /\ rwState # "not need" => ~Diverged
       /\ rwState' = "need" /\ rwState # "need" => Diverged \/ rwMe.control = "never consistent"]_rwVars

(***************************************************************************)
(* After a successful pg_rewind the node has only WAL that the leader has: *)
(* pg_rewind was not run against a leader whose pg_control still told of   *)
(* the old timeline.                                                       *)
(***************************************************************************)
RewoundFollows ==
    [][rwState' = "success" /\ rwState # "success" => IsPrefix(rwMe'.log, rwLead.log)]_rwVars

(***************************************************************************)
(* A node that may rewind or reinitialize itself comes back, however often *)
(* the leader changed: it leads, or runs with the WAL of the leader;       *)
(* unless pg_rewind failed with a healthy leader and the configuration     *)
(* keeps the data directory.                                               *)
(***************************************************************************)
Rejoined == \/ rwLead.who = "me" /\ rwMe.pg = "primary"
            \/ rwLead.who = "other" /\ rwMe.pg = "replica" /\ ~Diverged
GivenUp == rwState = "failed" \/ rwMe.control = "broken"
NodeRejoins == <>[](Rejoined \/ ~(rwConfig.rewind \/ rwConfig.diverged)) \/ []<>GivenUp
=============================================================================
