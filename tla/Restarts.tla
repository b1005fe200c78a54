------------------------------ MODULE Restarts ------------------------------
(***************************************************************************)
(* Restart and reinitialize: requests of clients through the REST API,     *)
(* restarts scheduled for later, their evaluation by the HA loop, and what *)
(* a synchronous standby does before it stops (do_POST_restart,            *)
(* do_DELETE_restart and do_POST_reinitialize of patroni/api.py;           *)
(* evaluate_scheduled_restart, restart, while_not_sync_standby,            *)
(* reinitialize, post_recover and handle_starting_instance of              *)
(* patroni/ha.py; restart of patroni/postgresql/__init__.py).              *)
(*                                                                         *)
(* One node is modelled, and of the primary what concerns it: the member   *)
(* it reads and the /sync it writes.                                       *)
(***************************************************************************)
EXTENDS Integers

CONSTANTS RsRoles,      \* roles the node may have
          MaxRequests,  \* bound: requests of clients
          MaxRsEvents   \* bound: failures, timeouts

ASSUME RestartsAssumption == RsRoles \subseteq {"primary", "replica"} /\ {MaxRequests, MaxRsEvents} \subseteq Nat

NoRestart == [id |-> 0, filter |-> "any", start |-> 0, due |-> "early"]

VARIABLES rsRole,     \* role of the node; a primary holds the leader key at first
          rsLock,     \* the node holds the leader key
          rsPg,       \* PostgreSQL: running, starting, stopped
          rsStart,    \* postmaster_start_time
          rsSched,    \* patroni.scheduled_restart
          rsAt,       \* where evaluate_scheduled_restart is
          rsCopy,     \* the copy it works on
          rsExec,     \* scheduled action of the asynchronous executor
          rsJob,      \* where that action is
          rsFor,      \* id of the scheduled restart it executes, 0 for a request
          rsRecovering,
          rsTimeout,  \* _start_timeout is set
          rsDisable,  \* _disable_sync
          rsTag,      \* nosync in the member key
          rsSync,     \* /sync lists the node: no, yes, or old: picked before the tag was written
          rsPicks,    \* what the cycle of the primary is about to write, or none
          rsHinted,   \* the job saw that the node is not synchronous
          rsRan,      \* scheduled restarts executed
          rsRequests, rsEvents

rsSyncVars == <<rsTag, rsSync, rsPicks>>
rsSchedVars == <<rsSched, rsAt, rsCopy, rsRan>>
rsPgVars == <<rsPg, rsStart, rsLock>>
rsJobVars == <<rsExec, rsJob, rsFor, rsRecovering, rsTimeout, rsDisable, rsHinted>>
rsBounds == <<rsRequests, rsEvents>>
rsVars == <<rsRole, rsPgVars, rsSchedVars, rsJobVars, rsSyncVars, rsBounds>>

RsInit ==
    /\ rsRole \in RsRoles /\ rsLock = (rsRole = "primary")
    /\ rsPg = "running" /\ rsStart = 0
    /\ rsSched = NoRestart /\ rsAt = "idle" /\ rsCopy = NoRestart
    /\ rsExec = "none" /\ rsJob = "none" /\ rsFor = 0
    /\ rsRecovering = FALSE /\ rsTimeout = FALSE
    /\ rsDisable = 0 /\ rsTag = FALSE /\ rsSync = "no" /\ rsPicks = "none"
    /\ rsHinted = FALSE /\ rsRan = {}
    /\ rsRequests = 0 /\ rsEvents = 0

RsEvent == rsEvents < MaxRsEvents /\ rsEvents' = rsEvents + 1
RsRequest == rsRequests < MaxRequests /\ rsRequests' = rsRequests + 1 /\ UNCHANGED rsEvents

-----------------------------------------------------------------------------
(***************************************************************************)
(* Requests.                                                               *)
(***************************************************************************)

\* restart_matches
RsMatches(filter) == filter \in {"any", rsRole}

\* restart: the executor is scheduled and the main loop told that a start may fail; a standby of a
\* synchronous cluster first asks not to be synchronous.
RestartBegins(id) ==
    /\ rsExec' = "restart" /\ rsFor' = id
    /\ rsRecovering' = TRUE /\ rsTimeout' = TRUE /\ rsHinted' = FALSE
    /\ rsJob' = IF rsLock THEN "stop" ELSE "tag"
    /\ UNCHANGED rsDisable

\* POST /restart
PostRestart ==
    /\ RsRequest
    /\ \/ rsExec = "none" /\ RestartBegins(0)
       \/ rsExec # "none" /\ UNCHANGED rsJobVars
    /\ UNCHANGED <<rsRole, rsPgVars, rsSchedVars, rsSyncVars>>

\* POST /restart with a schedule: one at a time, with the start time of the postmaster
PostSchedule(filter) ==
    /\ RsRequest
    /\ \/ /\ rsSched = NoRestart
          /\ rsSched' = [id |-> rsRequests + 1, filter |-> filter, start |-> rsStart, due |-> "early"]
       \/ rsSched # NoRestart /\ UNCHANGED rsSched
    /\ UNCHANGED <<rsRole, rsPgVars, rsAt, rsCopy, rsRan, rsJobVars, rsSyncVars>>

\* delete_future_restart: whatever is scheduled
Unscheduled == rsSched' = NoRestart

\* DELETE /restart
DeleteRestart ==
    /\ RsRequest
    /\ Unscheduled
    /\ UNCHANGED <<rsRole, rsPgVars, rsAt, rsCopy, rsRan, rsJobVars, rsSyncVars>>

\* POST /reinitialize: not for the leader; the data directory is made again from another member.
PostReinitialize ==
    /\ RsRequest
    /\ \/ /\ ~rsLock /\ rsExec = "none"
          /\ rsExec' = "reinitialize" /\ rsJob' = "stop" /\ rsFor' = 0
          /\ UNCHANGED <<rsRecovering, rsTimeout, rsDisable, rsHinted>>
       \/ (rsLock \/ rsExec # "none") /\ UNCHANGED rsJobVars
    /\ UNCHANGED <<rsRole, rsPgVars, rsSchedVars, rsSyncVars>>

\* The scheduled time comes, and goes by.
RsTimePasses ==
    /\ rsSched # NoRestart
    /\ \/ rsSched.due = "early" /\ rsSched' = [rsSched EXCEPT !.due = "due"] /\ UNCHANGED rsEvents
       \/ rsSched.due = "due" /\ rsSched' = [rsSched EXCEPT !.due = "late"] /\ RsEvent
    /\ UNCHANGED <<rsRole, rsPgVars, rsAt, rsCopy, rsRan, rsJobVars, rsSyncVars, rsRequests>>

-----------------------------------------------------------------------------
(***************************************************************************)
(* The HA loop.                                                            *)
(***************************************************************************)

\* PostgreSQL was restarted since the request.
Happened(s) == s.start # rsStart

\* evaluate_scheduled_restart: a copy is evaluated, without the lock.
EvaluateScheduled ==
    /\ rsAt = "idle" /\ rsExec = "none" /\ rsPg = "running" /\ ~rsRecovering
    /\ rsSched # NoRestart
    /\ rsSched.due # "early" \/ Happened(rsSched)
    /\ rsCopy' = rsSched
    /\ rsAt' = IF Happened(rsSched) \/ rsSched.due = "late" THEN "delete" ELSE "restart"
    /\ UNCHANGED <<rsRole, rsPgVars, rsSched, rsRan, rsJobVars, rsSyncVars, rsBounds>>

ScheduledRestart ==
    /\ rsAt = "restart"
    /\ rsAt' = "delete"
    /\ \/ /\ rsExec = "none" /\ RsMatches(rsCopy.filter)
          /\ RestartBegins(rsCopy.id)
          /\ rsRan' = rsRan \union {rsCopy.id}
       \/ /\ rsExec # "none" \/ ~RsMatches(rsCopy.filter)
          /\ UNCHANGED <<rsJobVars, rsRan>>
    /\ UNCHANGED <<rsRole, rsPgVars, rsSched, rsCopy, rsSyncVars, rsBounds>>

\* The finally clause: delete_future_restart.
ScheduledDeleted ==
    /\ rsAt = "delete"
    /\ rsAt' = "idle" /\ rsCopy' = NoRestart
    /\ Unscheduled
    /\ UNCHANGED <<rsRole, rsPgVars, rsRan, rsJobVars, rsSyncVars, rsBounds>>

\* The first cycle after an action: a leader that failed to start PostgreSQL gives the key up (post_recover).
PostRecover ==
    /\ rsAt = "idle" /\ rsExec = "none" /\ rsRecovering /\ rsPg # "starting"
    /\ rsRecovering' = FALSE
    /\ rsTimeout' = FALSE
    /\ rsLock' = (rsLock /\ rsPg = "running")
    /\ rsRole' = IF rsLock /\ rsPg # "running" THEN "replica" ELSE rsRole
    /\ UNCHANGED <<rsPg, rsStart, rsSchedVars, rsExec, rsJob, rsFor, rsDisable, rsHinted, rsSyncVars, rsBounds>>

\* recover: a dead PostgreSQL is started again.
RsRecover ==
    /\ rsAt = "idle" /\ rsExec = "none" /\ ~rsRecovering /\ rsPg = "stopped"
    /\ rsExec' = "recover" /\ rsJob' = "start" /\ rsFor' = 0 /\ rsRecovering' = TRUE
    /\ UNCHANGED <<rsRole, rsPgVars, rsSchedVars, rsTimeout, rsDisable, rsHinted, rsSyncVars, rsBounds>>

\* A primary that starts for longer than the timeout gives the key up (time_left <= 0).
StartTimesOut == rsLock

\* handle_starting_instance: PostgreSQL is not yet up after the action ended.
StartingInstance ==
    /\ rsAt = "idle" /\ rsExec = "none" /\ rsPg = "starting"
    /\ \/ rsPg' = "stopped" /\ UNCHANGED <<rsLock, rsRole>>
       \/ /\ StartTimesOut
          /\ rsPg' = "stopped" /\ rsLock' = FALSE /\ rsRole' = "replica"
    /\ RsEvent
    /\ rsTimeout' = FALSE
    /\ UNCHANGED <<rsStart, rsSchedVars, rsExec, rsJob, rsFor, rsRecovering, rsDisable, rsHinted, rsSyncVars, rsRequests>>

\* PostgreSQL that is not supervised by an action comes up.
StartedLate ==
    /\ rsExec = "none" /\ rsPg = "starting"
    /\ rsPg' = "running" /\ rsTimeout' = FALSE
    /\ UNCHANGED <<rsRole, rsLock, rsStart, rsSchedVars, rsExec, rsJob, rsFor, rsRecovering, rsDisable, rsHinted, rsSyncVars, rsBounds>>

\* get_effective_tags
EffectiveTag == rsDisable > 0

\* The member key is written; a decision of the primary that is under way did not see it.
Tagged(tag) == rsTag' = tag /\ rsPicks' = IF tag /\ rsPicks = "yes" THEN "old" ELSE rsPicks

\* touch_member at the end of a cycle
RsTouch ==
    /\ rsTag # EffectiveTag
    /\ Tagged(EffectiveTag)
    /\ UNCHANGED <<rsRole, rsPgVars, rsSchedVars, rsJobVars, rsSync, rsBounds>>

-----------------------------------------------------------------------------
(***************************************************************************)
(* The action, in a thread of its own or in that of the request.           *)
(***************************************************************************)

\* while_not_sync_standby: the hint is published, or that fails.
JobTags ==
    /\ rsJob = "tag"
    /\ rsDisable' = rsDisable + 1
    /\ \/ Tagged(TRUE) /\ rsJob' = "wait" /\ UNCHANGED rsEvents
       \/ RsEvent /\ rsJob' = "stop" /\ UNCHANGED <<rsTag, rsPicks>>
    /\ UNCHANGED <<rsRole, rsPgVars, rsSchedVars, rsExec, rsFor, rsRecovering, rsTimeout, rsHinted, rsSync, rsRequests>>

\* Altered form: the hint is enough.
WaitEndsAtOnce == TRUE

\* The cluster as read by the job does not list the node.
WaitEnds == rsSync = "no"

\* The primary released the node; or it takes too long, or the DCS fails.
JobWaits ==
    /\ rsJob = "wait" /\ rsJob' = "stop"
    /\ \/ WaitEnds /\ rsHinted' = TRUE /\ UNCHANGED rsEvents
       \/ RsEvent /\ UNCHANGED rsHinted
    /\ UNCHANGED <<rsRole, rsPgVars, rsSchedVars, rsExec, rsFor, rsRecovering, rsTimeout, rsDisable, rsSyncVars, rsRequests>>

JobStops ==
    /\ rsJob = "stop"
    /\ \/ rsPg' = "stopped" /\ rsJob' = "start" /\ UNCHANGED rsEvents
       \/ rsExec = "restart" /\ RsEvent /\ rsJob' = "end" /\ UNCHANGED rsPg
    /\ UNCHANGED <<rsRole, rsStart, rsLock, rsSchedVars, rsExec, rsFor, rsRecovering, rsTimeout, rsDisable, rsHinted, rsSyncVars, rsRequests>>

\* The copy of the data directory fails, or the postmaster is started.
JobStarts ==
    /\ rsJob = "start"
    /\ \/ /\ rsPg' = "starting" /\ rsStart' = rsStart + 1 /\ rsJob' = "starting"
          /\ UNCHANGED rsEvents
       \/ RsEvent /\ rsJob' = "end" /\ UNCHANGED <<rsPg, rsStart>>
    /\ UNCHANGED <<rsRole, rsLock, rsSchedVars, rsExec, rsFor, rsRecovering, rsTimeout, rsDisable, rsHinted, rsSyncVars, rsRequests>>

\* wait_for_startup: running, failed, or still starting at the timeout
JobWaitsForStart ==
    /\ rsJob = "starting" /\ rsJob' = "end"
    /\ \/ rsPg' = "running" /\ UNCHANGED rsEvents
       \/ rsPg' \in {"stopped", "starting"} /\ RsEvent
    /\ UNCHANGED <<rsRole, rsStart, rsLock, rsSchedVars, rsExec, rsFor, rsRecovering, rsTimeout, rsDisable, rsHinted, rsSyncVars, rsRequests>>

\* The finally clause of while_not_sync_standby.
HintDropped == IF rsDisable > 0 THEN rsDisable - 1 ELSE rsDisable

JobEnds ==
    /\ rsJob = "end"
    /\ rsJob' = "none" /\ rsExec' = "none" /\ rsFor' = 0
    /\ rsDisable' = HintDropped /\ rsHinted' = FALSE
    /\ UNCHANGED <<rsRole, rsPgVars, rsSchedVars, rsRecovering, rsTimeout, rsSyncVars, rsBounds>>

-----------------------------------------------------------------------------
(***************************************************************************)
(* The primary of a replica.                                               *)
(***************************************************************************)

\* It reads the members and the replication connections.
PrimaryPicks ==
    /\ rsRole = "replica" /\ rsPicks = "none"
    /\ rsPicks' = IF rsPg = "running" /\ ~rsTag THEN "yes" ELSE "no"
    /\ UNCHANGED <<rsRole, rsPgVars, rsSchedVars, rsJobVars, rsTag, rsSync, rsBounds>>

PrimaryWrites ==
    /\ rsPicks # "none"
    /\ rsSync' = rsPicks
    /\ rsPicks' = "none"
    /\ UNCHANGED <<rsRole, rsPgVars, rsSchedVars, rsJobVars, rsTag, rsBounds>>

-----------------------------------------------------------------------------
RsHa == EvaluateScheduled \/ ScheduledRestart \/ ScheduledDeleted \/ PostRecover \/ RsRecover
RsJob == JobTags \/ JobWaits \/ JobStops \/ JobStarts \/ JobWaitsForStart \/ JobEnds
RsPrimary == PrimaryPicks \/ PrimaryWrites
RsClients == PostRestart \/ (\E f \in {"any", "primary"} : PostSchedule(f)) \/ DeleteRestart \/ PostReinitialize

RsNext == RsHa \/ StartingInstance \/ StartedLate \/ RsTouch \/ RsJob \/ RsPrimary \/ RsClients \/ RsTimePasses

RsFairness ==
    /\ WF_rsVars(RsHa) /\ WF_rsVars(RsJob) /\ WF_rsVars(RsPrimary)
    /\ WF_rsVars(RsTouch) /\ WF_rsVars(StartedLate)
    /\ WF_rsVars(RsTimePasses /\ rsSched.due = "early")

RsSpec == RsInit /\ [][RsNext]_rsVars /\ RsFairness

-----------------------------------------------------------------------------
\* Type invariant.
RsTypeOK ==
    /\ rsRole \in {"primary", "replica"} /\ rsLock \in BOOLEAN
    /\ rsPg \in {"running", "starting", "stopped"} /\ rsStart \in Nat
    /\ rsSched.id \in 0..MaxRequests /\ rsCopy.id \in 0..MaxRequests
    /\ rsAt \in {"idle", "restart", "delete"}
    /\ rsExec \in {"none", "restart", "reinitialize", "recover"}
    /\ rsJob \in {"none", "tag", "wait", "stop", "start", "starting", "end"}
    /\ rsDisable \in Nat /\ {rsTag, rsHinted, rsRecovering, rsTimeout} \subseteq BOOLEAN
    /\ rsSync \in {"no", "yes", "old"} /\ rsPicks \in {"none", "no", "yes", "old"}
    /\ rsRan \subseteq 1..MaxRequests

\* A scheduled restart is executed at most once: evaluate_scheduled_restart removes it in any case, and one whose
\* removal came too late is cancelled because the postmaster is a new one.
ScheduledOnce == [][rsFor' # rsFor => rsFor' \notin rsRan]_rsVars

\* The restart that is executed is still wanted: PostgreSQL was not restarted since it was asked for.
StillWanted == [][rsFor' # rsFor /\ rsFor' # 0 => rsCopy.start = rsStart]_rsVars

\* A restart that saw the node released by the primary stops a synchronous standby only in the window the code
\* knows of: the primary picked it before the tag was written and published it afterwards.
StopsUnlisted == rsJob = "stop" /\ rsHinted => rsSync # "yes"

\* The nosync tag of a restart does not outlive it, even if the restart fails.
TagGoes == []<>~rsTag

\* A scheduled restart is executed, cancelled, or found too late and removed.
ScheduleEnds == []<>(rsSched = NoRestart)

\* A leader that fails to start PostgreSQL gives up the key rather than trying once more (restart sets
\* recovering for post_recover).
LeaderGivesUp == [][rsExec = "none" /\ rsExec' = "recover" => ~rsLock]_rsVars
=============================================================================
