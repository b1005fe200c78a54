------------------------------- MODULE HaLoop -------------------------------
(***************************************************************************)
(* The HA loop of a PostgreSQL cluster (patroni/ha.py) around the leader   *)
(* key of the DCS: every node runs its own loop, its own background job    *)
(* (AsyncExecutor) and its own watchdog device; the nodes share only the   *)
(* leader key, which expires when it is not refreshed for TTL.             *)
(*                                                                         *)
(* Time is discrete.  Every deadline is a countdown that Tick lowers: the  *)
(* key's remaining ttl, the time left of _leader_expiry, the time left     *)
(* until the watchdog fires.  age[n] is the time since the DCS applied     *)
(* n's last write of the key while n has not yet handled the answer;       *)
(* ReplyDelay bounds it.                                                   *)
(*                                                                         *)
(* A loop cycle is not atomic: it reads the key (LoadCluster), decides on  *)
(* what it read, writes the key, and handles the answer, and other nodes,  *)
(* its own background job, the clock and failures step in between.         *)
(* Not here: maintenance mode (pause), standby clusters, synchronous       *)
(* replication, failsafe mode, the time PostgreSQL spends starting up.     *)
(***************************************************************************)
EXTENDS Naturals, FiniteSets

CONSTANTS
    Node,           \* the members of the cluster
    None,           \* "no leader"
    TTL,            \* ttl of the leader key
    WatchdogTimeout,\* WatchdogConfig.timeout: ttl - safety_margin, or ttl // 2
    ReplyDelay,     \* bound on: key written in the DCS -> answer handled
    Required,       \* watchdog.mode: TRUE "required", FALSE "off"
    StopTimeout,    \* TRUE iff primary_stop_timeout() is not None
    RecoverReadFails,\* TRUE iff the second DCS read of recover() may fail
    QuickRestart,   \* TRUE iff Patroni may restart within a promotion
    Timely,         \* TRUE: a lock owner missing its ttl counts as a fault
    MaxFaults       \* bound on crashes, lost requests, failing scripts

ASSUME ConstantsAssumption ==
    /\ None \notin Node
    /\ TTL \in Nat \ {0}
    /\ WatchdogTimeout \in Nat \ {0}
    /\ ReplyDelay \in Nat
    /\ Required \in BOOLEAN
    /\ StopTimeout \in BOOLEAN
    /\ RecoverReadFails \in BOOLEAN
    /\ QuickRestart \in BOOLEAN
    /\ Timely \in BOOLEAN
    /\ MaxFaults \in Nat

VARIABLES
    key,        \* the leader key: its owner and its remaining ttl
    pc,         \* where the HA thread of a node is
    view,       \* self.cluster.leader as last loaded
    reply,      \* answer of the last update of the key
    age,        \* time since the DCS applied the write being answered
    lead,       \* time left of self._leader_expiry
    dem,        \* mode of the demote() the HA thread is executing
    recovering, \* self.recovering
    pg,         \* the local PostgreSQL
    role,       \* state_handler.role
    hw,         \* time left of the watchdog device; WdOff when not armed
    fd,         \* watchdog.is_running: the process holds the device open
    job,        \* the background job and how far it got
    resp,       \* self._async_response, the CriticalTask of promote
    faults      \* failures so far

loopVars == <<pc, view, reply, age, lead, dem, recovering>>
pgVars == <<pg, role>>
wdVars == <<hw, fd>>
jobVars == <<job, resp>>
vars == <<key, loopVars, pgVars, wdVars, jobVars, faults>>

WdOff == WatchdogTimeout + 1

(* "loaded": the cluster was read, nothing decided.  "upd_*": the DCS has  *)
(* answered update_leader() called from handle_long_action_in_progress,    *)
(* process_healthy_cluster or recover.  "acquired": the DCS has created    *)
(* the key for this node.  "stopping": inside demote(), waiting for        *)
(* PostgreSQL.  "shutdown": inside Ha.shutdown().  "off": Patroni is not   *)
(* running.                                                                *)
Updating == {"upd_long", "upd_healthy", "upd_recover"}
Waiting == Updating \cup {"acquired"}
PC == {"idle", "loaded", "stopping", "shutdown", "off"} \cup Waiting

(* "closing": the postmaster runs, no user backend is left.  "crashed": a  *)
(* primary that Patroni knew as running died by itself (state crashed, no  *)
(* recovery configuration); "stopped": any other way of not running.       *)
Down == {"stopped", "crashed"}
Writable == {"promoting", "primary"}
PG == Down \cup Writable \cup {"replica", "closing"}

(* "none" or the scheduled action with the point its thread has reached.   *)
PromoteJob == {"promote_queued", "promote_checked", "promote_waiting", "promote_seen"}
DemoteJob == {"demote_stop", "demote_release", "demote_follow"}
Job == {"none", "follow", "start_queued", "start_cancelled", "start_done"}
          \cup PromoteJob \cup DemoteJob

TypeOK ==
    /\ key \in [owner: Node \cup {None}, ttl: 0..TTL]
    /\ pc \in [Node -> PC]
    /\ view \in [Node -> Node \cup {None}]
    /\ reply \in [Node -> BOOLEAN]
    /\ age \in [Node -> 0..ReplyDelay]
    /\ lead \in [Node -> 0..TTL]
    /\ dem \in [Node -> {"offline", "immediate", "immediate-nolock"}]
    /\ recovering \in [Node -> BOOLEAN]
    /\ pg \in [Node -> PG]
    /\ role \in [Node -> {"replica", "promoted", "primary", "demoted"}]
    /\ hw \in [Node -> 0..WdOff]
    /\ fd \in [Node -> BOOLEAN]
    /\ job \in [Node -> Job]
    /\ resp \in [Node -> {"none", "cancelled", "true", "false"}]
    /\ faults \in 0..MaxFaults

(* An initialized cluster nobody leads: the replicas run, Patroni too.     *)
Init ==
    /\ key = [owner |-> None, ttl |-> 0]
    /\ pc = [n \in Node |-> "idle"]
    /\ view = [n \in Node |-> None]
    /\ reply = [n \in Node |-> FALSE]
    /\ age = [n \in Node |-> 0]
    /\ lead = [n \in Node |-> 0]
    /\ dem = [n \in Node |-> "offline"]
    /\ recovering = [n \in Node |-> FALSE]
    /\ pg = [n \in Node |-> "replica"]
    /\ role = [n \in Node |-> "replica"]
    /\ hw = [n \in Node |-> WdOff]
    /\ fd = [n \in Node |-> FALSE]
    /\ job = [n \in Node |-> "none"]
    /\ resp = [n \in Node |-> "none"]
    /\ faults = 0

-----------------------------------------------------------------------------
(* The DCS.  The key is created only when it does not exist, refreshed     *)
(* only by its owner (or created again by a former owner when it is gone)  *)
(* and deleted only under its owner's name, by a node that knows a leader. *)

NoKey == [owner |-> None, ttl |-> 0]

(* Mutant: a refresh without the compare on the old value.                 *)
UpdateWithoutCompare(n) == TRUE
CanUpdate(n) == key.owner \in {n, None}
Leased(n) == [owner |-> n, ttl |-> TTL]
Deleted(n, leader) == IF leader # None /\ key.owner = n THEN NoKey ELSE key

KeyExpires ==
    /\ key.owner # None
    /\ key.ttl = 0
    /\ key' = NoKey
    /\ UNCHANGED <<loopVars, pgVars, wdVars, jobVars, faults>>

-----------------------------------------------------------------------------
(* Pieces of the handlers.                                                 *)

Goto(n, p) == pc' = [pc EXCEPT ![n] = p]
SetLeader(n, t) == lead' = [lead EXCEPT ![n] = t]
Answered(n) == reply' = [reply EXCEPT ![n] = FALSE]

(* Watchdog.keepalive(): pings the device when this process opened it.     *)
Keepalive(n) ==
    /\ hw' = [hw EXCEPT ![n] = IF fd[n] THEN WatchdogTimeout ELSE @]
    /\ fd' = fd

(* Watchdog.disable(): a device this process did not open keeps running.   *)
WatchdogDisable(n) ==
    /\ hw' = [hw EXCEPT ![n] = IF fd[n] THEN WdOff ELSE @]
    /\ fd' = [fd EXCEPT ![n] = FALSE]

(* load_cluster_from_dcs(): the view is what the DCS holds now; without    *)
(* the lock the node stops considering itself the leader.                  *)
Reload(n, l) ==
    /\ view' = [view EXCEPT ![n] = key'.owner]
    /\ SetLeader(n, IF key'.owner = n THEN l ELSE 0)

(* demote(mode) up to the point where it waits for PostgreSQL to stop.     *)
Demote(n, mode) ==
    /\ Goto(n, "stopping")
    /\ dem' = [dem EXCEPT ![n] = mode]

(* _handle_dcs_error(), failsafe mode not enabled.                         *)
HandleDcsError(n) ==
    IF pg[n] = "primary" THEN Demote(n, "offline")
                         ELSE Goto(n, "idle") /\ dem' = dem

-----------------------------------------------------------------------------
(* One cycle of the loop.                                                  *)

LoadCluster(n) ==
    /\ pc[n] = "idle"
    /\ key' = key
    /\ Reload(n, lead[n])
    /\ Goto(n, "loaded")
    /\ UNCHANGED <<reply, age, dem, recovering, pgVars, wdVars, jobVars, faults>>

(* A request to the DCS fails: reading the cluster, or writing the key     *)
(* (then the DCS may have applied the write: pc is upd_* or acquired), or  *)
(* reading the cluster again after the key was created.                    *)
DcsError(n) ==
    /\ pc[n] \in {"idle", "loaded"} \cup Waiting
    /\ faults < MaxFaults
    /\ faults' = faults + 1
    /\ HandleDcsError(n)
    /\ \/ lead' = lead
       \/ pc[n] = "acquired" /\ SetLeader(n, TTL)
    /\ Answered(n)
    /\ UNCHANGED <<key, view, age, recovering, pgVars, wdVars, jobVars>>

(* dcs.update_leader(), called by a node that sees itself as lock owner:   *)
(* from handle_long_action_in_progress when the executor is busy, from     *)
(* recover when PostgreSQL does not run, else from process_healthy_cluster.*)
(* It may also answer False without having lost the key (an unexpected     *)
(* exception, ReturnFalseException).                                       *)
UpdateLeader(n) ==
    /\ pc[n] = "loaded"
    /\ view[n] = n
    /\ ~(job[n] = "none" /\ recovering[n])
    /\ Goto(n, IF job[n] # "none" THEN "upd_long"
               ELSE IF pg[n] \in Down THEN "upd_recover" ELSE "upd_healthy")
    /\ age' = [age EXCEPT ![n] = 0]
    /\ \/ /\ reply' = [reply EXCEPT ![n] = CanUpdate(n)]
          /\ key' = IF CanUpdate(n) THEN Leased(n) ELSE key
          /\ faults' = faults
       \/ /\ faults < MaxFaults
          /\ faults' = faults + 1
          /\ reply' = [reply EXCEPT ![n] = FALSE]
          /\ key' = key
    /\ UNCHANGED <<view, lead, dem, recovering, pgVars, wdVars, jobVars>>

(* The second half of handle_long_action_in_progress(): this node does not *)
(* hold the lock, so a promote or a start of a primary must not go on.     *)
LostLockDuringAction(n) ==
    \/ /\ job[n] \in PromoteJob
       /\ resp[n] \notin {"true", "false"}
       /\ resp' = [resp EXCEPT ![n] = "cancelled"]
       /\ Goto(n, "idle")
       /\ UNCHANGED <<dem, job, pg>>
    \/ /\ ~(job[n] \in PromoteJob /\ resp[n] \notin {"true", "false"})
       /\ role[n] = "primary"
       /\ job' = [job EXCEPT ![n] = IF @ = "start_queued" THEN "start_cancelled" ELSE @]
       /\ pg' = [pg EXCEPT ![n] = IF job[n] = "start_done" /\ @ = "primary" THEN "stopped" ELSE @]
       /\ Demote(n, "immediate-nolock")
       /\ resp' = resp
    \/ /\ ~(job[n] \in PromoteJob /\ resp[n] \notin {"true", "false"})
       /\ role[n] # "primary"
       /\ Goto(n, "idle")
       /\ UNCHANGED <<dem, job, pg, resp>>

LongActionWithoutLock(n) ==
    /\ pc[n] = "loaded"
    /\ job[n] # "none"
    /\ view[n] # n
    /\ LostLockDuringAction(n)
    /\ UNCHANGED <<key, view, reply, age, lead, recovering, role, wdVars, faults>>

LongActionWithLock(n) ==
    /\ pc[n] = "upd_long"
    /\ IF reply[n]
       THEN /\ SetLeader(n, TTL)
            /\ Keepalive(n)
            /\ Goto(n, "idle")
            /\ UNCHANGED <<dem, job, pg, resp>>
       ELSE /\ SetLeader(n, 0)
            /\ LostLockDuringAction(n)
            /\ UNCHANGED wdVars
    /\ Answered(n)
    /\ UNCHANGED <<key, view, age, recovering, role, faults>>

(* Mutant: the early return of a primary is lost.                          *)
FollowAnyway(n) ==
    /\ Goto(n, "idle")
    /\ UNCHANGED <<job, dem>>

(* follow(): a primary without the lock demotes itself; a replica restarts *)
(* in the background when its recovery configuration has to change.        *)
Follow(n) ==
    \/ /\ pg[n] = "primary"
       /\ Demote(n, "immediate-nolock")
       /\ job' = job
    \/ /\ pg[n] # "primary"
       /\ Goto(n, "idle")
       /\ \/ job' = job
          \/ job' = [job EXCEPT ![n] = "follow"]
       /\ dem' = dem

(* process_unhealthy_cluster(), the leader key does not exist.  Whether    *)
(* this node is the healthiest one is the election's business: any running *)
(* node may be.                                                            *)
AcquireLeader(n) ==
    /\ pc[n] = "loaded"
    /\ job[n] = "none"
    /\ view[n] = None
    /\ ~recovering[n]
    /\ pg[n] \notin Down
    /\ IF key.owner = None
       THEN /\ key' = Leased(n)
            /\ age' = [age EXCEPT ![n] = 0]
            /\ Goto(n, "acquired")
            /\ UNCHANGED <<view, lead, dem, job>>
       ELSE /\ key' = key
            /\ Reload(n, 0)
            /\ Follow(n)
            /\ age' = age
    /\ UNCHANGED <<reply, recovering, pgVars, wdVars, resp, faults>>

NotHealthiest(n) ==
    /\ pc[n] = "loaded"
    /\ job[n] = "none"
    /\ view[n] = None
    /\ ~recovering[n]
    /\ pg[n] \notin Down
    /\ key' = key
    /\ Reload(n, lead[n])
    /\ Follow(n)
    /\ UNCHANGED <<reply, age, recovering, pgVars, wdVars, resp, faults>>

(* process_healthy_cluster() on a node that does not own the lock.         *)
FollowLeader(n) ==
    /\ pc[n] = "loaded"
    /\ job[n] = "none"
    /\ view[n] \notin {n, None}
    /\ ~recovering[n]
    /\ pg[n] \notin Down
    /\ Follow(n)
    /\ UNCHANGED <<key, view, reply, age, lead, recovering, pgVars, wdVars, resp, faults>>

-----------------------------------------------------------------------------
(* enforce_primary_role(); leader is the leader as last loaded, left the   *)
(* watchdog's remaining time if it is already running.                     *)

Release(n, leader) ==
    /\ key' = Deleted(n, leader)
    /\ SetLeader(n, 0)

WatchdogFailsToActivate(n, leader) ==
    /\ Required /\ ~fd[n]
    /\ faults < MaxFaults
    /\ faults' = faults + 1
    /\ IF pg[n] = "primary"
       THEN /\ Demote(n, "immediate")
            /\ key' = key
            /\ SetLeader(n, IF leader = n THEN TTL ELSE 0)
       ELSE /\ Release(n, leader)
            /\ Goto(n, "idle")
            /\ dem' = dem
    /\ UNCHANGED <<role, wdVars, jobVars>>

WatchdogRunning(n, left) ==
    /\ fd' = [fd EXCEPT ![n] = Required]
    /\ hw' = [hw EXCEPT ![n] = IF fd[n] THEN left ELSE IF Required THEN WatchdogTimeout ELSE @]

EnforcePrimaryRole(n, leader, left) ==
    \/ WatchdogFailsToActivate(n, leader)
    \/ /\ WatchdogRunning(n, left)
       /\ Goto(n, "idle")
       /\ IF resp[n] = "false"
          THEN /\ Release(n, leader)
               /\ resp' = [resp EXCEPT ![n] = "none"]
               /\ UNCHANGED <<role, job>>
          ELSE /\ key' = key
               /\ SetLeader(n, IF leader = n THEN TTL ELSE 0)
               /\ CASE pg[n] = "primary" ->
                          /\ role' = [role EXCEPT ![n] = "primary"]
                          /\ UNCHANGED jobVars
                    [] pg[n] # "primary" /\ role[n] \in {"primary", "promoted"} ->
                          UNCHANGED <<role, jobVars>>
                    [] OTHER ->
                          /\ job' = [job EXCEPT ![n] = "promote_queued"]
                          /\ resp' = [resp EXCEPT ![n] = "none"]
                          /\ role' = role
       /\ UNCHANGED <<dem, faults>>

(* The rest of process_unhealthy_cluster() once the key is created.  The   *)
(* cluster is loaded again, but the answer is not looked at.               *)
LockAcquired(n) ==
    /\ pc[n] = "acquired"
    /\ view' = [view EXCEPT ![n] = key.owner]
    /\ EnforcePrimaryRole(n, key.owner, hw[n])
    /\ UNCHANGED <<reply, age, recovering, pg>>

(* The rest of process_healthy_cluster() on the lock owner.                *)
LockUpdated(n) ==
    /\ pc[n] = "upd_healthy"
    /\ reply[n]
    /\ EnforcePrimaryRole(n, n, WatchdogTimeout)
    /\ Answered(n)
    /\ UNCHANGED <<view, age, recovering, pg>>

(* process_manual_failover_from_leader(): the operator asked for another   *)
(* leader and a healthy candidate exists; demote('graceful') is scheduled. *)
Switchover(n) ==
    /\ pc[n] = "upd_healthy"
    /\ reply[n]
    /\ faults < MaxFaults
    /\ faults' = faults + 1
    /\ SetLeader(n, TTL)
    /\ Keepalive(n)
    /\ job' = [job EXCEPT ![n] = "demote_stop"]
    /\ Goto(n, "idle")
    /\ Answered(n)
    /\ UNCHANGED <<key, view, age, dem, recovering, pgVars, resp>>

LockNotUpdated(n) ==
    /\ pc[n] = "upd_healthy"
    /\ ~reply[n]
    /\ SetLeader(n, 0)
    /\ IF pg[n] = "primary" THEN Demote(n, "immediate-nolock")
                            ELSE Goto(n, "idle") /\ dem' = dem
    /\ Answered(n)
    /\ UNCHANGED <<key, view, age, recovering, pgVars, wdVars, jobVars, faults>>

-----------------------------------------------------------------------------
(* recover(): PostgreSQL does not run.                                     *)

(* The common tail: no watchdog, then start PostgreSQL as a replica; when  *)
(* the DCS cannot be read in between, the cycle ends there.                *)
StartAsReplica(n) ==
    /\ WatchdogDisable(n)
    /\ Goto(n, "idle")
    /\ \/ /\ view' = [view EXCEPT ![n] = key.owner]
          /\ job' = [job EXCEPT ![n] = "follow"]
          /\ recovering' = [recovering EXCEPT ![n] = TRUE]
          /\ faults' = faults
       \/ /\ RecoverReadFails
          /\ faults < MaxFaults
          /\ faults' = faults + 1
          /\ UNCHANGED <<view, job, recovering>>
    /\ dem' = dem

RecoverWithoutLock(n) ==
    /\ pc[n] = "loaded"
    /\ job[n] = "none"
    /\ view[n] # n
    /\ ~recovering[n]
    /\ pg[n] \in Down
    /\ StartAsReplica(n)
    /\ UNCHANGED <<key, reply, age, lead, pgVars, resp>>

(* With the lock: fail over at once (primary_start_timeout is 0), restart  *)
(* a crashed primary as a primary, or start as a replica.                  *)
RecoverWithLock(n) ==
    /\ pc[n] = "upd_recover"
    /\ SetLeader(n, IF reply[n] THEN TTL ELSE 0)
    /\ \/ /\ reply[n]
          /\ WatchdogDisable(n)
          /\ Demote(n, "immediate")
          /\ UNCHANGED <<view, job, recovering, faults>>
       \/ /\ reply[n]
          /\ pg[n] = "crashed"
          /\ role[n] = "primary"
          /\ Keepalive(n)
          /\ job' = [job EXCEPT ![n] = "start_queued"]
          /\ recovering' = [recovering EXCEPT ![n] = TRUE]
          /\ Goto(n, "idle")
          /\ UNCHANGED <<view, dem, faults>>
       \/ StartAsReplica(n)
    /\ Answered(n)
    /\ UNCHANGED <<key, age, pgVars, resp>>

(* post_recover(): the start that recover() scheduled has ended.           *)
PostRecover(n) ==
    /\ pc[n] = "loaded"
    /\ job[n] = "none"
    /\ recovering[n]
    /\ recovering' = [recovering EXCEPT ![n] = FALSE]
    /\ IF pg[n] \notin Down
       THEN UNCHANGED <<key, lead, pc, role, wdVars>>
       ELSE /\ WatchdogDisable(n)
            /\ Goto(n, "idle")
            /\ IF view[n] = n
               THEN /\ Release(n, n)
                    /\ role' = [role EXCEPT ![n] = IF @ = "primary" THEN "demoted" ELSE @]
               ELSE UNCHANGED <<key, lead, role>>
    /\ UNCHANGED <<view, reply, age, dem, pg, jobVars, faults>>

-----------------------------------------------------------------------------
(* demote() and shutdown(): PostgreSQL is stopped.                         *)

Stopping(n) == pc[n] \in {"stopping", "shutdown"} \/ job[n] = "demote_stop"

(* Mutant: the callback is called when the stop signal has been sent.      *)
SafepointAtSignal(n) ==
    /\ Stopping(n)
    /\ fd[n]
    /\ WatchdogDisable(n)
    /\ UNCHANGED <<key, loopVars, pgVars, jobVars, faults>>

(* on_safepoint in _do_stop(): the watchdog is disabled when the user      *)
(* backends are gone, or when waiting for them took stop_timeout.          *)
Safepoint(n) ==
    /\ Stopping(n)
    /\ fd[n]
    /\ WatchdogDisable(n)
    /\ \/ pg' = [pg EXCEPT ![n] = IF @ \in Down THEN @ ELSE "closing"]
       \/ StopTimeout /\ pg' = pg
    /\ UNCHANGED <<key, loopVars, role, jobVars, faults>>

(* The rest of demote() in the HA thread, once PostgreSQL is down.         *)
(* 'immediate' gives the key back; 'offline' starts PostgreSQL right away  *)
(* (unless it has to be rewound first), the others in the background.      *)
Demoted(n) ==
    /\ pc[n] = "stopping"
    /\ ~fd[n]
    /\ SetLeader(n, 0)
    /\ key' = IF dem[n] = "immediate" THEN Deleted(n, view[n]) ELSE key
    /\ IF dem[n] = "offline"
       THEN /\ \/ /\ pg' = [pg EXCEPT ![n] = "stopped"]
                  /\ role' = [role EXCEPT ![n] = "demoted"]
               \/ /\ pg' = [pg EXCEPT ![n] = "replica"]
                  /\ role' = [role EXCEPT ![n] = "replica"]
            /\ job' = job
       ELSE /\ pg' = [pg EXCEPT ![n] = "stopped"]
            /\ role' = [role EXCEPT ![n] = "demoted"]
            /\ job' = [job EXCEPT ![n] = IF @ = "none" THEN "follow" ELSE @]
    /\ Goto(n, "idle")
    /\ dem' = [dem EXCEPT ![n] = "offline"]
    /\ UNCHANGED <<view, reply, age, recovering, wdVars, resp, faults>>

(* The process memory of Patroni is gone.                                  *)
ProcessDies(n) ==
    /\ Goto(n, "off")
    /\ SetLeader(n, 0)
    /\ fd' = [fd EXCEPT ![n] = FALSE]
    /\ job' = [job EXCEPT ![n] = "none"]
    /\ resp' = [resp EXCEPT ![n] = "none"]
    /\ recovering' = [recovering EXCEPT ![n] = FALSE]
    /\ Answered(n)
    /\ view' = [view EXCEPT ![n] = None]
    /\ dem' = [dem EXCEPT ![n] = "offline"]
    /\ age' = age

(* Ha.shutdown(), requested between two cycles.                            *)
Shutdown(n) ==
    /\ pc[n] = "idle"
    /\ job[n] = "none"
    /\ faults < MaxFaults
    /\ faults' = faults + 1
    /\ Goto(n, "shutdown")
    /\ UNCHANGED <<key, view, reply, age, lead, dem, recovering, pgVars, wdVars, jobVars>>

ShutdownDone(n) ==
    /\ pc[n] = "shutdown"
    /\ ~fd[n]
    /\ pg' = [pg EXCEPT ![n] = "stopped"]
    /\ key' = IF lead[n] > 0 THEN Deleted(n, view[n]) ELSE key
    /\ ProcessDies(n)
    /\ UNCHANGED <<role, hw, faults>>

-----------------------------------------------------------------------------
(* Background jobs.                                                        *)

(* Mutant: the finally of AsyncExecutor.run() forgets the scheduled action. *)
JobStaysScheduled(n) == UNCHANGED job

JobEnds(n) == job' = [job EXCEPT ![n] = "none"]

(* Postgresql.promote() up to CriticalTask.complete(): the pre_promote     *)
(* script runs, and its result counts unless the task was cancelled.       *)
PrePromote(n) ==
    /\ job[n] = "promote_queued"
    /\ \/ /\ role[n] \in {"promoted", "primary"} \/ resp[n] = "cancelled"
          /\ JobEnds(n)
          /\ UNCHANGED <<resp, faults>>
       \/ /\ role[n] \notin {"promoted", "primary"} /\ resp[n] # "cancelled"
          /\ job' = [job EXCEPT ![n] = "promote_checked"]
          /\ resp' = [resp EXCEPT ![n] = "true"]
          /\ faults' = faults
       \/ /\ role[n] \notin {"promoted", "primary"} /\ resp[n] # "cancelled"
          /\ faults < MaxFaults
          /\ faults' = faults + 1
          /\ JobEnds(n)
          /\ resp' = [resp EXCEPT ![n] = "false"]
    /\ UNCHANGED <<key, loopVars, pgVars, wdVars>>

(* pg_ctl promote -W: PostgreSQL is told, the role is set.                 *)
PgCtlPromote(n) ==
    /\ job[n] = "promote_checked"
    /\ IF pg[n] = "replica"
       THEN /\ pg' = [pg EXCEPT ![n] = "promoting"]
            /\ role' = [role EXCEPT ![n] = "promoted"]
            /\ job' = [job EXCEPT ![n] = "promote_waiting"]
       ELSE /\ JobEnds(n)
            /\ UNCHANGED pgVars
    /\ UNCHANGED <<key, loopVars, wdVars, resp, faults>>

(* _wait_promote(): pg_controldata reports "in production", and then the   *)
(* role is set; or loop_wait passes.                                       *)
WaitPromote(n) ==
    /\ job[n] = "promote_waiting"
    /\ \/ pg[n] = "primary" /\ job' = [job EXCEPT ![n] = "promote_seen"]
       \/ JobEnds(n)
    /\ UNCHANGED <<key, loopVars, pgVars, wdVars, resp, faults>>

PromoteSetRole(n) ==
    /\ job[n] = "promote_seen"
    /\ role' = [role EXCEPT ![n] = "primary"]
    /\ JobEnds(n)
    /\ UNCHANGED <<key, loopVars, pg, wdVars, resp, faults>>

(* Postgresql.follow(): (re)start as a replica.                            *)
RunFollow(n) ==
    /\ job[n] = "follow"
    /\ role' = [role EXCEPT ![n] = "replica"]
    /\ \/ pg' = [pg EXCEPT ![n] = "replica"] /\ faults' = faults
       \/ /\ faults < MaxFaults
          /\ faults' = faults + 1
          /\ pg' = [pg EXCEPT ![n] = "stopped"]
    /\ JobEnds(n)
    /\ UNCHANGED <<key, loopVars, wdVars, resp>>

(* Postgresql.start(task): under the lock of the critical task either the  *)
(* cancellation is seen or the postmaster is started.                      *)
StartPrimary(n) ==
    /\ job[n] \in {"start_queued", "start_cancelled"}
    /\ IF job[n] = "start_queued"
       THEN /\ \/ pg' = [pg EXCEPT ![n] = "primary"] /\ faults' = faults
               \/ /\ faults < MaxFaults
                  /\ faults' = faults + 1
                  /\ pg' = [pg EXCEPT ![n] = "stopped"]
            /\ role' = [role EXCEPT ![n] = "primary"]
            /\ job' = [job EXCEPT ![n] = "start_done"]
       ELSE JobEnds(n) /\ UNCHANGED <<pgVars, faults>>
    /\ UNCHANGED <<key, loopVars, wdVars, resp>>

StartReturns(n) ==
    /\ job[n] = "start_done"
    /\ JobEnds(n)
    /\ UNCHANGED <<key, loopVars, pgVars, wdVars, resp, faults>>

(* demote('graceful') in the background: stop; then, between two cycles of *)
(* the loop (the executor's lock), release the key; then start.            *)
GracefulStopped(n) ==
    /\ job[n] = "demote_stop"
    /\ ~fd[n]
    /\ pg' = [pg EXCEPT ![n] = "stopped"]
    /\ role' = [role EXCEPT ![n] = "demoted"]
    /\ SetLeader(n, 0)
    /\ job' = [job EXCEPT ![n] = "demote_release"]
    /\ UNCHANGED <<key, pc, view, reply, age, dem, recovering, wdVars, resp, faults>>

GracefulRelease(n) ==
    /\ job[n] = "demote_release"
    /\ pc[n] = "idle"
    /\ Release(n, view[n])
    /\ job' = [job EXCEPT ![n] = "demote_follow"]
    /\ UNCHANGED <<pc, view, reply, age, dem, recovering, pgVars, wdVars, resp, faults>>

GracefulFollow(n) ==
    /\ job[n] = "demote_follow"
    /\ \/ /\ pg' = [pg EXCEPT ![n] = "replica"]
          /\ role' = [role EXCEPT ![n] = "replica"]
       \/ UNCHANGED pgVars
    /\ JobEnds(n)
    /\ UNCHANGED <<key, loopVars, wdVars, resp, faults>>

-----------------------------------------------------------------------------
(* PostgreSQL, the machine and the clock.                                  *)

PgBecomesPrimary(n) ==
    /\ pg[n] = "promoting"
    /\ pg' = [pg EXCEPT ![n] = "primary"]
    /\ UNCHANGED <<key, loopVars, role, wdVars, jobVars, faults>>

AfterCrash(n) == IF pg[n] = "primary" /\ pc[n] # "off" THEN "crashed" ELSE "stopped"

PgCrash(n) ==
    /\ pg[n] \in Writable \cup {"replica"}
    /\ faults < MaxFaults
    /\ faults' = faults + 1
    /\ pg' = [pg EXCEPT ![n] = AfterCrash(n)]
    /\ UNCHANGED <<key, loopVars, role, wdVars, jobVars>>

(* Killed without closing the device: PostgreSQL and the watchdog go on.   *)
PatroniCrash(n) ==
    /\ pc[n] # "off"
    /\ faults < MaxFaults
    /\ faults' = faults + 1
    /\ ProcessDies(n)
    /\ pg' = [pg EXCEPT ![n] = IF @ \in {"closing", "crashed"} THEN "stopped" ELSE @]
    /\ UNCHANGED <<key, role, hw>>

MachineDies(n) ==
    /\ ProcessDies(n)
    /\ pg' = [pg EXCEPT ![n] = "stopped"]
    /\ hw' = [hw EXCEPT ![n] = WdOff]
    /\ UNCHANGED <<key, role>>

WatchdogFires(n) ==
    /\ hw[n] = 0
    /\ MachineDies(n)
    /\ faults' = faults

(* Patroni starts and joins whatever PostgreSQL it finds.                  *)
PatroniStart(n) ==
    /\ pc[n] = "off"
    /\ pg[n] = "promoting" => QuickRestart
    /\ Goto(n, "idle")
    /\ role' = [role EXCEPT ![n] = CASE pg[n] = "primary" -> "primary"
                                     [] pg[n] \in {"replica", "promoting"} -> "replica"
                                     [] OTHER -> "demoted"]
    /\ UNCHANGED <<key, view, reply, age, lead, dem, recovering, pg, wdVars, jobVars, faults>>

Less(t) == IF t = 0 THEN 0 ELSE t - 1

(* Time passes: not past the moment a watchdog fires, and not past the     *)
(* bound on the handling of an answer of the DCS.  loop_wait is chosen     *)
(* well below ttl: that a running owner lets its key run out is a fault.   *)
Late == key.owner # None /\ pc[key.owner] # "off" /\ key.ttl < 2

Tick ==
    /\ IF Timely /\ Late THEN faults < MaxFaults /\ faults' = faults + 1
                         ELSE faults' = faults
    /\ \A n \in Node : hw[n] # 0
    /\ \A n \in Node : pc[n] \in Waiting => age[n] < ReplyDelay
    /\ key' = [key EXCEPT !.ttl = Less(@)]
    /\ lead' = [n \in Node |-> Less(lead[n])]
    /\ hw' = [n \in Node |-> IF hw[n] = WdOff THEN WdOff ELSE Less(hw[n])]
    /\ age' = [n \in Node |-> IF pc[n] \in Waiting THEN age[n] + 1 ELSE 0]
    /\ UNCHANGED <<pc, view, reply, dem, recovering, pgVars, fd, jobVars>>

HaThread(n) ==
    \/ LoadCluster(n) \/ UpdateLeader(n) \/ LongActionWithoutLock(n)
    \/ LongActionWithLock(n) \/ AcquireLeader(n) \/ NotHealthiest(n)
    \/ FollowLeader(n) \/ LockAcquired(n) \/ LockUpdated(n) \/ LockNotUpdated(n)
    \/ RecoverWithoutLock(n) \/ RecoverWithLock(n) \/ PostRecover(n)
    \/ Safepoint(n) \/ Demoted(n) \/ ShutdownDone(n) \/ PatroniStart(n)

JobThread(n) ==
    \/ PrePromote(n) \/ PgCtlPromote(n) \/ WaitPromote(n) \/ PromoteSetRole(n)
    \/ RunFollow(n) \/ StartPrimary(n) \/ StartReturns(n)
    \/ GracefulStopped(n) \/ GracefulRelease(n) \/ GracefulFollow(n)

Requests(n) == Switchover(n) \/ Shutdown(n)
Failures(n) == DcsError(n) \/ PgCrash(n) \/ PatroniCrash(n)

Next ==
    \/ KeyExpires
    \/ Tick
    \/ \E n \in Node :
          \/ HaThread(n) \/ JobThread(n) \/ Requests(n) \/ Failures(n)
          \/ PgBecomesPrimary(n) \/ WatchdogFires(n)

Spec == Init /\ [][Next]_vars

(* The loop is scheduled every loop_wait and its background thread runs;   *)
(* the key expires; and a node that keeps seeing no leader is at some time *)
(* the healthiest one and tries to create the key.                         *)
Fairness ==
    /\ WF_vars(Tick) /\ WF_vars(KeyExpires)
    /\ \A n \in Node :
          /\ WF_vars(HaThread(n)) /\ SF_vars(JobThread(n))
          /\ WF_vars(PgBecomesPrimary(n)) /\ WF_vars(WatchdogFires(n))
          /\ SF_vars(AcquireLeader(n))

FairSpec == Spec /\ Fairness

-----------------------------------------------------------------------------
(* Properties.                                                             *)

(* docs/watchdog.rst: PostgreSQL accepts no commits after the leader key   *)
(* expired in the DCS.  A PostgreSQL that is, or has been told to become,  *)
(* a primary belongs to the node the key names; so no two nodes have one,  *)
(* whatever the loops, jobs, crashes, lost requests and delays do.         *)
PrimaryHoldsKey == \A n \in Node : pg[n] \in Writable => key.owner = n

(* A live key is given back (demote, release_leader_key_voluntarily,       *)
(* post_recover, shutdown) only by a node whose PostgreSQL no longer       *)
(* accepts commits, whichever thread of the node does it.                  *)
ReleasedOnlyWhenFenced ==
    [][\A n \in Node :
          key.owner = n /\ key.ttl > 0 /\ key'.owner # n => pg'[n] \notin Writable]_vars

(* stop(): on_safepoint "is called when no user backends are running", so  *)
(* a process never disarms its watchdog while PostgreSQL accepts commits.  *)
DisarmedOnlyAtSafepoint ==
    [][\A n \in Node :
          fd[n] /\ hw'[n] = WdOff /\ pc'[n] # "off" => pg'[n] \notin Writable]_vars

(* Without a watchdog the loop alone has to end a split brain: a primary   *)
(* whose key is gone or taken stops, or gets the key back.                 *)
LostLockDemotes ==
    \A n \in Node :
        pg[n] = "primary" /\ key.owner # n ~> pg[n] # "primary" \/ key.owner = n

(* docs/faq.rst: the member that takes the leader lock promotes itself.    *)
(* Whoever has the key becomes a primary or loses the key again.           *)
LeaderPromotes ==
    \A n \in Node : key.owner = n ~> pg[n] = "primary" \/ key.owner # n

(* The racy update of the role that the FIXME in demote() warns of: the    *)
(* promote job set it after the HA thread had turned the node into a       *)
(* replica, and enforce_primary_role() sees nothing left to do.            *)
StaleRole(n) == key.owner = n /\ role[n] = "primary" /\ pg[n] = "replica"

(* Once failures cease the cluster has a primary again and again: save for *)
(* that race, no crash point, lost answer or failed start leaves the nodes *)
(* waiting for each other, or the lock with a node that never promotes.    *)
PrimaryReturns == []<>(\E n \in Node : pg[n] = "primary" \/ StaleRole(n))
=============================================================================
