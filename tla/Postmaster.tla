----------------------------- MODULE Postmaster -----------------------------
(***************************************************************************)
(* The postmaster as Patroni sees it: found through postmaster.pid, or as  *)
(* the process that was started last; started by the thread of a task,     *)
(* stopped by the HA thread when the lock is lost, asked for by the        *)
(* threads of the REST API (patroni/postgresql/postmaster.py and           *)
(* is_running, start, stop of patroni/postgresql/__init__.py).             *)
(***************************************************************************)
EXTENDS Integers

CONSTANTS Pids,        \* process identifiers of the host
          Pollers,     \* threads that only ask whether PostgreSQL is running
          MaxBorn,     \* bound: processes
          MaxPmEvents  \* bound: crashes and calls

ASSUME PostmasterAssumption ==
    Pids \subseteq Nat \ {0} /\ {"task", "ha"} \cap Pollers = {} /\ MaxBorn \in Nat /\ MaxPmEvents \in Nat

NoProc == [pid |-> 0, born |-> 0]
PmThreads == {"task", "ha"} \union Pollers

VARIABLES pmProcs,  \* processes: what runs under each pid, since when
          pmFile,   \* postmaster.pid
          pmCached, \* _postmaster_proc
          pmSeen,   \* what from_pidfile returned to each thread, not yet assigned
          pmAt,     \* where each thread is
          pmProc,   \* the process each thread works on
          pmIgnored,\* PG_GRANDPARENT_PID of each process
          pmTask,   \* critical_task
          pmMode,   \* signal of the stop in progress
          pmWrong,  \* auxiliary: processes that were signalled and were not the postmaster
          pmLost,   \* auxiliary: a thread that only asked forgot the running postmaster
          pmBirths, pmEvents

pmVars == <<pmProcs, pmFile, pmCached, pmSeen, pmAt, pmProc, pmIgnored, pmTask, pmMode, pmWrong, pmLost, pmBirths, pmEvents>>

Free == [kind |-> "none", born |-> 0]
FreshTask == [cancelled |-> FALSE, done |-> FALSE, result |-> NoProc]

PmInit ==
    /\ pmProcs = [p \in Pids |-> Free]
    /\ pmFile = NoProc /\ pmCached = NoProc
    /\ pmSeen = [t \in PmThreads |-> NoProc]
    /\ pmAt = [t \in PmThreads |-> "idle"]
    /\ pmProc = [t \in PmThreads |-> NoProc]
    /\ pmIgnored = [p \in Pids |-> 0]
    /\ pmTask = FreshTask
    /\ pmMode = "none"
    /\ pmWrong = {} /\ pmLost = FALSE
    /\ pmBirths = 0 /\ pmEvents = 0

PmEvent == pmEvents < MaxPmEvents /\ pmEvents' = pmEvents + 1
PmGoes(t, here, there) == pmAt[t] = here /\ pmAt' = [pmAt EXCEPT ![t] = there]

\* psutil compares the creation time: another process under the same pid is not this one.
Runs(proc) == proc # NoProc /\ pmProcs[proc.pid].kind # "none" /\ pmProcs[proc.pid].born = proc.born

\* Something runs under the pid in postmaster.pid, be it the postmaster or not.
PidTaken == pmFile # NoProc /\ pmProcs[pmFile.pid].kind # "none"

\* from_pidfile: the process in postmaster.pid, if it started when the file says.
IsPostmasterProcess == Runs(pmFile)

FromPidfile == IF IsPostmasterProcess THEN [pid |-> pmFile.pid, born |-> pmProcs[pmFile.pid].born] ELSE NoProc

Postmasters == {p \in Pids : pmProcs[p].kind \in {"starting", "postmaster", "stopping"}}

-----------------------------------------------------------------------------
(***************************************************************************)
(* is_running, in two steps: what is read from postmaster.pid is assigned  *)
(* later.                                                                  *)
(***************************************************************************)
RunningRead(t, here, there) ==
    /\ PmGoes(t, here, there)
    /\ IF Runs(pmCached)
       THEN pmSeen' = [pmSeen EXCEPT ![t] = pmCached] /\ UNCHANGED pmCached
       ELSE pmSeen' = [pmSeen EXCEPT ![t] = FromPidfile] /\ pmCached' = NoProc
    /\ UNCHANGED <<pmProcs, pmFile, pmProc, pmIgnored, pmMode, pmWrong, pmLost, pmBirths>>

Poll(t) == t \in Pollers /\ RunningRead(t, "idle", "polled") /\ PmEvent /\ UNCHANGED pmTask

PollEnds(t) ==
    /\ t \in Pollers /\ PmGoes(t, "polled", "idle")
    /\ pmCached' = pmSeen[t] /\ pmSeen' = [pmSeen EXCEPT ![t] = NoProc]
    /\ pmLost' = (pmLost \/ (Runs(pmCached) /\ pmSeen[t] # pmCached))
    /\ UNCHANGED <<pmProcs, pmFile, pmProc, pmIgnored, pmTask, pmMode, pmWrong, pmBirths, pmEvents>>

-----------------------------------------------------------------------------
(***************************************************************************)
(* start, in the thread of a task.                                         *)
(***************************************************************************)
StartAsks ==
    /\ pmAt["ha"] = "idle"
    /\ RunningRead("task", "idle", "asked") /\ PmEvent
    /\ pmTask' = FreshTask

StartAnswered ==
    /\ PmGoes("task", "asked", IF pmSeen["task"] = NoProc THEN "spawn" ELSE "idle")
    /\ pmCached' = pmSeen["task"]
    /\ UNCHANGED <<pmProcs, pmFile, pmSeen, pmProc, pmIgnored, pmTask, pmMode, pmWrong, pmLost, pmBirths, pmEvents>>

\* PG_GRANDPARENT_PID: a pid in postmaster.pid that is taken, and not by the postmaster.
GrandparentPid == IF PidTaken /\ ~IsPostmasterProcess THEN pmFile.pid ELSE 0

\* Altered form: the task is not asked whether it was cancelled.
SpawnUncancelled ==
    /\ PmGoes("task", "spawn", "spawned") /\ pmBirths < MaxBorn
    /\ \E p \in Pids :
          /\ pmProcs[p].kind = "none"
          /\ pmProcs' = [pmProcs EXCEPT ![p] = [kind |-> "starting", born |-> pmBirths + 1]]
          /\ pmProc' = [pmProc EXCEPT !["task"] = [pid |-> p, born |-> pmBirths + 1]]
          /\ pmIgnored' = [pmIgnored EXCEPT ![p] = GrandparentPid]
    /\ pmBirths' = pmBirths + 1
    /\ UNCHANGED <<pmFile, pmCached, pmSeen, pmTask, pmMode, pmWrong, pmLost, pmEvents>>

\* PostmasterProcess.start, with the task locked.
Spawn ==
    /\ pmBirths < MaxBorn
    /\ ~pmTask.cancelled
    /\ PmGoes("task", "spawn", "spawned")
    /\ \E p \in Pids :
          /\ pmProcs[p].kind = "none"
          /\ pmProcs' = [pmProcs EXCEPT ![p] = [kind |-> "starting", born |-> pmBirths + 1]]
          /\ pmProc' = [pmProc EXCEPT !["task"] = [pid |-> p, born |-> pmBirths + 1]]
          /\ pmIgnored' = [pmIgnored EXCEPT ![p] = GrandparentPid]
    /\ pmBirths' = pmBirths + 1
    /\ UNCHANGED <<pmFile, pmCached, pmSeen, pmTask, pmMode, pmWrong, pmLost, pmEvents>>

SpawnCancelled ==
    /\ pmTask.cancelled /\ PmGoes("task", "spawn", "idle")
    /\ UNCHANGED <<pmProcs, pmFile, pmCached, pmSeen, pmProc, pmIgnored, pmTask, pmMode, pmWrong, pmLost, pmBirths, pmEvents>>

\* The attribute is assigned, then read again to complete the task.
SpawnAssigns ==
    /\ PmGoes("task", "spawned", "complete")
    /\ pmCached' = pmProc["task"]
    /\ UNCHANGED <<pmProcs, pmFile, pmSeen, pmProc, pmIgnored, pmTask, pmMode, pmWrong, pmLost, pmBirths, pmEvents>>

CompleteTask ==
    /\ PmGoes("task", "complete", "wait for port")
    /\ pmTask' = [pmTask EXCEPT !.done = TRUE, !.result = pmCached]
    /\ UNCHANGED <<pmProcs, pmFile, pmCached, pmSeen, pmProc, pmIgnored, pmMode, pmWrong, pmLost, pmBirths, pmEvents>>

\* wait_for_port_open: over when the process is gone or ready; without a process the start has failed.
PortOpen ==
    /\ PmGoes("task", "wait for port", "idle")
    /\ pmCached = NoProc \/ ~Runs(pmProc["task"]) \/ pmProcs[pmProc["task"].pid].kind # "starting"
    /\ pmProc' = [pmProc EXCEPT !["task"] = NoProc]
    /\ UNCHANGED <<pmProcs, pmFile, pmCached, pmSeen, pmIgnored, pmTask, pmMode, pmWrong, pmLost, pmBirths, pmEvents>>

-----------------------------------------------------------------------------
(***************************************************************************)
(* The HA thread loses the lock: the task is cancelled, or the process it  *)
(* started terminated; then stop.                                          *)
(***************************************************************************)
TaskLocked == pmAt["task"] \in {"spawned", "complete"}

Signalled(proc) == pmWrong' = pmWrong \union (IF Runs(proc) /\ proc.pid \notin Postmasters THEN {proc} ELSE {})

CancelTask ==
    /\ ~TaskLocked
    /\ PmGoes("ha", "idle", IF pmTask.done /\ pmTask.result # NoProc THEN "terminate" ELSE "stop") /\ PmEvent
    /\ pmTask' = [pmTask EXCEPT !.cancelled = ~pmTask.done]
    /\ pmProc' = [pmProc EXCEPT !["ha"] = IF pmTask.done THEN pmTask.result ELSE NoProc]
    /\ UNCHANGED <<pmProcs, pmFile, pmCached, pmSeen, pmIgnored, pmMode, pmWrong, pmLost, pmBirths>>

\* terminate_starting_postmaster: SIGQUIT, then wait.
TerminateStarting ==
    /\ PmGoes("ha", "terminate", "terminated")
    /\ Signalled(pmProc["ha"])
    /\ pmProcs' = IF Runs(pmProc["ha"]) THEN [pmProcs EXCEPT ![pmProc["ha"].pid].kind = "stopping"] ELSE pmProcs
    /\ UNCHANGED <<pmFile, pmCached, pmSeen, pmProc, pmIgnored, pmTask, pmMode, pmLost, pmBirths, pmEvents>>

Terminated ==
    /\ PmGoes("ha", "terminated", "stop") /\ ~Runs(pmProc["ha"])
    /\ UNCHANGED <<pmProcs, pmFile, pmCached, pmSeen, pmProc, pmIgnored, pmTask, pmMode, pmWrong, pmLost, pmBirths, pmEvents>>

StopAsks == RunningRead("ha", "stop", "stop asked") /\ UNCHANGED <<pmTask, pmEvents>>

\* signal_stop: a process that is gone by now counts as stopped.
StopSignals ==
    /\ PmGoes("ha", "stop asked", IF Runs(pmSeen["ha"]) THEN "wait" ELSE "stopped")
    /\ pmCached' = pmSeen["ha"]
    /\ pmProc' = [pmProc EXCEPT !["ha"] = pmSeen["ha"]]
    /\ Signalled(pmSeen["ha"])
    /\ IF Runs(pmSeen["ha"])
       THEN /\ pmProcs' = [pmProcs EXCEPT ![pmSeen["ha"].pid].kind = "stopping"]
            /\ pmMode' = "fast"
       ELSE UNCHANGED <<pmProcs, pmMode>>
    /\ UNCHANGED <<pmFile, pmSeen, pmIgnored, pmTask, pmLost, pmBirths, pmEvents>>

\* terminate_postmaster after stop_timeout: SIGQUIT and, later, SIGKILL.
StopTimeout ==
    /\ pmAt["ha"] = "wait" /\ Runs(pmProc["ha"]) /\ pmMode \in {"fast", "immediate"}
    /\ pmMode' = IF pmMode = "fast" THEN "immediate" ELSE "kill"
    /\ pmProcs' = IF pmMode = "immediate" THEN [pmProcs EXCEPT ![pmProc["ha"].pid] = Free] ELSE pmProcs
    /\ Signalled(pmProc["ha"])
    /\ UNCHANGED <<pmFile, pmCached, pmSeen, pmAt, pmProc, pmIgnored, pmTask, pmLost, pmBirths, pmEvents>>

StopWaited ==
    /\ PmGoes("ha", "wait", "stopped") /\ ~Runs(pmProc["ha"])
    /\ pmMode' = "none"
    /\ UNCHANGED <<pmProcs, pmFile, pmCached, pmSeen, pmProc, pmIgnored, pmTask, pmWrong, pmLost, pmBirths, pmEvents>>

\* The demotion is over; the HA loop goes on when the task has ended.
PmDemoted ==
    /\ PmGoes("ha", "stopped", "idle") /\ pmAt["task"] = "idle"
    /\ pmProc' = [pmProc EXCEPT !["ha"] = NoProc]
    /\ UNCHANGED <<pmProcs, pmFile, pmCached, pmSeen, pmIgnored, pmTask, pmMode, pmWrong, pmLost, pmBirths, pmEvents>>

-----------------------------------------------------------------------------
(***************************************************************************)
(* The processes.                                                          *)
(***************************************************************************)

\* A postmaster locks the data directory, or gives up if the file names a living process other than itself and the
\* one it is told to ignore.
PidfileWritten(p) ==
    /\ pmProcs[p].kind = "starting"
    /\ IF PidTaken /\ pmFile.pid \notin {p, pmIgnored[p]}
       THEN pmProcs' = [pmProcs EXCEPT ![p] = Free] /\ UNCHANGED pmFile
       ELSE /\ pmProcs' = [pmProcs EXCEPT ![p].kind = "postmaster"]
            /\ pmFile' = [pid |-> p, born |-> pmProcs[p].born]
    /\ UNCHANGED <<pmCached, pmSeen, pmAt, pmProc, pmIgnored, pmTask, pmMode, pmWrong, pmLost, pmBirths, pmEvents>>

Exits(p) ==
    /\ pmProcs[p].kind = "stopping"
    /\ pmProcs' = [pmProcs EXCEPT ![p] = Free]
    /\ pmFile' = IF pmFile = [pid |-> p, born |-> pmProcs[p].born] THEN NoProc ELSE pmFile
    /\ UNCHANGED <<pmCached, pmSeen, pmAt, pmProc, pmIgnored, pmTask, pmMode, pmWrong, pmLost, pmBirths, pmEvents>>

PmCrash(p) ==
    /\ pmProcs[p].kind \in {"postmaster", "foreign"} /\ PmEvent
    /\ pmProcs' = [pmProcs EXCEPT ![p] = Free]
    /\ UNCHANGED <<pmFile, pmCached, pmSeen, pmAt, pmProc, pmIgnored, pmTask, pmMode, pmWrong, pmLost, pmBirths>>

PidReused(p) ==
    /\ pmProcs[p].kind = "none" /\ pmBirths < MaxBorn /\ PmEvent
    /\ pmProcs' = [pmProcs EXCEPT ![p] = [kind |-> "foreign", born |-> pmBirths + 1]]
    /\ pmBirths' = pmBirths + 1
    /\ UNCHANGED <<pmFile, pmCached, pmSeen, pmAt, pmProc, pmIgnored, pmTask, pmMode, pmWrong, pmLost>>

-----------------------------------------------------------------------------
PmTaskGoes == StartAnswered \/ Spawn \/ SpawnCancelled \/ SpawnAssigns \/ CompleteTask \/ PortOpen
PmHaGoes == TerminateStarting \/ Terminated \/ StopAsks \/ StopSignals \/ StopTimeout \/ StopWaited \/ PmDemoted

PmNext ==
    \/ StartAsks \/ PmTaskGoes \/ CancelTask \/ PmHaGoes
    \/ \E t \in Pollers : Poll(t) \/ PollEnds(t)
    \/ \E p \in Pids : PidfileWritten(p) \/ Exits(p) \/ PmCrash(p) \/ PidReused(p)

PmFairness == /\ WF_pmVars(PmTaskGoes) /\ WF_pmVars(PmHaGoes)
              /\ \A p \in Pids : WF_pmVars(PidfileWritten(p))
              /\ \A p \in Pids : WF_pmVars(Exits(p) /\ pmAt["ha"] = "terminated")

PmSpec == PmInit /\ [][PmNext]_pmVars /\ PmFairness

-----------------------------------------------------------------------------
(***************************************************************************)
(* Never do two postmasters hold the data directory, although Patroni      *)
(* tells the second which pid it may ignore: at most one is alive, unless  *)
(* a thread of the REST API took a starting one for gone.  Then only the   *)
(* interlock of PostgreSQL on its shared memory is left.                   *)
(***************************************************************************)
OnePostmaster == ~pmLost => \A p, q \in Postmasters : p = q

\* No signal reaches a process that is not the postmaster, even if it has got the pid of one.
OnlyPostmasterSignalled == pmWrong = {}

(***************************************************************************)
(* After the HA thread demoted itself during a start, no postmaster is     *)
(* left: the start was cancelled, or what it had started was terminated,   *)
(* even before it had written postmaster.pid.                              *)
(***************************************************************************)
CancelledStartLeavesNothing == pmAt["ha"] = "stopped" => Postmasters = {} /\ pmAt["task"] \notin {"spawned", "complete"}

\* The same, unless a thread of the REST API took the process for gone and overwrote what start had assigned.
DemotionStopsStart == pmAt["ha"] = "stopped" /\ ~pmLost => Postmasters = {} /\ pmAt["task"] \notin {"spawned", "complete"}

\* stop comes to its end.
StopReturns == pmAt["ha"] # "idle" ~> pmAt["ha"] = "idle"
=============================================================================
