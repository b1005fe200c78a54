---------------------------- MODULE ServiceProofs ----------------------------
(***************************************************************************)
(* Threads of one node that must not get in each other's way, for any      *)
(* number of tasks, threads and processes: the asynchronous executor and   *)
(* those that cancel its tasks; the thread that starts PostgreSQL, the HA  *)
(* thread that stops it and the threads that ask whether it runs; the      *)
(* restarts that clients ask for and the primary that must release the     *)
(* node first; the executor of callbacks and those that hand it scripts;   *)
(* the threads that log and the one that writes the log.                   *)
(***************************************************************************)
EXTENDS AsyncExec, Postmaster, Restarts, Callbacks, LogQueue, FiniteSetTheorems, WellFoundedInduction, TLAPS

-----------------------------------------------------------------------------
(***************************************************************************)
(* AsyncExecutor: as long as nobody schedules a task once a cancellation   *)
(* has begun (what a shutdown guarantees), tasks never overlap and the     *)
(* cancelled task is over when cancel() returns.                           *)
(***************************************************************************)
AtWork(t) == task[t] \in {"begun", "working", "subprocess"}
Active(t) == task[t] = "queued" \/ task[t] \in Begun

\* There is one task at most between schedule() and its end.
OneActive == \A t, u \in Tasks : Active(t) /\ Active(u) => t = u

\* Until somebody cancels, scheduled_action names that task.
ActiveIsScheduled == ~isCancelled => \A t \in Tasks : Active(t) => scheduled = t

\* A task at work is the scheduled one and has cleared the event.
AtWorkIsPending == \A t \in Tasks : AtWork(t) => scheduled = t /\ ~finish

\* The flag is set by the first cancel() that finds something to cancel.
FlagMeansCancel ==
    /\ (\A c \in Callers : caller[c] = "idle") => ~isCancelled
    /\ \A c \in Callers : caller[c] \in {"flagged", "waiting", "woken"} => isCancelled

\* A thread that got out of wait() does not see the event cleared again.
WokenIsFinished == \A c \in Callers : caller[c] = "woken" => finish

\* After a cancel() has returned nothing is at work, and without a cancelled task nothing is scheduled.
ReturnedIsOver ==
    \A c \in Callers : caller[c] = "returned" =>
        (\A t \in Tasks : ~AtWork(t)) /\ (isCancelled \/ scheduled = None)

IInv ==
    /\ TypeOK
    /\ OneActive /\ ActiveIsScheduled /\ AtWorkIsPending
    /\ FlagMeansCancel /\ WokenIsFinished /\ ReturnedIsOver

-----------------------------------------------------------------------------
(***************************************************************************)
(* Every step of the executor, of its workers and of the threads that      *)
(* cancel keeps the types.                                                 *)
(***************************************************************************)
LEMMA TypeStep == TypeOK /\ [Next]_vars => TypeOK'
<1> SUFFICES ASSUME TypeOK, [Next]_vars PROVE TypeOK'
  OBVIOUS
<1> USE AsyncAssumption DEF TypeOK, Begun
<1>1. ASSUME NEW t \in Tasks, Schedule(t) PROVE TypeOK'
  BY <1>1 DEF Schedule
<1>2. ASSUME NEW t \in Tasks, Begin(t) PROVE TypeOK'
  <2>1. finish' \in BOOLEAN
    BY <1>2 DEF Begin
  <2> QED BY <1>2, <2>1 DEF Begin
<1>3. ASSUME NEW t \in Tasks, ResetCancellable(t) PROVE TypeOK'
  BY <1>3 DEF ResetCancellable
<1>4. ASSUME NEW t \in Tasks, Call(t) PROVE TypeOK'
  <2>1. calls[t] + 1 \in 0..MaxCalls
    BY <1>4 DEF Call
  <2> QED BY <1>4, <2>1 DEF Call
<1>5. ASSUME NEW t \in Tasks, SubprocessEnds(t) PROVE TypeOK'
  BY <1>5 DEF SubprocessEnds
<1>6. ASSUME NEW t \in Tasks, Return(t) PROVE TypeOK'
  BY <1>6 DEF Return
<1>7. ASSUME NEW t \in Tasks, End(t) PROVE TypeOK'
  BY <1>7 DEF End
<1>8. ASSUME NEW c \in Callers, Cancel(c) PROVE TypeOK'
  <2>1. isCancelled' \in BOOLEAN
    BY <1>8 DEF Cancel
  <2> QED BY <1>8, <2>1 DEF Cancel
<1>9. ASSUME NEW c \in Callers, Terminate(c) PROVE TypeOK'
  BY <1>9 DEF Terminate
<1>10. ASSUME NEW c \in Callers, WaitDone(c) PROVE TypeOK'
  BY <1>10 DEF WaitDone
<1>11. ASSUME NEW c \in Callers, CancelReturn(c) PROVE TypeOK'
  BY <1>11 DEF CancelReturn
<1>12. CASE UNCHANGED vars
  BY <1>12 DEF vars
<1> QED
  BY <1>1, <1>2, <1>3, <1>4, <1>5, <1>6, <1>7, <1>8, <1>9, <1>10, <1>11, <1>12
  DEF Next, Worker, Canceller

(***************************************************************************)
(* The invariant holds at the start.                                       *)
(***************************************************************************)
LEMMA InitInv == Init => IInv
<1> SUFFICES ASSUME Init PROVE IInv
  OBVIOUS
<1>1. TypeOK
  <2>1. isCancelled \in BOOLEAN /\ finish \in BOOLEAN /\ cancelled \in BOOLEAN
    BY DEF Init
  <2>2. task \in [Tasks -> {"new", "queued", "done"} \union Begun]
    BY DEF Init
  <2>3. calls \in [Tasks -> 0..MaxCalls]
    BY AsyncAssumption DEF Init
  <2>4. caller \in [Callers -> {"idle", "flagged", "waiting", "woken", "returned"}]
    BY DEF Init
  <2> QED BY <2>1, <2>2, <2>3, <2>4 DEF Init, TypeOK
<1>2. \A t \in Tasks : ~Active(t) /\ ~AtWork(t)
  BY DEF Init, Active, AtWork, Begun
<1>3. \A c \in Callers : caller[c] = "idle"
  BY DEF Init
<1>4. ~isCancelled
  BY DEF Init
<1> QED
  BY <1>1, <1>2, <1>3, <1>4
  DEF IInv, OneActive, ActiveIsScheduled, AtWorkIsPending, FlagMeansCancel, WokenIsFinished, ReturnedIsOver

(***************************************************************************)
(* Every step keeps the invariant when no task is scheduled after a        *)
(* cancellation has begun.                                                 *)
(***************************************************************************)
LEMMA InvStep == ~Requests /\ IInv /\ [Next]_vars => IInv'
<1> SUFFICES ASSUME ~Requests, IInv, [Next]_vars PROVE IInv'
  OBVIOUS
<1>0. TypeOK /\ TypeOK'
  BY TypeStep DEF IInv
<1> USE <1>0, AsyncAssumption
    DEF IInv, TypeOK, OneActive, ActiveIsScheduled, AtWorkIsPending, FlagMeansCancel,
        WokenIsFinished, ReturnedIsOver, Active, AtWork, Begun
<1>1. ASSUME NEW t \in Tasks, Schedule(t) PROVE IInv'
  <2>1. \A u \in Tasks : ~Active(u)
    BY <1>1 DEF Schedule
  <2> QED BY <1>1, <2>1 DEF Schedule
<1>2. ASSUME NEW t \in Tasks, Begin(t) PROVE IInv'
  BY <1>2 DEF Begin
<1>3. ASSUME NEW t \in Tasks, ResetCancellable(t) PROVE IInv'
  BY <1>3 DEF ResetCancellable
<1>4. ASSUME NEW t \in Tasks, Call(t) PROVE IInv'
  BY <1>4 DEF Call
<1>5. ASSUME NEW t \in Tasks, SubprocessEnds(t) PROVE IInv'
  BY <1>5 DEF SubprocessEnds
<1>6. ASSUME NEW t \in Tasks, Return(t) PROVE IInv'
  BY <1>6 DEF Return
<1>7. ASSUME NEW t \in Tasks, End(t) PROVE IInv'
  BY <1>7 DEF End
<1>8. ASSUME NEW c \in Callers, Cancel(c) PROVE IInv'
  <2>1. isCancelled' = (isCancelled \/ scheduled # None) /\ UNCHANGED <<scheduled, finish, task>>
    BY <1>8 DEF Cancel
  <2>2. isCancelled => isCancelled'
    BY <2>1
  <2>3. scheduled # None => isCancelled'
    BY <2>1
  <2>4. caller' = [caller EXCEPT ![c] = IF scheduled = None THEN "returned" ELSE "flagged"]
    BY <1>8 DEF Cancel
  <2>5. OneActive' /\ AtWorkIsPending' /\ WokenIsFinished'
    BY <2>1, <2>4
  <2>6. ActiveIsScheduled'
    BY <2>1, <2>2
  <2>7. FlagMeansCancel'
    BY <2>2, <2>3, <2>4
  <2>8. ReturnedIsOver'
    BY <2>1, <2>2, <2>4
  <2> QED BY <2>5, <2>6, <2>7, <2>8
<1>9. ASSUME NEW c \in Callers, Terminate(c) PROVE IInv'
  BY <1>9 DEF Terminate
<1>10. ASSUME NEW c \in Callers, WaitDone(c) PROVE IInv'
  BY <1>10 DEF WaitDone
<1>11. ASSUME NEW c \in Callers, CancelReturn(c) PROVE IInv'
  BY <1>11 DEF CancelReturn
<1>12. CASE UNCHANGED vars
  BY <1>12 DEF vars
<1> QED
  BY <1>1, <1>2, <1>3, <1>4, <1>5, <1>6, <1>7, <1>8, <1>9, <1>10, <1>11, <1>12
  DEF Next, Worker, Canceller

(***************************************************************************)
(* Type correctness of the executor.                                       *)
(***************************************************************************)
THEOREM TypeCorrect == Spec => []TypeOK
<1>1. Init => TypeOK
  BY InitInv DEF IInv
<1> QED BY <1>1, TypeStep, PTL DEF Spec

(***************************************************************************)
(* schedule(): two tasks are never at work at the same time, and the one   *)
(* at work is the one that scheduled_action names.                         *)
(***************************************************************************)
THEOREM OneAtATimeCorrect == ASSUME ~Requests PROVE Spec => []OneAtATime
<1>1. IInv /\ [Next]_vars => IInv'
  BY InvStep
<1>2. IInv => OneAtATime
  BY DEF IInv, AtWorkIsPending, AtWork, OneAtATime
<1> QED BY <1>1, <1>2, InitInv, PTL DEF Spec

(***************************************************************************)
(* cancel(): when it has returned, no task is at work, one that was only   *)
(* queued in the thread pool included.                                     *)
(***************************************************************************)
THEOREM CancelStopsCorrect == ASSUME ~Requests PROVE Spec => []CancelStops
<1>1. IInv /\ [Next]_vars => IInv'
  BY InvStep
<1>2. IInv => CancelStops
  BY DEF IInv, ReturnedIsOver, AtWork, CancelStops
<1> QED BY <1>1, <1>2, InitInv, PTL DEF Spec

-----------------------------------------------------------------------------
(***************************************************************************)
(* The postmaster: nobody signals a process that is not one, and a         *)
(* demotion leaves none behind.                                            *)
(***************************************************************************)
Kinds == {"none", "starting", "postmaster", "stopping", "foreign"}
Procs == [pid : Pids, born : Nat] \cup {NoProc}
PmType ==
    /\ pmProcs \in [Pids -> [kind : Kinds, born : Nat]]
    /\ pmFile \in Procs /\ pmCached \in Procs
    /\ pmSeen \in [PmThreads -> Procs] /\ pmProc \in [PmThreads -> Procs]
    /\ DOMAIN pmAt = PmThreads
    /\ pmTask \in [cancelled : BOOLEAN, done : BOOLEAN, result : Procs]
    /\ pmLost \in BOOLEAN /\ pmBirths \in Nat

\* What runs under the pid p.
At(p) == [pid |-> p, born |-> pmProcs[p].born]

(***************************************************************************)
(* What a thread remembers is a postmaster, or one that is gone: another   *)
(* process under its pid was born later.                                   *)
(***************************************************************************)
Genuine(proc) == proc # NoProc => proc.born <= pmBirths /\ (Runs(proc) => proc.pid \in Postmasters)
AllGenuine ==
    /\ \A p \in Pids : pmProcs[p].born <= pmBirths
    /\ Genuine(pmFile) /\ Genuine(pmCached) /\ Genuine(pmTask.result)
    /\ \A t \in PmThreads : Genuine(pmSeen[t]) /\ Genuine(pmProc[t])

\* Nothing is spawned while the HA thread demotes: the task has completed, or it will find itself cancelled.
Fresh == pmAt["task"] \in {"asked", "spawn", "spawned", "complete"} => ~pmTask.done
Barred == pmAt["ha"] # "idle" => /\ pmAt["task"] \notin {"spawned", "complete"}
                                 /\ pmAt["task"] \in {"asked", "spawn"} => pmTask.cancelled

(***************************************************************************)
(* There is one process at most, and is_running() finds it: in the         *)
(* attribute, in postmaster.pid, or it was started just now.  A thread     *)
(* that acts on what it found knows it.                                    *)
(***************************************************************************)
OneLive == \A p, q \in Postmasters : p = q
Tracked == \A p \in Postmasters :
    \/ pmCached = At(p)
    \/ pmFile = At(p)
    \/ pmAt["task"] = "spawned"
TaskKnows == \A p \in Postmasters : /\ pmAt["task"] = "asked" => pmSeen["task"] = At(p)
                                    /\ pmAt["task"] # "spawn"
                                    /\ pmAt["task"] = "spawned" => pmProc["task"] = At(p)
HaKnows == \A p \in Postmasters : /\ pmAt["ha"] = "stop asked" => pmSeen["ha"] = At(p)
                                  /\ pmAt["ha"] = "wait" => pmProc["ha"] = At(p)
                                  /\ pmAt["ha"] # "stopped"
LiveIsKnown == ~pmLost => OneLive /\ Tracked /\ TaskKnows /\ HaKnows

PmInv == PmType /\ AllGenuine /\ Fresh /\ Barred /\ LiveIsKnown

-----------------------------------------------------------------------------
\* Every step keeps the types.
LEMMA PmTypeStep == PmType /\ [PmNext]_pmVars => PmType'
<1> SUFFICES ASSUME PmType, [PmNext]_pmVars PROVE PmType'
  OBVIOUS
<1> USE PostmasterAssumption DEF PmType
<1>0. NoProc \in Procs /\ FromPidfile \in Procs /\ Free \in [kind : Kinds, born : Nat]
      /\ "task" \in PmThreads /\ "ha" \in PmThreads /\ Pollers \subseteq PmThreads
  BY DEF Procs, FromPidfile, IsPostmasterProcess, Runs, Free, Kinds, PmThreads
<1>1. ASSUME NEW p \in Pids, NEW k \in Kinds PROVE [pmProcs EXCEPT ![p].kind = k] \in [Pids -> [kind : Kinds, born : Nat]]
  BY <1>1
<1>2. ASSUME NEW proc \in Procs, Runs(proc) PROVE proc.pid \in Pids
  BY <1>2 DEF Runs, Procs
<1>3. ASSUME NEW t \in PmThreads, NEW here, NEW there, RunningRead(t, here, there)
      PROVE  /\ pmCached' \in Procs /\ pmSeen' \in [PmThreads -> Procs] /\ DOMAIN pmAt' = PmThreads
             /\ UNCHANGED <<pmProcs, pmFile, pmProc, pmLost, pmBirths>>
  BY <1>0, <1>3 DEF RunningRead, PmGoes
<1>4. CASE StartAsks
  <2>1. pmTask' \in [cancelled : BOOLEAN, done : BOOLEAN, result : Procs]
    BY <1>0, <1>4 DEF StartAsks, FreshTask
  <2>2. QED
    BY <1>0, <1>3, <1>4, <2>1 DEF StartAsks
<1>5. CASE StartAnswered
  BY <1>0, <1>5 DEF StartAnswered, PmGoes
<1>6. CASE Spawn
  <2>1. PICK p \in Pids :
          /\ pmProcs' = [pmProcs EXCEPT ![p] = [kind |-> "starting", born |-> pmBirths + 1]]
          /\ pmProc' = [pmProc EXCEPT !["task"] = [pid |-> p, born |-> pmBirths + 1]]
    BY <1>6 DEF Spawn
  <2>2. pmProcs' \in [Pids -> [kind : Kinds, born : Nat]]
    BY <2>1 DEF Kinds
  <2>3. pmProc' \in [PmThreads -> Procs]
    BY <1>0, <2>1 DEF Procs
  <2>4. QED
    BY <1>6, <2>2, <2>3 DEF Spawn, PmGoes
<1>7. CASE SpawnCancelled
  BY <1>7 DEF SpawnCancelled, PmGoes
<1>8. CASE SpawnAssigns
  BY <1>0, <1>8 DEF SpawnAssigns, PmGoes
<1>9. CASE CompleteTask
  BY <1>9 DEF CompleteTask, PmGoes
<1>10. CASE PortOpen
  BY <1>0, <1>10 DEF PortOpen, PmGoes
<1>11. CASE CancelTask
  <2>1. pmProc' \in [PmThreads -> Procs]
    BY <1>0, <1>11 DEF CancelTask
  <2>2. pmTask' \in [cancelled : BOOLEAN, done : BOOLEAN, result : Procs]
    BY <1>11 DEF CancelTask
  <2>3. QED
    BY <1>11, <2>1, <2>2 DEF CancelTask, PmGoes
<1>12. CASE TerminateStarting
  <2>1. pmProcs' \in [Pids -> [kind : Kinds, born : Nat]]
    BY <1>0, <1>1, <1>2, <1>12 DEF TerminateStarting, Kinds
  <2>2. QED
    BY <1>12, <2>1 DEF TerminateStarting, PmGoes
<1>13. CASE Terminated
  BY <1>13 DEF Terminated, PmGoes
<1>14. CASE StopAsks
  BY <1>0, <1>3, <1>14 DEF StopAsks
<1>15. CASE StopSignals
  <2>1. pmProcs' \in [Pids -> [kind : Kinds, born : Nat]]
    <3>1. \/ pmProcs' = pmProcs
          \/ Runs(pmSeen["ha"]) /\ pmProcs' = [pmProcs EXCEPT ![pmSeen["ha"].pid].kind = "stopping"]
      BY <1>15 DEF StopSignals
    <3>2. "stopping" \in Kinds /\ pmSeen["ha"] \in Procs
      BY <1>0 DEF Kinds
    <3>3. QED
      BY <1>1, <1>2, <3>1, <3>2
  <2>2. QED
    BY <1>0, <1>15, <2>1 DEF StopSignals, PmGoes
<1>16. CASE StopTimeout
  <2>1. pmProcs' \in [Pids -> [kind : Kinds, born : Nat]]
    BY <1>0, <1>16 DEF StopTimeout
  <2>2. QED
    BY <1>16, <2>1 DEF StopTimeout
<1>17. CASE StopWaited \/ PmDemoted
  BY <1>0, <1>17 DEF StopWaited, PmDemoted, PmGoes
<1>18. ASSUME NEW t \in Pollers, Poll(t) PROVE PmType'
  BY <1>0, <1>3, <1>18 DEF Poll
<1>19. ASSUME NEW t \in Pollers, PollEnds(t) PROVE PmType'
  <2>1. pmLost' \in BOOLEAN
    BY <1>19 DEF PollEnds
  <2>2. QED
    BY <1>0, <1>19, <2>1 DEF PollEnds, PmGoes
<1>20. ASSUME NEW p \in Pids, PidfileWritten(p) PROVE PmType'
  <2>1. pmProcs' \in [Pids -> [kind : Kinds, born : Nat]]
    <3>1. \/ pmProcs' = [pmProcs EXCEPT ![p] = Free]
          \/ pmProcs' = [pmProcs EXCEPT ![p].kind = "postmaster"]
      BY <1>20 DEF PidfileWritten
    <3>2. "postmaster" \in Kinds
      BY DEF Kinds
    <3>3. CASE pmProcs' = [pmProcs EXCEPT ![p] = Free]
      BY <1>0, <1>1, <3>3
    <3>4. CASE pmProcs' = [pmProcs EXCEPT ![p].kind = "postmaster"]
      BY <1>0, <3>2, <3>4
    <3>5. QED
      BY <3>1, <3>3, <3>4
  <2>2. pmFile' \in Procs
    BY <1>20 DEF PidfileWritten, Procs
  <2>3. QED
    BY <1>20, <2>1, <2>2 DEF PidfileWritten
<1>21. ASSUME NEW p \in Pids, Exits(p) \/ PmCrash(p) PROVE PmType'
  BY <1>0, <1>21 DEF Exits, PmCrash
<1>22. ASSUME NEW p \in Pids, PidReused(p) PROVE PmType'
  <2>1. pmProcs' \in [Pids -> [kind : Kinds, born : Nat]]
    BY <1>22 DEF PidReused, Kinds
  <2>2. QED
    BY <1>22, <2>1 DEF PidReused
<1>23. CASE UNCHANGED pmVars
  BY <1>23 DEF pmVars
<1>24. QED
  BY <1>4, <1>5, <1>6, <1>7, <1>8, <1>9, <1>10, <1>11, <1>12, <1>13, <1>14, <1>15, <1>16, <1>17, <1>18, <1>19, <1>20,
     <1>21, <1>22, <1>23 DEF PmNext, PmTaskGoes, PmHaGoes

-----------------------------------------------------------------------------
(***************************************************************************)
(* How the processes change: of those that were there each is as it was,   *)
(* gone, or a postmaster in another phase; and what is new was born later  *)
(* than all there were.                                                    *)
(***************************************************************************)
Phases == {"starting", "postmaster", "stopping"}
Stays(p) == pmProcs'[p] = pmProcs[p]
Ends(p) == pmProcs'[p] = Free
Turns(p) == pmProcs[p].kind \in Phases /\ pmProcs'[p].kind \in Phases /\ pmProcs'[p].born = pmProcs[p].born
Born(p) == pmProcs[p].kind = "none" /\ pmProcs'[p].born = pmBirths + 1 /\ pmBirths' = pmBirths + 1

\* Nothing that is a postmaster appears.
NoBirth == \A p \in Postmasters' : p \in Postmasters /\ At(p)' = At(p)

LEMMA PmRefs ==
    ASSUME PmType
    PROVE  /\ "task" \in PmThreads /\ "ha" \in PmThreads /\ Pollers \subseteq PmThreads
           /\ \A proc \in Procs : Runs(proc) => proc.pid \in Pids /\ proc # NoProc /\ At(proc.pid) = proc
           /\ \A p \in Postmasters : p \in Pids /\ At(p) \in Procs /\ At(p) # NoProc /\ Runs(At(p))
           /\ FromPidfile = IF Runs(pmFile) THEN pmFile ELSE NoProc
           /\ NoProc \in Procs
<1> USE PostmasterAssumption DEF PmType, Procs, Runs, At
<1>1. "task" \in PmThreads /\ "ha" \in PmThreads /\ Pollers \subseteq PmThreads /\ NoProc \in Procs
  BY DEF PmThreads
<1>2. \A proc \in Procs : Runs(proc) => proc.pid \in Pids /\ proc # NoProc /\ At(proc.pid) = proc
  OBVIOUS
<1>3. \A p \in Postmasters : p \in Pids /\ At(p) \in Procs /\ At(p) # NoProc /\ Runs(At(p))
  BY DEF Postmasters, NoProc
<1>4. FromPidfile = IF Runs(pmFile) THEN pmFile ELSE NoProc
  BY DEF FromPidfile, IsPostmasterProcess
<1>5. QED
  BY <1>1, <1>2, <1>3, <1>4

\* What a thread remembers stays genuine.
LEMMA GenuineStep ==
    ASSUME PmType, PmType', NEW proc \in Procs, Genuine(proc), pmBirths' >= pmBirths,
           \A p \in Pids : Stays(p) \/ Ends(p) \/ Turns(p) \/ Born(p)
    PROVE  Genuine(proc)'
<1> SUFFICES ASSUME proc # NoProc PROVE proc.born <= pmBirths' /\ (Runs(proc)' => proc.pid \in Postmasters')
  BY DEF Genuine
<1>1. proc.pid \in Pids /\ proc.born \in Nat /\ proc.born <= pmBirths /\ (Runs(proc) => proc.pid \in Postmasters)
  BY DEF Procs, Genuine
<1>2. proc.born <= pmBirths'
  BY <1>1 DEF PmType
<1>3. ASSUME Runs(proc)' PROVE proc.pid \in Postmasters'
  <2>1. pmProcs'[proc.pid].kind # "none" /\ pmProcs'[proc.pid].born = proc.born
    BY <1>3 DEF Runs
  <2>2. CASE Stays(proc.pid)
    BY <1>1, <2>1, <2>2 DEF Stays, Runs, Postmasters
  <2>3. CASE Turns(proc.pid)
    BY <1>1, <2>3 DEF Turns, Postmasters, Phases
  <2>4. ~Ends(proc.pid) /\ ~Born(proc.pid)
    BY <1>1, <2>1 DEF Ends, Free, Born, PmType
  <2>5. QED
    BY <1>1, <2>2, <2>3, <2>4
<1>4. QED
  BY <1>2, <1>3

\* Only a postmaster is signalled.
LEMMA ProcsChange ==
    ASSUME PmType, AllGenuine, [PmNext]_pmVars
    PROVE  (\A p \in Pids : Stays(p) \/ Ends(p) \/ Turns(p) \/ Born(p)) /\ pmBirths' >= pmBirths
<1> USE PmRefs DEF PmType
<1>1. CASE UNCHANGED <<pmProcs, pmBirths>>
  BY <1>1 DEF Stays
<1>2. CASE Spawn
  BY <1>2 DEF Spawn, Stays, Born
<1>3. ASSUME NEW proc \in Procs, Genuine(proc), Runs(proc), pmProcs' = [pmProcs EXCEPT ![proc.pid].kind = "stopping"],
             UNCHANGED pmBirths
      PROVE  (\A p \in Pids : Stays(p) \/ Ends(p) \/ Turns(p) \/ Born(p)) /\ pmBirths' >= pmBirths
  <2>1. proc.pid \in Postmasters /\ proc.pid \in Pids
    BY <1>3 DEF Genuine
  <2>2. Turns(proc.pid)
    BY <1>3, <2>1 DEF Turns, Postmasters, Phases
  <2>3. \A p \in Pids \ {proc.pid} : Stays(p)
    BY <1>3 DEF Stays
  <2>4. QED
    BY <1>3, <2>2, <2>3
<1>4. CASE TerminateStarting
  <2>1. /\ pmProc["ha"] \in Procs /\ Genuine(pmProc["ha"]) /\ UNCHANGED pmBirths
        /\ \/ pmProcs' = pmProcs
           \/ Runs(pmProc["ha"]) /\ pmProcs' = [pmProcs EXCEPT ![pmProc["ha"].pid].kind = "stopping"]
    BY <1>4 DEF TerminateStarting, AllGenuine
  <2>2. QED
    BY <1>1, <1>3, <2>1
<1>5. CASE StopSignals
  <2>1. /\ pmSeen["ha"] \in Procs /\ Genuine(pmSeen["ha"]) /\ UNCHANGED pmBirths
        /\ \/ pmProcs' = pmProcs
           \/ Runs(pmSeen["ha"]) /\ pmProcs' = [pmProcs EXCEPT ![pmSeen["ha"].pid].kind = "stopping"]
    BY <1>5 DEF StopSignals, AllGenuine
  <2>2. QED
    BY <1>1, <1>3, <2>1
<1>6. CASE StopTimeout
  BY <1>6 DEF StopTimeout, Stays, Ends, Free
<1>7. ASSUME NEW p \in Pids, PidfileWritten(p)
      PROVE  (\A q \in Pids : Stays(q) \/ Ends(q) \/ Turns(q) \/ Born(q)) /\ pmBirths' >= pmBirths
  BY <1>7 DEF PidfileWritten, Stays, Ends, Turns, Phases, Free
<1>8. ASSUME NEW p \in Pids, Exits(p) \/ PmCrash(p)
      PROVE  (\A q \in Pids : Stays(q) \/ Ends(q) \/ Turns(q) \/ Born(q)) /\ pmBirths' >= pmBirths
  BY <1>8 DEF Exits, PmCrash, Stays, Ends, Free
<1>9. ASSUME NEW p \in Pids, PidReused(p)
      PROVE  (\A q \in Pids : Stays(q) \/ Ends(q) \/ Turns(q) \/ Born(q)) /\ pmBirths' >= pmBirths
  BY <1>9 DEF PidReused, Stays, Born
<1>10. UNCHANGED <<pmProcs, pmBirths>> \/ Spawn \/ TerminateStarting \/ StopSignals \/ StopTimeout
       \/ \E p \in Pids : PidfileWritten(p) \/ Exits(p) \/ PmCrash(p) \/ PidReused(p)
  BY DEF PmNext, pmVars, PmTaskGoes, PmHaGoes, StartAsks, StartAnswered, SpawnCancelled, SpawnAssigns, CompleteTask, PortOpen,
         CancelTask, Terminated, StopAsks, StopWaited, PmDemoted, Poll, PollEnds, RunningRead
<1>11. QED
  BY <1>1, <1>2, <1>4, <1>5, <1>6, <1>7, <1>8, <1>9, <1>10

LEMMA AllGenuineStep == ASSUME PmType, PmType', AllGenuine, [PmNext]_pmVars PROVE AllGenuine'
<1> USE PmRefs
<1>1. \A proc \in Procs : Genuine(proc) => Genuine(proc)'
  BY ProcsChange, GenuineStep
<1>0. \A p \in Pids : pmProcs'[p].born <= pmBirths'
  BY ProcsChange DEF AllGenuine, Stays, Ends, Free, Turns, Born, PmType
<1>2. Genuine(NoProc)' /\ NoProc \in Procs
  BY DEF Genuine
<1>3. /\ pmFile \in Procs /\ pmCached \in Procs /\ pmTask.result \in Procs
      /\ \A t \in PmThreads : pmSeen[t] \in Procs /\ pmProc[t] \in Procs
      /\ FromPidfile \in {pmFile, NoProc}
  BY DEF PmType
<1> DEFINE Old == {pmFile, pmCached, pmTask.result, NoProc} \cup {pmSeen[t] : t \in PmThreads} \cup {pmProc[t] : t \in PmThreads}
<1>4. \A proc \in Old : Genuine(proc)'
  BY <1>1, <1>2, <1>3 DEF AllGenuine
<1> DEFINE New == /\ pmFile' \in Old /\ pmCached' \in Old /\ pmTask'.result \in Old
                  /\ \A t \in PmThreads : pmSeen'[t] \in Old /\ pmProc'[t] \in Old
<1>5. New => AllGenuine'
  <2> HIDE DEF Old
  <2>1. QED
    BY <1>0, <1>4 DEF AllGenuine
<1>6. ASSUME NEW t \in PmThreads, NEW here, NEW there, RunningRead(t, here, there), pmTask' \in {pmTask, FreshTask} PROVE New
  BY <1>3, <1>6 DEF RunningRead, FreshTask, PmType
<1>7. CASE StartAsks \/ StopAsks \/ \E t \in Pollers : Poll(t)
  BY <1>5, <1>6, <1>7 DEF StartAsks, StopAsks, Poll
<1>8. CASE StartAnswered \/ SpawnCancelled \/ SpawnAssigns \/ Terminated \/ StopWaited \/ UNCHANGED pmVars
  <2>1. New
    BY <1>8 DEF StartAnswered, SpawnCancelled, SpawnAssigns, Terminated, StopWaited, pmVars, PmType
  <2>2. QED
    BY <1>5, <2>1
<1>9. CASE CompleteTask \/ PortOpen \/ CancelTask \/ PmDemoted
  <2>1. New
    BY <1>9 DEF CompleteTask, PortOpen, CancelTask, PmDemoted, PmType
  <2>2. QED
    BY <1>5, <2>1
<1>10. CASE TerminateStarting \/ StopSignals \/ StopTimeout
  <2>1. New
    BY <1>10 DEF TerminateStarting, StopSignals, StopTimeout, PmType
  <2>2. QED
    BY <1>5, <2>1
<1>11. ASSUME NEW t \in Pollers, PollEnds(t) PROVE AllGenuine'
  <2>1. New
    BY <1>11 DEF PollEnds, PmType
  <2>2. QED
    BY <1>5, <2>1
<1>12. ASSUME NEW p \in Pids, Exits(p) \/ PmCrash(p) \/ PidReused(p) PROVE AllGenuine'
  <2>1. New
    BY <1>12 DEF Exits, PmCrash, PidReused, PmType
  <2>2. QED
    BY <1>5, <2>1
<1>13. ASSUME NEW p \in Pids, PidfileWritten(p) PROVE AllGenuine'
  <2>1. CASE pmFile' = pmFile
    <3>1. New
      BY <1>13, <2>1 DEF PidfileWritten, PmType
    <3>2. QED
      BY <1>5, <3>1
  <2>2. CASE pmFile' # pmFile
    <3>1. pmFile' = [pid |-> p, born |-> pmProcs[p].born] /\ pmProcs'[p].kind = "postmaster" /\ pmProcs'[p].born = pmProcs[p].born
      BY <1>13, <2>2 DEF PidfileWritten, PmType
    <3>2. pmCached' \in Old /\ pmTask'.result \in Old /\ \A t \in PmThreads : pmSeen'[t] \in Old /\ pmProc'[t] \in Old
      BY <1>13 DEF PidfileWritten, PmType
    <3>3. p \in Postmasters' /\ pmProcs'[p].born <= pmBirths'
      <4>1. p \in Postmasters'
        BY <3>1 DEF Postmasters
      <4>2. QED
        BY <1>0, <4>1
    <3>4. Genuine(pmFile)'
      BY <3>1, <3>3 DEF Genuine
    <3> HIDE DEF Old
    <3>5. QED
      BY <1>0, <1>4, <3>2, <3>4 DEF AllGenuine
  <2>3. QED
    BY <2>1, <2>2
<1>14. CASE Spawn
  <2>1. PICK p \in Pids :
          /\ pmProcs' = [pmProcs EXCEPT ![p] = [kind |-> "starting", born |-> pmBirths + 1]]
          /\ pmProc' = [pmProc EXCEPT !["task"] = [pid |-> p, born |-> pmBirths + 1]]
    BY <1>14 DEF Spawn
  <2>2. pmFile' \in Old /\ pmCached' \in Old /\ pmTask'.result \in Old /\ (\A t \in PmThreads : pmSeen'[t] \in Old)
        /\ (\A t \in PmThreads \ {"task"} : pmProc'[t] \in Old)
    BY <1>14, <2>1 DEF Spawn, PmType
  <2>3. p \in Postmasters' /\ pmProc'["task"].pid = p /\ pmProc'["task"].born = pmBirths'
    BY <1>14, <2>1 DEF Spawn, Postmasters, PmType
  <2>4. Genuine(pmProc["task"])'
    BY <2>3 DEF Genuine, PmType
  <2> HIDE DEF Old
  <2>5. QED
    BY <1>0, <1>4, <2>2, <2>4 DEF AllGenuine
<1>15. QED
  BY <1>7, <1>8, <1>9, <1>10, <1>11, <1>12, <1>13, <1>14 DEF PmNext, PmTaskGoes, PmHaGoes

\* The task and the HA thread exclude each other.
LEMMA BarredStep == ASSUME PmType, Fresh, Barred, [PmNext]_pmVars PROVE Fresh' /\ Barred'
<1> USE PmRefs DEF PmType, Fresh, Barred
<1>1. CASE UNCHANGED <<pmAt, pmTask>>
  BY <1>1
<1>2. CASE StartAsks
  BY <1>2 DEF StartAsks, RunningRead, PmGoes, FreshTask
<1>3. CASE StartAnswered \/ Spawn \/ SpawnCancelled
  BY <1>3 DEF StartAnswered, Spawn, SpawnCancelled, PmGoes
<1>4. CASE SpawnAssigns \/ CompleteTask \/ PortOpen
  BY <1>4 DEF SpawnAssigns, CompleteTask, PortOpen, PmGoes
<1>5. CASE CancelTask
  BY <1>5 DEF CancelTask, TaskLocked, PmGoes
<1>6. CASE TerminateStarting \/ Terminated \/ StopAsks \/ StopSignals \/ StopWaited \/ PmDemoted
  BY <1>6 DEF TerminateStarting, Terminated, StopAsks, RunningRead, StopSignals, StopWaited, PmDemoted, PmGoes
<1>7. ASSUME NEW t \in Pollers, Poll(t) \/ PollEnds(t) PROVE Fresh' /\ Barred'
  <2>1. t \notin {"task", "ha"}
    BY PostmasterAssumption
  <2>2. QED
    BY <1>7, <2>1 DEF Poll, PollEnds, RunningRead, PmGoes
<1>8. UNCHANGED <<pmAt, pmTask>> \/ StartAsks \/ PmTaskGoes \/ CancelTask \/ PmHaGoes \/ \E t \in Pollers : Poll(t) \/ PollEnds(t)
  BY DEF PmNext, pmVars, PidfileWritten, Exits, PmCrash, PidReused
<1>9. StopTimeout => UNCHANGED <<pmAt, pmTask>>
  BY DEF StopTimeout
<1>10. QED
  BY <1>1, <1>2, <1>3, <1>4, <1>5, <1>6, <1>7, <1>8, <1>9 DEF PmTaskGoes, PmHaGoes

\* Only the task brings a postmaster into being.
LEMMA OnlySpawnBears == ASSUME PmType, AllGenuine, [PmNext]_pmVars, ~Spawn PROVE NoBirth
<1> SUFFICES ASSUME NEW p \in Postmasters' PROVE p \in Postmasters /\ At(p)' = At(p)
  BY DEF NoBirth
<1>1. p \in Pids /\ pmProcs'[p].kind \in Phases
  BY DEF Postmasters, Phases
<1>2. ~Born(p)
  <2>1. pmBirths' = pmBirths \/ \E q \in Pids : PidReused(q)
    BY DEF PmNext, pmVars, PmTaskGoes, PmHaGoes, StartAsks, StartAnswered, SpawnCancelled, SpawnAssigns, CompleteTask, PortOpen,
           CancelTask, TerminateStarting, Terminated, StopAsks, StopSignals, StopTimeout, StopWaited, PmDemoted, Poll, PollEnds,
           RunningRead, PidfileWritten, Exits, PmCrash
  <2>2. ASSUME NEW q \in Pids, PidReused(q), Born(p) PROVE FALSE
    BY <1>1, <2>2 DEF PidReused, Born, Phases, PmType
  <2>3. QED
    BY <2>1, <2>2 DEF Born, PmType
<1>3. Stays(p) \/ Turns(p)
  BY <1>1, <1>2, ProcsChange DEF Ends, Free, Phases
<1>4. QED
  BY <1>1, <1>3 DEF Stays, Turns, Postmasters, Phases, At

LEMMA LiveStep == ASSUME PmType, PmType', AllGenuine, Fresh, Barred, LiveIsKnown, [PmNext]_pmVars PROVE LiveIsKnown'
<1> SUFFICES ASSUME ~pmLost' PROVE (OneLive /\ Tracked /\ TaskKnows /\ HaKnows)'
  BY DEF LiveIsKnown
<1> USE PmRefs
<1>1. ~pmLost
  BY DEF PmNext, pmVars, PmTaskGoes, PmHaGoes, StartAsks, StartAnswered, Spawn, SpawnCancelled, SpawnAssigns, CompleteTask, PortOpen,
         CancelTask, TerminateStarting, Terminated, StopAsks, StopSignals, StopTimeout, StopWaited, PmDemoted, Poll, PollEnds,
         RunningRead, PidfileWritten, Exits, PmCrash, PidReused
<1>2. OneLive /\ Tracked /\ TaskKnows /\ HaKnows
  BY <1>1 DEF LiveIsKnown
<1>3. CASE Spawn
  <2>1. pmAt["task"] = "spawn" /\ pmAt'["task"] = "spawned" /\ pmAt'["ha"] = pmAt["ha"] /\ pmAt["ha"] = "idle"
    BY <1>3 DEF Spawn, PmGoes, Barred, PmType
  <2>2. PICK p \in Pids :
          /\ pmProcs' = [pmProcs EXCEPT ![p] = [kind |-> "starting", born |-> pmBirths + 1]]
          /\ pmProc' = [pmProc EXCEPT !["task"] = [pid |-> p, born |-> pmBirths + 1]]
    BY <1>3 DEF Spawn
  <2>3. \A q \in Postmasters' : q = p
    <3>1. Postmasters = {}
      BY <1>2, <2>1 DEF TaskKnows
    <3>2. QED
      BY <2>2, <3>1 DEF Postmasters, PmType
  <2>4. pmProc'["task"] = At(p)'
    BY <2>2 DEF At, PmType
  <2>5. QED
    BY <2>1, <2>3, <2>4 DEF OneLive, Tracked, TaskKnows, HaKnows
<1>4. CASE ~Spawn
  <2>1. \A p \in Postmasters' : p \in Postmasters /\ At(p)' = At(p)
    BY <1>4, OnlySpawnBears DEF NoBirth
  <2>2. OneLive'
    BY <1>2, <2>1 DEF OneLive
  <2> DEFINE Same(t) == pmAt'[t] = pmAt[t] /\ pmSeen'[t] = pmSeen[t] /\ pmProc'[t] = pmProc[t]
  <2>3. ASSUME Same("task") PROVE TaskKnows'
    BY <1>2, <2>1, <2>3 DEF TaskKnows
  <2>4. ASSUME Same("ha") PROVE HaKnows'
    BY <1>2, <2>1, <2>4 DEF HaKnows
  <2>5. ASSUME Same("task"), UNCHANGED <<pmCached, pmFile>> PROVE Tracked'
    BY <1>2, <2>1, <2>5 DEF Tracked
  <2>6. ASSUME NEW t \in PmThreads, NEW here, NEW there, RunningRead(t, here, there)
        PROVE  /\ \A p \in Postmasters : pmAt["task"] # "spawned" => pmSeen'[t] = At(p)
               /\ pmAt["task"] # "spawned" => Tracked'
               /\ pmAt'["task"] = "spawned" => Tracked'
               /\ UNCHANGED <<pmFile, pmProc>> /\ pmAt'[t] = there /\ pmAt[t] = here
               /\ \A u \in PmThreads \ {t} : Same(u)
    <3>1. /\ UNCHANGED <<pmFile, pmProc>> /\ pmAt'[t] = there /\ pmAt[t] = here
          /\ \A u \in PmThreads \ {t} : Same(u)
      BY <2>6 DEF RunningRead, PmGoes, PmType
    <3>2. ASSUME NEW p \in Postmasters, pmAt["task"] # "spawned"
          PROVE  pmSeen'[t] = At(p) /\ (pmCached' = At(p) \/ pmFile' = At(p))
      <4>1. pmCached = At(p) \/ pmFile = At(p)
        BY <1>2, <3>2 DEF Tracked
      <4>2. CASE Runs(pmCached)
        <5>1. pmSeen'[t] = pmCached /\ pmCached' = pmCached
          BY <2>6, <4>2 DEF RunningRead, PmType
        <5>2. pmCached = At(p)
          <6>1. pmCached \in Procs /\ pmCached.pid \in Postmasters /\ At(pmCached.pid) = pmCached
            BY <4>2 DEF AllGenuine, Genuine, PmType
          <6>2. QED
            BY <1>2, <6>1 DEF OneLive
        <5>3. QED
          BY <5>1, <5>2
      <4>3. CASE ~Runs(pmCached)
        <5>1. pmFile = At(p)
          BY <4>1, <4>3
        <5>2. QED
          BY <2>6, <3>1, <4>3, <5>1 DEF RunningRead, PmType
      <4>4. QED
        BY <4>2, <4>3
    <3>3. QED
      BY <2>1, <3>1, <3>2 DEF Tracked
  <2>7. CASE StartAsks
    <3>1. RunningRead("task", "idle", "asked")
      BY <2>7 DEF StartAsks
    <3>2. Tracked' /\ TaskKnows'
      BY <2>1, <2>6, <3>1 DEF TaskKnows
    <3>3. HaKnows'
      BY <2>4, <2>6, <3>1
    <3>4. QED
      BY <2>2, <3>2, <3>3
  <2>8. CASE StopAsks
    <3>1. RunningRead("ha", "stop", "stop asked") /\ pmAt["task"] # "spawned"
      BY <2>8 DEF StopAsks, RunningRead, PmGoes, Barred
    <3>2. Tracked' /\ HaKnows'
      <4>1. Tracked' /\ pmAt'["ha"] = "stop asked" /\ \A p \in Postmasters : pmSeen'["ha"] = At(p)
        BY <2>6, <3>1
      <4>2. QED
        BY <2>1, <4>1 DEF HaKnows
    <3>3. TaskKnows'
      BY <2>3, <2>6, <3>1
    <3>4. QED
      BY <2>2, <3>2, <3>3
  <2>9. ASSUME NEW t \in Pollers, Poll(t) PROVE (Tracked /\ TaskKnows /\ HaKnows)'
    <3>1. RunningRead(t, "idle", "polled") /\ t \notin {"task", "ha"}
      BY <2>9, PostmasterAssumption DEF Poll
    <3>2. Same("task") /\ Same("ha")
      BY <2>6, <3>1
    <3>3. Tracked'
      BY <2>6, <3>1, <3>2
    <3>4. QED
      BY <2>3, <2>4, <3>2, <3>3
  <2>10. ASSUME NEW t \in Pollers, PollEnds(t) PROVE (Tracked /\ TaskKnows /\ HaKnows)'
    <3>1. t \notin {"task", "ha"}
      BY PostmasterAssumption
    <3>2. Same("task") /\ Same("ha") /\ pmFile' = pmFile /\ pmCached' = pmSeen[t] /\ (Runs(pmCached) => pmSeen[t] = pmCached)
      BY <2>10, <3>1 DEF PollEnds, PmGoes, PmType
    <3>3. Tracked'
      BY <1>2, <2>1, <3>2 DEF Tracked
    <3>4. QED
      BY <2>3, <2>4, <3>2, <3>3
  <2>11. CASE StartAnswered
    <3>1. /\ Same("ha") /\ pmAt["task"] = "asked" /\ pmAt'["task"] \in {"spawn", "idle"}
          /\ pmAt'["task"] = "spawn" => pmSeen["task"] = NoProc
          /\ pmCached' = pmSeen["task"]
      BY <2>11 DEF StartAnswered, PmGoes, PmType
    <3>2. Tracked' /\ TaskKnows'
      BY <1>2, <2>1, <3>1 DEF Tracked, TaskKnows
    <3>3. QED
      BY <2>2, <2>4, <3>1, <3>2
  <2>12. CASE SpawnCancelled \/ CompleteTask \/ PortOpen
    <3>1. /\ Same("ha") /\ pmAt'["task"] \in {"idle", "wait for port"} /\ pmAt["task"] # "spawned" /\ UNCHANGED <<pmCached, pmFile>>
      BY <2>12 DEF SpawnCancelled, CompleteTask, PortOpen, PmGoes, PmType
    <3>2. Tracked' /\ TaskKnows'
      BY <1>2, <2>1, <3>1 DEF Tracked, TaskKnows
    <3>3. QED
      BY <2>2, <2>4, <3>1, <3>2
  <2>13. CASE SpawnAssigns
    <3>1. Same("ha") /\ pmAt["task"] = "spawned" /\ pmAt'["task"] = "complete" /\ pmCached' = pmProc["task"]
      BY <2>13 DEF SpawnAssigns, PmGoes, PmType
    <3>2. Tracked' /\ TaskKnows'
      BY <1>2, <2>1, <3>1 DEF Tracked, TaskKnows
    <3>3. QED
      BY <2>2, <2>4, <3>1, <3>2
  <2>14. CASE CancelTask \/ TerminateStarting \/ Terminated
    <3>1. /\ Same("task") /\ pmAt'["ha"] \in {"terminate", "terminated", "stop"} /\ UNCHANGED <<pmCached, pmFile>>
      BY <2>14 DEF CancelTask, TerminateStarting, Terminated, PmGoes, PmType
    <3>2. HaKnows'
      BY <3>1 DEF HaKnows
    <3>3. QED
      BY <2>2, <2>3, <2>5, <3>1, <3>2
  <2>15. CASE StopSignals
    <3>1. /\ Same("task") /\ pmFile' = pmFile /\ pmCached' = pmSeen["ha"] /\ pmProc'["ha"] = pmSeen["ha"]
          /\ pmAt["ha"] = "stop asked" /\ pmAt'["ha"] \in {"wait", "stopped"}
          /\ pmAt'["ha"] = "stopped" => ~Runs(pmSeen["ha"])
      BY <2>15 DEF StopSignals, PmGoes, PmType
    <3>2. Tracked' /\ HaKnows'
      BY <1>2, <2>1, <3>1 DEF Tracked, HaKnows
    <3>3. QED
      BY <2>2, <2>3, <3>1, <3>2
  <2>16. CASE StopTimeout
    <3>1. Same("task") /\ Same("ha") /\ UNCHANGED <<pmCached, pmFile>>
      BY <2>16 DEF StopTimeout
    <3>2. QED
      BY <2>2, <2>3, <2>4, <2>5, <3>1
  <2>17. CASE StopWaited
    <3>1. /\ Same("task") /\ UNCHANGED <<pmCached, pmFile>> /\ pmAt["ha"] = "wait" /\ ~Runs(pmProc["ha"])
      BY <2>17 DEF StopWaited, PmGoes, PmType
    <3>2. HaKnows'
      BY <1>2, <2>1, <3>1 DEF HaKnows
    <3>3. QED
      BY <2>2, <2>3, <2>5, <3>1, <3>2
  <2>18. CASE PmDemoted
    <3>1. Same("task") /\ UNCHANGED <<pmCached, pmFile>> /\ pmAt'["ha"] = "idle"
      BY <2>18 DEF PmDemoted, PmGoes, PmType
    <3>2. HaKnows'
      BY <3>1 DEF HaKnows
    <3>3. QED
      BY <2>2, <2>3, <2>5, <3>1, <3>2
  <2>19. ASSUME NEW p \in Pids, PidfileWritten(p) PROVE (Tracked /\ TaskKnows /\ HaKnows)'
    <3>1. Same("task") /\ Same("ha") /\ pmCached' = pmCached
      BY <2>19 DEF PidfileWritten
    <3>2. p \in Postmasters
      BY <2>19 DEF PidfileWritten, Postmasters
    <3>3. \/ pmProcs'[p] = Free
          \/ pmFile' = At(p)
      BY <2>19 DEF PidfileWritten, At, PmType
    <3>4. Tracked'
      <4>1. \A q \in Postmasters' : q = p /\ At(q)' = At(p) /\ pmProcs'[p] # Free
        BY <1>2, <2>1, <3>2 DEF OneLive, Postmasters, Free
      <4>2. QED
        BY <3>3, <4>1 DEF Tracked
    <3>5. QED
      BY <2>3, <2>4, <3>1, <3>4
  <2>20. ASSUME NEW p \in Pids, Exits(p) PROVE (Tracked /\ TaskKnows /\ HaKnows)'
    <3>1. Same("task") /\ Same("ha") /\ pmProcs'[p] = Free /\ p \in Postmasters
      BY <2>20 DEF Exits, Postmasters, PmType
    <3>2. Tracked'
      <4>1. Postmasters' = {}
        BY <1>2, <2>1, <3>1 DEF OneLive, Postmasters, Free
      <4>2. QED
        BY <4>1 DEF Tracked
    <3>3. QED
      BY <2>3, <2>4, <3>1, <3>2
  <2>21. ASSUME NEW p \in Pids, PmCrash(p) \/ PidReused(p) PROVE (Tracked /\ TaskKnows /\ HaKnows)'
    <3>1. Same("task") /\ Same("ha") /\ UNCHANGED <<pmCached, pmFile>>
      BY <2>21 DEF PmCrash, PidReused
    <3>2. QED
      BY <2>3, <2>4, <2>5, <3>1
  <2>22. CASE UNCHANGED pmVars
    <3>1. Same("task") /\ Same("ha") /\ UNCHANGED <<pmCached, pmFile>>
      BY <2>22 DEF pmVars
    <3>2. QED
      BY <2>2, <2>3, <2>4, <2>5, <3>1
  <2> HIDE DEF Same
  <2>23. QED
    BY <1>4, <2>2, <2>7, <2>8, <2>9, <2>10, <2>11, <2>12, <2>13, <2>14, <2>15, <2>16, <2>17, <2>18, <2>19, <2>20, <2>21, <2>22
    DEF PmNext, PmTaskGoes, PmHaGoes
<1>5. QED
  BY <1>3, <1>4

LEMMA PmInvCorrect == PmSpec => []PmInv
<1>1. PmInit => PmInv
  <2> SUFFICES ASSUME PmInit PROVE PmInv
    OBVIOUS
  <2>1. PmType
    BY DEF PmInit, PmType, Procs, Free, Kinds, FreshTask, PmThreads
  <2>2. Postmasters = {} /\ AllGenuine /\ Fresh /\ Barred
    BY DEF PmInit, Postmasters, AllGenuine, Genuine, Fresh, Barred, Free, FreshTask, PmThreads
  <2>3. LiveIsKnown
    BY <2>2 DEF LiveIsKnown, OneLive, Tracked, TaskKnows, HaKnows
  <2>4. QED
    BY <2>1, <2>2, <2>3 DEF PmInv
<1>2. PmInv /\ [PmNext]_pmVars => PmInv'
  BY PmTypeStep, AllGenuineStep, BarredStep, LiveStep DEF PmInv
<1>3. QED
  BY <1>1, <1>2, PTL DEF PmSpec

(***************************************************************************)
(* After the HA thread demoted itself during a start no postmaster is left *)
(* and none can come, unless a thread of the REST API overwrote what start *)
(* had assigned.                                                           *)
(***************************************************************************)
THEOREM DemotionStopsStartCorrect == PmSpec => []DemotionStopsStart
<1>1. PmInv => DemotionStopsStart
  BY DEF PmInv, DemotionStopsStart, LiveIsKnown, HaKnows, Barred
<1>2. QED
  BY <1>1, PmInvCorrect, PTL

\* At most one postmaster of Patroni is alive, with the same exception.
THEOREM OnePostmasterCorrect == PmSpec => []OnePostmaster
<1>1. PmInv => OnePostmaster
  BY DEF PmInv, OnePostmaster, LiveIsKnown, OneLive
<1>2. QED
  BY <1>1, PmInvCorrect, PTL

\* No signal of a stop or of a cancelled start reaches a process that is not a postmaster, whatever pids are reused.
THEOREM OnlyPostmasterSignalledCorrect == PmSpec => []OnlyPostmasterSignalled
<1>1. PmInit => OnlyPostmasterSignalled
  BY DEF PmInit, OnlyPostmasterSignalled
<1>2. PmInv /\ OnlyPostmasterSignalled /\ [PmNext]_pmVars => OnlyPostmasterSignalled'
  <2> SUFFICES ASSUME PmInv, pmWrong = {}, [PmNext]_pmVars PROVE pmWrong' = {}
    BY DEF OnlyPostmasterSignalled
  <2>1. UNCHANGED pmWrong \/ Signalled(pmProc["ha"]) \/ Signalled(pmSeen["ha"])
    BY DEF PmNext, pmVars, PmTaskGoes, PmHaGoes, StartAsks, StartAnswered, Spawn, SpawnCancelled, SpawnAssigns, CompleteTask,
           PortOpen, CancelTask, TerminateStarting, Terminated, StopAsks, StopSignals, StopTimeout, StopWaited, PmDemoted, Poll,
           PollEnds, RunningRead, PidfileWritten, Exits, PmCrash, PidReused
  <2>2. Genuine(pmProc["ha"]) /\ Genuine(pmSeen["ha"])
    BY DEF PmInv, AllGenuine, PmThreads
  <2>3. QED
    BY <2>1, <2>2 DEF Signalled, Genuine, Runs
<1>3. QED
  BY <1>1, <1>2, PmInvCorrect, PTL DEF PmSpec

-----------------------------------------------------------------------------
(***************************************************************************)
(* Restart and reinitialize.                                               *)
(***************************************************************************)
RsTypes ==
    /\ rsJob \in {"none", "tag", "wait", "stop", "start", "starting", "end"}
    /\ rsExec \in {"none", "restart", "reinitialize", "recover"}
    /\ rsHinted \in BOOLEAN /\ rsLock \in BOOLEAN /\ rsRecovering \in BOOLEAN /\ rsTag \in BOOLEAN
    /\ rsDisable \in Nat /\ rsRequests \in Nat

JobIsAction == rsExec = "none" <=> rsJob = "none"
HintIsUsed == rsHinted => rsJob \in {"stop", "start", "starting", "end"}

\* As long as a job waits or is about to stop, the tag is there, and the primary is not about to pick the node.
TagStands == rsJob = "wait" \/ (rsJob = "stop" /\ rsHinted) => rsTag /\ rsDisable > 0 /\ rsPicks # "yes"

\* A leader stops PostgreSQL only to restart it, and the loop will look at the outcome.
LeaderRecovers ==
    rsLock => rsExec \in {"none", "restart"} /\ (rsPg # "running" \/ rsExec = "restart" => rsRecovering)

\* Each schedule has a number of its own, and one that was executed is about to be removed.
SchedulesNumbered ==
    /\ rsSched # NoRestart => rsSched.id \in 1..rsRequests /\ (rsSched.id \in rsRan => rsAt = "delete")
    /\ rsAt = "restart" => rsCopy.id \in (1..rsRequests) \ rsRan
    /\ rsRan \subseteq 1..rsRequests

RsInv ==
    /\ RsTypes /\ JobIsAction /\ HintIsUsed /\ TagStands /\ LeaderRecovers /\ SchedulesNumbered
    /\ StopsUnlisted

-----------------------------------------------------------------------------
LEMMA RsInitial == RsInit => RsInv
<1> SUFFICES ASSUME RsInit PROVE RsInv
  OBVIOUS
<1>1. RsTypes
  BY DEF RsInit, RsTypes
<1>2. JobIsAction /\ HintIsUsed /\ TagStands /\ LeaderRecovers /\ StopsUnlisted
  BY DEF RsInit, JobIsAction, HintIsUsed, TagStands, LeaderRecovers, StopsUnlisted
<1>3. SchedulesNumbered
  BY DEF RsInit, SchedulesNumbered
<1> QED BY <1>1, <1>2, <1>3 DEF RsInv

\* A restart that begins has not seen anything yet, and the loop will look at its outcome.
LEMMA RestartBeginning ==
  ASSUME RsInv, NEW id, rsExec = "none", RestartBegins(id), UNCHANGED <<rsPgVars, rsSyncVars>>, rsRequests' \in Nat
  PROVE  RsTypes' /\ JobIsAction' /\ HintIsUsed' /\ TagStands' /\ LeaderRecovers' /\ StopsUnlisted'
<1>1. /\ rsExec' = "restart" /\ rsRecovering' /\ rsRecovering' \in BOOLEAN /\ ~rsHinted' /\ rsHinted' \in BOOLEAN
      /\ rsJob' \in {"stop", "tag"} /\ rsDisable' = rsDisable
  BY DEF RestartBegins
<1>2. rsLock' = rsLock /\ rsPg' = rsPg /\ rsTag' = rsTag
  BY DEF rsPgVars, rsSyncVars
<1>3. RsTypes'
  BY <1>1, <1>2 DEF RsInv, RsTypes
<1>4. JobIsAction' /\ HintIsUsed' /\ StopsUnlisted' /\ TagStands'
  BY <1>1 DEF JobIsAction, HintIsUsed, StopsUnlisted, TagStands
<1>5. LeaderRecovers'
  BY <1>1 DEF LeaderRecovers
<1> QED BY <1>3, <1>4, <1>5

LEMMA RsRequestStep == RsInv /\ RsClients => RsInv'
<1> SUFFICES ASSUME RsInv, RsClients PROVE RsInv'
  OBVIOUS
<1> USE RestartsAssumption DEF RsInv, RsRequest
<1>1. ASSUME rsRequests' = rsRequests + 1, UNCHANGED <<rsSchedVars>> PROVE SchedulesNumbered'
  BY <1>1 DEF RsTypes, SchedulesNumbered, rsSchedVars
<1>2. CASE PostRestart
  <2>1. UNCHANGED <<rsRole, rsPgVars, rsSchedVars, rsSyncVars>> /\ rsRequests' = rsRequests + 1
    BY <1>2 DEF PostRestart
  <2>2. SchedulesNumbered'
    BY <1>1, <2>1
  <2>3. CASE UNCHANGED rsJobVars
    BY <2>1, <2>2, <2>3 DEF rsPgVars, rsSyncVars, rsJobVars, RsTypes, JobIsAction, HintIsUsed, TagStands, LeaderRecovers,
         StopsUnlisted
  <2>4. CASE rsExec = "none" /\ RestartBegins(0)
    <3>1. rsRequests' \in Nat
      BY <2>1 DEF RsTypes
    <3> QED BY <2>1, <2>2, <2>4, <3>1, RestartBeginning
  <2> QED BY <1>2, <2>3, <2>4 DEF PostRestart
<1>3. ASSUME NEW filter, PostSchedule(filter) PROVE RsInv'
  <2>1. UNCHANGED <<rsRole, rsPgVars, rsAt, rsCopy, rsRan, rsJobVars, rsSyncVars>> /\ rsRequests' = rsRequests + 1
    BY <1>3 DEF PostSchedule
  <2>2. SchedulesNumbered'
    <3>1. CASE UNCHANGED rsSched
      BY <1>1, <2>1, <3>1 DEF rsSchedVars
    <3>2. CASE rsSched'.id = rsRequests + 1
      BY <2>1, <3>2 DEF RsTypes, SchedulesNumbered
    <3> QED BY <1>3, <3>1, <3>2 DEF PostSchedule
  <2> QED BY <2>1, <2>2 DEF rsPgVars, rsSyncVars, rsJobVars, RsTypes, JobIsAction, HintIsUsed, TagStands, LeaderRecovers,
             StopsUnlisted
<1>4. CASE DeleteRestart
  <2>1. /\ UNCHANGED <<rsRole, rsPgVars, rsAt, rsCopy, rsRan, rsJobVars, rsSyncVars>>
        /\ rsRequests' = rsRequests + 1 /\ rsSched' = NoRestart
    BY <1>4 DEF DeleteRestart, Unscheduled
  <2>2. SchedulesNumbered'
    BY <2>1 DEF RsTypes, SchedulesNumbered
  <2> QED BY <2>1, <2>2 DEF rsPgVars, rsSyncVars, rsJobVars, RsTypes, JobIsAction, HintIsUsed, TagStands, LeaderRecovers,
             StopsUnlisted
<1>5. CASE PostReinitialize
  <2>1. UNCHANGED <<rsRole, rsPgVars, rsSchedVars, rsSyncVars>> /\ rsRequests' = rsRequests + 1
    BY <1>5 DEF PostReinitialize
  <2>2. SchedulesNumbered'
    BY <1>1, <2>1
  <2> QED BY <1>5, <2>1, <2>2 DEF PostReinitialize, rsPgVars, rsSyncVars, rsJobVars, RsTypes, JobIsAction, HintIsUsed,
             TagStands, LeaderRecovers, StopsUnlisted
<1> QED BY <1>2, <1>3, <1>4, <1>5 DEF RsClients

LEMMA RsHaStep == RsInv /\ (RsHa \/ StartingInstance \/ StartedLate \/ RsTouch \/ RsTimePasses) => RsInv'
<1> SUFFICES ASSUME RsInv, RsHa \/ StartingInstance \/ StartedLate \/ RsTouch \/ RsTimePasses PROVE RsInv'
  OBVIOUS
<1> USE RestartsAssumption DEF RsInv, RsTypes, JobIsAction, HintIsUsed, TagStands, LeaderRecovers, StopsUnlisted,
        rsSyncVars, rsPgVars, rsBounds
<1>1. ASSUME UNCHANGED <<rsSchedVars, rsRequests>> PROVE SchedulesNumbered'
  BY <1>1 DEF SchedulesNumbered, rsSchedVars
<1>2. CASE EvaluateScheduled
  BY <1>2 DEF EvaluateScheduled, SchedulesNumbered, rsJobVars
<1>3. CASE ScheduledRestart
  <2>1. SchedulesNumbered'
    <3>1. rsRan' \in {rsRan, rsRan \union {rsCopy.id}} /\ rsAt = "restart" /\ rsAt' = "delete" /\ UNCHANGED <<rsSched, rsRequests>>
      BY <1>3 DEF ScheduledRestart, rsJobVars
    <3> QED BY <3>1 DEF SchedulesNumbered
  <2>2. UNCHANGED <<rsPgVars, rsSyncVars>> /\ rsRequests' = rsRequests
    BY <1>3 DEF ScheduledRestart
  <2>3. CASE UNCHANGED rsJobVars
    BY <2>1, <2>2, <2>3 DEF rsJobVars
  <2>4. CASE rsExec = "none" /\ RestartBegins(rsCopy.id)
    BY <2>1, <2>2, <2>4, RestartBeginning
  <2> QED BY <1>3, <2>3, <2>4 DEF ScheduledRestart
<1>4. CASE ScheduledDeleted
  BY <1>4 DEF ScheduledDeleted, Unscheduled, SchedulesNumbered, rsJobVars
<1>5. CASE PostRecover
  BY <1>1, <1>5 DEF PostRecover
<1>6. CASE RsRecover
  BY <1>1, <1>6 DEF RsRecover
<1>7. CASE StartingInstance
  <2>1. UNCHANGED <<rsSchedVars, rsRequests>>
    BY <1>7 DEF StartingInstance
  <2>2. /\ rsExec' = rsExec /\ rsJob' = rsJob /\ rsRecovering' = rsRecovering /\ rsDisable' = rsDisable
        /\ rsHinted' = rsHinted /\ UNCHANGED rsSyncVars /\ rsRequests' = rsRequests /\ rsPg = "starting" /\ rsExec = "none"
    BY <1>7 DEF StartingInstance
  <2>3. rsLock' \in BOOLEAN /\ (rsLock' => rsLock)
    <3>1. (rsLock' <=> rsLock) \/ ~rsLock'
      BY <1>7 DEF StartingInstance
    <3>2. rsLock' = rsLock \/ rsLock' = FALSE
      BY <1>7 DEF StartingInstance
    <3>3. rsLock' \in BOOLEAN
      BY <3>2
    <3> HIDE DEF RsInv
    <3> QED BY <3>1, <3>3
  <2>4. RsTypes'
    BY <2>2, <2>3
  <2>5. JobIsAction' /\ HintIsUsed' /\ TagStands' /\ StopsUnlisted'
    BY <2>2
  <2>6. LeaderRecovers'
    BY <2>2, <2>3
  <2>7. SchedulesNumbered'
    BY <1>1, <2>1
  <2> HIDE DEF RsTypes, JobIsAction, HintIsUsed, TagStands, LeaderRecovers, StopsUnlisted
  <2> QED BY <2>4, <2>5, <2>6, <2>7
<1>8. CASE StartedLate
  BY <1>1, <1>8 DEF StartedLate
<1>9. CASE RsTouch
  BY <1>1, <1>9 DEF RsTouch, EffectiveTag, Tagged, rsJobVars
<1>10. CASE RsTimePasses
  <2>1. SchedulesNumbered'
    <3>1. /\ rsSched # NoRestart /\ UNCHANGED <<rsAt, rsCopy, rsRan, rsRequests>>
          /\ \E d \in {"due", "late"} : rsSched' = [rsSched EXCEPT !.due = d]
      BY <1>10 DEF RsTimePasses
    <3>2. rsSched'.id = rsSched.id
      BY <3>1
    <3> QED BY <3>1, <3>2 DEF SchedulesNumbered
  <2> QED BY <1>10, <2>1 DEF RsTimePasses, rsJobVars
<1> QED BY <1>2, <1>3, <1>4, <1>5, <1>6, <1>7, <1>8, <1>9, <1>10 DEF RsHa

LEMMA RsJobsStep == RsInv /\ (RsJob \/ RsPrimary \/ UNCHANGED rsVars) => RsInv'
<1> SUFFICES ASSUME RsInv, RsJob \/ RsPrimary \/ UNCHANGED rsVars PROVE RsInv'
  OBVIOUS
<1> USE RestartsAssumption DEF RsInv, RsTypes, JobIsAction, HintIsUsed, TagStands, LeaderRecovers, StopsUnlisted,
        rsSyncVars, rsPgVars, rsBounds
<1>1. ASSUME UNCHANGED <<rsSchedVars, rsRequests>> PROVE SchedulesNumbered'
  BY <1>1 DEF SchedulesNumbered, rsSchedVars
<1>2. CASE JobTags
  <2>1. /\ rsJob = "tag" /\ rsJob' \in {"wait", "stop"} /\ rsDisable' = rsDisable + 1
        /\ rsExec' = rsExec /\ rsRecovering' = rsRecovering /\ rsHinted' = rsHinted /\ rsSync' = rsSync
        /\ rsPg' = rsPg /\ rsLock' = rsLock /\ rsRequests' = rsRequests
    BY <1>2 DEF JobTags
  <2>2. ~rsHinted
    BY <2>1
  <2>3. rsTag' \in BOOLEAN /\ (rsJob' = "wait" => rsTag' /\ rsPicks' # "yes")
    BY <1>2 DEF JobTags, Tagged
  <2>4. RsTypes'
    BY <2>1, <2>3
  <2>5. JobIsAction' /\ HintIsUsed' /\ StopsUnlisted'
    BY <2>1, <2>2
  <2>6. TagStands'
    BY <2>1, <2>2, <2>3
  <2>7. LeaderRecovers'
    BY <2>1
  <2>8. SchedulesNumbered'
    BY <1>1, <1>2 DEF JobTags
  <2> HIDE DEF RsTypes, JobIsAction, HintIsUsed, TagStands, LeaderRecovers, StopsUnlisted
  <2> QED BY <2>4, <2>5, <2>6, <2>7, <2>8
<1>3. CASE JobWaits
  <2>1. /\ rsJob = "wait" /\ rsJob' = "stop" /\ rsDisable' = rsDisable /\ UNCHANGED rsSyncVars
        /\ rsExec' = rsExec /\ rsRecovering' = rsRecovering
        /\ rsPg' = rsPg /\ rsLock' = rsLock /\ rsRequests' = rsRequests
    BY <1>3 DEF JobWaits
  <2>2. ~rsHinted
    BY <2>1
  <2>3. rsHinted' \in BOOLEAN /\ (rsHinted' => rsSync = "no")
    <3>1. CASE rsSync = "no" /\ rsHinted' = TRUE
      BY <3>1, Zenon
    <3>2. CASE rsHinted' = rsHinted
      <4>1. rsHinted \in BOOLEAN
        OBVIOUS
      <4> HIDE DEF RsInv
      <4> QED BY <2>2, <3>2, <4>1, Zenon
    <3> QED BY <1>3, <3>1, <3>2 DEF JobWaits, WaitEnds
  <2>4. RsTypes'
    BY <2>1, <2>3
  <2>5. JobIsAction' /\ HintIsUsed' /\ StopsUnlisted'
    BY <2>1, <2>3
  <2>6. TagStands'
    BY <2>1
  <2>7. LeaderRecovers'
    BY <2>1
  <2>8. SchedulesNumbered'
    BY <1>1, <1>3 DEF JobWaits
  <2> HIDE DEF RsTypes, JobIsAction, HintIsUsed, TagStands, LeaderRecovers, StopsUnlisted
  <2> QED BY <2>4, <2>5, <2>6, <2>7, <2>8
<1>4. CASE JobStops
  BY <1>1, <1>4 DEF JobStops, RsEvent
<1>5. CASE JobStarts
  BY <1>1, <1>5 DEF JobStarts, RsEvent
<1>6. CASE JobWaitsForStart
  BY <1>1, <1>6 DEF JobWaitsForStart, RsEvent
<1>7. CASE JobEnds
  <2>1. /\ rsJob' = "none" /\ rsExec' = "none" /\ ~rsHinted' /\ rsHinted' \in BOOLEAN /\ rsDisable' \in Nat
        /\ rsRecovering' = rsRecovering /\ UNCHANGED <<rsPgVars, rsSyncVars>> /\ rsRequests' = rsRequests
    <3>1. rsDisable' \in Nat
      BY <1>7 DEF JobEnds, HintDropped
    <3> QED BY <1>7, <3>1 DEF JobEnds
  <2>2. RsTypes'
    BY <2>1
  <2>3. JobIsAction' /\ HintIsUsed' /\ TagStands' /\ StopsUnlisted' /\ LeaderRecovers'
    BY <2>1
  <2>4. SchedulesNumbered'
    BY <1>1, <1>7 DEF JobEnds
  <2> HIDE DEF RsTypes, JobIsAction, HintIsUsed, TagStands, LeaderRecovers, StopsUnlisted
  <2> QED BY <2>2, <2>3, <2>4
<1>8. CASE RsPrimary
  <2>1. UNCHANGED <<rsPgVars, rsSchedVars, rsJobVars, rsTag, rsBounds>>
    BY <1>8 DEF RsPrimary, PrimaryPicks, PrimaryWrites
  <2>2. rsTag => rsPicks' # "yes"
    BY <1>8 DEF RsPrimary, PrimaryPicks, PrimaryWrites
  <2>3. rsPicks # "yes" /\ rsSync # "yes" => rsSync' # "yes"
    BY <1>8 DEF RsPrimary, PrimaryPicks, PrimaryWrites
  <2>4. RsTypes' /\ JobIsAction' /\ HintIsUsed' /\ LeaderRecovers'
    BY <2>1 DEF rsJobVars
  <2>5. TagStands'
    BY <2>1, <2>2 DEF rsJobVars
  <2>6. StopsUnlisted'
    BY <2>1, <2>3 DEF rsJobVars
  <2>7. SchedulesNumbered'
    BY <1>1, <2>1
  <2> HIDE DEF RsTypes, JobIsAction, HintIsUsed, TagStands, LeaderRecovers, StopsUnlisted
  <2> QED BY <2>4, <2>5, <2>6, <2>7
<1>9. CASE UNCHANGED rsVars
  BY <1>1, <1>9 DEF rsVars, rsJobVars
<1> QED BY <1>2, <1>3, <1>4, <1>5, <1>6, <1>7, <1>8, <1>9 DEF RsJob

LEMMA RsStep == RsInv /\ [RsNext]_rsVars => RsInv'
  BY RsRequestStep, RsHaStep, RsJobsStep DEF RsNext

(***************************************************************************)
(* A standby that saw itself released by the primary stops while /sync     *)
(* lists it only if the primary had picked it before the nosync tag was    *)
(* written, whatever requests, failures and cycles come in between.        *)
(***************************************************************************)
THEOREM StopsUnlistedCorrect == RsSpec => []StopsUnlisted
<1>1. RsInv => StopsUnlisted
  BY DEF RsInv
<1> QED BY <1>1, RsInitial, RsStep, PTL DEF RsSpec

(***************************************************************************)
(* No scheduled restart is executed twice, although the schedule is        *)
(* evaluated from a copy and may be deleted and made anew meanwhile.       *)
(***************************************************************************)
THEOREM ScheduledOnceCorrect == RsSpec => ScheduledOnce
<1>1. RsInv /\ [RsNext]_rsVars => [rsFor' # rsFor => rsFor' \notin rsRan]_rsVars
  <2> SUFFICES ASSUME RsInv, RsNext, rsFor' # rsFor PROVE rsFor' \notin rsRan
    OBVIOUS
  <2>1. 0 \notin rsRan
    BY DEF RsInv, RsTypes, SchedulesNumbered
  <2>2. rsFor' = 0 \/ (rsAt = "restart" /\ rsFor' = rsCopy.id)
    BY DEF RsNext, RsHa, RsJob, RsPrimary, RsClients, rsJobVars, EvaluateScheduled, ScheduledRestart, RestartBegins,
         ScheduledDeleted, PostRecover, RsRecover, StartingInstance, StartedLate, RsTouch, JobTags, JobWaits, JobStops,
         JobStarts, JobWaitsForStart, JobEnds, PrimaryPicks, PrimaryWrites, PostRestart, PostSchedule, DeleteRestart,
         PostReinitialize, RsTimePasses
  <2> QED BY <2>1, <2>2 DEF RsInv, SchedulesNumbered
<1> QED BY <1>1, RsInitial, RsStep, PTL DEF RsSpec, ScheduledOnce

(***************************************************************************)
(* A leader whose restart left PostgreSQL down does not try to start it    *)
(* once more: post_recover gives the key up first.                         *)
(***************************************************************************)
THEOREM LeaderGivesUpCorrect == RsSpec => LeaderGivesUp
<1>1. RsInv /\ [RsNext]_rsVars => [rsExec = "none" /\ rsExec' = "recover" => ~rsLock]_rsVars
  <2> SUFFICES ASSUME RsInv, RsNext, rsExec = "none", rsExec' = "recover" PROVE ~rsLock
    OBVIOUS
  <2>1. RsRecover
    BY DEF RsNext, RsHa, RsJob, RsPrimary, RsClients, rsJobVars, EvaluateScheduled, ScheduledRestart, RestartBegins,
         ScheduledDeleted, PostRecover, StartingInstance, StartedLate, RsTouch, JobTags, JobWaits, JobStops,
         JobStarts, JobWaitsForStart, JobEnds, PrimaryPicks, PrimaryWrites, PostRestart, PostSchedule, DeleteRestart,
         PostReinitialize, RsTimePasses
  <2> QED BY <2>1 DEF RsRecover, RsInv, LeaderRecovers
<1> QED BY <1>1, RsInitial, RsStep, PTL DEF RsSpec, LeaderGivesUp

-----------------------------------------------------------------------------
(***************************************************************************)
(* Callbacks.  A script that was killed has left no process but those that *)
(* were noted, and the worker does not come round before it is gone.       *)
(***************************************************************************)
CbAtRest == {"top", "waiting", "woken", "start"}

CbType ==
    /\ cbCmd \in Nat /\ cbLast \in Nat /\ cbTaken \in Nat
    /\ cbWorker \in CbAtRest \union {"wait", "reap"}
    /\ cbProc \in [cmd : Nat, runs : BOOLEAN, killed : BOOLEAN, children : BOOLEAN]
    /\ cbCaptured \in BOOLEAN
    /\ cbReloads \in [called : Nat, killed : BOOLEAN, run : SUBSET Nat]

\* The worker waits for the script it has started.
Awaited == cbProc.runs => cbWorker = "wait"

\* The processes of a killed script are noted, and gone when the worker is through with it.
LeftNoted ==
    cbProc.killed =>
        /\ ~cbProc.runs
        /\ cbProc.children => cbWorker \in {"wait", "reap"} /\ cbCaptured

\* Commands go through slot, worker and process in the order of their numbers.
Numbers ==
    /\ cbProc.cmd <= cbLast /\ cbTaken <= cbLast /\ cbCmd <= cbLast
    /\ cbCmd # 0 => cbCmd > cbTaken /\ cbCmd > cbProc.cmd
    /\ cbWorker = "start" => cbTaken > cbProc.cmd

\* Of the on_reload scripts that can be killed only the last one may run.
LastReload == cbReloads.run \ Undead \subseteq (IF cbReloads.killed THEN {} ELSE {cbReloads.called})

CbInv == CbType /\ Awaited /\ LeftNoted /\ Numbers /\ LastReload

LEMMA CbStep == CbInv /\ [CbNext]_cbVars => CbInv'
<1> SUFFICES ASSUME CbInv, [CbNext]_cbVars PROVE CbInv'
  OBVIOUS
<1> USE DEF CbInv
<1>1. CASE \E t \in CbThreads : CbKill(t)
  <2>1. PICK t \in CbThreads : CbKill(t)
    BY <1>1
  <2>2. CbType'
    BY <2>1 DEF CbKill, CbType
  <2>3. Awaited' /\ LeftNoted'
    BY <2>1 DEF CbKill, CbType, Awaited, LeftNoted
  <2>4. Numbers' /\ LastReload'
    BY <2>1 DEF CbKill, CbType, Numbers, LastReload
  <2> QED BY <2>2, <2>3, <2>4
<1>2. CASE \E t \in CbThreads : CbPut(t)
  BY <1>2 DEF CbPut, CbType, CbAtRest, Awaited, LeftNoted, Numbers, LastReload
<1>3. CASE CbTake
  BY <1>3 DEF CbTake, CbType, CbAtRest, Awaited, LeftNoted, Numbers, LastReload
<1>4. CASE CbStart
  <2>1. CbType'
    <3>1. cbProc' \in [cmd : Nat, runs : BOOLEAN, killed : BOOLEAN, children : BOOLEAN]
      <4>1. CASE cbProc' = [cmd |-> cbTaken, runs |-> TRUE, killed |-> FALSE, children |-> FALSE]
        <5>1. cbTaken \in Nat
          BY DEF CbType
        <5> QED BY <4>1, <5>1
      <4>2. CASE cbProc' = cbProc
        BY <4>2 DEF CbType
      <4> QED BY <1>4, <4>1, <4>2 DEF CbStart
    <3>2. cbWorker' \in CbAtRest \union {"wait", "reap"} /\ cbCaptured' \in BOOLEAN
      BY <1>4 DEF CbStart, CbAtRest
    <3> QED BY <1>4, <3>1, <3>2 DEF CbStart, CbType
  <2>2. Awaited' /\ LeftNoted'
    BY <1>4 DEF CbStart, CbType, Awaited, LeftNoted
  <2>3. Numbers' /\ LastReload'
    BY <1>4 DEF CbStart, CbType, Numbers, LastReload
  <2> QED BY <2>1, <2>2, <2>3
<1>5. CASE CbWaited
  BY <1>5 DEF CbWaited, CbType, CbAtRest, Awaited, LeftNoted, Numbers, LastReload
<1>6. CASE CbReap
  <2>1. CbType'
    BY <1>6 DEF CbReap, CbType, CbAtRest
  <2>2. Awaited' /\ LeftNoted'
    BY <1>6 DEF CbReap, CbType, Awaited, LeftNoted
  <2>3. Numbers' /\ LastReload'
    BY <1>6 DEF CbReap, CbType, Numbers, LastReload
  <2> QED BY <2>1, <2>2, <2>3
<1>7. CASE CbScript
  <2>1. CbType'
    BY <1>7 DEF CbScript, CbType, CbAtRest
  <2>2. Awaited' /\ LeftNoted'
    BY <1>7 DEF CbScript, CbType, Awaited, LeftNoted
  <2>3. Numbers' /\ LastReload'
    BY <1>7 DEF CbScript, CbType, Numbers, LastReload
  <2> QED BY <2>1, <2>2, <2>3
<1>8. CASE ReloadKill \/ ReloadStart \/ ReloadEnds
  <2>1. UNCHANGED <<cbCmd, cbLast, cbCaller, cbWorker, cbTaken, cbProc, cbCaptured>>
    BY <1>8 DEF ReloadKill, ReloadStart, ReloadEnds
  <2>2. cbReloads \in [called : Nat, killed : BOOLEAN, run : SUBSET Nat]
    BY DEF CbType
  <2>3. CASE ReloadKill
    <3>1. cbReloads' = [cbReloads EXCEPT !.killed = TRUE, !.run = @ \intersect Undead]
      BY <2>3 DEF ReloadKill
    <3>2. cbReloads' \in [called : Nat, killed : BOOLEAN, run : SUBSET Nat]
      BY <2>2, <3>1
    <3>3. cbReloads'.run \ Undead = {}
      BY <2>2, <3>1
    <3>4. LastReload'
      BY <3>3 DEF LastReload
    <3> QED BY <2>1, <3>2, <3>4 DEF CbType, Awaited, LeftNoted, Numbers
  <2>4. CASE ReloadStart
    <3>1. cbReloads'.called = cbReloads.called + 1 /\ cbReloads'.killed = FALSE
          /\ cbReloads'.run = cbReloads.run \union {cbReloads.called + 1}
      BY <2>4 DEF ReloadStart
    <3>2. cbReloads' \in [called : Nat, killed : BOOLEAN, run : SUBSET Nat]
      BY <2>2, <2>4 DEF ReloadStart
    <3>3. LastReload'
      BY <2>4, <3>1 DEF ReloadStart, LastReload
    <3> QED BY <2>1, <3>2, <3>3 DEF CbType, Awaited, LeftNoted, Numbers
  <2>5. CASE ReloadEnds
    <3>1. PICK r \in cbReloads.run : cbReloads' = [cbReloads EXCEPT !.run = @ \ {r}]
      BY <2>5 DEF ReloadEnds
    <3>2. cbReloads' \in [called : Nat, killed : BOOLEAN, run : SUBSET Nat]
      BY <2>2, <3>1
    <3>3. LastReload'
      BY <2>2, <3>1 DEF LastReload
    <3> QED BY <2>1, <3>2, <3>3 DEF CbType, Awaited, LeftNoted, Numbers
  <2> QED BY <1>8, <2>3, <2>4, <2>5
<1>9. CASE UNCHANGED cbVars
  BY <1>9 DEF cbVars, CbType, Awaited, LeftNoted, Numbers, LastReload
<1> QED BY <1>1, <1>2, <1>3, <1>4, <1>5, <1>6, <1>7, <1>8, <1>9 DEF CbNext, CbWork

THEOREM CbInvCorrect == CbSpec => []CbInv
<1>1. CbInit => CbInv
  <2> SUFFICES ASSUME CbInit PROVE CbInv
    OBVIOUS
  <2>1. CbType
    BY DEF CbInit, CbType, CbAtRest
  <2>2. Awaited /\ LeftNoted /\ Numbers
    BY DEF CbInit, Awaited, LeftNoted, Numbers
  <2>3. LastReload
    BY DEF CbInit, LastReload
  <2> QED BY <2>1, <2>2, <2>3 DEF CbInv
<1> QED BY <1>1, CbStep, PTL DEF CbSpec

(***************************************************************************)
(* CallbackExecutor: for any number of threads that call it, and of        *)
(* scripts that cannot be killed, a script starts only when the one before *)
(* has ended, and with it every process of a script that was killed.       *)
(***************************************************************************)
THEOREM NoLeftoversCorrect == CbSpec => NoLeftovers
<1>1. CbInv /\ [CbNext]_cbVars => [cbProc'.cmd # cbProc.cmd => ~cbProc.runs /\ ~(cbProc.killed /\ cbProc.children)]_cbVars
  <2> SUFFICES ASSUME CbInv, CbNext, cbProc'.cmd # cbProc.cmd PROVE ~cbProc.runs /\ ~(cbProc.killed /\ cbProc.children)
    BY DEF cbVars
  <2>1. cbWorker = "start"
    BY DEF CbNext, CbInv, CbType, CbWork, CbKill, CbPut, CbTake, CbStart, CbWaited, CbReap, CbScript, ReloadKill, ReloadStart, ReloadEnds
  <2> QED BY <2>1 DEF CbInv, Awaited, LeftNoted
<1> QED BY <1>1, CbInvCorrect, PTL DEF CbSpec, NoLeftovers

(***************************************************************************)
(* Whatever commands are dropped for later ones, scripts start in the      *)
(* order of the state changes they report, each at most once.              *)
(***************************************************************************)
THEOREM StartedInOrderCorrect == CbSpec => StartedInOrder
<1>1. CbInv /\ [CbNext]_cbVars => [cbWorker = "start" /\ cbWorker' = "wait" => cbProc'.cmd > cbProc.cmd]_cbVars
  <2> SUFFICES ASSUME CbInv, CbNext, cbWorker = "start", cbWorker' = "wait" PROVE cbProc'.cmd > cbProc.cmd
    OBVIOUS
  <2>1. CbStart
    BY DEF CbNext, CbWork, CbKill, CbPut, CbTake, CbStart, CbWaited, CbReap, CbScript, ReloadKill, ReloadStart, ReloadEnds
  <2> QED BY <2>1 DEF CbStart, CbInv, Numbers
<1> QED BY <1>1, CbInvCorrect, PTL DEF CbSpec, StartedInOrder

\* OnReloadExecutor: at most one on_reload script runs, but for those that cannot be killed.
THEOREM OneReloadCorrect == CbSpec => []OneReload
<1>1. CbInv => OneReload
  <2> SUFFICES ASSUME CbInv PROVE Cardinality(cbReloads.run \ Undead) <= 1
    BY DEF OneReload
  <2>1. cbReloads.run \ Undead \in SUBSET {cbReloads.called}
    BY DEF CbInv, LastReload
  <2>2. IsFiniteSet({cbReloads.called}) /\ Cardinality({cbReloads.called}) = 1
    BY FS_Singleton
  <2> QED BY <2>1, <2>2, FS_Subset
<1> QED BY <1>1, CbInvCorrect, PTL

-----------------------------------------------------------------------------
(***************************************************************************)
(* The log queue.  What it holds is a sum over a sequence, and the provers *)
(* have no induction: instead, a least number of summands for which a      *)
(* statement about partial sums fails has a predecessor, which contradicts *)
(* it.                                                                     *)
(***************************************************************************)

\* A set of numbers has a least one: of the intervals that end in its members one contains no other.
LEMMA LeastNumber ==
  ASSUME NEW T \in SUBSET Nat, T # {}
  PROVE  \E x \in T : \A y \in T : x <= y
<1> DEFINE UpTo == {0..x : x \in T}
<1>1. UpTo \subseteq FiniteSubsetsOf(Nat) /\ UpTo # {}
  <2>1. ASSUME NEW x \in T PROVE 0..x \in FiniteSubsetsOf(Nat)
    <3>1. IsFiniteSet(0..x)
      BY FS_Interval
    <3> QED BY <3>1 DEF FiniteSubsetsOf
  <2> QED BY <2>1
<1>2. \E I \in UpTo : \A J \in UpTo : <<J, I>> \notin StrictSubsetOrdering(Nat)
  <2> HIDE DEF UpTo
  <2> QED BY <1>1, FS_StrictSubsetOrderingWellFounded, WFMin
<1>3. PICK x \in T : \A J \in UpTo : <<J, 0..x>> \notin StrictSubsetOrdering(Nat)
  BY <1>2
<1>4. ASSUME NEW y \in T, y < x PROVE FALSE
  <2>1. 0..y \subseteq 0..x /\ 0..y # 0..x /\ 0..y \in SUBSET Nat /\ 0..x \in SUBSET Nat
    <3>1. x \in 0..x /\ x \notin 0..y
      BY <1>4
    <3> QED BY <1>4, <3>1
  <2> QED BY <1>3, <2>1 DEF StrictSubsetOrdering
<1> QED BY <1>4

\* The partial sums of the first n numbers of w.
PartialSums(f, w, n) == f \in [0..n -> Int] /\ f[0] = 0 /\ \A i \in 1..n : f[i] = f[i - 1] + w[i]

\* They exist: a least number of summands without them would be one more than a number with them.
LEMMA SumsExist ==
    ASSUME NEW n \in Nat, NEW w \in [1..n -> Int]
    PROVE  \E f : PartialSums(f, w, n)
<1> DEFINE T == {k \in 0..n : ~\E f : PartialSums(f, w, k)}
<1>0. SUFFICES ASSUME T # {} PROVE FALSE
  <2>1. n \in 0..n
    OBVIOUS
  <2> QED BY <2>1, Zenon
<1>1. PICK k \in T : \A y \in T : k <= y
  <2>1. T \in SUBSET Nat
    OBVIOUS
  <2> HIDE DEF T
  <2> QED BY <1>0, <2>1, LeastNumber
<1>2. k # 0
  <2>1. PartialSums([i \in 0..0 |-> 0], w, 0)
    BY DEF PartialSums
  <2> QED BY <1>1, <2>1
<1>3. k \in 1..n /\ k - 1 \in 0..n /\ k - 1 \notin T
  BY <1>1, <1>2
<1>4. PICK f : PartialSums(f, w, k - 1)
  BY <1>3
<1> DEFINE g == [i \in 0..k |-> IF i = k THEN f[k - 1] + w[k] ELSE f[i]]
<1>5. PartialSums(g, w, k)
  <2>1. f[k - 1] + w[k] \in Int /\ \A i \in 0..k : i # k => f[i] \in Int
    BY <1>3, <1>4 DEF PartialSums
  <2>2. g \in [0..k -> Int] /\ g[0] = 0
    BY <1>3, <1>4, <2>1 DEF PartialSums
  <2>3. ASSUME NEW i \in 1..k PROVE g[i] = g[i - 1] + w[i]
    <3>1. CASE i = k
      BY <1>3, <3>1
    <3>2. CASE i # k
      <4>1. i \in 1..(k - 1) /\ i - 1 \in 0..k /\ i \in 0..k /\ i - 1 # k
        BY <1>3, <3>2
      <4>2. f[i] = f[i - 1] + w[i]
        BY <1>4, <4>1 DEF PartialSums
      <4> QED BY <3>2, <4>1, <4>2
    <3> QED BY <3>1, <3>2
  <2> HIDE DEF g
  <2> QED BY <2>2, <2>3 DEF PartialSums
<1> QED BY <1>1, <1>5

\* They are unique.
LEMMA SumsAgree ==
    ASSUME NEW n \in Nat, NEW w \in [1..n -> Int], NEW f, PartialSums(f, w, n), NEW g, g[0] = 0, \A i \in 1..n : g[i] = g[i - 1] + w[i]
    PROVE  g[n] = f[n]
<1> DEFINE T == {k \in 0..n : g[k] # f[k]}
<1>0. SUFFICES ASSUME T # {} PROVE FALSE
  OBVIOUS
<1>1. PICK k \in T : \A y \in T : k <= y
  <2>1. T \in SUBSET Nat
    OBVIOUS
  <2> HIDE DEF T
  <2> QED BY <1>0, <2>1, LeastNumber
<1>2. k \in 1..n /\ k - 1 \in 0..n /\ k - 1 \notin T
  BY <1>1 DEF PartialSums
<1> QED BY <1>1, <1>2 DEF PartialSums

LEMMA TotalIs ==
    ASSUME NEW n \in Nat, NEW w \in [1..n -> Int], NEW f, PartialSums(f, w, n)
    PROVE  Total(w, n) = f[n]
<1> DEFINE P(h) == h = [i \in 0..n |-> IF i = 0 THEN 0 ELSE h[i - 1] + w[i]]
           g == CHOOSE h : P(h)
<1>1. Total(w, n) = g[n]
  BY Zenon DEF Total
<1>2. P(f)
  <2>1. f = [i \in 0..n |-> f[i]]
    BY DEF PartialSums
  <2>2. \A i \in 0..n : f[i] = IF i = 0 THEN 0 ELSE f[i - 1] + w[i]
    BY DEF PartialSums
  <2> QED BY <2>1, <2>2
<1>3. P(g)
  BY <1>2, Zenon
<1> HIDE DEF g
<1>4. g[0] = 0 /\ \A i \in 1..n : g[i] = g[i - 1] + w[i]
  BY <1>3
<1> QED BY <1>1, <1>4, SumsAgree

LEMMA TotalInt ==
    ASSUME NEW n \in Nat, NEW w \in [1..n -> Int]
    PROVE  Total(w, n) \in Int
<1>1. PICK f : PartialSums(f, w, n)
  BY SumsExist
<1>2. f[n] \in Int
  BY <1>1 DEF PartialSums
<1> QED BY <1>1, <1>2, TotalIs

LEMMA TotalAppended ==
    ASSUME NEW n \in Nat, NEW w \in [1..n + 1 -> Int], NEW v \in [1..n -> Int], \A i \in 1..n : v[i] = w[i]
    PROVE  Total(w, n + 1) = Total(v, n) + w[n + 1]
<1>1. PICK f : PartialSums(f, v, n)
  BY SumsExist
<1> DEFINE g == [i \in 0..n + 1 |-> IF i = n + 1 THEN f[n] + w[n + 1] ELSE f[i]]
<1>2. PartialSums(g, w, n + 1)
  <2>1. f[n] + w[n + 1] \in Int /\ \A i \in 0..n + 1 : i # n + 1 => f[i] \in Int
    BY <1>1 DEF PartialSums
  <2>2. g \in [0..n + 1 -> Int] /\ g[0] = 0
    BY <1>1, <2>1 DEF PartialSums
  <2>3. ASSUME NEW i \in 1..n + 1 PROVE g[i] = g[i - 1] + w[i]
    <3>1. CASE i = n + 1
      BY <3>1
    <3>2. CASE i # n + 1
      <4>1. i \in 1..n /\ i - 1 \in 0..n + 1 /\ i \in 0..n + 1 /\ i - 1 # n + 1
        BY <3>2
      <4>2. f[i] = f[i - 1] + w[i]
        BY <1>1, <4>1 DEF PartialSums
      <4> QED BY <3>2, <4>1, <4>2
    <3> QED BY <3>1, <3>2
  <2> HIDE DEF g
  <2> QED BY <2>2, <2>3 DEF PartialSums
<1>3. g[n + 1] = f[n] + w[n + 1]
  OBVIOUS
<1>4. Total(w, n + 1) = g[n + 1]
  <2> HIDE DEF g
  <2>1. n + 1 \in Nat
    OBVIOUS
  <2> QED BY <1>2, <2>1, TotalIs
<1> QED BY <1>1, <1>3, <1>4, TotalIs

LEMMA TotalOfTail ==
    ASSUME NEW n \in Nat, NEW w \in [1..n + 1 -> Int], NEW v \in [1..n -> Int], \A i \in 1..n : v[i] = w[i + 1]
    PROVE  Total(w, n + 1) = w[1] + Total(v, n)
<1>1. PICK f : PartialSums(f, v, n)
  BY SumsExist
<1> DEFINE g == [i \in 0..n + 1 |-> IF i = 0 THEN 0 ELSE w[1] + f[i - 1]]
<1>2. PartialSums(g, w, n + 1)
  <2>1. \A i \in 0..n + 1 : i # 0 => w[1] + f[i - 1] \in Int
    BY <1>1 DEF PartialSums
  <2>2. g \in [0..n + 1 -> Int] /\ g[0] = 0
    BY <1>1, <2>1 DEF PartialSums
  <2>3. ASSUME NEW i \in 1..n + 1 PROVE g[i] = g[i - 1] + w[i]
    <3>1. CASE i = 1
      BY <1>1, <3>1 DEF PartialSums
    <3>2. CASE i # 1
      <4>1. i - 1 \in 1..n /\ i - 1 \in 0..n + 1 /\ i \in 0..n + 1 /\ i - 1 # 0 /\ (i - 1) - 1 \in 0..n
        BY <3>2
      <4>2. f[i - 1] = f[(i - 1) - 1] + v[i - 1]
        BY <1>1, <4>1 DEF PartialSums
      <4>3. v[i - 1] = w[i]
        BY <4>1
      <4>4. w[1] \in Int /\ w[i] \in Int /\ f[(i - 1) - 1] \in Int
        BY <1>1, <4>1 DEF PartialSums
      <4> QED BY <3>2, <4>1, <4>2, <4>3, <4>4
    <3> QED BY <3>1, <3>2
  <2> HIDE DEF g
  <2> QED BY <2>2, <2>3 DEF PartialSums
<1>3. g[n + 1] = w[1] + f[n]
  OBVIOUS
<1>4. Total(w, n + 1) = g[n + 1]
  <2> HIDE DEF g
  <2>1. n + 1 \in Nat
    OBVIOUS
  <2> QED BY <1>2, <2>1, TotalIs
<1> QED BY <1>1, <1>3, <1>4, TotalIs

LogKinds == {"owner", "beat", "other", "None"}
LogRecords == [kind : LogKinds, thread : LogThreads \union {"None"}, lost : Nat]

LEMMA WeightNat == ASSUME NEW r \in LogRecords PROVE Weight(r) \in Nat
BY DEF Weight, LogRecords

LEMMA InQueueInt == ASSUME NEW q \in Seq(LogRecords) PROVE InQueue(q) \in Int
<1>1. Len(q) \in Nat /\ [i \in 1..Len(q) |-> Weight(q[i])] \in [1..Len(q) -> Int]
  <2>1. \A i \in 1..Len(q) : Weight(q[i]) \in Int
    BY WeightNat
  <2> QED BY <2>1
<1> QED BY <1>1, TotalInt DEF InQueue

\* What goes into the queue and what comes out of it.
LEMMA InQueueAppend ==
    ASSUME NEW q \in Seq(LogRecords), NEW r \in LogRecords
    PROVE  InQueue(Append(q, r)) = InQueue(q) + Weight(r)
<1> DEFINE n == Len(q)
           v == [i \in 1..n |-> Weight(q[i])]
           w == [i \in 1..n + 1 |-> Weight(Append(q, r)[i])]
<1>1. n \in Nat /\ Len(Append(q, r)) = n + 1 /\ \A i \in 1..n : Append(q, r)[i] = q[i]
  OBVIOUS
<1>2. Append(q, r)[n + 1] = r /\ \A i \in 1..n + 1 : Append(q, r)[i] \in LogRecords
  OBVIOUS
<1>3. v \in [1..n -> Int] /\ w \in [1..n + 1 -> Int]
  <2>1. \A i \in 1..n : Weight(q[i]) \in Int
    BY WeightNat
  <2>2. \A i \in 1..n + 1 : Weight(Append(q, r)[i]) \in Int
    BY <1>2, WeightNat
  <2> QED BY <2>1, <2>2
<1>4. (\A i \in 1..n : v[i] = w[i]) /\ w[n + 1] = Weight(r)
  BY <1>1, <1>2
<1>5. InQueue(q) = Total(v, n) /\ InQueue(Append(q, r)) = Total(w, n + 1)
  BY <1>1 DEF InQueue
<1> HIDE DEF n, v, w
<1> QED BY <1>1, <1>3, <1>4, <1>5, TotalAppended

LEMMA InQueueTail ==
    ASSUME NEW q \in Seq(LogRecords), q # <<>>
    PROVE  InQueue(q) = Weight(Head(q)) + InQueue(Tail(q))
<1> DEFINE n == Len(Tail(q))
           v == [i \in 1..n |-> Weight(Tail(q)[i])]
           w == [i \in 1..n + 1 |-> Weight(q[i])]
<1>1. n \in Nat /\ Len(q) = n + 1 /\ \A i \in 1..n : Tail(q)[i] = q[i + 1]
  OBVIOUS
<1>2. Head(q) = q[1]
  OBVIOUS
<1>3. v \in [1..n -> Int] /\ w \in [1..n + 1 -> Int]
  <2>1. \A i \in 1..n + 1 : q[i] \in LogRecords
    BY <1>1
  <2>2. \A i \in 1..n + 1 : Weight(q[i]) \in Int
    BY <2>1, WeightNat
  <2>3. \A i \in 1..n : Weight(Tail(q)[i]) \in Int
    BY <1>1, <2>2
  <2> QED BY <2>2, <2>3
<1>4. (\A i \in 1..n : v[i] = w[i + 1]) /\ w[1] = Weight(Head(q))
  BY <1>1, <1>2
<1>5. InQueue(Tail(q)) = Total(v, n) /\ InQueue(q) = Total(w, n + 1)
  BY <1>1 DEF InQueue
<1> HIDE DEF n, v, w
<1> QED BY <1>1, <1>3, <1>4, <1>5, TotalOfTail

LEMMA InQueueNothing == InQueue(<<>>) = 0
<1>1. PartialSums([i \in 0..0 |-> 0], <<>>, 0)
  BY DEF PartialSums
<1>2. <<>> \in [1..0 -> Int] /\ Len(<<>>) = 0 /\ [i \in 1..0 |-> Weight(<<>>[i])] = <<>>
  OBVIOUS
<1> QED BY <1>1, <1>2, TotalIs DEF InQueue

\* A record is in the queue or counted, and what was counted before still is.
LEMMA QueuedKeepsCount ==
    ASSUME NEW q \in Seq(LogRecords), NEW lost \in Nat, NEW r \in LogRecords, Weight(r) = 1
    PROVE  LET o == Queued(q, lost, r)
           IN  o.queue \in Seq(LogRecords) /\ o.lost \in Nat /\ InQueue(o.queue) + o.lost = InQueue(q) + lost + 1
<1> DEFINE o == Queued(q, lost, r)
           l == LostReport(lost, r.thread)
<1>0. InQueue(q) \in Int /\ InQueue(Append(q, r)) = InQueue(q) + 1 /\ Append(q, r) \in Seq(LogRecords)
  BY InQueueInt, InQueueAppend
<1>1. CASE o.queue = q /\ o.lost = lost + 1
  BY <1>0, <1>1
<1>2. CASE o.queue = Append(q, r) /\ o.lost = lost
  BY <1>0, <1>2
<1>3. CASE lost > 0 /\ o.queue = q \o <<r, l>> /\ o.lost = 0
  <2>1. l \in LogRecords /\ Weight(l) = lost
    BY <1>3 DEF LostReport, LogRecords, LogKinds, Weight, Stop
  <2>2. q \o <<r, l>> = Append(Append(q, r), l) /\ Append(Append(q, r), l) \in Seq(LogRecords)
    BY <2>1, <1>0
  <2>3. InQueue(Append(Append(q, r), l)) = InQueue(Append(q, r)) + lost
    BY <1>0, <2>1, InQueueAppend
  <2>4. o.queue \in Seq(LogRecords) /\ InQueue(o.queue) = InQueue(q) + 1 + lost
    BY <1>0, <1>3, <2>2, <2>3
  <2> HIDE DEF l, o
  <2>5. InQueue(o.queue) + o.lost = InQueue(q) + lost + 1 /\ o.lost \in Nat
    BY <1>0, <1>3, <2>4
  <2> QED BY <2>4, <2>5 DEF o
<1> QED BY <1>1, <1>2, <1>3 DEF Queued

LogType ==
    /\ logQueue \in Seq(LogRecords)
    /\ logLost \in Nat
    /\ logPrev \in LogRecords
    /\ logCount \in [emitted : Int, written : Int, chatter : Int, reported : Int]

LogInv == LogType /\ RecordsAccounted

Held == IF logPrev = Stop THEN 0 ELSE 1

\* A record that is taken is written, left out or held back, and so is the one that was held back.
LEMMA OutcomeComplete ==
    ASSUME LogType, NEW r \in LogRecords, r # Stop, NEW o \in Outcome(r)
    PROVE  /\ o.prev \in LogRecords /\ o.written \in Int /\ o.chatter \in Int
           /\ o.written + o.chatter + (IF o.prev = Stop THEN 0 ELSE 1) = Held + 1
<1>0. Stop \in LogRecords
  BY DEF Stop, LogRecords, LogKinds
<1>1. CASE o = [prev |-> r, written |-> 0, chatter |-> IF logPrev = Stop THEN 0 ELSE 1]
  BY <1>1 DEF Held
<1>2. CASE logPrev # Stop /\ \E x \in {0, 1} : o = [prev |-> Stop, written |-> x, chatter |-> 2 - x]
  BY <1>0, <1>2 DEF Held
<1>3. CASE logPrev # Stop /\ o = [prev |-> Stop, written |-> 2, chatter |-> 0]
  BY <1>0, <1>3 DEF Held
<1>4. CASE o = [prev |-> logPrev, written |-> 1, chatter |-> 0]
  BY <1>4 DEF Held, LogType
<1> QED BY <1>1, <1>2, <1>3, <1>4 DEF Outcome

LEMMA EmitInv == ASSUME LogInv, NEW t \in LogThreads, NEW kind \in {"owner", "beat", "other"}, Emit(t, kind) PROVE LogInv'
<1> DEFINE r == Record(kind, t)
<1>1. r \in LogRecords /\ Weight(r) = 1
  BY DEF Record, LogRecords, LogKinds, Weight, Stop
<1>2. InQueue(logQueue) \in Int
  BY InQueueInt DEF LogInv, LogType
<1>3. CASE logWriter = "new"
  <2>1. /\ logCount' \in [emitted : Int, written : Int, chatter : Int, reported : Int]
        /\ logCount'.emitted = logCount.emitted + 1 /\ logCount'.written = logCount.written + 1
        /\ logCount'.chatter = logCount.chatter /\ logCount'.reported = logCount.reported
    <3>1. logCount' = [logCount EXCEPT !.emitted = @ + 1, !.written = @ + 1]
      BY <1>3 DEF Emit
    <3>2. logCount \in [emitted : Int, written : Int, chatter : Int, reported : Int]
      BY DEF LogInv, LogType
    <3>3. logCount.emitted + 1 \in Int /\ logCount.written + 1 \in Int
      BY <3>2
    <3> QED BY <3>1, <3>2, <3>3
  <2>2. logQueue' = logQueue /\ logLost' = logLost /\ logPrev' = logPrev
    BY <1>3 DEF Emit
  <2>3. /\ logCount.emitted \in Int /\ logCount.written \in Int /\ logCount.chatter \in Int /\ logCount.reported \in Int
        /\ logLost \in Int /\ Held \in Int /\ Held' = Held
    BY <2>2 DEF LogInv, LogType, Held
  <2>4. logCount.emitted = logCount.written + logCount.chatter + logCount.reported + logLost + InQueue(logQueue) + Held
    BY DEF LogInv, RecordsAccounted, Held
  <2>5. logCount'.emitted = logCount'.written + logCount'.chatter + logCount'.reported + logLost' + InQueue(logQueue') + Held'
    <3>1. logCount.emitted + 1 = (logCount.written + 1) + logCount.chatter + logCount.reported + logLost + InQueue(logQueue) + Held
      BY <1>2, <2>3, <2>4
    <3> QED BY <2>1, <2>2, <2>3, <3>1
  <2>6. RecordsAccounted'
    BY <2>5 DEF RecordsAccounted, Held
  <2> QED BY <2>1, <2>2, <2>6 DEF LogInv, LogType
<1>4. CASE logWriter # "new"
  <2>1. logQueue' \in Seq(LogRecords) /\ logLost' \in Nat /\ InQueue(logQueue') + logLost' = InQueue(logQueue) + logLost + 1
    <3> HIDE DEF r
    <3>1. logQueue' = Queued(logQueue, logLost, r).queue /\ logLost' = Queued(logQueue, logLost, r).lost
      BY <1>4 DEF Emit, r
    <3> QED BY <1>1, <3>1, QueuedKeepsCount DEF LogInv, LogType
  <2>2. /\ logCount' \in [emitted : Int, written : Int, chatter : Int, reported : Int] /\ logPrev' = logPrev
        /\ logCount'.emitted = logCount.emitted + 1 /\ logCount'.written = logCount.written
        /\ logCount'.chatter = logCount.chatter /\ logCount'.reported = logCount.reported
    BY <1>4 DEF Emit, LogInv, LogType
  <2>3. InQueue(logQueue') \in Int
    BY <2>1, InQueueInt
  <2>4. /\ logCount.emitted \in Int /\ logCount.written \in Int /\ logCount.chatter \in Int /\ logCount.reported \in Int
        /\ logLost \in Int /\ Held \in Int /\ Held' = Held
    BY <2>2 DEF LogInv, LogType, Held
  <2>5. logCount.emitted = logCount.written + logCount.chatter + logCount.reported + logLost + InQueue(logQueue) + Held
    BY DEF LogInv, RecordsAccounted, Held
  <2>6. logCount.emitted + 1 = logCount.written + logCount.chatter + logCount.reported + logLost' + InQueue(logQueue') + Held
    <3> HIDE DEF r
    <3>1. InQueue(logQueue') + logLost' = InQueue(logQueue) + logLost + 1 /\ logLost' \in Int
      BY <2>1
    <3> QED BY <1>2, <2>3, <2>4, <2>5, <3>1
  <2>7. RecordsAccounted'
    BY <2>2, <2>4, <2>6 DEF RecordsAccounted, Held
  <2> QED BY <2>1, <2>2, <2>7 DEF LogInv, LogType
<1> QED BY <1>3, <1>4

LEMMA WriterGetsInv == ASSUME LogInv, WriterGets PROVE LogInv'
<1> DEFINE r == Head(logQueue)
<1>1. r \in LogRecords /\ logQueue' = Tail(logQueue) /\ logQueue' \in Seq(LogRecords) /\ logQueue # <<>> /\ logLost' = logLost
  <2>1. logQueue \in Seq(LogRecords) /\ logQueue # <<>>
    BY DEF WriterGets, LogInv, LogType
  <2>2. logQueue' = Tail(logQueue) /\ logLost' = logLost
    BY DEF WriterGets
  <2> QED BY <2>1, <2>2
<1>2. InQueue(logQueue) = Weight(r) + InQueue(logQueue') /\ InQueue(logQueue') \in Int
  BY <1>1, InQueueTail, InQueueInt DEF LogInv, LogType
<1>3. CASE r = Stop
  <2>1. Weight(r) = 0 /\ logPrev' = logPrev /\ logCount' = logCount
    BY <1>3 DEF Weight, WriterGets
  <2> QED BY <1>1, <1>2, <2>1 DEF LogInv, LogType, RecordsAccounted
<1>4. CASE r # Stop
  <2>1. PICK o \in Outcome(r) :
            /\ logPrev' = o.prev
            /\ logCount' = [logCount EXCEPT !.written = @ + o.written - (IF r.lost > 0 THEN 1 ELSE 0),
                                            !.chatter = @ + o.chatter,
                                            !.reported = @ + r.lost]
    BY <1>4 DEF WriterGets
  <2>2. /\ o.prev \in LogRecords /\ o.written \in Int /\ o.chatter \in Int
        /\ o.written + o.chatter + (IF o.prev = Stop THEN 0 ELSE 1) = Held + 1
    BY <1>1, <1>4, OutcomeComplete DEF LogInv
  <2>3. r.lost \in Nat /\ Weight(r) = r.lost + 1 - (IF r.lost > 0 THEN 1 ELSE 0)
    BY <1>1, <1>4 DEF LogRecords, Weight
  <2> DEFINE one == IF r.lost > 0 THEN 1 ELSE 0
  <2>4. one \in Int
    OBVIOUS
  <2> HIDE DEF r, one
  <2>5. /\ logCount' \in [emitted : Int, written : Int, chatter : Int, reported : Int]
        /\ logCount'.emitted = logCount.emitted /\ logCount'.written = logCount.written + o.written - one
        /\ logCount'.chatter = logCount.chatter + o.chatter /\ logCount'.reported = logCount.reported + r.lost
    <3>1. logCount' = [logCount EXCEPT !.written = @ + o.written - one, !.chatter = @ + o.chatter, !.reported = @ + r.lost]
      BY <2>1, Zenon DEF one
    <3>2. logCount \in [emitted : Int, written : Int, chatter : Int, reported : Int]
      BY DEF LogInv, LogType
    <3>3. logCount.written + o.written - one \in Int /\ logCount.chatter + o.chatter \in Int /\ logCount.reported + r.lost \in Int
      BY <2>2, <2>3, <2>4, <3>2
    <3> QED BY <3>1, <3>2, <3>3
  <2>6. LogType'
    BY <1>1, <2>1, <2>2, <2>5 DEF LogInv, LogType
  <2>7. Weight(r) = r.lost + 1 - one
    BY <2>3 DEF one
  <2>8. Held' = IF o.prev = Stop THEN 0 ELSE 1
    BY <2>1 DEF Held
  <2>9. RecordsAccounted'
    <3>1. logCount.emitted = logCount.written + logCount.chatter + logCount.reported + logLost + InQueue(logQueue) + Held
      BY DEF LogInv, RecordsAccounted, Held
    <3>2. Held \in Int /\ Held' \in Int /\ o.written + o.chatter + Held' = Held + 1
      BY <2>2, <2>8 DEF Held
    <3>3. /\ logCount.emitted \in Int /\ logCount.written \in Int /\ logCount.chatter \in Int /\ logCount.reported \in Int
          /\ logLost \in Int /\ InQueue(logQueue) \in Int
      BY <1>1, InQueueInt DEF LogInv, LogType
    <3>4. logCount'.emitted = logCount'.written + logCount'.chatter + logCount'.reported + logLost' + InQueue(logQueue') + Held'
      <4>1. o.written \in Int /\ o.chatter \in Int /\ r.lost \in Int /\ one \in Int /\ InQueue(logQueue') \in Int
        BY <1>2, <2>2, <2>3, <2>4
      <4>2. InQueue(logQueue) = r.lost + 1 - one + InQueue(logQueue')
        BY <1>2, <2>7
      <4>3. logCount.emitted = (logCount.written + o.written - one) + (logCount.chatter + o.chatter) + (logCount.reported + r.lost)
                                   + logLost + InQueue(logQueue') + Held'
        <5>1. Held \in Int /\ Held' \in Int /\ Held = o.written + o.chatter + Held' - 1
          BY <3>2, <4>1
        <5>2. InQueue(logQueue) + Held = r.lost - one + InQueue(logQueue') + o.written + o.chatter + Held'
          BY <4>1, <4>2, <5>1
        <5> QED BY <3>1, <3>3, <4>1, <5>1, <5>2
      <4> QED BY <1>1, <2>5, <4>3
    <3> QED BY <3>4 DEF RecordsAccounted, Held
  <2> QED BY <2>6, <2>9 DEF LogInv
<1> QED BY <1>3, <1>4

LEMMA LogShutdownInv == ASSUME LogInv, LogShutdown PROVE LogInv'
<1>1. Stop \in LogRecords /\ Weight(Stop) = 0
  BY DEF Stop, LogRecords, LogKinds, Weight
<1>2. InQueue(Append(logQueue, Stop)) = InQueue(logQueue) + Weight(Stop) /\ InQueue(logQueue) \in Int
  BY <1>1, InQueueAppend, InQueueInt DEF LogInv, LogType
<1>3. logQueue' \in Seq(LogRecords) /\ InQueue(logQueue') = InQueue(logQueue)
  BY <1>1, <1>2 DEF LogShutdown, LogInv, LogType
<1> QED BY <1>3 DEF LogShutdown, LogInv, LogType, RecordsAccounted

(***************************************************************************)
(* No record disappears, for any number of threads and records, whatever   *)
(* the size of the queue is changed to.                                    *)
(***************************************************************************)
THEOREM RecordsAccountedCorrect == LogSpec => []RecordsAccounted
<1>1. LogInit => LogInv
  BY InQueueNothing DEF LogInit, LogInv, LogType, RecordsAccounted, Stop, LogRecords, LogKinds
<1>2. LogInv /\ [LogNext]_logVars => LogInv'
  <2>1. ASSUME LogInv, UNCHANGED <<logQueue, logLost, logPrev, logCount>> PROVE LogInv'
    BY <2>1 DEF LogInv, LogType, RecordsAccounted
  <2> QED BY <2>1, EmitInv, WriterGetsInv, LogShutdownInv DEF LogNext, logVars, WriterStarts, Writer, CloseOldHandlers, LogJoined, LogReload
<1>3. LogInv => RecordsAccounted
  BY DEF LogInv
<1> QED BY <1>1, <1>2, <1>3, PTL DEF LogSpec

(***************************************************************************)
(* The handler in use is never closed: those that are, or will be, come    *)
(* before it.                                                              *)
(***************************************************************************)
HandlersBefore == logHandler \in Nat /\ \A h \in logOld \union logClosed : h \in Nat /\ h < logHandler

THEOREM HandlerOpenCorrect == LogSpec => []HandlerOpen
<1>1. LogInit => HandlersBefore
  BY DEF LogInit, HandlersBefore
<1>2. HandlersBefore /\ [LogNext]_logVars => HandlersBefore'
  <2> SUFFICES ASSUME HandlersBefore, [LogNext]_logVars PROVE HandlersBefore'
    OBVIOUS
  <2>1. CASE UNCHANGED <<logHandler, logOld, logClosed>>
    BY <2>1 DEF HandlersBefore
  <2>2. CASE CloseOldHandlers
    BY <2>2 DEF CloseOldHandlers, HandlersBefore
  <2>3. ASSUME NEW size \in QueueSizes, NEW info \in BOOLEAN, NEW dir \in BOOLEAN, LogReload(size, info, dir) PROVE HandlersBefore'
    BY <2>3 DEF LogReload, HandlersBefore
  <2> QED BY <2>1, <2>2, <2>3 DEF LogNext, logVars, WriterStarts, Writer, WriterGets, LogShutdown, LogJoined, Emit
<1>3. HandlersBefore => HandlerOpen
  BY DEF HandlersBefore, HandlerOpen
<1> QED BY <1>1, <1>2, <1>3, PTL DEF LogSpec
=============================================================================
