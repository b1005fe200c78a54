----------------------------- MODULE AsyncExec -----------------------------
(***************************************************************************)
(* AsyncExecutor (patroni/async_executor.py) with the CancellableSubprocess*)
(* it drives (patroni/postgresql/cancellable.py).  The HA thread and the   *)
(* threads of the REST API schedule tasks, worker threads run them, and    *)
(* other threads (shutdown, a forced reinitialize) cancel whatever is      *)
(* scheduled.  A block under the executor's lock is one action; everything *)
(* else may interleave.                                                    *)
(***************************************************************************)
EXTENDS Naturals, FiniteSets

CONSTANTS Tasks,      \* tasks somebody wants to run
          Callers,    \* threads that call cancel()
          None,       \* no task
          Requests,   \* TRUE: tasks are scheduled while or after cancel() runs
          MaxCalls    \* bound: subprocesses a task starts

ASSUME AsyncAssumption == None \notin Tasks /\ Requests \in BOOLEAN /\ MaxCalls \in Nat

VARIABLES scheduled,    \* _scheduled_action
          isCancelled,  \* _is_cancelled
          finish,       \* _finish_event is set
          cancelled,    \* CancellableSubprocess._is_cancelled
          task,         \* where the worker of a task is
          calls,        \* subprocesses a task has started
          caller        \* where a thread is in cancel()

vars == <<scheduled, isCancelled, finish, cancelled, task, calls, caller>>

\* A task has begun and is not over.
Begun == {"begun", "working", "subprocess", "ending"}

Init ==
    /\ scheduled = None
    /\ isCancelled = FALSE
    /\ finish = FALSE
    /\ cancelled = FALSE
    /\ task = [t \in Tasks |-> "new"]
    /\ calls = [t \in Tasks |-> 0]
    /\ caller = [c \in Callers |-> "idle"]

\* Altered form: a new action replaces the one that is scheduled.
ScheduleOver(t) ==
    /\ task[t] = "new"
    /\ Requests \/ \A c \in Callers : caller[c] = "idle"
    /\ scheduled' = t
    /\ isCancelled' = FALSE
    /\ finish' = TRUE
    /\ task' = [task EXCEPT ![t] = "queued"]
    /\ UNCHANGED <<cancelled, calls, caller>>

\* schedule() and the submission to the thread pool.
Schedule(t) ==
    /\ task[t] = "new"
    /\ Requests \/ \A c \in Callers : caller[c] = "idle"
    /\ scheduled = None
    /\ scheduled' = t
    /\ isCancelled' = FALSE
    /\ finish' = TRUE
    /\ task' = [task EXCEPT ![t] = "queued"]
    /\ UNCHANGED <<cancelled, calls, caller>>

-----------------------------------------------------------------------------
\* Altered form: the cancellation is not looked at.
BeginRegardless(t) ==
    /\ task[t] = "queued"
    /\ task' = [task EXCEPT ![t] = "begun"]
    /\ finish' = FALSE
    /\ UNCHANGED <<scheduled, isCancelled, cancelled, calls, caller>>

\* run(): a task that was cancelled before it began goes straight to the end.
Begin(t) ==
    /\ task[t] = "queued"
    /\ task' = [task EXCEPT ![t] = IF isCancelled THEN "ending" ELSE "begun"]
    /\ finish' = (finish /\ isCancelled)
    /\ UNCHANGED <<scheduled, isCancelled, cancelled, calls, caller>>

\* reset_is_cancelled(), outside of the executor's lock.
ResetCancellable(t) ==
    /\ task[t] = "begun"
    /\ cancelled' = FALSE
    /\ task' = [task EXCEPT ![t] = "working"]
    /\ UNCHANGED <<scheduled, isCancelled, finish, calls, caller>>

\* CancellableSubprocess.call: raises when cancelled, otherwise starts the process.
Call(t) ==
    /\ task[t] = "working" /\ calls[t] < MaxCalls
    /\ task' = [task EXCEPT ![t] = IF cancelled THEN "ending" ELSE "subprocess"]
    /\ calls' = IF cancelled THEN calls ELSE [calls EXCEPT ![t] = @ + 1]
    /\ UNCHANGED <<scheduled, isCancelled, finish, cancelled, caller>>

\* The subprocess ends by itself or because cancel() has terminated it.
SubprocessEnds(t) ==
    /\ task[t] = "subprocess"
    /\ task' = [task EXCEPT ![t] = "working"]
    /\ UNCHANGED <<scheduled, isCancelled, finish, cancelled, calls, caller>>

Return(t) ==
    /\ task[t] = "working"
    /\ task' = [task EXCEPT ![t] = "ending"]
    /\ UNCHANGED <<scheduled, isCancelled, finish, cancelled, calls, caller>>

\* Altered form: the event is set only by tasks that were not cancelled.
EndSilently(t) ==
    /\ task[t] = "ending"
    /\ task' = [task EXCEPT ![t] = "done"]
    /\ scheduled' = None
    /\ finish' = (finish \/ ~isCancelled)
    /\ UNCHANGED <<isCancelled, cancelled, calls, caller>>

\* The finally block of run().
End(t) ==
    /\ task[t] = "ending"
    /\ task' = [task EXCEPT ![t] = "done"]
    /\ scheduled' = None
    /\ finish' = TRUE
    /\ UNCHANGED <<isCancelled, cancelled, calls, caller>>

-----------------------------------------------------------------------------
\* cancel(): nothing to do, or the flag is set.
Cancel(c) ==
    /\ caller[c] = "idle"
    /\ caller' = [caller EXCEPT ![c] = IF scheduled = None THEN "returned" ELSE "flagged"]
    /\ isCancelled' = (isCancelled \/ scheduled # None)
    /\ UNCHANGED <<scheduled, finish, cancelled, task, calls>>

\* CancellableSubprocess.cancel: a running process is terminated, then killed.
Terminate(c) ==
    /\ caller[c] = "flagged"
    /\ caller' = [caller EXCEPT ![c] = "waiting"]
    /\ cancelled' = TRUE
    /\ task' = [t \in Tasks |-> IF task[t] = "subprocess" THEN "working" ELSE task[t]]
    /\ UNCHANGED <<scheduled, isCancelled, finish, calls>>

\* _finish_event.wait()
WaitDone(c) ==
    /\ caller[c] = "waiting" /\ finish
    /\ caller' = [caller EXCEPT ![c] = "woken"]
    /\ UNCHANGED <<scheduled, isCancelled, finish, cancelled, task, calls>>

CancelReturn(c) ==
    /\ caller[c] = "woken"
    /\ caller' = [caller EXCEPT ![c] = "returned"]
    /\ scheduled' = None
    /\ UNCHANGED <<isCancelled, finish, cancelled, task, calls>>

-----------------------------------------------------------------------------
Worker(t) == Begin(t) \/ ResetCancellable(t) \/ Call(t) \/ SubprocessEnds(t) \/ Return(t) \/ End(t)
Canceller(c) == Terminate(c) \/ WaitDone(c) \/ CancelReturn(c)

Next ==
    \/ \E t \in Tasks : Schedule(t) \/ Worker(t)
    \/ \E c \in Callers : Cancel(c) \/ Canceller(c)

Spec == Init /\ [][Next]_vars

\* Threads run; how long a subprocess takes is bounded by the programs started, not by this code.
FairSpec == Spec /\ (\A t \in Tasks : WF_vars(Worker(t))) /\ (\A c \in Callers : WF_vars(Canceller(c)))

-----------------------------------------------------------------------------
\* Type invariant: the flags of the executor and the positions of all threads.
TypeOK ==
    /\ scheduled \in Tasks \union {None}
    /\ isCancelled \in BOOLEAN /\ finish \in BOOLEAN /\ cancelled \in BOOLEAN
    /\ task \in [Tasks -> {"new", "queued", "done"} \union Begun]
    /\ calls \in [Tasks -> 0..MaxCalls]
    /\ caller \in [Callers -> {"idle", "flagged", "waiting", "woken", "returned"}]

(***************************************************************************)
(* "Wait until task is cancelled before returning control to caller": once *)
(* a cancel() that found something to cancel has returned, no task is at   *)
(* work and none will begin its work, a task that was only queued in the   *)
(* thread pool included.                                                   *)
(***************************************************************************)
CancelStops ==
    \A c \in Callers, t \in Tasks :
        caller[c] = "returned" /\ isCancelled => task[t] \notin {"begun", "working", "subprocess"}

(***************************************************************************)
(* "An action can only be scheduled if there is no other action currently  *)
(* scheduled": two tasks are never at work at the same time, and the one   *)
(* at work is the one the HA loop sees in scheduled_action.                *)
(***************************************************************************)
OneAtATime ==
    \A t \in Tasks : task[t] \in {"begun", "working", "subprocess"} => scheduled = t

\* A thread in cancel() always gets out of it, and the executor does not stay busy.
CancelReturns == \A c \in Callers : caller[c] = "flagged" ~> caller[c] = "returned"

(***************************************************************************)
(* A cancellation is not lost: after cancel() has set the flag of the      *)
(* cancellable and terminated what was running, the cancelled task starts  *)
(* no further subprocess while cancel() waits for it.                      *)
(***************************************************************************)
CancelNotLost == \A c \in Callers, t \in Tasks : caller[c] = "waiting" => task[t] # "subprocess"
=============================================================================
