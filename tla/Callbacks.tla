----------------------------- MODULE Callbacks -----------------------------
(***************************************************************************)
(* Callback scripts (patroni/postgresql/callback_executor.py): the threads *)
(* that change the state of PostgreSQL leave a command in a slot, after    *)
(* they have killed the script that runs; one worker thread takes it and   *)
(* runs it.  on_reload scripts have an executor of their own.  A block     *)
(* under one of the locks is one action.                                   *)
(*                                                                         *)
(* A script is its place in the order in which commands are left in the    *)
(* slot.  A script of Undead cannot be killed (another user runs it).      *)
(***************************************************************************)
EXTENDS Naturals, FiniteSets

CONSTANTS CbThreads,   \* threads that call CallbackExecutor.call
          Undead,      \* scripts that cannot be killed
          MaxCommands, \* bound: commands left in the slot
          MaxReloads   \* bound: on_reload scripts

ASSUME CallbackAssumption == Undead \subseteq Nat /\ MaxCommands \in Nat /\ MaxReloads \in Nat

VARIABLES cbCmd,      \* _cmd: the command in the slot, 0 if there is none
          cbLast,     \* number of the last command left there
          cbCaller,   \* where a thread is in call()
          cbWorker,   \* where the worker is
          cbTaken,    \* the command the worker has taken
          cbProc,     \* _process: the script, whether it runs, was killed, has children
          cbCaptured, \* _process_children is not empty
          cbReloads   \* on_reload scripts: how many were called, which of them run

cbVars == <<cbCmd, cbLast, cbCaller, cbWorker, cbTaken, cbProc, cbCaptured, cbReloads>>

CbInit ==
    /\ cbCmd = 0
    /\ cbLast = 0
    /\ cbCaller = [t \in CbThreads |-> "idle"]
    /\ cbWorker = "top"
    /\ cbTaken = 0
    /\ cbProc = [cmd |-> 0, runs |-> FALSE, killed |-> FALSE, children |-> FALSE]
    /\ cbCaptured = FALSE
    /\ cbReloads = [called |-> 0, killed |-> FALSE, run |-> {}]

\* Altered form: the children are looked for after the kill, when there is nobody left to ask.
CbKillFirst(t) ==
    /\ cbCaller[t] = "idle" /\ cbLast + Cardinality({u \in CbThreads : cbCaller[u] = "killed"}) < MaxCommands
    /\ cbCaller' = [cbCaller EXCEPT ![t] = "killed"]
    /\ LET kill == cbProc.runs /\ ~cbCaptured
       IN cbProc' = IF kill /\ cbProc.cmd \notin Undead
                    THEN [cbProc EXCEPT !.runs = FALSE, !.killed = TRUE] ELSE cbProc
    /\ UNCHANGED <<cbCmd, cbLast, cbWorker, cbTaken, cbCaptured, cbReloads>>

\* call(): _kill_process suspends the script, notes its children and kills it.
CbKill(t) ==
    /\ cbCaller[t] = "idle" /\ cbLast + Cardinality({u \in CbThreads : cbCaller[u] = "killed"}) < MaxCommands
    /\ cbCaller' = [cbCaller EXCEPT ![t] = "killed"]
    /\ LET kill == cbProc.runs /\ ~cbCaptured
       IN /\ cbCaptured' = (cbCaptured \/ (kill /\ cbProc.children))
          /\ cbProc' = IF kill /\ cbProc.cmd \notin Undead
                       THEN [cbProc EXCEPT !.runs = FALSE, !.killed = TRUE] ELSE cbProc
    /\ UNCHANGED <<cbCmd, cbLast, cbWorker, cbTaken, cbReloads>>

\* call(): the command replaces the one in the slot; a waiting worker is notified.
CbPut(t) ==
    /\ cbCaller[t] = "killed"
    /\ cbCaller' = [cbCaller EXCEPT ![t] = "idle"]
    /\ cbLast' = cbLast + 1
    /\ cbCmd' = cbLast + 1
    /\ cbWorker' = IF cbWorker = "waiting" THEN "woken" ELSE cbWorker
    /\ UNCHANGED <<cbTaken, cbProc, cbCaptured, cbReloads>>

\* run(): the worker waits for a command and takes it out of the slot.
CbTake ==
    /\ cbWorker \in {"top", "woken"}
    /\ cbWorker' = IF cbCmd = 0 THEN (IF cbWorker = "top" THEN "waiting" ELSE "top") ELSE "start"
    /\ cbTaken' = cbCmd
    /\ cbCmd' = 0
    /\ UNCHANGED <<cbLast, cbCaller, cbProc, cbCaptured, cbReloads>>

\* _start_process; the script may turn out not to be executable.
CbStart ==
    /\ cbWorker = "start"
    /\ cbCaptured' = FALSE
    /\ \/ /\ cbWorker' = "wait"
          /\ cbProc' = [cmd |-> cbTaken, runs |-> TRUE, killed |-> FALSE, children |-> FALSE]
       \/ cbWorker' = "top" /\ UNCHANGED cbProc
    /\ UNCHANGED <<cbCmd, cbLast, cbCaller, cbTaken, cbReloads>>

\* wait() returns.
CbWaited ==
    /\ cbWorker = "wait" /\ ~cbProc.runs
    /\ cbWorker' = "reap"
    /\ UNCHANGED <<cbCmd, cbLast, cbCaller, cbTaken, cbProc, cbCaptured, cbReloads>>

\* _kill_children: the children noted by _kill_process, and only they, are killed and waited for.
CbReap ==
    /\ cbWorker = "reap"
    /\ cbWorker' = "top"
    /\ cbProc' = [cbProc EXCEPT !.children = @ /\ ~cbCaptured]
    /\ UNCHANGED <<cbCmd, cbLast, cbCaller, cbTaken, cbCaptured, cbReloads>>

\* The script starts a process of its own, or ends.
CbScript ==
    /\ cbProc.runs
    /\ \/ cbProc' = [cbProc EXCEPT !.children = TRUE]
       \/ cbProc' = [cbProc EXCEPT !.runs = FALSE]
    /\ UNCHANGED <<cbCmd, cbLast, cbCaller, cbWorker, cbTaken, cbCaptured, cbReloads>>

\* OnReloadExecutor.call_nowait: cancel(kill=True) and _kill_children ...
ReloadKill ==
    /\ ~cbReloads.killed /\ cbReloads.called < MaxReloads
    /\ cbReloads' = [cbReloads EXCEPT !.killed = TRUE, !.run = @ \intersect Undead]
    /\ UNCHANGED <<cbCmd, cbLast, cbCaller, cbWorker, cbTaken, cbProc, cbCaptured>>

\* ... then the new script is started.
ReloadStart ==
    /\ cbReloads.killed
    /\ cbReloads' = [called |-> cbReloads.called + 1, killed |-> FALSE,
                     run |-> cbReloads.run \union {cbReloads.called + 1}]
    /\ UNCHANGED <<cbCmd, cbLast, cbCaller, cbWorker, cbTaken, cbProc, cbCaptured>>

ReloadEnds ==
    /\ \E r \in cbReloads.run : cbReloads' = [cbReloads EXCEPT !.run = @ \ {r}]
    /\ UNCHANGED <<cbCmd, cbLast, cbCaller, cbWorker, cbTaken, cbProc, cbCaptured>>

-----------------------------------------------------------------------------
CbWork == CbTake \/ CbStart \/ CbWaited \/ CbReap

CbNext ==
    \/ \E t \in CbThreads : CbKill(t) \/ CbPut(t)
    \/ CbWork \/ CbScript
    \/ ReloadKill \/ ReloadStart \/ ReloadEnds

CbSpec == CbInit /\ [][CbNext]_cbVars

-----------------------------------------------------------------------------
(***************************************************************************)
(* When a callback starts, no process of a callback that was killed is     *)
(* left: "Already running command is killed (including child processes)".  *)
(***************************************************************************)
NoLeftovers ==
    [][cbProc'.cmd # cbProc.cmd => ~cbProc.runs /\ ~(cbProc.killed /\ cbProc.children)]_cbVars

(***************************************************************************)
(* Callbacks start in the order of the state changes they report, each at  *)
(* most once, and a command is dropped only for a later one: whoever runs  *)
(* last tells the latest state.                                            *)
(***************************************************************************)
StartedInOrder ==
    [][cbWorker = "start" /\ cbWorker' = "wait" => cbProc'.cmd > cbProc.cmd]_cbVars

\* At most one on_reload script runs, but for those that cannot be killed.
OneReload == Cardinality(cbReloads.run \ Undead) <= 1

\* A command left in the slot gets to the worker: no notification is lost (scripts come to an end).
CommandTaken == []<>(cbCmd = 0)
=============================================================================
