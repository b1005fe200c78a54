----------------------------- MODULE Patronictl -----------------------------
(***************************************************************************)
(* One patronictl (patroni/ctl.py) that runs one command after another     *)
(* against a cluster whose nodes crash, come back and fail over meanwhile: *)
(* pause and resume with --wait, failover and switchover with their fall   *)
(* back to the DCS, reinit with --wait, demote-cluster and                 *)
(* promote-cluster.  A command reads the cluster once; its requests may be *)
(* refused, or handled with the answer lost.                               *)
(*                                                                         *)
(* The HA loop is reduced to what the commands wait for: it reads /config, *)
(* publishes the member key, gives the lock up for a request and takes a   *)
(* free one.                                                               *)
(***************************************************************************)
EXTENDS Naturals, Sequences, SequencesExt

CONSTANTS CtNodes, CtNobody,
          CtFirst,                \* the leader in the beginning
          MaxCtCommands,          \* bound: commands
          MaxCtEvents             \* bound: crashes, slow loops, lost answers

ASSUME CtAssumption == CtNobody \notin CtNodes /\ CtFirst \in CtNodes

VARIABLES ctConf,     \* /config: [pause, standby]
          ctLock,     \* /leader
          ctKey,      \* /failover: [leader, cand], NoKeyValue if there is none
          ctPub,      \* member keys: [there, pause, role, state, changed], changed since patronictl read the cluster
          ctNode,     \* nodes: [up, slow, busy (in a cycle), view (of /config), role, state, job]
          ctRan,      \* the nodes that ran a cycle since patronictl began to wait
          ctCmd,      \* patronictl
          ctSteps,    \* how often a leader stepped down for what the command asks
          ctMoved,    \* the lock was lost otherwise, or taken by another node than the command asks for
          ctCommands, ctEvents

ctVars == <<ctConf, ctLock, ctKey, ctPub, ctNode, ctRan, ctCmd, ctSteps, ctMoved, ctCommands, ctEvents>>
ctDcs == <<ctConf, ctLock, ctKey, ctPub>>
ctCount == <<ctCommands, ctEvents>>

NoKeyValue == [leader |-> CtNobody, cand |-> CtNobody]
NoCommand == [cmd |-> "none", at |-> "done", ok |-> FALSE, on |-> FALSE, leader |-> CtNobody, cand |-> CtNobody,
              todo |-> {}, old |-> {}, wait |-> <<>>, i |-> 1]

\* In the beginning one replica may still be created.
CtInit ==
    \E pause, standby \in BOOLEAN, new \in CtNodes \union {CtNobody} :
        /\ new # CtFirst
        /\ ctConf = [pause |-> pause, standby |-> standby] /\ ctLock = CtFirst /\ ctKey = NoKeyValue
        /\ LET state(n) == IF n = new THEN "creating" ELSE "running"
               role(n) == IF n # CtFirst THEN "replica" ELSE IF standby THEN "standby_leader" ELSE "primary"
           IN  /\ ctNode = [n \in CtNodes |-> [up |-> TRUE, slow |-> FALSE, busy |-> FALSE, view |-> ctConf, state |-> state(n),
                                               role |-> role(n), job |-> IF n = new THEN "bootstrap" ELSE "none"]]
               /\ ctPub = [n \in CtNodes |-> [there |-> TRUE, pause |-> pause, state |-> state(n), role |-> role(n),
                                              changed |-> FALSE]]
        /\ ctRan = {} /\ ctCmd = NoCommand /\ ctSteps = 0 /\ ctMoved = FALSE /\ ctCommands = 0 /\ ctEvents = 0

\* What the command asks for.
CtRequest == [leader |-> ctCmd.leader, cand |-> ctCmd.cand]

CtAt(cmds, at) == ctCmd.cmd \in cmds /\ ctCmd.at = at
CtEvent == ctEvents < MaxCtEvents /\ ctEvents' = ctEvents + 1

-----------------------------------------------------------------------------
(***************************************************************************)
(* The nodes.                                                              *)
(***************************************************************************)

\* fetch_node_status: a node tells its WAL position while its server runs
Reports(m) == ctNode[m].up /\ ctNode[m].state = "running"

\* Altered form: the leader named by the request is not compared.
StepsDownAnyway(n) == ctKey # NoKeyValue /\ ctKey.cand # n /\ \E m \in CtNodes \ {n} : Reports(m)

\* process_manual_failover_from_leader: the request is for this leader, somebody can take over, and in a paused cluster
\* it is a specific candidate and the leader is a primary
StepsDown(n) ==
    /\ ctKey # NoKeyValue /\ ctKey.leader \in {CtNobody, n} /\ ctKey.cand # n
    /\ ctNode[n].view.pause => ctKey.cand # CtNobody /\ ctNode[n].role = "primary"
    /\ \E m \in CtNodes \ {n} : Reports(m) /\ ctKey.cand \in {CtNobody, m}

\* manual_failover_process_no_leader: the candidate, and if it does not report (never in a paused cluster) anybody but the
\* former leader, or that one if nobody else reports
MayTakeByRequest(n) ==
    \/ ctKey.cand = n
    \/ /\ ~ctNode[n].view.pause /\ (ctKey.cand # CtNobody => ~Reports(ctKey.cand))
       /\ n # ctKey.leader \/ \A m \in CtNodes \ {n, ctKey.cand} : ~Reports(m)

\* is_healthiest_node: the node may take the free lock once its server runs
MayTake(n) == Reports(n) /\ IF ctKey # NoKeyValue THEN MayTakeByRequest(n) ELSE ~ctNode[n].view.pause

LeaderRole(n) == IF ctNode[n].view.standby THEN "standby_leader" ELSE "primary"

\* touch_member: the version of the key changes with the value
Published(n) ==
    LET p == [there |-> TRUE, pause |-> ctNode[n].view.pause, role |-> ctNode[n].role, state |-> ctNode[n].state, changed |-> TRUE]
    IN  [ctPub EXCEPT ![n] = IF [@ EXCEPT !.changed = TRUE] = p THEN @ ELSE p]

\* An HA cycle reads /config.
CtLoad(n) ==
    /\ ctNode[n].up /\ ~ctNode[n].slow /\ ~ctNode[n].busy
    /\ ctNode' = [ctNode EXCEPT ![n].busy = TRUE, ![n].view = ctConf]
    /\ ctRan' = IF CtAt({"pause"}, "wait") THEN ctRan \union {n} ELSE {}
    /\ UNCHANGED <<ctDcs, ctCmd, ctSteps, ctMoved, ctCount>>

\* It writes the member key, then does what the role asks for.
CtCycle(n) ==
    /\ ctNode[n].up /\ ~ctNode[n].slow /\ ctNode[n].busy
    /\ ctPub' = Published(n)
    /\ LET to(role) == ctNode' = [ctNode EXCEPT ![n].busy = FALSE, ![n].role = role,
                                                ![n].state = IF ctNode[n].role = "primary" /\ role # "primary" THEN "starting" ELSE @]
           stays == UNCHANGED <<ctLock, ctKey, ctSteps, ctMoved>>
       IN  \/ ctNode[n].job # "none" /\ to(ctNode[n].role) /\ stays
           \/ /\ ctNode[n].job = "none" /\ ctLock = n
              /\ IF StepsDown(n)
                 THEN /\ ctLock' = CtNobody /\ to("replica") /\ UNCHANGED <<ctKey, ctMoved>>
                      /\ ctSteps' = IF ctKey = CtRequest /\ ctSteps < 2 THEN ctSteps + 1 ELSE ctSteps
                 ELSE /\ ctKey' = IF ctNode[n].view.pause /\ ctNode[n].role # "primary" THEN ctKey ELSE NoKeyValue
                      /\ to(LeaderRole(n)) /\ UNCHANGED <<ctLock, ctSteps, ctMoved>>
           \/ /\ ctNode[n].job = "none" /\ ctLock = CtNobody
              /\ IF MayTake(n)
                 THEN /\ ctLock' = n /\ ctKey' = NoKeyValue /\ to(LeaderRole(n)) /\ UNCHANGED ctSteps
                      /\ ctMoved' = (ctMoved \/ n = ctKey.leader \/ ctKey.cand \notin {CtNobody, n})
                 ELSE to("replica") /\ stays
           \/ ctNode[n].job = "none" /\ ctLock \notin {n, CtNobody} /\ to("replica") /\ stays
    /\ UNCHANGED <<ctConf, ctRan, ctCmd, ctCount>>

\* _do_reinitialize and the start of a server, one state after another
JobNext == [stopping |-> "creating", creating |-> "starting", starting |-> "running"]

CtJob(n) ==
    /\ ctNode[n].up /\ ctNode[n].state # "running"
    /\ LET s == JobNext[ctNode[n].state]
       IN  ctNode' = [ctNode EXCEPT ![n].state = s, ![n].job = IF s = "running" THEN "none" ELSE @]
    /\ UNCHANGED <<ctDcs, ctRan, ctCmd, ctSteps, ctMoved, ctCount>>

CtCrash(n) ==
    /\ ctNode[n].up /\ CtEvent
    /\ ctNode' = [ctNode EXCEPT ![n] = [@ EXCEPT !.up = FALSE, !.slow = FALSE, !.busy = FALSE, !.job = "none", !.state = "running", !.role = "replica"]]
    /\ UNCHANGED <<ctDcs, ctRan, ctCmd, ctSteps, ctMoved, ctCommands>>

\* The keys of a node that is down expire.
CtExpires(n) ==
    /\ ~ctNode[n].up /\ (ctPub[n].there \/ ctLock = n)
    /\ ctPub' = [ctPub EXCEPT ![n].there = FALSE]
    /\ ctLock' = IF ctLock = n THEN CtNobody ELSE ctLock
    /\ ctMoved' = (ctMoved \/ (ctLock = n /\ ctCmd.cmd \in {"switchover", "failover"}))
    /\ UNCHANGED <<ctConf, ctKey, ctNode, ctRan, ctCmd, ctSteps, ctCount>>

CtRestart(n) ==
    /\ ~ctNode[n].up
    /\ ctNode' = [ctNode EXCEPT ![n].up = TRUE]
    /\ UNCHANGED <<ctDcs, ctRan, ctCmd, ctSteps, ctMoved, ctCount>>

\* A cycle takes longer than loop_wait, and ends.
CtSlow(n) ==
    /\ ctNode[n].up
    /\ IF ctNode[n].slow THEN UNCHANGED ctEvents ELSE CtEvent
    /\ ctNode' = [ctNode EXCEPT ![n].slow = ~@]
    /\ UNCHANGED <<ctDcs, ctRan, ctCmd, ctSteps, ctMoved, ctCommands>>

-----------------------------------------------------------------------------
(***************************************************************************)
(* patronictl.                                                             *)
(***************************************************************************)
CtGoes(c) == ctCmd' = c /\ UNCHANGED <<ctNode, ctSteps, ctMoved, ctCount>>

\* get_all_members: ANY, and those that are not the leader (REPLICA)
Members == {n \in CtNodes : ctPub[n].there}
Replicas == Members \ {ctLock}

\* A command has read the cluster and got past its checks; old: the members at that time.
CtBegin(cmd, on, leader, cand, todo) ==
    /\ ctCmd.at = "done" /\ ctCommands < MaxCtCommands /\ ctCommands' = ctCommands + 1
    /\ ctCmd' = [cmd |-> cmd, at |-> "ask", ok |-> FALSE, on |-> on, leader |-> leader, cand |-> cand,
                 todo |-> todo, old |-> Members, wait |-> <<>>, i |-> 1]
    /\ ctPub' = [n \in CtNodes |-> [ctPub[n] EXCEPT !.changed = FALSE]]
    /\ ctSteps' = 0 /\ ctMoved' = FALSE
    /\ UNCHANGED <<ctConf, ctLock, ctKey, ctNode, ctRan, ctEvents>>

DoTogglePause(paused) == Members # {} /\ ctConf.pause # paused /\ CtBegin("pause", paused, ctLock, CtNobody, Members)
CtPause == DoTogglePause(TRUE)
CtResume == DoTogglePause(FALSE)

\* change_cluster_role: there is a leader and it has not the target role yet
ChangeClusterRole(demote) ==
    /\ ctLock # CtNobody /\ ctPub[ctLock].role # (IF demote THEN "standby_leader" ELSE "primary")
    /\ CtBegin("role", demote, ctLock, CtNobody, {ctLock})
DemoteCluster == ChangeClusterRole(TRUE)
PromoteCluster == ChangeClusterRole(FALSE)

(***************************************************************************)
(* A switchover names the leader, a failover the candidate, which is a     *)
(* member other than the leader.  The request goes to the leader, or to    *)
(* the candidate if there is none.                                         *)
(***************************************************************************)
DoFailoverOrSwitchover(action, leader, cand) ==
    /\ action = "switchover" => leader # CtNobody /\ leader = ctLock
    /\ Replicas # {} /\ cand \in Replicas \union {CtNobody}
    /\ action = "failover" => cand # CtNobody
    /\ CtBegin(action, FALSE, leader, cand, {IF ctLock # CtNobody THEN ctLock ELSE cand})
CtSwitchover == \E cand \in CtNodes \union {CtNobody} : DoFailoverOrSwitchover("switchover", ctLock, cand)
CtFailover == \E cand \in CtNodes : DoFailoverOrSwitchover("failover", CtNobody, cand)

\* reinit: get_members with the role REPLICA leaves those of the named members that are no leader, at least one.
Reinit == \E S \in SUBSET Replicas, force \in BOOLEAN : S # {} /\ CtBegin("reinit", force, CtNobody, CtNobody, S)

CtStart == CtPause \/ CtResume \/ DemoteCluster \/ PromoteCluster \/ CtSwitchover \/ CtFailover \/ Reinit

\* get_all_members_leader_first
First == IF ctCmd.leader \in ctCmd.todo THEN ctCmd.leader ELSE CHOOSE n \in ctCmd.todo : TRUE

\* do_PATCH_config: 200, or 409 if the value could not be written
PatchedConfig(ok) ==
    /\ ctConf' = IF ~ok THEN ctConf
                 ELSE IF ctCmd.cmd = "pause" THEN [ctConf EXCEPT !.pause = ctCmd.on]
                 ELSE [ctConf EXCEPT !.standby = ctCmd.on]
    /\ UNCHANGED <<ctLock, ctKey, ctPub, ctNode>>

\* is_failover_possible of the REST API
PossibleNow ==
    /\ ctCmd.leader \in {CtNobody, ctLock}
    /\ \E m \in Members : Reports(m) /\ IF ctCmd.cand = CtNobody THEN m # ctLock ELSE m = ctCmd.cand

\* do_POST_failover: in a paused cluster only to a specific candidate
PostedFailover(ok) ==
    /\ ok = (PossibleNow /\ (ctConf.pause => ctCmd.cand # CtNobody))
    /\ ctKey' = IF ok THEN CtRequest ELSE ctKey
    /\ UNCHANGED <<ctConf, ctLock, ctPub, ctNode>>

\* `force` of the request: given on the command line, or confirmed when the node answered that a job is in progress
Forced == ctCmd.on \/ ctCmd.at = "again"

\* do_POST_reinitialize and Ha.reinitialize: never without a leader or on it; a running job is an answer, or cancelled by force.
PostedReinitialize(n, ok) ==
    /\ ok = (ctLock \notin {n, CtNobody} /\ (ctNode[n].job = "none" \/ Forced))
    /\ ctNode' = IF ok THEN [ctNode EXCEPT ![n].job = "reinit", ![n].state = "stopping"] ELSE ctNode
    /\ UNCHANGED ctDcs

\* What the request does on the node, TRUE for success.
CtHandles(n, ok) ==
    CASE ctCmd.cmd \in {"pause", "role"} -> PatchedConfig(ok)
      [] ctCmd.cmd \in {"switchover", "failover"} -> PostedFailover(ok)
      [] OTHER -> PostedReinitialize(n, ok)

\* ' already in progress': the user is asked whether to cancel it.
InProgress(n) == ctLock \notin {n, CtNobody} /\ ctNode[n].job # "none" /\ ~Forced

\* What the answer to the request of node n leads to.
Answers(n, ok) ==
    CASE ctCmd.cmd = "reinit" ->
            LET left == ctCmd.todo \ {n}
                wait == IF ok THEN Append(ctCmd.wait, n) ELSE ctCmd.wait
            IN  [ctCmd EXCEPT !.todo = left, !.wait = wait, !.at = IF left # {} THEN "ask" ELSE IF wait = <<>> THEN "done" ELSE "wait"]
      [] ctCmd.cmd \in {"pause", "role"} -> [ctCmd EXCEPT !.at = IF ok THEN "wait" ELSE "done", !.todo = {}]
      [] OTHER -> [ctCmd EXCEPT !.at = "done", !.ok = ok, !.todo = {}]

\* A request is to be sent.
Asking == ctCmd.at \in {"ask", "again"} /\ ctCmd.todo # {}

\* request_patroni: handled and answered
CtAsk ==
    /\ Asking
    /\ LET n == First
       IN  \E ok \in BOOLEAN :
              /\ ctNode[n].up /\ CtHandles(n, ok)
              /\ \/ ctCmd' = Answers(n, ok)
                 \/ ctCmd.cmd = "reinit" /\ InProgress(n) /\ ctCmd' = [ctCmd EXCEPT !.at = "again"]
    /\ ctRan' = {}
    /\ UNCHANGED <<ctSteps, ctMoved, ctCount>>

\* What an exception leads to.
LostAnswer(n) ==
    CASE ctCmd.cmd = "pause" -> [ctCmd EXCEPT !.todo = @ \ {n}, !.at = IF ctCmd.todo = {n} THEN "done" ELSE "ask"]
      [] ctCmd.cmd \in {"switchover", "failover"} -> [ctCmd EXCEPT !.todo = {}, !.at = "dcs"]
      [] OTHER -> [ctCmd EXCEPT !.todo = {}, !.at = "done"]

\* request_patroni raises: the node is down, or the answer is lost
CtAskFails ==
    /\ Asking
    /\ LET n == First
       IN  /\ ctCmd' = LostAnswer(n)
           /\ IF ctNode[n].up
              THEN CtEvent /\ ((\E ok \in BOOLEAN : CtHandles(n, ok)) \/ UNCHANGED <<ctDcs, ctNode>>)
              ELSE UNCHANGED <<ctDcs, ctNode, ctEvents>>
    /\ UNCHANGED <<ctRan, ctSteps, ctMoved, ctCommands>>

\* Falling back to DCS
CtFallBack ==
    /\ CtAt({"switchover", "failover"}, "dcs")
    /\ ctKey' = CtRequest
    /\ CtGoes([ctCmd EXCEPT !.at = "done", !.ok = TRUE])
    /\ UNCHANGED <<ctConf, ctLock, ctPub, ctRan>>

CtShown(n) == ctPub[n].there /\ n \in ctCmd.old => ctPub[n].pause = ctCmd.on

\* wait_until_pause_is_applied: all of them show it
Recognized == \A n \in CtNodes : CtShown(n)

\* The time is up: the members that changed and do not show it are named.
Remaining1 == {n \in CtNodes : ctPub[n].there /\ ~CtShown(n) /\ ctPub[n].changed}

CtPauseWait ==
    /\ CtAt({"pause"}, "wait")
    /\ \/ Recognized /\ CtGoes([ctCmd EXCEPT !.at = "done", !.ok = TRUE])
       \/ /\ ~Recognized /\ \A n \in CtNodes : ctNode[n].up /\ ~ctNode[n].slow => n \in ctRan /\ ~ctNode[n].busy
          /\ CtGoes([ctCmd EXCEPT !.at = "done", !.ok = Remaining1 = {}])
    /\ UNCHANGED <<ctDcs, ctRan>>

\* change_cluster_role: the leader has the role, and after a demotion the former leader runs as well
RoleChanged ==
    /\ ctLock # CtNobody /\ ctPub[ctLock].there
    /\ ctPub[ctLock].role = (IF ctCmd.on THEN "standby_leader" ELSE "primary") /\ ctPub[ctLock].state = "running"
    /\ ctCmd.on => ctPub[ctCmd.leader].there /\ ctPub[ctCmd.leader].state = "running"

CtRoleWait ==
    /\ CtAt({"role"}, "wait") /\ RoleChanged
    /\ CtGoes([ctCmd EXCEPT !.at = "done", !.ok = TRUE])
    /\ UNCHANGED <<ctDcs, ctRan>>

\* One turn of `for member in wait_on_members`: a member that is done is removed, so the next one is skipped.
ReinitStep(done) ==
    LET c == IF done THEN [ctCmd EXCEPT !.wait = RemoveAt(@, ctCmd.i)] ELSE ctCmd
    IN  IF c.wait = <<>> THEN [c EXCEPT !.at = "done", !.ok = TRUE, !.i = 1]
        ELSE [c EXCEPT !.i = IF ctCmd.i + 1 > Len(c.wait) THEN 1 ELSE ctCmd.i + 1]

CtReinitWait ==
    /\ CtAt({"reinit"}, "wait")
    /\ LET n == ctCmd.wait[ctCmd.i]
       IN  IF ctNode[n].up THEN CtGoes(ReinitStep(ctNode[n].state # "creating"))
           ELSE CtGoes([ctCmd EXCEPT !.at = "done"])
    /\ UNCHANGED <<ctDcs, ctRan>>

CtTool == CtAsk \/ CtAskFails \/ CtFallBack \/ CtPauseWait \/ CtRoleWait \/ CtReinitWait

CtNext ==
    \/ CtStart \/ CtTool
    \/ \E n \in CtNodes : CtLoad(n) \/ CtCycle(n) \/ CtJob(n) \/ CtCrash(n) \/ CtExpires(n) \/ CtRestart(n) \/ CtSlow(n)

\* patronictl goes on; the HA loops run and their slow cycles end; jobs end; nodes are restarted.
CtFairness ==
    /\ WF_ctVars(CtTool)
    /\ \A n \in CtNodes : /\ WF_ctVars(CtLoad(n) \/ CtCycle(n)) /\ WF_ctVars(CtJob(n)) /\ WF_ctVars(CtRestart(n))
                          /\ WF_ctVars(CtSlow(n) /\ ctNode[n].slow)

CtSpec == CtInit /\ [][CtNext]_ctVars /\ CtFairness

-----------------------------------------------------------------------------
\* Type invariant.
CtTypeOK ==
    /\ ctLock \in CtNodes \union {CtNobody} /\ ctRan \subseteq CtNodes
    /\ ctCmd.cmd \in {"none", "pause", "role", "switchover", "failover", "reinit"}
    /\ ctCmd.at \in {"ask", "again", "dcs", "wait", "done"}
    /\ \A n \in CtNodes : /\ ctNode[n].role \in {"primary", "standby_leader", "replica"}
                          /\ ctNode[n].state \in {"running", "stopping", "creating", "starting"}

CtEnds == ctCmd.at # "done" /\ ctCmd'.at = "done"

\* `pause --wait` and `resume --wait` report success only if no registered node whose loop keeps its pace still acts on
\* the former value.
PauseApplied ==
    [][CtEnds /\ ctCmd.cmd = "pause" /\ ctCmd'.ok =>
          \A n \in CtNodes : ctNode[n].up /\ ~ctNode[n].slow /\ ctNode[n].busy /\ ctPub[n].there /\ n \in ctCmd.old => ctNode[n].view.pause = ctCmd.on]_ctVars

\* A failover or switchover makes a leader step down at most once, also if the answer of the REST API is lost and the
\* request is written to the DCS again, unless the lock was lost otherwise or the candidate did not take it.
SwitchoverOnce == ctCmd.cmd \in {"switchover", "failover"} /\ ~ctMoved => ctSteps <= 1

\* `demote-cluster` reports success only when no node is a primary.
DemotedReported ==
    [][CtEnds /\ ctCmd.cmd = "role" /\ ctCmd.on /\ ctCmd'.ok => \A n \in CtNodes : ctNode[n].role # "primary"]_ctVars

\* `reinit --wait` reports a member when its reinitialization is over.
ReinitWaited ==
    [][CtAt({"reinit"}, "wait") /\ Len(ctCmd'.wait) < Len(ctCmd.wait) => ctNode[ctCmd.wait[ctCmd.i]].job = "none"]_ctVars

\* Every command ends, however the cluster changes meanwhile, unless it waits for the leader of a paused cluster that has none.
CommandsEnd == []<>(ctCmd.at = "done" \/ (ctConf.pause /\ ctLock = CtNobody))
=============================================================================
