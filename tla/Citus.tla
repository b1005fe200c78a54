-------------------------------- MODULE Citus --------------------------------
(* The metadata of a Citus worker group on the coordinator
   (patroni/postgresql/mpp/citus.py).  pg_dist_node holds a row per registered
   node.  A thread of the coordinator changes it from tasks: a task is the
   topology of a group, made either by a REST call of the worker that is about
   to be demoted or was promoted, or by the coordinator's HA loop from its view
   of the DCS.  A switchover is one transaction that is opened by the first of
   these calls and committed by the last; it pauses the clients meanwhile.

   A group maps every host to its role ("none": not registered) and the id of
   its row (0: not known). *)
EXTENDS Integers, Sequences, FiniteSets, FiniteSetsExt, SequencesExt

CONSTANTS Hosts,        \* the nodes of the worker group
          Unbalanced,   \* the members with the tag noloadbalance
          MaxRows,      \* bound: ids of rows of pg_dist_node
          MaxCiEvents   \* bound: switchovers, failures, members that go or come

VARIABLES
  ciRows,     \* pg_dist_node as committed: id -> [host, paused, primary]
  ciTrans,    \* the rows inside the open transaction, or <<>> when there is none
  ciCache,    \* _pg_dist_group[group]
  ciLoad,     \* _schedule_load_pg_dist_group
  ciTask,     \* the task of the group in _tasks, or NoTask
  ciFlight,   \* _in_flight, or NoTask
  ciLate,     \* the deadline of the transaction has passed
  ciWork,     \* the task the thread is working on, and whether it is still in _tasks
  ciAt,       \* where the thread is: "run", "wait", "pick", "work"
  ciWorker,   \* the worker group in the DCS: [leader, ready, up]
  ciView,     \* the view of the HA loop of the coordinator
  ciCall,     \* the REST call on its way, [type, leader]
  ciEvents

ciVars == <<ciRows, ciTrans, ciCache, ciLoad, ciTask, ciFlight, ciLate, ciWork, ciAt, ciWorker, ciView, ciCall, ciEvents>>
ciTable == <<ciRows, ciTrans>>
ciThread == <<ciCache, ciLoad, ciFlight, ciWork, ciAt>>
ciOutside == <<ciWorker, ciView, ciCall, ciEvents>>

Ids == 1..MaxRows
NoHost == 0
NoRow == [host |-> NoHost, paused |-> FALSE, primary |-> FALSE]
Gone == [role |-> "none", id |-> 0]
NoGroup == [h \in Hosts |-> Gone]
NoTask == [event |-> "none", rest |-> FALSE, failover |-> FALSE, group |-> NoGroup]
NoCall == [type |-> "none", leader |-> NoHost]
NoWork == [task |-> NoTask, same |-> FALSE]

CiInit ==
  /\ ciRows = [i \in Ids |-> NoRow] /\ ciTrans = <<>>
  /\ ciCache = NoTask /\ ciLoad = TRUE /\ ciTask = NoTask /\ ciFlight = NoTask /\ ciLate = FALSE
  /\ ciWork = NoWork /\ ciAt = "run"
  /\ ciWorker \in [leader : Hosts, ready : {TRUE}, up : {Hosts}]
  /\ ciView = ciWorker /\ ciCall = NoCall /\ ciEvents = 0

CiEvent == ciEvents < MaxCiEvents /\ ciEvents' = ciEvents + 1

(***************************************************************************)
(* PgDistGroup.transition                                                  *)
(***************************************************************************)
Registered(g) == {h \in Hosts : g[h].role # "none"}
IsPrimary(g, h) == g[h].role \in {"primary", "demoted"}
Primary(g) == IF \E h \in Hosts : IsPrimary(g, h) THEN CHOOSE h \in Hosts : IsPrimary(g, h) ELSE NoHost
Op(h, node) == [host |-> h, role |-> node.role, id |-> node.id]
Pop(set) == Min(set)

(* A step of transition: the nodes to write so far, the topology as it is
   changed on the way, the old one as it is changed, and what is left of the
   gone and the added nodes. *)
Begin(new, old) ==
  LET np == Primary(new) op == Primary(old)
  IN  [ops |-> <<>>, new |-> new, old |-> old, failover |-> FALSE,
       gone |-> Registered(old) \ (Registered(new) \union {op}), added |-> Registered(new) \ (Registered(old) \union {np})]

(* Mutant: the primary's row is not freed of the name first. *)
PromotedTakesNoRename(s, np, op) ==
  LET back == [s.new EXCEPT ![op] = [role |-> "secondary", id |-> s.old[np].id]]
  IN  [s EXCEPT !.new = back, !.ops = s.ops \o <<Op(op, back[op])>>]

(* The new primary has a row as a secondary: that row goes to an added node, or
   to the old primary, whose own row is renamed first. *)
PromotedRegistered(s, np, op) ==
  LET row == s.old[np].id
      stays == op \in Registered(s.new)
  IN  IF ~stays /\ s.added # {}
      THEN LET a == Pop(s.added)
               new == [s.new EXCEPT ![a].id = row]
           IN  [s EXCEPT !.new = new, !.old[op].role = "secondary", !.added = s.added \ {a},
                         !.ops = s.ops \o <<Op(a, new[a])>>]
      ELSE LET old == IF s.old[op].role = "primary" THEN [s.old EXCEPT ![op].role = "demoted"] ELSE s.old
               rename == IF s.old[op].role = "primary" THEN <<Op(op, old[op])>> ELSE <<>>
               back == [s.new EXCEPT ![op] = [role |-> IF stays THEN @.role ELSE s.old[np].role, id |-> row]]
           IN  [s EXCEPT !.new = back, !.old = old, !.ops = s.ops \o rename \o <<Op(op, back[op])>>]

(* The new primary had no row: a row of a gone secondary goes to the old
   primary, when it stays or clients were paused for it. *)
PromotedUnknown(s, op) ==
  LET keep == op \in Registered(s.new) \/ (s.old[op].role = "demoted" /\ Cardinality(s.gone) > Cardinality(s.added))
      g == Pop(s.gone)
      back == [s.new EXCEPT ![op] = [role |-> "secondary", id |-> s.old[g].id]]
  IN  IF s.gone = {} \/ ~keep THEN s
      ELSE [s EXCEPT !.new = back, !.gone = s.gone \ {g}, !.ops = s.ops \o <<Op(op, back[op])>>]

(* The primary stays: its row is written when it is paused or resumed. *)
SamePrimary(s, np) ==
  LET new == [s.new EXCEPT ![np].id = s.old[np].id]
  IN  IF s.old[np].role = s.new[np].role THEN [s EXCEPT !.new = new]
      ELSE [s EXCEPT !.new = new, !.failover = TRUE, !.ops = <<Op(np, new[np])>>]

TransitPrimary(s) ==
  LET np == Primary(s.new) op == Primary(s.old)
      known == np \in Registered(s.old)
      written(t) == LET new == [t.new EXCEPT ![np].id = t.old[op].id]
                    IN  [t EXCEPT !.new = new, !.failover = TRUE, !.ops = t.ops \o <<Op(np, new[np])>>]
  IN  CASE op = NoHost -> [s EXCEPT !.ops = <<Op(np, s.new[np])>>]
        [] op = np -> SamePrimary(s, np)
        [] op \notin {NoHost, np} /\ known -> written(PromotedRegistered(s, np, op))
        [] op \notin {NoHost, np} /\ ~known -> PromotedUnknown(written(s), op)

(* Standbys that stay keep their rows; rows of gone ones go to added ones. *)
TransitStandbys(s) ==
  LET kept == [h \in Hosts |-> IF s.new[h].role = "secondary" /\ s.new[h].id = 0 /\ s.old[h].role = "secondary"
                               THEN [s.new[h] EXCEPT !.id = s.old[h].id] ELSE s.new[h]]
      as == SetToSeq(s.added) gs == SetToSeq(s.gone)
      n == Min({Len(as), Len(gs)})
      place(h) == CHOOSE i \in 1..n : as[i] = h
      reused == [h \in Hosts |-> IF \E i \in 1..n : as[i] = h THEN [kept[h] EXCEPT !.id = s.old[gs[place(h)]].id] ELSE kept[h]]
  IN  [s EXCEPT !.new = reused, !.gone = {gs[i] : i \in (n + 1)..Len(gs)}, !.added = {as[i] : i \in (n + 1)..Len(as)},
                !.ops = s.ops \o [i \in 1..n |-> Op(as[i], reused[as[i]])]]

(* What is left is removed and added, unless the primary was changed: then the
   gone ones stay in the topology and the added ones leave it. *)
TransitLeft(s) ==
  IF s.failover
  THEN [s EXCEPT !.new = [h \in Hosts |-> IF h \in s.gone THEN s.old[h] ELSE IF h \in s.added THEN Gone ELSE s.new[h]]]
  ELSE [s EXCEPT !.ops = s.ops \o SetToSeq({[host |-> h, role |-> "", id |-> s.old[h].id] : h \in s.gone})
                               \o SetToSeq({Op(h, s.new[h]) : h \in s.added})]

(* failover is inherited from the topology the transaction has reached. *)
Transition(new, old) ==
  LET primary == TransitPrimary(Begin(new, old.group))
  IN  TransitLeft(TransitStandbys([primary EXCEPT !.failover = @ \/ old.failover]))

(***************************************************************************)
(* pg_dist_node: the rules of Citus                                        *)
(***************************************************************************)
(* citus_update_node, citus_add_node and citus_remove_node on the rows; a name
   is unique, and rows come and go only while the primary's row is untouched.
   An id is given out again once nothing remembers it. *)
Applied(t, op) ==
  LET paused == op.role = "demoted"
      free == {i \in Ids : t.rows[i] = NoRow}
      taken == \E i \in Ids : i # op.id /\ t.rows[i].host = op.host /\ t.rows[i].paused = paused
  IN  CASE ~t.ok -> t
        [] t.ok /\ op.role = "" ->
             [t EXCEPT !.rows = [i \in Ids |-> IF t.rows[i].host = op.host THEN NoRow ELSE t.rows[i]], !.ok = ~t.moved]
        [] t.ok /\ op.role # "" /\ op.id # 0 ->
             [t EXCEPT !.rows[op.id].host = op.host, !.rows[op.id].paused = paused,
                       !.ok = ~taken, !.moved = t.moved \/ t.rows[op.id].primary]
        [] t.ok /\ op.role # "" /\ op.id = 0 ->
             IF op.role = "demoted" THEN t
             ELSE IF taken \/ t.moved \/ free = {} THEN [t EXCEPT !.ok = FALSE]
             ELSE [t EXCEPT !.rows[Min(free)] = [host |-> op.host, paused |-> FALSE, primary |-> op.role = "primary"],
                            !.new[op.host].id = Min(free)]

RowsNow == IF ciTrans = <<>> THEN ciRows ELSE ciTrans
Executed(result, old) ==
  FoldLeft(Applied, [rows |-> RowsNow, new |-> result.new, ok |-> TRUE, moved |-> old.failover], result.ops)

(***************************************************************************)
(* Tasks                                                                   *)
(***************************************************************************)
(* add_task: the topology of the group as the caller sees it. *)
Topology(event, worker) ==
  [h \in Hosts |-> CASE h = worker.leader -> [role |-> IF event = "before_demote" THEN "demoted" ELSE "primary", id |-> 0]
                     [] h # worker.leader /\ h \in worker.up \ Unbalanced -> [role |-> "secondary", id |-> 0]
                     [] OTHER -> Gone]
Task(event, worker, rest) == [event |-> event, rest |-> rest, failover |-> FALSE, group |-> Topology(event, worker)]

(* PgDistTask.__eq__: ids are not compared. *)
Same(t, u) == t.event = u.event /\ \A h \in Hosts : t.group[h].role = u.group[h].role

(* A task of the HA loop overrides neither a task of a REST call nor, before
   its deadline, the transaction of one. *)
Refused(task) ==
  ~task.rest /\ ((ciTask # NoTask /\ ciTask.rest) \/ (ciFlight # NoTask /\ ciFlight.rest /\ ~ciLate))

(* _add_task *)
AddTask(task) ==
  LET accepted == /\ ~Refused(task)
                  /\ IF ciTask # NoTask THEN ~Same(task, ciTask)
                     ELSE ciLoad \/ ~Same(task, ciCache) \/ ciFlight # NoTask
  IN  IF accepted
      THEN /\ ciTask' = task
           /\ ciWork' = [ciWork EXCEPT !.same = FALSE]
           /\ ciAt' = IF ciAt = "wait" THEN "pick" ELSE ciAt
      ELSE UNCHANGED <<ciTask, ciWork, ciAt>>

(* sync_meta_data, from the view the HA loop has. *)
CiSync ==
  /\ ciView.leader # NoHost /\ ciView.ready
  /\ AddTask(Task("after_promote", ciView, FALSE))
  /\ UNCHANGED <<ciTable, ciCache, ciLoad, ciFlight, ciLate, ciOutside>>

CiLoadView ==
  /\ ciView' = ciWorker
  /\ UNCHANGED <<ciTable, ciThread, ciTask, ciLate, ciWorker, ciCall, ciEvents>>

(* handle_event: the caller must be the leader in the DCS. *)
HandleEvent ==
  /\ ciCall # NoCall /\ ciCall' = NoCall
  /\ IF ciWorker.leader = ciCall.leader THEN AddTask(Task(ciCall.type, ciWorker, TRUE)) ELSE UNCHANGED <<ciTask, ciWork, ciAt>>
  /\ UNCHANGED <<ciTable, ciCache, ciLoad, ciFlight, ciLate, ciWorker, ciView, ciEvents>>

(***************************************************************************)
(* The thread                                                              *)
(***************************************************************************)
(* run, under the lock: an overdue transaction is rolled back, if there is
   anything to do; otherwise the thread waits for a task. *)
RunLocked ==
  /\ ciAt = "run"
  /\ LET due == IF ciFlight = NoTask THEN ciLoad \/ ciTask # NoTask ELSE ciLoad \/ (ciTask # NoTask /\ ciLate)
     IN  /\ ciAt' = IF due THEN "pick" ELSE "wait"
         /\ IF due /\ ciFlight # NoTask
            THEN ciTrans' = <<>> /\ ciFlight' = NoTask
            ELSE UNCHANGED <<ciTrans, ciFlight>>
  /\ UNCHANGED <<ciRows, ciCache, ciLoad, ciTask, ciLate, ciWork, ciOutside>>

(* The wait ends with the deadline. *)
CiWaitEnds ==
  /\ ciAt = "wait" /\ ciFlight # NoTask /\ ciTask # NoTask /\ ciLate
  /\ ciAt' = "pick"
  /\ UNCHANGED <<ciTable, ciCache, ciLoad, ciTask, ciFlight, ciLate, ciWork, ciOutside>>

(* load_pg_dist_group, outside of a transaction. *)
Loaded ==
  IF ciFlight # NoTask \/ ~ciLoad THEN ciCache
  ELSE LET id(h) == CHOOSE i \in Ids : ciRows[i].host = h
       IN  IF \A i \in Ids : ciRows[i] = NoRow THEN NoTask
           ELSE [event |-> "after_promote", rest |-> FALSE, failover |-> FALSE,
                 group |-> [h \in Hosts |-> IF \E i \in Ids : ciRows[i].host = h
                                            THEN [role |-> IF ciRows[id(h)].primary THEN "primary" ELSE "secondary", id |-> id(h)]
                                            ELSE Gone]]

(* process_tasks up to pick_task: a task the cache already matches is dropped. *)
PickTask ==
  /\ ciAt = "pick"
  /\ ciCache' = Loaded
  /\ ciLoad' = (ciLoad /\ ciFlight # NoTask)
  /\ LET nothing == ciFlight = NoTask /\ Same(ciTask, Loaded)
     IN  /\ ciTask' = IF nothing THEN NoTask ELSE ciTask
         /\ IF ciTask = NoTask \/ nothing
            THEN ciAt' = "run" /\ ciWork' = NoWork
            ELSE ciAt' = "work" /\ ciWork' = [task |-> ciTask, same |-> TRUE]
  /\ UNCHANGED <<ciTable, ciFlight, ciLate, ciOutside>>

CurrentState == IF ciFlight # NoTask THEN ciFlight ELSE ciCache
Popped == ciTask' = IF ciWork.same THEN NoTask ELSE ciTask

(* process_task goes well: after_promote commits, the others leave the
   transaction open. *)
ProcessTask ==
  /\ ciAt = "work" /\ ciAt' = "pick" /\ ciWork' = NoWork /\ Popped
  /\ LET result == Transition(ciWork.task.group, CurrentState)
         done == Executed(result, CurrentState)
         task == [ciWork.task EXCEPT !.group = done.new, !.failover = result.failover]
     IN  /\ done.ok
         /\ IF ciWork.task.event = "after_promote"
            THEN /\ ciRows' = done.rows /\ ciTrans' = <<>> /\ ciFlight' = NoTask
                 /\ ciCache' = [task EXCEPT !.failover = FALSE] /\ UNCHANGED ciLate
            ELSE /\ ciTrans' = done.rows /\ ciFlight' = task /\ ciLate' = FALSE /\ UNCHANGED ciRows
                 /\ ciCache' = IF ciFlight = NoTask THEN [ciCache EXCEPT !.group = result.old] ELSE ciCache
  /\ UNCHANGED <<ciLoad, ciOutside>>

(* A query raises: the connection is closed, the cache is to be loaded again. *)
Raised ==
  /\ ciAt = "work" /\ ciAt' = "pick" /\ ciWork' = NoWork /\ Popped
  /\ ciTrans' = <<>> /\ ciFlight' = NoTask /\ ciLoad' = TRUE
  /\ UNCHANGED <<ciRows, ciCache, ciLate, ciWorker, ciView, ciCall>>

ProcessRefused ==
  /\ ciAt = "work"
  /\ ~Executed(Transition(ciWork.task.group, CurrentState), CurrentState).ok
  /\ Raised /\ UNCHANGED ciEvents
ProcessFails == Raised /\ CiEvent

DeadlinePasses ==
  /\ ciFlight # NoTask /\ ~ciLate /\ ciLate' = TRUE
  /\ UNCHANGED <<ciTable, ciThread, ciTask, ciOutside>>

(***************************************************************************)
(* The worker group                                                        *)
(***************************************************************************)
Calls(type, leader) == ciCall' = [type |-> type, leader |-> leader]
ciCoordinator == <<ciTable, ciThread, ciTask, ciLate, ciView>>

(* The leader tells the coordinator that it is going to be demoted. *)
WorkerBeforeDemote ==
  /\ ciWorker.leader # NoHost /\ ciWorker.ready /\ CiEvent
  /\ Calls("before_demote", ciWorker.leader)
  /\ UNCHANGED <<ciCoordinator, ciWorker>>

(* It has released its key; another node has taken it and is being promoted. *)
WorkerSwitches(h) ==
  /\ h # ciWorker.leader /\ h \in ciWorker.up /\ CiEvent
  /\ ciWorker' = [ciWorker EXCEPT !.leader = h, !.ready = FALSE]
  /\ Calls("before_promote", h)
  /\ UNCHANGED ciCoordinator

(* It is promoted, says so, and its member key shows it. *)
WorkerPromoted ==
  /\ ciWorker.leader # NoHost /\ ~ciWorker.ready
  /\ ciWorker' = [ciWorker EXCEPT !.ready = TRUE]
  /\ Calls("after_promote", ciWorker.leader)
  /\ UNCHANGED <<ciCoordinator, ciEvents>>

CallLost == ciCall # NoCall /\ ciCall' = NoCall /\ CiEvent /\ UNCHANGED <<ciCoordinator, ciWorker>>

MemberChanges(h) ==
  /\ h # ciWorker.leader /\ CiEvent
  /\ ciWorker' = [ciWorker EXCEPT !.up = IF h \in @ THEN @ \ {h} ELSE @ \union {h}]
  /\ UNCHANGED <<ciCoordinator, ciCall>>

(***************************************************************************)
(* The specification                                                       *)
(***************************************************************************)
CiThreadGoes == RunLocked \/ CiWaitEnds \/ PickTask \/ ProcessTask \/ ProcessRefused
CiNext ==
  \/ CiSync \/ CiLoadView \/ HandleEvent \/ CiThreadGoes \/ ProcessFails \/ DeadlinePasses
  \/ WorkerBeforeDemote \/ WorkerPromoted \/ CallLost \/ \E h \in Hosts : WorkerSwitches(h) \/ MemberChanges(h)

(* ENABLED CiThreadGoes; its weak fairness is spelled out in CiFairness. *)
ThreadCanGo == ciAt # "wait" \/ (ciFlight # NoTask /\ ciTask # NoTask /\ ciLate)

CiFairness ==
  /\ []<>~ThreadCanGo \/ []<><<CiThreadGoes>>_ciVars
  /\ WF_ciVars(CiSync) /\ WF_ciVars(CiLoadView) /\ WF_ciVars(DeadlinePasses)
  /\ WF_ciVars(WorkerPromoted) /\ WF_ciVars(HandleEvent)
CiSpec == CiInit /\ [][CiNext]_ciVars /\ CiFairness

(***************************************************************************)
(* Properties                                                              *)
(***************************************************************************)
(* The committed table never names a paused host: a transaction that paused the
   clients of a group is committed only by a task that puts a primary back. *)
CommittedNotPaused == \A i \in Ids : ~ciRows[i].paused

(* The rows the cache knows by id are those of the table, whenever the thread is
   between two tasks and is not about to load the table. *)
CachedRowsTrue ==
  ciAt # "work" /\ ~ciLoad =>
     \A h \in Hosts : ciCache.group[h].id # 0 => ciRows[ciCache.group[h].id].host = h

(* The transaction of a REST call is not ended before its deadline by a task
   the HA loop made from an older view of the worker. *)
RestTransactionKept ==
  [][ciFlight # NoTask /\ ciFlight.rest /\ ~ciLate /\ ciRows' # ciRows => ciWork.task.rest]_ciVars

(* Once the thread runs, the primary's row names in the end the leader of the worker
   group, whatever calls were lost, however they were ordered, and clients are not paused. *)
PrimaryRegistered == []<>(ciAt # "run") => <>[](ciTrans = <<>> /\ \E i \in Ids : ciRows[i] = [host |-> ciWorker.leader, paused |-> FALSE, primary |-> TRUE])

(* transition "yields transitions that transform the old to the new one": what
   the cache says is registered is. *)
TransitionComplete ==
  ciAt # "work" /\ ~ciLoad => \A h \in Registered(ciCache.group) : \E i \in Ids : ciRows[i].host = h
=============================================================================
