------------------------------ MODULE Bootstrap ------------------------------
(***************************************************************************)
(* How a cluster comes into being: the race for /initialize, the bootstrap *)
(* of the winner, its failure, and the replicas cloned from it             *)
(* (bootstrap, post_bootstrap, cancel_initialization, clone and the checks *)
(* of the system identifier in _run_cycle of patroni/ha.py;                *)
(* patroni/postgresql/bootstrap.py).                                       *)
(*                                                                         *)
(* A system identifier is a positive number; every initdb makes a new one. *)
(***************************************************************************)
EXTENDS Integers, FiniteSets

CONSTANTS BsNodes,      \* members; all of them may bootstrap
          BsNobody,     \* no leader
          MaxSystems,   \* bound: initdb runs that get as far as a system identifier
          MaxBsEvents   \* bound: crashes, failed jobs, lost requests and answers

ASSUME BootstrapAssumption == BsNobody \notin BsNodes /\ MaxSystems \in Nat \ {0} /\ MaxBsEvents \in Nat

Missing == -1   \* no /initialize key; an empty data directory
Unnamed == 0    \* the key without a value; a data directory without a readable system identifier
Valid(id) == id > 0

VARIABLES bsKey,      \* /initialize
          bsLeader,   \* /leader
          bsData,     \* system identifier of the data directory
          bsPg,       \* PostgreSQL of a node
          bsUp,       \* Patroni runs
          bsBoot,     \* state_handler.bootstrapping
          bsResult,   \* _async_response.result
          bsJob,      \* asynchronous task
          bsSeen,     \* cb_called
          bsView,     \* cluster as loaded by the cycle
          bsAt,       \* where the cycle is
          bsSystems,  \* identifiers given out
          bsUnsafe,   \* /initialize was deleted twice, or deleted by a node that died before it moved its data away
          bsEvents

bsVars == <<bsKey, bsLeader, bsData, bsPg, bsUp, bsBoot, bsResult, bsJob, bsSeen, bsView, bsAt,
            bsSystems, bsUnsafe, bsEvents>>
bsStore == <<bsKey, bsLeader>>
bsLocal == <<bsData, bsPg, bsUp, bsBoot, bsResult, bsJob, bsSeen, bsSystems>>
bsCount == <<bsUnsafe, bsEvents>>

BsNoView == [key |-> Missing, leader |-> BsNobody]

\* A new cluster, or one whose DCS lost its contents while all was stopped.
BsInit ==
    /\ bsKey = Missing /\ bsLeader = BsNobody
    /\ \E id \in {Missing, 1} :
          /\ bsData = [n \in BsNodes |-> id]
          /\ bsSystems = IF Valid(id) THEN id ELSE 0
    /\ bsPg = [n \in BsNodes |-> "down"]
    /\ bsUp = [n \in BsNodes |-> TRUE]
    /\ bsBoot = [n \in BsNodes |-> FALSE]
    /\ bsResult = [n \in BsNodes |-> "none"]
    /\ bsJob = [n \in BsNodes |-> "none"]
    /\ bsSeen = [n \in BsNodes |-> FALSE]
    /\ bsView = [n \in BsNodes |-> BsNoView]
    /\ bsAt = [n \in BsNodes |-> "idle"]
    /\ bsUnsafe = FALSE /\ bsEvents = 0

BsEvent == bsEvents < MaxBsEvents /\ bsEvents' = bsEvents + 1
BsGoes(n, at) == bsAt' = [bsAt EXCEPT ![n] = at]
BsEndCycle(n) == BsGoes(n, "idle") /\ bsView' = [bsView EXCEPT ![n] = BsNoView]
Holds(n) == bsView[n].leader = n
Unlocked(n) == bsView[n].leader = BsNobody

-----------------------------------------------------------------------------
(***************************************************************************)
(* Requests to the DCS.                                                    *)
(***************************************************************************)

\* initialize: the key must be absent (create_new), or present.
Initialized(create, id) == IF create = (bsKey = Missing) THEN id ELSE bsKey

\* The request is executed, or lost; errors are caught and the answer is False.
BsWriteKey(id) ==
    \/ bsKey' = id /\ UNCHANGED bsEvents
    \/ bsKey' = bsKey /\ BsEvent

BsLoad(n) ==
    /\ bsUp[n] /\ bsAt[n] = "idle"
    /\ bsView' = [bsView EXCEPT ![n] = [key |-> bsKey, leader |-> bsLeader]]
    /\ BsGoes(n, "loaded")
    /\ UNCHANGED <<bsStore, bsLocal, bsCount>>

\* The leader key of a node whose Patroni is gone expires.
BsLeaderExpires ==
    /\ bsLeader # BsNobody /\ ~bsUp[bsLeader]
    /\ bsLeader' = BsNobody
    /\ UNCHANGED <<bsKey, bsLocal, bsView, bsAt, bsCount>>

-----------------------------------------------------------------------------
(***************************************************************************)
(* The winner of the race.                                                 *)
(***************************************************************************)

\* bootstrap: no leader and no /initialize
MayBootstrap(n) == Unlocked(n) /\ bsView[n].key = Missing

\* Altered form: a key without a value may be taken over.
CreatesUnnamed == ~Valid(bsKey)

\* initialize(create_new=True) succeeds
Creates == bsKey = Missing

\* The race: the key is created by one node; an answer may be lost with the key written.
BsRace(n) ==
    /\ bsAt[n] = "new" /\ MayBootstrap(n)
    /\ \/ /\ Creates
          /\ bsKey' = Unnamed
          /\ bsBoot' = [bsBoot EXCEPT ![n] = TRUE]
          /\ bsResult' = [bsResult EXCEPT ![n] = "none"]
          /\ bsJob' = [bsJob EXCEPT ![n] = "bootstrap"]
          /\ UNCHANGED bsEvents
       \/ ~Creates /\ UNCHANGED <<bsKey, bsBoot, bsResult, bsJob, bsEvents>>
       \/ /\ BsEvent
          /\ bsKey' \in {bsKey, Initialized(TRUE, Unnamed)}
          /\ UNCHANGED <<bsBoot, bsResult, bsJob>>
    /\ BsEndCycle(n)
    /\ UNCHANGED <<bsLeader, bsData, bsPg, bsUp, bsSeen, bsSystems, bsUnsafe>>

\* A data directory with a new system identifier, made by initdb or by a custom script.
NewSystem(n) ==
    /\ bsSystems < MaxSystems
    /\ bsSystems' = bsSystems + 1
    /\ bsData' = [bsData EXCEPT ![n] = bsSystems + 1]

\* What is started: a server restored by a custom script recovers first.
Initdb(n) == NewSystem(n) /\ bsPg' = [bsPg EXCEPT ![n] = "primary"] /\ UNCHANGED bsEvents
CustomBootstrap(n) == NewSystem(n) /\ bsPg' = [bsPg EXCEPT ![n] = "recovering"] /\ UNCHANGED bsEvents

\* initdb or the custom script, configuration files, start; any of them may fail.
BsBootstrap(n) ==
    /\ bsJob[n] = "bootstrap"
    /\ bsJob' = [bsJob EXCEPT ![n] = "none"]
    /\ \/ Initdb(n) \/ CustomBootstrap(n)
       \/ NewSystem(n) /\ BsEvent /\ UNCHANGED bsPg
       \/ /\ BsEvent
          /\ bsData' = [bsData EXCEPT ![n] = Unnamed]
          /\ UNCHANGED <<bsPg, bsSystems>>
    /\ UNCHANGED <<bsStore, bsUp, bsBoot, bsResult, bsSeen, bsView, bsAt, bsUnsafe>>

RecoveryEnds(n) ==
    /\ bsPg[n] = "recovering"
    /\ bsPg' = [bsPg EXCEPT ![n] = "primary"]
    /\ UNCHANGED <<bsStore, bsData, bsUp, bsBoot, bsResult, bsJob, bsSeen, bsSystems, bsView, bsAt, bsCount>>

\* Roles, the script of the user: the result of the critical task.
BsPostJob(n) ==
    /\ bsJob[n] = "post_bootstrap"
    /\ bsJob' = [bsJob EXCEPT ![n] = "none"]
    /\ \/ bsResult' = [bsResult EXCEPT ![n] = "true"] /\ UNCHANGED bsEvents
       \/ bsResult' = [bsResult EXCEPT ![n] = "false"] /\ BsEvent
    /\ UNCHANGED <<bsStore, bsData, bsPg, bsUp, bsBoot, bsSeen, bsSystems, bsView, bsAt, bsUnsafe>>

\* post_bootstrap, up to the requests to the DCS.  The watchdog may fail to activate.
BsPost(n) ==
    /\ bsAt[n] = "post"
    /\ \/ /\ bsPg[n] = "down" \/ bsResult[n] = "false"
          /\ BsGoes(n, "cancel")
          /\ UNCHANGED <<bsLocal, bsView, bsEvents>>
       \/ /\ bsPg[n] = "recovering" /\ bsResult[n] = "none"
          /\ BsEndCycle(n)
          /\ UNCHANGED <<bsLocal, bsEvents>>
       \/ /\ bsPg[n] = "primary" /\ bsResult[n] = "none"
          /\ bsJob' = [bsJob EXCEPT ![n] = "post_bootstrap"]
          /\ BsEndCycle(n)
          /\ UNCHANGED <<bsData, bsPg, bsUp, bsBoot, bsResult, bsSeen, bsSystems, bsEvents>>
       \/ /\ bsPg[n] # "down" /\ bsResult[n] = "true"
          /\ bsBoot' = [bsBoot EXCEPT ![n] = FALSE]
          /\ \/ BsGoes(n, "name") /\ UNCHANGED bsEvents
             \/ BsGoes(n, "cancel") /\ BsEvent
          /\ UNCHANGED <<bsData, bsPg, bsUp, bsResult, bsJob, bsSeen, bsSystems, bsView>>
    /\ UNCHANGED <<bsStore, bsUnsafe>>

\* initialize with the system identifier
BsName(n) ==
    /\ bsAt[n] = "name"
    /\ BsWriteKey(Initialized(bsView[n].key = Missing, bsData[n]))
    /\ BsGoes(n, "lead")
    /\ UNCHANGED <<bsLeader, bsLocal, bsView, bsUnsafe>>

\* take_leader: the key is written whoever holds it
BsTakeLeader(n) ==
    /\ bsAt[n] = "lead"
    /\ \/ bsLeader' = n /\ UNCHANGED bsEvents
       \/ bsLeader' = bsLeader /\ BsEvent
    /\ bsSeen' = [bsSeen EXCEPT ![n] = TRUE]
    /\ BsEndCycle(n)
    /\ UNCHANGED <<bsKey, bsData, bsPg, bsUp, bsBoot, bsResult, bsJob, bsSystems, bsUnsafe>>

\* cancel_initialization: the key is deleted, whatever its value; the delete may be lost, or executed
\* without an answer, and is then sent again.
BsCancel(n) ==
    /\ bsAt[n] = "cancel"
    /\ \/ bsKey' = Missing /\ BsGoes(n, "clean") /\ UNCHANGED bsCount
       \/ bsKey' = Missing /\ BsEvent /\ bsUnsafe' = TRUE /\ UNCHANGED bsAt
       \/ BsEvent /\ BsGoes(n, "clean") /\ UNCHANGED <<bsKey, bsUnsafe>>
    /\ UNCHANGED <<bsLeader, bsLocal, bsView>>

\* Altered form: the data directory stays.
CleanedNot(n) == bsData' = bsData

\* move_data_directory
Cleaned(n) == bsData' = [bsData EXCEPT ![n] = Missing]

\* The process ends, or is killed.
Ends(n) ==
    /\ bsUp' = [bsUp EXCEPT ![n] = FALSE]
    /\ bsPg' = [bsPg EXCEPT ![n] = "down"]
    /\ bsBoot' = [bsBoot EXCEPT ![n] = FALSE]
    /\ bsResult' = [bsResult EXCEPT ![n] = "none"]
    /\ bsJob' = [bsJob EXCEPT ![n] = "none"]
    /\ bsSeen' = [bsSeen EXCEPT ![n] = FALSE]
    /\ BsEndCycle(n)
    /\ UNCHANGED bsSystems

BsClean(n) ==
    /\ bsAt[n] = "clean"
    /\ Cleaned(n) /\ Ends(n)
    /\ UNCHANGED <<bsStore, bsCount>>

-----------------------------------------------------------------------------
(***************************************************************************)
(* The other nodes.                                                        *)
(***************************************************************************)

\* A leader that finds no valid /initialize writes its own identifier.
BsCheckKey(n) ==
    /\ bsAt[n] = "loaded"
    /\ \/ /\ Holds(n) /\ ~Valid(bsView[n].key) /\ Valid(bsData[n])
          /\ BsWriteKey(Initialized(bsView[n].key = Missing, bsData[n]))
       \/ ~(Holds(n) /\ ~Valid(bsView[n].key)) /\ UNCHANGED <<bsKey, bsEvents>>
       \/ Holds(n) /\ ~Valid(bsView[n].key) /\ ~Valid(bsData[n]) /\ UNCHANGED <<bsKey, bsEvents>>
    /\ \/ bsJob[n] # "none" /\ BsEndCycle(n)
       \/ bsJob[n] = "none" /\ bsBoot[n] /\ BsGoes(n, "post") /\ UNCHANGED bsView
       \/ bsJob[n] = "none" /\ ~bsBoot[n] /\ bsData[n] = Missing /\ BsGoes(n, "new") /\ UNCHANGED bsView
       \/ bsJob[n] = "none" /\ ~bsBoot[n] /\ bsData[n] = Unnamed /\ BsEndCycle(n)
       \/ bsJob[n] = "none" /\ ~bsBoot[n] /\ Valid(bsData[n]) /\ BsGoes(n, "joins") /\ UNCHANGED bsView
    /\ UNCHANGED <<bsLeader, bsLocal, bsUnsafe>>

\* An empty node: clone from the leader, or wait.  A leader without data releases its key.
BsNewNode(n) ==
    /\ bsAt[n] = "new" /\ ~MayBootstrap(n)
    /\ \/ /\ Holds(n)
          /\ bsLeader' = IF bsLeader = n THEN BsNobody ELSE bsLeader
          /\ UNCHANGED <<bsJob, bsData>>
       \/ /\ ~Holds(n) /\ ~Unlocked(n)
          /\ bsJob' = [bsJob EXCEPT ![n] = "clone"]
          /\ bsData' = [bsData EXCEPT ![n] = Unnamed]
          /\ UNCHANGED bsLeader
       \/ Unlocked(n) /\ UNCHANGED <<bsJob, bsData, bsLeader>>
    /\ BsEndCycle(n)
    /\ UNCHANGED <<bsKey, bsPg, bsUp, bsBoot, bsResult, bsSeen, bsSystems, bsCount>>

BsEmptied(n) == bsData' = [bsData EXCEPT ![n] = Missing]
BsFilled(n) == bsData' = [bsData EXCEPT ![n] = Unnamed]
BsJobGoes(n, job) == bsJob' = [bsJob EXCEPT ![n] = job]
bsBesides == <<bsStore, bsUp, bsBoot, bsResult, bsSeen, bsSystems, bsView, bsAt, bsUnsafe>>

\* The leader that the copy is made from is a running primary.
Copied(n) ==
    /\ bsLeader # BsNobody /\ bsPg[bsLeader] = "primary"
    /\ bsData' = [bsData EXCEPT ![n] = bsData[bsLeader]]

\* create_replica: the script of the user is the first method; when it fails, what it left is removed.
BsScript(n) ==
    /\ bsJob[n] = "clone"
    /\ \/ Copied(n) /\ BsJobGoes(n, "follow")
       \/ BsEmptied(n) /\ BsJobGoes(n, "basebackup")
    /\ UNCHANGED <<bsPg, bsEvents, bsBesides>>

\* basebackup: tried twice, each time in an empty data directory.
BsBasebackup(n) ==
    /\ bsJob[n] \in {"basebackup", "again"}
    /\ \/ Copied(n) /\ BsJobGoes(n, "follow") /\ UNCHANGED bsEvents
       \/ /\ bsJob[n] = "basebackup" /\ BsFilled(n) /\ BsJobGoes(n, "again")
          /\ UNCHANGED bsEvents
       \/ /\ bsJob[n] = "again" /\ BsEmptied(n) /\ BsJobGoes(n, "none")
          /\ IF bsLeader = BsNobody THEN UNCHANGED bsEvents ELSE BsEvent \/ (bsPg[bsLeader] # "primary" /\ UNCHANGED bsEvents)
    /\ UNCHANGED <<bsPg, bsBesides>>

\* The end of clone: follow, or a data directory that is removed.
BsFollow(n) ==
    /\ bsJob[n] = "follow" /\ BsJobGoes(n, "none")
    /\ bsPg' = [bsPg EXCEPT ![n] = "replica"]
    /\ UNCHANGED <<bsData, bsEvents, bsBesides>>

\* The data directory belongs to another cluster.
Foreign(n) == Valid(bsView[n].key) /\ bsView[n].key # bsData[n]

\* No valid /initialize, no leader, the first cycle of the process.
FirstStart(n) == ~Valid(bsView[n].key) /\ Unlocked(n) /\ ~bsSeen[n]

BsJoin(n) ==
    /\ bsAt[n] = "joins"
    /\ \/ /\ Foreign(n) \/ (FirstStart(n) /\ bsPg[n] = "replica")
          /\ Ends(n) /\ UNCHANGED <<bsKey, bsEvents, bsData>>
       \/ /\ FirstStart(n) /\ bsPg[n] # "replica"
          /\ BsWriteKey(Initialized(bsView[n].key = Missing, bsData[n]))
          /\ BsGoes(n, "runs")
          /\ UNCHANGED <<bsLocal, bsView>>
       \/ /\ ~Foreign(n) /\ ~FirstStart(n)
          /\ BsGoes(n, "runs")
          /\ UNCHANGED <<bsKey, bsEvents, bsLocal, bsView>>
    /\ UNCHANGED <<bsLeader, bsUnsafe>>

\* recover, process_unhealthy_cluster or process_healthy_cluster
BsRun(n) ==
    /\ bsAt[n] = "runs"
    /\ \/ /\ bsPg[n] = "down"
          /\ bsPg' = [bsPg EXCEPT ![n] = "replica"]
          /\ UNCHANGED <<bsLeader, bsSeen>>
       \/ /\ bsPg[n] # "down" /\ Unlocked(n)
          /\ bsLeader' = IF bsLeader = BsNobody THEN n ELSE bsLeader
          /\ bsPg' = [bsPg EXCEPT ![n] = IF bsLeader = BsNobody THEN "primary" ELSE "replica"]
          /\ bsSeen' = [bsSeen EXCEPT ![n] = TRUE]
       \/ /\ bsPg[n] # "down" /\ ~Unlocked(n)
          /\ bsPg' = [bsPg EXCEPT ![n] = IF bsLeader = n THEN "primary" ELSE "replica"]
          /\ bsSeen' = [bsSeen EXCEPT ![n] = TRUE]
          /\ UNCHANGED bsLeader
    /\ BsEndCycle(n)
    /\ UNCHANGED <<bsKey, bsData, bsUp, bsBoot, bsResult, bsJob, bsSystems, bsCount>>

\* The machine crashes; what a task was writing stays.
BsCrash(n) ==
    /\ bsUp[n] /\ BsEvent
    /\ bsData' = [bsData EXCEPT ![n] = IF bsJob[n] \in {"bootstrap", "clone", "basebackup", "again"} THEN Unnamed ELSE bsData[n]]
    /\ bsUnsafe' = (bsUnsafe \/ bsAt[n] = "clean")
    /\ Ends(n)
    /\ UNCHANGED bsStore

BsStart(n) ==
    /\ ~bsUp[n]
    /\ bsUp' = [bsUp EXCEPT ![n] = TRUE]
    /\ UNCHANGED <<bsStore, bsData, bsPg, bsBoot, bsResult, bsJob, bsSeen, bsSystems, bsView, bsAt, bsCount>>

-----------------------------------------------------------------------------
BsCycle(n) ==
    \/ BsLoad(n) \/ BsCheckKey(n) \/ BsRace(n) \/ BsPost(n) \/ BsName(n) \/ BsTakeLeader(n)
    \/ BsCancel(n) \/ BsClean(n) \/ BsNewNode(n) \/ BsJoin(n) \/ BsRun(n) \/ BsStart(n)
BsJobs(n) == BsBootstrap(n) \/ RecoveryEnds(n) \/ BsPostJob(n) \/ BsScript(n) \/ BsBasebackup(n) \/ BsFollow(n)

BsNext == (\E n \in BsNodes : BsCycle(n) \/ BsJobs(n) \/ BsCrash(n)) \/ BsLeaderExpires

BsFairness ==
    /\ \A n \in BsNodes : WF_bsVars(BsCycle(n)) /\ WF_bsVars(BsJobs(n))
    /\ WF_bsVars(BsLeaderExpires)

BsSpec == BsInit /\ [][BsNext]_bsVars /\ BsFairness

-----------------------------------------------------------------------------
\* Type invariant.
BsTypeOK ==
    /\ bsKey \in -1..MaxSystems
    /\ bsLeader \in BsNodes \union {BsNobody}
    /\ bsData \in [BsNodes -> -1..MaxSystems]
    /\ bsPg \in [BsNodes -> {"down", "primary", "replica", "recovering"}]
    /\ bsUp \in [BsNodes -> BOOLEAN] /\ bsBoot \in [BsNodes -> BOOLEAN] /\ bsSeen \in [BsNodes -> BOOLEAN]
    /\ bsResult \in [BsNodes -> {"none", "true", "false"}]
    /\ bsJob \in [BsNodes -> {"none", "bootstrap", "post_bootstrap", "clone", "basebackup", "again", "follow"}]
    /\ bsAt \in [BsNodes -> {"idle", "loaded", "new", "post", "name", "lead", "cancel", "clean", "joins", "runs"}]
    /\ bsUnsafe \in BOOLEAN /\ bsEvents \in 0..MaxBsEvents

\* Once /initialize has a system identifier, no bootstrap that goes on or fails elsewhere replaces or removes
\* it, except in the two cases of bsUnsafe: cancel_initialization deletes the key whatever its value, sends the
\* delete again when the answer is lost, and moves the data directory away only after it.
IdentityKept == [][Valid(bsKey) => bsKey' = bsKey \/ bsUnsafe]_bsVars

\* Nodes that run outside of a bootstrap run the same system: the race for /initialize has one winner and what
\* a failed bootstrap made is moved away before the next one.
OneSystem ==
    \A m, n \in BsNodes :
        bsPg[m] \in {"primary", "replica"} /\ bsPg[n] \in {"primary", "replica"} /\ ~bsBoot[m] /\ ~bsBoot[n]
            => bsData[m] = bsData[n] \/ bsUnsafe \/ "cancel" \in {bsAt[m], bsAt[n]} \/ "clean" \in {bsAt[m], bsAt[n]}

\* The key of a bootstrap that will never be completed: the answer of the race was lost, the winner crashed
\* before it had a system identifier, or the delete was lost.  It has to be removed by hand.
Orphaned ==
    /\ bsKey = Unnamed
    /\ \A n \in BsNodes : ~bsBoot[n] /\ ~Valid(bsData[n])

\* If the HA loops go on, every node ends up running the system named by /initialize, unless the key is an orphan, or its data
\* directory was left half-written by a crash, or two systems were made (bsUnsafe).
ClusterForms ==
    []<>(\E n \in BsNodes : bsAt[n] # "idle") =>
    <>[](\/ Orphaned \/ bsUnsafe
         \/ \A n \in BsNodes : bsData[n] = Unnamed \/ (bsData[n] = bsKey /\ bsPg[n] \in {"primary", "replica"}))
=============================================================================
