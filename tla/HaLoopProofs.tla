---------------------------- MODULE HaLoopProofs ----------------------------
(***************************************************************************)
(* With the watchdog required and expiring before the key does, a node     *)
(* whose PostgreSQL accepts commits holds the leader key: for any number   *)
(* of nodes, any ttl and any number of failures.  A manual failover moves  *)
(* the key once, to the candidate, and takes no other request with it,     *)
(* also if patronictl has to ask twice.                                    *)
(***************************************************************************)
EXTENDS HaLoop, ManualFailover, Patronictl, TLAPS

(* The configuration the guarantee is about.                               *)
SafeConfiguration ==
    /\ Required
    /\ ~StopTimeout
    /\ ~RecoverReadFails
    /\ ~QuickRestart
    /\ WatchdogTimeout + ReplyDelay < TTL

-----------------------------------------------------------------------------
(* The inductive invariant.                                                *)

(* The node holds the key and its watchdog fires strictly before the key   *)
(* can expire.                                                             *)
Armed(n) ==
    /\ key.owner = n
    /\ hw[n] # WdOff
    /\ hw[n] < key.ttl

AboutToPromote(n) == job[n] \in {"promote_queued", "promote_checked"}
Live(n) == pg[n] \in Writable \/ AboutToPromote(n) \/ job[n] = "start_queued"

(* A crashed primary that a later cycle with the lock may start again      *)
(* without looking at the watchdog.                                        *)
Restartable(n) ==
    /\ pg[n] = "crashed"
    /\ pc[n] \in {"idle", "loaded"} \cup Waiting
    /\ \/ job[n] \in {"start_done", "promote_waiting", "promote_seen"}
       \/ job[n] = "none" /\ role[n] = "primary"

KnownPrimary(n) == role[n] \in {"promoted", "primary"}
AnsweredYes(n) == pc[n] = "acquired" \/ (pc[n] \in Updating /\ reply[n])
InCycle(n) == pc[n] \in {"idle", "loaded", "upd_long"}

LiveIsArmed(n) == Live(n) => Armed(n)
RestartableIsArmed(n) ==
    Restartable(n) =>
        IF key.owner = n THEN Armed(n) ELSE ~(pc[n] = "loaded" /\ view[n] = n)
FreshKey(n) == AnsweredYes(n) => key.owner = n /\ key.ttl + age[n] >= TTL
OpenIsArmed(n) == fd[n] => hw[n] # WdOff
WritableKnown(n) ==
    pg[n] \in Writable /\ pc[n] # "off" => KnownPrimary(n) /\ (pg[n] = "promoting" => fd[n])
PromoteSafe(n) ==
    AboutToPromote(n) => /\ fd[n] /\ ~KnownPrimary(n) /\ InCycle(n)
                         /\ pg[n] \notin Writable \cup {"crashed"}
StartSafe(n) ==
    /\ job[n] = "start_queued" => pg[n] = "crashed" /\ role[n] = "primary" /\ InCycle(n)
    /\ job[n] = "start_cancelled" =>
           pg[n] \notin Writable /\ (pc[n] = "stopping" \/ pg[n] # "crashed")
GracefulSafe(n) ==
    job[n] \in {"demote_release", "demote_follow"} => pg[n] \notin Writable \cup {"crashed"}
FailedSafe(n) ==
    resp[n] = "false" => pg[n] \notin Writable \cup {"crashed"} /\ ~AboutToPromote(n)
WaitingIdle(n) ==
    /\ pc[n] \in {"acquired", "upd_healthy", "upd_recover"} => job[n] = "none"
    /\ pc[n] = "upd_recover" => pg[n] \in Down
    /\ pc[n] \in {"acquired", "upd_healthy"} /\ pg[n] = "crashed" => KnownPrimary(n)
OffIsQuiet(n) ==
    pc[n] = "off" => job[n] = "none" /\ ~fd[n] /\ pg[n] \notin {"crashed", "closing"}
LoadedKnows(n) == pc[n] = "loaded" /\ key.owner = n => view[n] = n

NodeInv(n) ==
    /\ LiveIsArmed(n) /\ RestartableIsArmed(n)
    /\ FreshKey(n) /\ OpenIsArmed(n) /\ WritableKnown(n)
    /\ PromoteSafe(n) /\ StartSafe(n) /\ GracefulSafe(n) /\ FailedSafe(n)
    /\ WaitingIdle(n) /\ OffIsQuiet(n) /\ LoadedKnows(n)

IInv == TypeOK /\ \A n \in Node : NodeInv(n)

(* What one node's step leaves alone at another node m: m's own state, and *)
(* a key that is not m's before and after the step.                        *)
SameNode(m) ==
    /\ pc'[m] = pc[m] /\ view'[m] = view[m] /\ reply'[m] = reply[m] /\ age'[m] = age[m]
    /\ pg'[m] = pg[m] /\ role'[m] = role[m] /\ hw'[m] = hw[m] /\ fd'[m] = fd[m]
    /\ job'[m] = job[m] /\ resp'[m] = resp[m]
SameKey(m) == key' = key \/ (key.owner # m /\ key'.owner # m)
Elsewhere(n) == \A m \in Node \ {n} : SameNode(m) /\ SameKey(m)

(* The parts of the invariant are abbreviations: the proofs always expand  *)
(* them.                                                                   *)
USE DEF Armed, AboutToPromote, Live, Restartable, KnownPrimary, AnsweredYes, InCycle,
        LiveIsArmed, RestartableIsArmed, FreshKey, OpenIsArmed, WritableKnown, PromoteSafe,
        StartSafe, GracefulSafe, FailedSafe, WaitingIdle, OffIsQuiet, LoadedKnows,
        Updating, Waiting, Down, Writable, WdOff

-----------------------------------------------------------------------------

LEMMA Frame ==
    ASSUME NEW n \in Node, NEW m \in Node, SameNode(m), SameKey(m), NodeInv(m)
    PROVE  NodeInv(m)'
  BY DEF SameNode, SameKey, NodeInv

LEMMA StepInv ==
    ASSUME IInv, TypeOK', NEW n \in Node, NodeInv(n)', Elsewhere(n)
    PROVE  IInv'
  BY Frame DEF IInv, Elsewhere

LEMMA InitInv == Init => IInv
  <1> SUFFICES ASSUME Init PROVE IInv
    OBVIOUS
  <1>1. TypeOK
    BY ConstantsAssumption DEF Init, TypeOK, PC, PG, Job
  <1>2. ASSUME NEW n \in Node PROVE NodeInv(n)
    BY ConstantsAssumption DEF Init, NodeInv
  <1> QED
    BY <1>1, <1>2 DEF IInv

-----------------------------------------------------------------------------
(* Types.                                                                  *)

LEMMA LessType ==
    ASSUME NEW k \in Nat, NEW t \in 0..k
    PROVE  Less(t) \in 0..k
  BY DEF Less

LEMMA DisableType ==
    ASSUME TypeOK, NEW n \in Node, WatchdogDisable(n)
    PROVE  hw' \in [Node -> 0..WdOff] /\ fd' \in [Node -> BOOLEAN]
  BY ConstantsAssumption DEF TypeOK, WatchdogDisable

LEMMA KeepaliveType ==
    ASSUME TypeOK, NEW n \in Node, Keepalive(n)
    PROVE  hw' \in [Node -> 0..WdOff] /\ fd' \in [Node -> BOOLEAN]
  BY ConstantsAssumption DEF TypeOK, Keepalive

LEMMA ReleaseType ==
    ASSUME TypeOK, NEW n \in Node, NEW leader, Release(n, leader)
    PROVE  key' \in [owner: Node \cup {None}, ttl: 0..TTL] /\ lead' \in [Node -> 0..TTL]
  BY ConstantsAssumption DEF TypeOK, Release, Deleted, NoKey, SetLeader

LEMMA EnforceType ==
    ASSUME TypeOK, NEW n \in Node, NEW leader \in Node \cup {None}, NEW left \in 0..WdOff,
           EnforcePrimaryRole(n, leader, left)
    PROVE  /\ key' \in [owner: Node \cup {None}, ttl: 0..TTL] /\ lead' \in [Node -> 0..TTL]
           /\ pc' \in [Node -> PC] /\ dem' \in [Node -> {"offline", "immediate", "immediate-nolock"}]
           /\ role' \in [Node -> {"replica", "promoted", "primary", "demoted"}]
           /\ hw' \in [Node -> 0..WdOff] /\ fd' \in [Node -> BOOLEAN]
           /\ job' \in [Node -> Job] /\ resp' \in [Node -> {"none", "cancelled", "true", "false"}]
           /\ faults' \in 0..MaxFaults
  <1> USE ConstantsAssumption
  <1>1. CASE WatchdogFailsToActivate(n, leader)
    <2>1. key' \in [owner: Node \cup {None}, ttl: 0..TTL] /\ lead' \in [Node -> 0..TTL]
      <3>1. CASE pg[n] = "primary"
        BY <1>1, <3>1 DEF TypeOK, WatchdogFailsToActivate, SetLeader
      <3>2. CASE pg[n] # "primary"
        BY <1>1, <3>2, ReleaseType DEF WatchdogFailsToActivate
      <3> QED
        BY <3>1, <3>2
    <2>2. pc' \in [Node -> PC] /\ dem' \in [Node -> {"offline", "immediate", "immediate-nolock"}]
      BY <1>1 DEF TypeOK, WatchdogFailsToActivate, Demote, Goto, PC
    <2>3. faults' \in 0..MaxFaults /\ UNCHANGED <<role, wdVars, jobVars>>
      BY <1>1 DEF TypeOK, WatchdogFailsToActivate
    <2> QED
      BY <2>1, <2>2, <2>3 DEF TypeOK, wdVars, jobVars
  <1>2. CASE ~WatchdogFailsToActivate(n, leader)
    <2>1. key' \in [owner: Node \cup {None}, ttl: 0..TTL] /\ lead' \in [Node -> 0..TTL]
      <3>1. CASE resp[n] = "false"
        BY <1>2, <3>1, ReleaseType DEF EnforcePrimaryRole
      <3>2. CASE resp[n] # "false"
        BY <1>2, <3>2 DEF TypeOK, EnforcePrimaryRole, SetLeader
      <3> QED
        BY <3>1, <3>2
    <2>2. WatchdogRunning(n, left) /\ Goto(n, "idle") /\ UNCHANGED <<dem, faults>>
      BY <1>2 DEF EnforcePrimaryRole
    <2>3. hw' \in [Node -> 0..WdOff] /\ fd' \in [Node -> BOOLEAN]
      BY <2>2 DEF TypeOK, WatchdogRunning
    <2>4. pc' \in [Node -> PC]
      BY <2>2 DEF TypeOK, Goto, PC
    <2>5. /\ role' \in [Node -> {"replica", "promoted", "primary", "demoted"}]
          /\ job' \in [Node -> Job] /\ resp' \in [Node -> {"none", "cancelled", "true", "false"}]
      BY <1>2 DEF TypeOK, EnforcePrimaryRole, jobVars, Job, PromoteJob
    <2> QED
      BY <2>1, <2>2, <2>3, <2>4, <2>5 DEF TypeOK
  <1> QED
    BY <1>1, <1>2

LEMMA TypeStep == TypeOK /\ [Next]_vars => TypeOK'
  <1> SUFFICES ASSUME TypeOK, [Next]_vars PROVE TypeOK'
    OBVIOUS
  <1> USE ConstantsAssumption DEF TypeOK, PC, PG, Job, PromoteJob, DemoteJob, loopVars, pgVars, wdVars, jobVars
  <1>1. CASE UNCHANGED vars
    BY <1>1 DEF vars
  <1>2. CASE KeyExpires
    BY <1>2 DEF KeyExpires, NoKey
  <1>3. CASE Tick
    <2>1. key' \in [owner: Node \cup {None}, ttl: 0..TTL]
      BY <1>3 DEF Tick, Less
    <2>2. lead' \in [Node -> 0..TTL]
      BY <1>3, LessType DEF Tick
    <2>3. hw' \in [Node -> 0..WdOff]
      BY <1>3 DEF Tick, Less
    <2>4. age' \in [Node -> 0..ReplyDelay]
      BY <1>3 DEF Tick
    <2> QED
      BY <1>3, <2>1, <2>2, <2>3, <2>4 DEF Tick
  <1>4. ASSUME NEW n \in Node, LoadCluster(n) PROVE TypeOK'
    BY <1>4 DEF LoadCluster, Reload, Goto, SetLeader
  <1>5. ASSUME NEW n \in Node, DcsError(n) PROVE TypeOK'
    BY <1>5 DEF DcsError, HandleDcsError, Demote, Goto, SetLeader, Answered
  <1>6. ASSUME NEW n \in Node, UpdateLeader(n) PROVE TypeOK'
    <2>1. reply' \in [Node -> BOOLEAN]
      <3>1. CanUpdate(n) \in BOOLEAN
        BY DEF CanUpdate
      <3>2. \/ reply' = [reply EXCEPT ![n] = CanUpdate(n)]
            \/ reply' = [reply EXCEPT ![n] = FALSE]
        BY <1>6 DEF UpdateLeader
      <3> QED
        BY <3>1, <3>2
    <2>2. key' \in [owner: Node \cup {None}, ttl: 0..TTL]
      BY <1>6 DEF UpdateLeader, CanUpdate, Leased
    <2>3. pc' \in [Node -> PC] /\ age' \in [Node -> 0..ReplyDelay] /\ faults' \in 0..MaxFaults
      BY <1>6 DEF UpdateLeader, Goto
    <2> QED
      BY <1>6, <2>1, <2>2, <2>3 DEF UpdateLeader
  <1>7. ASSUME NEW n \in Node, LongActionWithoutLock(n) PROVE TypeOK'
    BY <1>7 DEF LongActionWithoutLock, LostLockDuringAction, Demote, Goto
  <1>8. ASSUME NEW n \in Node, LongActionWithLock(n) PROVE TypeOK'
    BY <1>8 DEF LongActionWithLock, LostLockDuringAction, Demote, Goto, Keepalive,
          SetLeader, Answered
  <1>9. ASSUME NEW n \in Node, AcquireLeader(n) PROVE TypeOK'
    BY <1>9 DEF AcquireLeader, Leased, Reload, Follow, Demote, Goto, SetLeader
  <1>10. ASSUME NEW n \in Node, NotHealthiest(n) PROVE TypeOK'
    BY <1>10 DEF NotHealthiest, Reload, Follow, Demote, Goto, SetLeader
  <1>11. ASSUME NEW n \in Node, FollowLeader(n) PROVE TypeOK'
    BY <1>11 DEF FollowLeader, Follow, Demote, Goto
  <1>12. ASSUME NEW n \in Node, LockAcquired(n) PROVE TypeOK'
    <2>1. key.owner \in Node \cup {None} /\ hw[n] \in 0..WdOff
      OBVIOUS
    <2>2. view' \in [Node -> Node \cup {None}] /\ UNCHANGED <<reply, age, recovering, pg>>
      BY <1>12, <2>1 DEF LockAcquired
    <2>3. EnforcePrimaryRole(n, key.owner, hw[n])
      BY <1>12 DEF LockAcquired
    <2> QED
      BY <2>1, <2>2, <2>3, EnforceType
  <1>13. ASSUME NEW n \in Node, LockUpdated(n) PROVE TypeOK'
    <2>1. WatchdogTimeout \in 0..WdOff
      OBVIOUS
    <2>2. reply' \in [Node -> BOOLEAN] /\ UNCHANGED <<view, age, recovering, pg>>
      BY <1>13 DEF LockUpdated, Answered
    <2>3. EnforcePrimaryRole(n, n, WatchdogTimeout)
      BY <1>13 DEF LockUpdated
    <2> QED
      BY <2>1, <2>2, <2>3, EnforceType
  <1>14. ASSUME NEW n \in Node, Switchover(n) PROVE TypeOK'
    BY <1>14 DEF Switchover, Keepalive, Goto, SetLeader, Answered
  <1>15. ASSUME NEW n \in Node, LockNotUpdated(n) PROVE TypeOK'
    BY <1>15 DEF LockNotUpdated, Demote, Goto, SetLeader, Answered
  <1>16. ASSUME NEW n \in Node, RecoverWithoutLock(n) PROVE TypeOK'
    <2>1. hw' \in [Node -> 0..WdOff] /\ fd' \in [Node -> BOOLEAN]
      BY <1>16, DisableType DEF RecoverWithoutLock, StartAsReplica
    <2>2. view' \in [Node -> Node \cup {None}] /\ pc' \in [Node -> PC]
      BY <1>16 DEF RecoverWithoutLock, StartAsReplica, Goto
    <2>3. job' \in [Node -> Job] /\ faults' \in 0..MaxFaults
      BY <1>16 DEF RecoverWithoutLock, StartAsReplica
    <2>4. recovering' \in [Node -> BOOLEAN]
      BY <1>16 DEF RecoverWithoutLock, StartAsReplica
    <2> QED
      BY <1>16, <2>1, <2>2, <2>3, <2>4 DEF RecoverWithoutLock, StartAsReplica
  <1>17. ASSUME NEW n \in Node, RecoverWithLock(n) PROVE TypeOK'
    <2>1. hw' \in [Node -> 0..WdOff] /\ fd' \in [Node -> BOOLEAN]
      BY <1>17, DisableType, KeepaliveType DEF RecoverWithLock, StartAsReplica
    <2>2. lead' \in [Node -> 0..TTL] /\ reply' \in [Node -> BOOLEAN]
      BY <1>17 DEF RecoverWithLock, SetLeader, Answered
    <2>3. view' \in [Node -> Node \cup {None}] /\ faults' \in 0..MaxFaults
      BY <1>17 DEF RecoverWithLock, StartAsReplica
    <2>5. job' \in [Node -> Job]
      BY <1>17 DEF RecoverWithLock, StartAsReplica
    <2>6. recovering' \in [Node -> BOOLEAN]
      BY <1>17 DEF RecoverWithLock, StartAsReplica
    <2>4. /\ pc' \in [Node -> PC]
          /\ dem' \in [Node -> {"offline", "immediate", "immediate-nolock"}]
      BY <1>17 DEF RecoverWithLock, StartAsReplica, Demote, Goto
    <2> QED
      BY <1>17, <2>1, <2>2, <2>3, <2>4, <2>5, <2>6 DEF RecoverWithLock
  <1>18. ASSUME NEW n \in Node, PostRecover(n) PROVE TypeOK'
    BY <1>18, DisableType, ReleaseType DEF PostRecover, Goto
  <1>19. ASSUME NEW n \in Node, Safepoint(n) PROVE TypeOK'
    BY <1>19 DEF Safepoint, WatchdogDisable, Stopping
  <1>20. ASSUME NEW n \in Node, Demoted(n) PROVE TypeOK'
    BY <1>20 DEF Demoted, Deleted, NoKey, Goto, SetLeader
  <1>21. ASSUME NEW n \in Node, Shutdown(n) PROVE TypeOK'
    BY <1>21 DEF Shutdown, Goto
  <1>22. ASSUME NEW n \in Node, ShutdownDone(n) PROVE TypeOK'
    BY <1>22 DEF ShutdownDone, ProcessDies, Deleted, NoKey, Goto, SetLeader, Answered
  <1>23. ASSUME NEW n \in Node, PrePromote(n) PROVE TypeOK'
    BY <1>23 DEF PrePromote, JobEnds
  <1>24. ASSUME NEW n \in Node, PgCtlPromote(n) PROVE TypeOK'
    BY <1>24 DEF PgCtlPromote, JobEnds
  <1>25. ASSUME NEW n \in Node, WaitPromote(n) PROVE TypeOK'
    BY <1>25 DEF WaitPromote, JobEnds
  <1>26. ASSUME NEW n \in Node, PromoteSetRole(n) PROVE TypeOK'
    BY <1>26 DEF PromoteSetRole, JobEnds
  <1>27. ASSUME NEW n \in Node, RunFollow(n) PROVE TypeOK'
    BY <1>27 DEF RunFollow, JobEnds
  <1>28. ASSUME NEW n \in Node, StartPrimary(n) PROVE TypeOK'
    BY <1>28 DEF StartPrimary, JobEnds
  <1>29. ASSUME NEW n \in Node, StartReturns(n) PROVE TypeOK'
    BY <1>29 DEF StartReturns, JobEnds
  <1>30. ASSUME NEW n \in Node, GracefulStopped(n) PROVE TypeOK'
    BY <1>30 DEF GracefulStopped, SetLeader
  <1>31. ASSUME NEW n \in Node, GracefulRelease(n) PROVE TypeOK'
    BY <1>31 DEF GracefulRelease, Release, Deleted, NoKey, SetLeader
  <1>32. ASSUME NEW n \in Node, GracefulFollow(n) PROVE TypeOK'
    BY <1>32 DEF GracefulFollow, JobEnds
  <1>33. ASSUME NEW n \in Node, PgBecomesPrimary(n) PROVE TypeOK'
    BY <1>33 DEF PgBecomesPrimary
  <1>34. ASSUME NEW n \in Node, PgCrash(n) PROVE TypeOK'
    BY <1>34 DEF PgCrash, AfterCrash
  <1>35. ASSUME NEW n \in Node, PatroniCrash(n) PROVE TypeOK'
    BY <1>35 DEF PatroniCrash, ProcessDies, Goto, SetLeader, Answered
  <1>36. ASSUME NEW n \in Node, WatchdogFires(n) PROVE TypeOK'
    BY <1>36 DEF WatchdogFires, MachineDies, ProcessDies, Goto, SetLeader, Answered
  <1>37. ASSUME NEW n \in Node, PatroniStart(n) PROVE TypeOK'
    BY <1>37 DEF PatroniStart, Goto
  <1> QED
    BY <1>1, <1>2, <1>3, <1>4, <1>5, <1>6, <1>7, <1>8, <1>9, <1>10, <1>11, <1>12,
       <1>13, <1>14, <1>15, <1>16, <1>17, <1>18, <1>19, <1>20, <1>21, <1>22, <1>23, <1>24,
       <1>25, <1>26, <1>27, <1>28, <1>29, <1>30, <1>31, <1>32, <1>33, <1>34, <1>35, <1>36,
       <1>37
       DEF Next, HaThread, JobThread, Requests, Failures

(* Every variable keeps its type in every behaviour of the loops.          *)
THEOREM TypeCorrect == Spec => []TypeOK
  <1>1. Init => TypeOK
    BY InitInv DEF IInv
  <1> QED
    BY <1>1, TypeStep, PTL DEF Spec

-----------------------------------------------------------------------------
(* The invariant.                                                          *)

LEMMA NodeStep ==
    ASSUME SafeConfiguration, IInv, NEW n \in Node
    PROVE  HaThread(n) \/ JobThread(n) \/ Requests(n) \/ Failures(n)
              \/ PgBecomesPrimary(n) \/ WatchdogFires(n)
           => NodeInv(n)' /\ Elsewhere(n)
  <1> USE ConstantsAssumption
      DEF SafeConfiguration, IInv, TypeOK, NodeInv, Elsewhere, SameNode, SameKey,
          PromoteJob, DemoteJob, loopVars, pgVars, wdVars, jobVars
  <1>1. ASSUME LoadCluster(n) PROVE NodeInv(n)' /\ Elsewhere(n)
    <2>1. Elsewhere(n)
      BY <1>1 DEF LoadCluster, Reload, Goto
    <2>2. NodeInv(n)'
      BY <1>1 DEF LoadCluster, Reload, Goto
    <2> QED
      BY <2>1, <2>2
  <1>2. ASSUME DcsError(n) PROVE NodeInv(n)' /\ Elsewhere(n)
    <2>1. Elsewhere(n)
      BY <1>2 DEF DcsError, HandleDcsError, Demote, Goto, Answered
    <2>2. NodeInv(n)'
      BY <1>2 DEF DcsError, HandleDcsError, Demote, Goto, Answered
    <2> QED
      BY <2>1, <2>2
  <1>3. ASSUME UpdateLeader(n) PROVE NodeInv(n)' /\ Elsewhere(n)
    <2>1. Elsewhere(n)
      BY <1>3 DEF UpdateLeader, Goto, CanUpdate, Leased
    <2>2. NodeInv(n)'
      BY <1>3 DEF UpdateLeader, Goto, CanUpdate, Leased
    <2> QED
      BY <2>1, <2>2
  <1>4. ASSUME LongActionWithoutLock(n) PROVE NodeInv(n)' /\ Elsewhere(n)
    <2>1. Elsewhere(n)
      BY <1>4 DEF LongActionWithoutLock, LostLockDuringAction, Demote, Goto
    <2>2. NodeInv(n)'
      BY <1>4 DEF LongActionWithoutLock, LostLockDuringAction, Demote, Goto
    <2> QED
      BY <2>1, <2>2
  <1>5. ASSUME LongActionWithLock(n) PROVE NodeInv(n)' /\ Elsewhere(n)
    <2>1. Elsewhere(n)
      BY <1>5 DEF LongActionWithLock, LostLockDuringAction, Demote, Goto, Keepalive,
            Answered
    <2>2. NodeInv(n)'
      BY <1>5 DEF LongActionWithLock, LostLockDuringAction, Demote, Goto, Keepalive,
            Answered
    <2> QED
      BY <2>1, <2>2
  <1>6. ASSUME AcquireLeader(n) PROVE NodeInv(n)' /\ Elsewhere(n)
    <2>1. Elsewhere(n)
      BY <1>6 DEF AcquireLeader, Leased, Reload, Follow, Demote, Goto
    <2>2. NodeInv(n)'
      BY <1>6 DEF AcquireLeader, Leased, Reload, Follow, Demote, Goto
    <2> QED
      BY <2>1, <2>2
  <1>7. ASSUME NotHealthiest(n) PROVE NodeInv(n)' /\ Elsewhere(n)
    <2>1. Elsewhere(n)
      BY <1>7 DEF NotHealthiest, Reload, Follow, Demote, Goto
    <2>2. NodeInv(n)'
      BY <1>7 DEF NotHealthiest, Reload, Follow, Demote, Goto
    <2> QED
      BY <2>1, <2>2
  <1>8. ASSUME FollowLeader(n) PROVE NodeInv(n)' /\ Elsewhere(n)
    <2>1. Elsewhere(n)
      BY <1>8 DEF FollowLeader, Follow, Demote, Goto
    <2>2. NodeInv(n)'
      BY <1>8 DEF FollowLeader, Follow, Demote, Goto
    <2> QED
      BY <2>1, <2>2
  <1>9. ASSUME LockAcquired(n) PROVE NodeInv(n)' /\ Elsewhere(n)
    <2>1. Elsewhere(n)
      BY <1>9 DEF LockAcquired, EnforcePrimaryRole, WatchdogFailsToActivate,
            WatchdogRunning, Release, Deleted, NoKey, Demote, Goto
    <2>2. NodeInv(n)'
      BY <1>9 DEF LockAcquired, EnforcePrimaryRole, WatchdogFailsToActivate,
            WatchdogRunning, Release, Deleted, NoKey, Demote, Goto
    <2> QED
      BY <2>1, <2>2
  <1>10. ASSUME LockUpdated(n) PROVE NodeInv(n)' /\ Elsewhere(n)
    <2>1. Elsewhere(n)
      BY <1>10 DEF LockUpdated, EnforcePrimaryRole, WatchdogFailsToActivate,
            WatchdogRunning, Release, Deleted, NoKey, Demote, Goto, Answered
    <2>2. NodeInv(n)'
      BY <1>10 DEF LockUpdated, EnforcePrimaryRole, WatchdogFailsToActivate,
            WatchdogRunning, Release, Deleted, NoKey, Demote, Goto, Answered
    <2> QED
      BY <2>1, <2>2
  <1>11. ASSUME Switchover(n) PROVE NodeInv(n)' /\ Elsewhere(n)
    <2>1. Elsewhere(n)
      BY <1>11 DEF Switchover, Keepalive, Goto, Answered
    <2>2. NodeInv(n)'
      BY <1>11 DEF Switchover, Keepalive, Goto, Answered
    <2> QED
      BY <2>1, <2>2
  <1>12. ASSUME LockNotUpdated(n) PROVE NodeInv(n)' /\ Elsewhere(n)
    <2>1. Elsewhere(n)
      BY <1>12 DEF LockNotUpdated, Demote, Goto, Answered
    <2>2. NodeInv(n)'
      BY <1>12 DEF LockNotUpdated, Demote, Goto, Answered
    <2> QED
      BY <2>1, <2>2
  <1>13. ASSUME RecoverWithoutLock(n) PROVE NodeInv(n)' /\ Elsewhere(n)
    <2>1. Elsewhere(n)
      BY <1>13 DEF RecoverWithoutLock, StartAsReplica, WatchdogDisable, Goto
    <2>2. NodeInv(n)'
      BY <1>13 DEF RecoverWithoutLock, StartAsReplica, WatchdogDisable, Goto
    <2> QED
      BY <2>1, <2>2
  <1>14. ASSUME RecoverWithLock(n) PROVE NodeInv(n)' /\ Elsewhere(n)
    <2>1. Elsewhere(n)
      BY <1>14 DEF RecoverWithLock, StartAsReplica, WatchdogDisable, Keepalive, Demote,
            Goto, Answered
    <2>2. NodeInv(n)'
      BY <1>14 DEF RecoverWithLock, StartAsReplica, WatchdogDisable, Keepalive, Demote,
            Goto, Answered
    <2> QED
      BY <2>1, <2>2
  <1>15. ASSUME PostRecover(n) PROVE NodeInv(n)' /\ Elsewhere(n)
    <2>1. Elsewhere(n)
      BY <1>15 DEF PostRecover, WatchdogDisable, Release, Deleted, NoKey, Goto
    <2>2. NodeInv(n)'
      BY <1>15 DEF PostRecover, WatchdogDisable, Release, Deleted, NoKey, Goto
    <2> QED
      BY <2>1, <2>2
  <1>16. ASSUME Safepoint(n) PROVE NodeInv(n)' /\ Elsewhere(n)
    <2>1. Elsewhere(n)
      BY <1>16 DEF Safepoint, WatchdogDisable, Stopping
    <2>2. NodeInv(n)'
      BY <1>16 DEF Safepoint, WatchdogDisable, Stopping
    <2> QED
      BY <2>1, <2>2
  <1>17. ASSUME Demoted(n) PROVE NodeInv(n)' /\ Elsewhere(n)
    <2>1. Elsewhere(n)
      BY <1>17 DEF Demoted, Deleted, NoKey, Goto
    <2>2. NodeInv(n)'
      BY <1>17 DEF Demoted, Deleted, NoKey, Goto
    <2> QED
      BY <2>1, <2>2
  <1>18. ASSUME Shutdown(n) PROVE NodeInv(n)' /\ Elsewhere(n)
    <2>1. Elsewhere(n)
      BY <1>18 DEF Shutdown, Goto
    <2>2. NodeInv(n)'
      BY <1>18 DEF Shutdown, Goto
    <2> QED
      BY <2>1, <2>2
  <1>19. ASSUME ShutdownDone(n) PROVE NodeInv(n)' /\ Elsewhere(n)
    <2>1. Elsewhere(n)
      BY <1>19 DEF ShutdownDone, ProcessDies, Deleted, NoKey, Goto, Answered
    <2>2. NodeInv(n)'
      BY <1>19 DEF ShutdownDone, ProcessDies, Deleted, NoKey, Goto, Answered
    <2> QED
      BY <2>1, <2>2
  <1>20. ASSUME PrePromote(n) PROVE NodeInv(n)' /\ Elsewhere(n)
    <2>1. Elsewhere(n)
      BY <1>20 DEF PrePromote, JobEnds
    <2>2. NodeInv(n)'
      BY <1>20 DEF PrePromote, JobEnds
    <2> QED
      BY <2>1, <2>2
  <1>21. ASSUME PgCtlPromote(n) PROVE NodeInv(n)' /\ Elsewhere(n)
    <2>1. Elsewhere(n)
      BY <1>21 DEF PgCtlPromote, JobEnds
    <2>2. NodeInv(n)'
      BY <1>21 DEF PgCtlPromote, JobEnds
    <2> QED
      BY <2>1, <2>2
  <1>22. ASSUME WaitPromote(n) PROVE NodeInv(n)' /\ Elsewhere(n)
    <2>1. Elsewhere(n)
      BY <1>22 DEF WaitPromote, JobEnds
    <2>2. NodeInv(n)'
      BY <1>22 DEF WaitPromote, JobEnds
    <2> QED
      BY <2>1, <2>2
  <1>23. ASSUME PromoteSetRole(n) PROVE NodeInv(n)' /\ Elsewhere(n)
    <2>1. Elsewhere(n)
      BY <1>23 DEF PromoteSetRole, JobEnds
    <2>2. NodeInv(n)'
      BY <1>23 DEF PromoteSetRole, JobEnds
    <2> QED
      BY <2>1, <2>2
  <1>24. ASSUME RunFollow(n) PROVE NodeInv(n)' /\ Elsewhere(n)
    <2>1. Elsewhere(n)
      BY <1>24 DEF RunFollow, JobEnds
    <2>2. NodeInv(n)'
      BY <1>24 DEF RunFollow, JobEnds
    <2> QED
      BY <2>1, <2>2
  <1>25. ASSUME StartPrimary(n) PROVE NodeInv(n)' /\ Elsewhere(n)
    <2>1. Elsewhere(n)
      BY <1>25 DEF StartPrimary, JobEnds
    <2>2. NodeInv(n)'
      BY <1>25 DEF StartPrimary, JobEnds
    <2> QED
      BY <2>1, <2>2
  <1>26. ASSUME StartReturns(n) PROVE NodeInv(n)' /\ Elsewhere(n)
    <2>1. Elsewhere(n)
      BY <1>26 DEF StartReturns, JobEnds
    <2>2. NodeInv(n)'
      BY <1>26 DEF StartReturns, JobEnds
    <2> QED
      BY <2>1, <2>2
  <1>27. ASSUME GracefulStopped(n) PROVE NodeInv(n)' /\ Elsewhere(n)
    <2>1. Elsewhere(n)
      BY <1>27 DEF GracefulStopped
    <2>2. NodeInv(n)'
      BY <1>27 DEF GracefulStopped
    <2> QED
      BY <2>1, <2>2
  <1>28. ASSUME GracefulRelease(n) PROVE NodeInv(n)' /\ Elsewhere(n)
    <2>1. Elsewhere(n)
      BY <1>28 DEF GracefulRelease, Release, Deleted, NoKey
    <2>2. NodeInv(n)'
      BY <1>28 DEF GracefulRelease, Release, Deleted, NoKey
    <2> QED
      BY <2>1, <2>2
  <1>29. ASSUME GracefulFollow(n) PROVE NodeInv(n)' /\ Elsewhere(n)
    <2>1. Elsewhere(n)
      BY <1>29 DEF GracefulFollow, JobEnds
    <2>2. NodeInv(n)'
      BY <1>29 DEF GracefulFollow, JobEnds
    <2> QED
      BY <2>1, <2>2
  <1>30. ASSUME PgBecomesPrimary(n) PROVE NodeInv(n)' /\ Elsewhere(n)
    <2>1. Elsewhere(n)
      BY <1>30 DEF PgBecomesPrimary
    <2>2. NodeInv(n)'
      BY <1>30 DEF PgBecomesPrimary
    <2> QED
      BY <2>1, <2>2
  <1>31. ASSUME PgCrash(n) PROVE NodeInv(n)' /\ Elsewhere(n)
    <2>1. Elsewhere(n)
      BY <1>31 DEF PgCrash, AfterCrash
    <2>2. NodeInv(n)'
      BY <1>31 DEF PgCrash, AfterCrash
    <2> QED
      BY <2>1, <2>2
  <1>32. ASSUME PatroniCrash(n) PROVE NodeInv(n)' /\ Elsewhere(n)
    <2>1. Elsewhere(n)
      BY <1>32 DEF PatroniCrash, ProcessDies, Goto, Answered
    <2>2. NodeInv(n)'
      BY <1>32 DEF PatroniCrash, ProcessDies, Goto, Answered
    <2> QED
      BY <2>1, <2>2
  <1>33. ASSUME WatchdogFires(n) PROVE NodeInv(n)' /\ Elsewhere(n)
    <2>1. Elsewhere(n)
      BY <1>33 DEF WatchdogFires, MachineDies, ProcessDies, Goto, Answered
    <2>2. NodeInv(n)'
      BY <1>33 DEF WatchdogFires, MachineDies, ProcessDies, Goto, Answered
    <2> QED
      BY <2>1, <2>2
  <1>34. ASSUME PatroniStart(n) PROVE NodeInv(n)' /\ Elsewhere(n)
    <2>1. Elsewhere(n)
      BY <1>34 DEF PatroniStart, Goto
    <2>2. NodeInv(n)'
      BY <1>34 DEF PatroniStart, Goto
    <2> QED
      BY <2>1, <2>2
  <1> QED
    BY <1>1, <1>2, <1>3, <1>4, <1>5, <1>6, <1>7, <1>8, <1>9, <1>10, <1>11, <1>12,
       <1>13, <1>14, <1>15, <1>16, <1>17, <1>18, <1>19, <1>20, <1>21, <1>22, <1>23, <1>24,
       <1>25, <1>26, <1>27, <1>28, <1>29, <1>30, <1>31, <1>32, <1>33, <1>34
       DEF HaThread, JobThread, Requests, Failures

LEMMA KeyExpiresInv ==
    ASSUME SafeConfiguration, IInv, KeyExpires, NEW n \in Node
    PROVE  NodeInv(n)'
  BY ConstantsAssumption DEF SafeConfiguration, IInv, TypeOK, NodeInv, KeyExpires, NoKey,
     loopVars, pgVars, wdVars, jobVars

LEMMA TickInv ==
    ASSUME SafeConfiguration, IInv, Tick, NEW n \in Node
    PROVE  NodeInv(n)'
  <1> USE ConstantsAssumption
  <1>1. /\ key.ttl \in Nat /\ hw[n] \in 0..WdOff /\ age[n] \in Nat
        /\ hw[n] # 0 /\ key'.owner = key.owner /\ key'.ttl = Less(key.ttl)
        /\ hw'[n] = IF hw[n] = WdOff THEN WdOff ELSE Less(hw[n])
        /\ age'[n] = IF pc[n] \in Waiting THEN age[n] + 1 ELSE 0
        /\ age[n] <= ReplyDelay
    BY DEF IInv, TypeOK, Tick
  <1>2. Armed(n) => Armed(n)'
    BY <1>1 DEF Less
  <1>3. FreshKey(n)'
    BY <1>1 DEF SafeConfiguration, IInv, NodeInv, Tick, Less
  <1>4. OpenIsArmed(n)'
    BY <1>1 DEF IInv, NodeInv, Tick, Less
  <1> QED
    BY <1>1, <1>2, <1>3, <1>4 DEF IInv, NodeInv, Tick, pgVars, jobVars

LEMMA InvStep ==
    ASSUME SafeConfiguration, IInv, [Next]_vars
    PROVE  IInv'
  <1>1. TypeOK'
    BY TypeStep DEF IInv
  <1>2. CASE KeyExpires
    BY <1>1, <1>2, KeyExpiresInv DEF IInv
  <1>3. CASE Tick
    BY <1>1, <1>3, TickInv DEF IInv
  <1>4. ASSUME NEW n \in Node,
               HaThread(n) \/ JobThread(n) \/ Requests(n) \/ Failures(n)
                  \/ PgBecomesPrimary(n) \/ WatchdogFires(n)
        PROVE  IInv'
    BY <1>1, <1>4, NodeStep, StepInv
  <1>5. CASE UNCHANGED vars
    BY <1>5 DEF IInv, TypeOK, NodeInv, vars, loopVars, pgVars, wdVars, jobVars
  <1> QED
    BY <1>2, <1>3, <1>4, <1>5 DEF Next

(* docs/watchdog.rst: with a required watchdog that expires before the key *)
(* does, PostgreSQL accepts no commits after the key expired.  Whatever    *)
(* the loops, background jobs, crashes and delays of any number of nodes   *)
(* do, a PostgreSQL that accepts commits belongs to the owner of the key.  *)
THEOREM PrimaryHoldsKeyCorrect ==
    ASSUME SafeConfiguration
    PROVE  Spec => []PrimaryHoldsKey
  <1>1. IInv => PrimaryHoldsKey
    BY DEF IInv, NodeInv, PrimaryHoldsKey
  <1>2. IInv /\ [Next]_vars => IInv'
    BY InvStep
  <1> QED
    BY InitInv, <1>1, <1>2, PTL DEF Spec

(* stop(): the watchdog is disarmed at the safepoint, never while          *)
(* PostgreSQL accepts commits: neither by the HA thread nor by the         *)
(* background demotion, in any step of any number of nodes.                *)
THEOREM DisarmedOnlyAtSafepointCorrect ==
    ASSUME SafeConfiguration
    PROVE  Spec => DisarmedOnlyAtSafepoint
  <1>1. IInv /\ [Next]_vars => IInv'
    BY InvStep
  <1>2. IInv' => \A n \in Node : hw'[n] = WdOff => pg'[n] \notin Writable
    BY DEF IInv, NodeInv
  <1>3. IInv /\ [Next]_vars =>
            [\A n \in Node : fd[n] /\ hw'[n] = WdOff /\ pc'[n] # "off" => pg'[n] \notin Writable]_vars
    BY <1>1, <1>2
  <1> QED
    BY InitInv, <1>1, <1>3, PTL DEF Spec, DisarmedOnlyAtSafepoint

-----------------------------------------------------------------------------
(***************************************************************************)
(* Manual failover, for any number of nodes, clients, requests and faults. *)
(* A key that has led to a demotion is removed before the next leader      *)
(* looks for a request: the key names nobody, or the leader is one that    *)
(* steps down, or one that took over knowing of the key.                   *)
(***************************************************************************)
MfNames == MfNodes \union {Nobody1}
MfKeys == [leader : MfNames, cand : MfNames, at : Nat, ver : Nat]

MfType ==
    /\ mfLeader \in MfNames /\ mfKey \in MfKeys
    /\ mfPaused \in BOOLEAN /\ mfUp \subseteq MfNodes /\ mfGood \subseteq MfNodes
    /\ mfRole \in [MfNodes -> {"primary", "replica"}]
    /\ mfView \in [MfNodes -> [leader : MfNames, key : MfKeys, paused : BOOLEAN]]
    /\ mfAt \in [MfNodes -> {"idle", "loaded", "demoting", "cleanup", "acquired", "follow"}]
    /\ mfClient \in [Clients -> [at : {"idle", "write", "poll", "done", "failed", "delete"}, req : MfKeys, leader : MfNames]]
    /\ mfVer \in Nat /\ mfServed \subseteq Nat
    /\ mfPromise \in MfNames /\ mfBroken \in BOOLEAN

\* A version stands for one content of the key.
OneContent(k) == k.ver <= mfVer /\ (k.ver = mfKey.ver => k = mfKey)
MfVersions ==
    /\ mfKey.ver <= mfVer
    /\ \A v \in mfServed : v <= mfVer
    /\ \A n \in MfNodes : OneContent(mfView[n].key)
    /\ \A c \in Clients : mfClient[c].at = "delete" => OneContent(mfClient[c].req)

\* Clients ask for something, and a leader steps down only if something is asked for.
AskedFor ==
    /\ \A c \in Clients : mfClient[c].at = "write" => Asked(mfClient[c].req)
    /\ mfKey.ver \in mfServed => Asked(mfKey)

\* What a leader in office has read was not served before.
ReadsUnserved ==
    \A n \in MfNodes : mfAt[n] = "loaded" /\ mfView[n].leader = n /\ mfLeader = n => mfView[n].key.ver \notin mfServed \/ mfBroken

\* While a served key is there, the leader steps down or is about to remove it.
ServedGoes ==
    mfKey.ver \in mfServed /\ mfLeader # Nobody1 =>
        \/ mfAt[mfLeader] = "demoting" \/ mfBroken
        \/ mfAt[mfLeader] = "cleanup" /\ mfView[mfLeader].key = mfKey

\* The candidate for which the leader stepped down is the one in the key, and healthy.
PromiseStands == mfPromise # Nobody1 => mfKey.cand = mfPromise /\ Good(mfPromise)

MfInv == MfType /\ MfVersions /\ AskedFor /\ ReadsUnserved /\ ServedGoes /\ PromiseStands

LEMMA MfInitInv == MfInit => MfInv
<1> SUFFICES ASSUME MfInit PROVE MfInv
  OBVIOUS
<1>1. mfLeader \in MfNodes
  BY ManualFailoverAssumption DEF MfInit
<1>2. NoRequest \in MfKeys
  BY DEF NoRequest, MfKeys, MfNames
<1>3. MfType
  BY <1>1, <1>2, Zenon DEF MfInit, MfType, MfNames, IdleClient
<1> QED BY <1>1, <1>2, <1>3 DEF MfInit, MfInv, MfVersions, OneContent, AskedFor, ReadsUnserved, ServedGoes, PromiseStands, IdleClient, NoRequest, MfKeys

\* What a write of the key leaves behind: a version that nobody has seen.
LEMMA KeyWritten ==
    ASSUME MfInv, NEW req, req.leader \in MfNames, req.cand \in MfNames, req.at \in Nat, WriteKey(req)
    PROVE  /\ mfVer' = mfVer + 1 /\ mfVer' \in Nat /\ mfKey' \in MfKeys /\ mfKey'.ver = mfVer'
           /\ mfKey'.ver \notin mfServed /\ mfPromise' = Nobody1
           /\ Asked(mfKey') <=> Asked(req)
BY DEF WriteKey, MfInv, MfType, MfVersions, MfKeys, Asked

LEMMA NothingAsked == NoRequest.leader \in MfNames /\ NoRequest.cand \in MfNames /\ NoRequest.at \in Nat /\ NoRequest \in MfKeys /\ ~Asked(NoRequest)
BY DEF NoRequest, MfNames, MfKeys, Asked

LEMMA MfLoadInv == ASSUME MfInv, NEW n \in MfNodes, MfLoad(n) PROVE MfInv'
<1> USE DEF MfInv
<1>1. MfType'
  BY ManualFailoverAssumption DEF MfType, MfNames, MfGoes, mfAux, mfWorld, MfLoad
<1>2. MfVersions'
  BY DEF MfVersions, OneContent, MfType, MfGoes, mfAux, mfWorld, MfLoad
<1>3. AskedFor'
  BY DEF AskedFor, MfType, MfVersions, OneContent, MfGoes, mfAux, mfWorld, MfLoad
<1>4. ReadsUnserved'
  BY ManualFailoverAssumption DEF ReadsUnserved, ServedGoes, MfType, MfVersions, OneContent, MfGoes, mfAux, mfWorld, MfLoad
<1>5. ServedGoes'
  BY ManualFailoverAssumption DEF ServedGoes, AskedFor, MfType, MfNames, MfGoes, mfAux, mfWorld, MfLoad
<1>6. PromiseStands'
  BY DEF PromiseStands, MfType, Good, MfGoes, mfAux, mfWorld, MfLoad
<1> QED BY <1>1, <1>2, <1>3, <1>4, <1>5, <1>6

LEMMA LeaderWaitsInv == ASSUME MfInv, NEW n \in MfNodes, LeaderWaits(n) PROVE MfInv'
<1> USE DEF MfInv
<1>1. MfType'
  BY ManualFailoverAssumption DEF MfType, MfNames, MfGoes, mfAux, mfWorld, LeaderWaits, MfUnchanged, InOffice, Onward
<1>2. MfVersions'
  BY DEF MfVersions, OneContent, MfType, MfGoes, mfAux, mfWorld, LeaderWaits, MfUnchanged, InOffice, Onward
<1>3. AskedFor'
  BY DEF AskedFor, MfType, MfVersions, OneContent, MfGoes, mfAux, mfWorld, LeaderWaits, MfUnchanged, InOffice, Onward
<1>4. ReadsUnserved'
  BY ManualFailoverAssumption DEF ReadsUnserved, ServedGoes, MfType, MfVersions, OneContent, MfGoes, mfAux, mfWorld, LeaderWaits, MfUnchanged, InOffice, Onward
<1>5. ServedGoes'
  BY ManualFailoverAssumption DEF ServedGoes, AskedFor, MfType, MfNames, MfGoes, mfAux, mfWorld, LeaderWaits, MfUnchanged, InOffice, Onward
<1>6. PromiseStands'
  BY DEF PromiseStands, MfType, Good, MfGoes, mfAux, mfWorld, LeaderWaits, MfUnchanged, InOffice, Onward
<1> QED BY <1>1, <1>2, <1>3, <1>4, <1>5, <1>6

LEMMA UnpromotedWaitsInv == ASSUME MfInv, NEW n \in MfNodes, UnpromotedWaits(n) PROVE MfInv'
<1> USE DEF MfInv
<1>1. MfType'
  BY ManualFailoverAssumption DEF MfType, MfNames, MfGoes, mfAux, mfWorld, UnpromotedWaits, MfUnchanged
<1>2. MfVersions'
  BY DEF MfVersions, OneContent, MfType, MfGoes, mfAux, mfWorld, UnpromotedWaits, MfUnchanged
<1>3. AskedFor'
  BY DEF AskedFor, MfType, MfVersions, OneContent, MfGoes, mfAux, mfWorld, UnpromotedWaits, MfUnchanged
<1>4. ReadsUnserved'
  BY ManualFailoverAssumption DEF ReadsUnserved, ServedGoes, MfType, MfVersions, OneContent, MfGoes, mfAux, mfWorld, UnpromotedWaits, MfUnchanged
<1>5. ServedGoes'
  BY ManualFailoverAssumption DEF ServedGoes, AskedFor, MfType, MfNames, MfGoes, mfAux, mfWorld, UnpromotedWaits, MfUnchanged
<1>6. PromiseStands'
  BY DEF PromiseStands, MfType, Good, MfGoes, mfAux, mfWorld, UnpromotedWaits, MfUnchanged
<1> QED BY <1>1, <1>2, <1>3, <1>4, <1>5, <1>6

LEMMA LeaderGivesBackInv == ASSUME MfInv, NEW n \in MfNodes, LeaderGivesBack(n) PROVE MfInv'
<1> USE DEF MfInv
<1>1. MfType'
  BY ManualFailoverAssumption DEF MfType, MfNames, MfGoes, mfAux, mfWorld, LeaderGivesBack
<1>2. MfVersions'
  BY DEF MfVersions, OneContent, MfType, MfGoes, mfAux, mfWorld, LeaderGivesBack
<1>3. AskedFor'
  BY DEF AskedFor, MfType, MfVersions, OneContent, MfGoes, mfAux, mfWorld, LeaderGivesBack
<1>4. ReadsUnserved'
  BY ManualFailoverAssumption DEF ReadsUnserved, ServedGoes, MfType, MfVersions, OneContent, MfGoes, mfAux, mfWorld, LeaderGivesBack
<1>5. ServedGoes'
  BY ManualFailoverAssumption DEF ServedGoes, AskedFor, MfType, MfNames, MfGoes, mfAux, mfWorld, LeaderGivesBack
<1>6. PromiseStands'
  BY DEF PromiseStands, MfType, Good, MfGoes, mfAux, mfWorld, LeaderGivesBack
<1> QED BY <1>1, <1>2, <1>3, <1>4, <1>5, <1>6

LEMMA Demoted1Inv == ASSUME MfInv, NEW n \in MfNodes, Demoted1(n) PROVE MfInv'
<1> USE DEF MfInv
<1>1. MfType'
  BY ManualFailoverAssumption DEF MfType, MfNames, MfGoes, mfAux, mfWorld, Demoted1
<1>2. MfVersions'
  BY DEF MfVersions, OneContent, MfType, MfGoes, mfAux, mfWorld, Demoted1
<1>3. AskedFor'
  BY DEF AskedFor, MfType, MfVersions, OneContent, MfGoes, mfAux, mfWorld, Demoted1
<1>4. ReadsUnserved'
  BY ManualFailoverAssumption DEF ReadsUnserved, ServedGoes, MfType, MfVersions, OneContent, MfGoes, mfAux, mfWorld, Demoted1
<1>5. ServedGoes'
  BY ManualFailoverAssumption DEF ServedGoes, AskedFor, MfType, MfNames, MfGoes, mfAux, mfWorld, Demoted1
<1>6. PromiseStands'
  BY DEF PromiseStands, MfType, Good, MfGoes, mfAux, mfWorld, Demoted1
<1> QED BY <1>1, <1>2, <1>3, <1>4, <1>5, <1>6

LEMMA CandidateGoneChangedInv == ASSUME MfInv, NEW n \in MfNodes, CandidateGoneChanged(n) PROVE MfInv'
<1> USE DEF MfInv
<1>1. MfType'
  BY ManualFailoverAssumption DEF MfType, MfNames, MfGoes, mfAux, mfWorld, CandidateGoneChanged, MfUnchanged
<1>2. MfVersions'
  BY DEF MfVersions, OneContent, MfType, MfGoes, mfAux, mfWorld, CandidateGoneChanged, MfUnchanged
<1>3. AskedFor'
  BY DEF AskedFor, MfType, MfVersions, OneContent, MfGoes, mfAux, mfWorld, CandidateGoneChanged, MfUnchanged
<1>4. ReadsUnserved'
  BY ManualFailoverAssumption DEF ReadsUnserved, ServedGoes, MfType, MfVersions, OneContent, MfGoes, mfAux, mfWorld, CandidateGoneChanged, MfUnchanged
<1>5. ServedGoes'
  BY ManualFailoverAssumption DEF ServedGoes, AskedFor, MfType, MfNames, MfGoes, mfAux, mfWorld, CandidateGoneChanged, MfUnchanged
<1>6. PromiseStands'
  BY DEF PromiseStands, MfType, Good, MfGoes, mfAux, mfWorld, CandidateGoneChanged, MfUnchanged
<1> QED BY <1>1, <1>2, <1>3, <1>4, <1>5, <1>6

LEMMA MfPromotedInv == ASSUME MfInv, NEW n \in MfNodes, MfPromoted(n) PROVE MfInv'
<1> USE DEF MfInv
<1>1. MfType'
  BY ManualFailoverAssumption DEF MfType, MfNames, MfGoes, mfAux, mfWorld, MfPromoted
<1>2. MfVersions'
  BY DEF MfVersions, OneContent, MfType, MfGoes, mfAux, mfWorld, MfPromoted
<1>3. AskedFor'
  BY DEF AskedFor, MfType, MfVersions, OneContent, MfGoes, mfAux, mfWorld, MfPromoted
<1>4. ReadsUnserved'
  BY ManualFailoverAssumption DEF ReadsUnserved, ServedGoes, MfType, MfVersions, OneContent, MfGoes, mfAux, mfWorld, MfPromoted
<1>5. ServedGoes'
  BY ManualFailoverAssumption DEF ServedGoes, AskedFor, MfType, MfNames, MfGoes, mfAux, mfWorld, MfPromoted
<1>6. PromiseStands'
  BY DEF PromiseStands, MfType, Good, MfGoes, mfAux, mfWorld, MfPromoted
<1> QED BY <1>1, <1>2, <1>3, <1>4, <1>5, <1>6

LEMMA MfFollowsInv == ASSUME MfInv, NEW n \in MfNodes, MfFollows(n) PROVE MfInv'
<1> USE DEF MfInv
<1>1. MfType'
  BY ManualFailoverAssumption DEF MfType, MfNames, MfGoes, mfAux, mfWorld, MfFollows
<1>2. MfVersions'
  BY DEF MfVersions, OneContent, MfType, MfGoes, mfAux, mfWorld, MfFollows
<1>3. AskedFor'
  BY DEF AskedFor, MfType, MfVersions, OneContent, MfGoes, mfAux, mfWorld, MfFollows
<1>4. ReadsUnserved'
  BY ManualFailoverAssumption DEF ReadsUnserved, ServedGoes, MfType, MfVersions, OneContent, MfGoes, mfAux, mfWorld, MfFollows
<1>5. ServedGoes'
  BY ManualFailoverAssumption DEF ServedGoes, AskedFor, MfType, MfNames, MfGoes, mfAux, mfWorld, MfFollows
<1>6. PromiseStands'
  BY DEF PromiseStands, MfType, Good, MfGoes, mfAux, mfWorld, MfFollows
<1> QED BY <1>1, <1>2, <1>3, <1>4, <1>5, <1>6

LEMMA NotPromotedInv == ASSUME MfInv, NEW n \in MfNodes, NotPromoted(n) PROVE MfInv'
<1> USE DEF MfInv
<1>1. MfType'
  BY ManualFailoverAssumption DEF MfType, MfNames, MfGoes, mfAux, mfWorld, NotPromoted, MfEvent
<1>2. MfVersions'
  BY DEF MfVersions, OneContent, MfType, MfGoes, mfAux, mfWorld, NotPromoted, MfEvent
<1>3. AskedFor'
  BY DEF AskedFor, MfType, MfVersions, OneContent, MfGoes, mfAux, mfWorld, NotPromoted, MfEvent
<1>4. ReadsUnserved'
  BY ManualFailoverAssumption DEF ReadsUnserved, ServedGoes, MfType, MfVersions, OneContent, MfGoes, mfAux, mfWorld, NotPromoted, MfEvent
<1>5. ServedGoes'
  BY ManualFailoverAssumption DEF ServedGoes, AskedFor, MfType, MfNames, MfGoes, mfAux, mfWorld, NotPromoted, MfEvent
<1>6. PromiseStands'
  BY DEF PromiseStands, MfType, Good, MfGoes, mfAux, mfWorld, NotPromoted, MfEvent
<1> QED BY <1>1, <1>2, <1>3, <1>4, <1>5, <1>6

LEMMA MfCrashInv == ASSUME MfInv, NEW n \in MfNodes, MfCrash(n) PROVE MfInv'
<1> USE DEF MfInv
<1>1. MfType'
  BY ManualFailoverAssumption DEF MfType, MfNames, MfGoes, mfAux, mfWorld, MfCrash, MfEvent
<1>2. MfVersions'
  BY DEF MfVersions, OneContent, MfType, MfGoes, mfAux, mfWorld, MfCrash, MfEvent
<1>3. AskedFor'
  BY DEF AskedFor, MfType, MfVersions, OneContent, MfGoes, mfAux, mfWorld, MfCrash, MfEvent
<1>4. ReadsUnserved'
  BY ManualFailoverAssumption DEF ReadsUnserved, ServedGoes, MfType, MfVersions, OneContent, MfGoes, mfAux, mfWorld, MfCrash, MfEvent
<1>5. ServedGoes'
  BY ManualFailoverAssumption DEF ServedGoes, AskedFor, MfType, MfNames, MfGoes, mfAux, mfWorld, MfCrash, MfEvent
<1>6. PromiseStands'
  BY DEF PromiseStands, MfType, Good, MfGoes, mfAux, mfWorld, MfCrash, MfEvent
<1> QED BY <1>1, <1>2, <1>3, <1>4, <1>5, <1>6

LEMMA LimitedInv == ASSUME MfInv, NEW n \in MfNodes, Limited(n) PROVE MfInv'
<1> USE DEF MfInv
<1>1. MfType'
  BY ManualFailoverAssumption DEF MfType, MfNames, MfGoes, mfAux, mfWorld, Limited, MfEvent
<1>2. MfVersions'
  BY DEF MfVersions, OneContent, MfType, MfGoes, mfAux, mfWorld, Limited, MfEvent
<1>3. AskedFor'
  BY DEF AskedFor, MfType, MfVersions, OneContent, MfGoes, mfAux, mfWorld, Limited, MfEvent
<1>4. ReadsUnserved'
  BY ManualFailoverAssumption DEF ReadsUnserved, ServedGoes, MfType, MfVersions, OneContent, MfGoes, mfAux, mfWorld, Limited, MfEvent
<1>5. ServedGoes'
  BY ManualFailoverAssumption DEF ServedGoes, AskedFor, MfType, MfNames, MfGoes, mfAux, mfWorld, Limited, MfEvent
<1>6. PromiseStands'
  BY DEF PromiseStands, MfType, Good, MfGoes, mfAux, mfWorld, Limited, MfEvent
<1> QED BY <1>1, <1>2, <1>3, <1>4, <1>5, <1>6

LEMMA LeaderStepsDownInv == ASSUME MfInv, NEW n \in MfNodes, LeaderStepsDown(n) PROVE MfInv'
<1> USE DEF MfInv
<1>1. MfType'
  <2>1. mfView[n].key.ver \in Nat /\ mfView[n].key.cand \in MfNames
    BY DEF MfType, MfKeys
  <2> QED BY <2>1 DEF MfType, MfGoes, mfWorld, LeaderStepsDown, MfUnchanged
<1>2. MfVersions'
  BY DEF MfVersions, OneContent, MfType, MfGoes, mfAux, mfWorld, LeaderStepsDown, MfUnchanged, InOffice
<1>3. AskedFor'
  BY DEF AskedFor, MfType, MfVersions, OneContent, MfGoes, mfAux, mfWorld, LeaderStepsDown, MfUnchanged, InOffice
<1>4. ReadsUnserved'
  BY ManualFailoverAssumption DEF ReadsUnserved, ServedGoes, MfType, MfVersions, OneContent, MfGoes, mfAux, mfWorld, LeaderStepsDown, MfUnchanged, InOffice
<1>5. ServedGoes'
  BY ManualFailoverAssumption DEF ServedGoes, AskedFor, MfType, MfNames, MfGoes, mfAux, mfWorld, LeaderStepsDown, MfUnchanged, InOffice
<1>6. PromiseStands'
  <2>1. mfKey = mfView[n].key /\ mfView[n].key.cand # Nobody1 => Good(mfView[n].key.cand)
    BY DEF LeaderStepsDown, StepDown, FailoverPossible
  <2> QED BY <2>1 DEF LeaderStepsDown, MfGoes, MfUnchanged, mfWorld, PromiseStands, Good
<1> QED BY <1>1, <1>2, <1>3, <1>4, <1>5, <1>6

LEMMA LeaderCleansInv == ASSUME MfInv, NEW n \in MfNodes, LeaderCleans(n) PROVE MfInv'
<1> USE DEF MfInv
<1>0. UNCHANGED <<mfKey, mfVer, mfPromise>> \/ (mfVer' = mfVer + 1 /\ mfVer' \in Nat /\ mfKey' \in MfKeys /\ mfKey'.ver = mfVer' /\ mfKey'.ver \notin mfServed /\ mfPromise' = Nobody1)
  BY KeyWritten, NothingAsked DEF LeaderCleans, WriteKeyIf
<1>1. MfType'
  BY <1>0, ManualFailoverAssumption DEF MfType, MfNames, MfGoes, mfAux, mfWorld, LeaderCleans, MfUnchanged, InOffice, Onward
<1>2. MfVersions'
  BY <1>0 DEF MfVersions, OneContent, MfType, MfKeys, MfGoes, mfAux, mfWorld, LeaderCleans, MfUnchanged, InOffice, Onward
<1>3. AskedFor'
  BY <1>0 DEF AskedFor, MfType, MfVersions, OneContent, MfGoes, mfAux, mfWorld, LeaderCleans, MfUnchanged, InOffice, Onward
<1>4. ReadsUnserved'
  BY <1>0, ManualFailoverAssumption DEF ReadsUnserved, ServedGoes, MfType, MfVersions, OneContent, MfGoes, mfAux, mfWorld, LeaderCleans, MfUnchanged, InOffice, Onward
<1>5. ServedGoes'
  BY <1>0, ManualFailoverAssumption DEF ServedGoes, AskedFor, MfType, MfNames, MfGoes, mfAux, mfWorld, LeaderCleans, MfUnchanged, InOffice, Onward
<1>6. PromiseStands'
  BY <1>0 DEF PromiseStands, MfType, Good, MfGoes, mfAux, mfWorld, LeaderCleans, MfUnchanged, InOffice, Onward
<1> QED BY <1>1, <1>2, <1>3, <1>4, <1>5, <1>6

LEMMA CleanupAfterAcquireInv == ASSUME MfInv, NEW n \in MfNodes, CleanupAfterAcquire(n) PROVE MfInv'
<1> USE DEF MfInv
<1>0. UNCHANGED <<mfKey, mfVer, mfPromise>> \/ (mfVer' = mfVer + 1 /\ mfVer' \in Nat /\ mfKey' \in MfKeys /\ mfKey'.ver = mfVer' /\ mfKey'.ver \notin mfServed /\ mfPromise' = Nobody1)
  <2> DEFINE req == [mfView[n].key EXCEPT !.leader = Nobody1]
  <2>1. req.leader \in MfNames /\ req.cand \in MfNames /\ req.at \in Nat
    BY DEF MfType, MfKeys, MfNames
  <2>2. WriteKey(NoRequest) \/ WriteKey(req) \/ UNCHANGED <<mfKey, mfVer, mfPromise>>
    BY DEF CleanupAfterAcquire, WriteKeyIf
  <2> QED BY <2>1, <2>2, KeyWritten, NothingAsked
<1>1. MfType'
  BY <1>0, ManualFailoverAssumption DEF MfType, MfNames, MfGoes, mfAux, mfWorld, CleanupAfterAcquire, MfUnchanged
<1>2. MfVersions'
  BY <1>0 DEF MfVersions, OneContent, MfType, MfKeys, MfGoes, mfAux, mfWorld, CleanupAfterAcquire, MfUnchanged
<1>3. AskedFor'
  BY <1>0 DEF AskedFor, MfType, MfVersions, OneContent, MfGoes, mfAux, mfWorld, CleanupAfterAcquire, MfUnchanged
<1>4. ReadsUnserved'
  BY <1>0, ManualFailoverAssumption DEF ReadsUnserved, ServedGoes, MfType, MfVersions, OneContent, MfGoes, mfAux, mfWorld, CleanupAfterAcquire, MfUnchanged
<1>5. ServedGoes'
  <2>1. mfKey.ver \in mfServed /\ mfView[n].key = mfKey => mfKey'.ver \notin mfServed
    <3>1. SUFFICES ASSUME mfKey.ver \in mfServed, mfView[n].key = mfKey PROVE ~UNCHANGED <<mfKey, mfVer, mfPromise>>
      BY <1>0
    <3>2. Asked(mfView[n].key)
      BY <3>1 DEF AskedFor
    <3>3. mfVer' = mfVer + 1
      BY <3>1, <3>2 DEF CleanupAfterAcquire, WriteKeyIf, WriteKey
    <3> QED BY <3>3 DEF MfType
  <2>2. CASE mfLeader = n
    BY <1>0, <2>1, <2>2, ManualFailoverAssumption DEF ServedGoes, MfType, MfNames, MfGoes, mfWorld, CleanupAfterAcquire, MfUnchanged
  <2>3. CASE mfLeader # n
    BY <1>0, <2>3, ManualFailoverAssumption DEF ServedGoes, MfType, MfNames, MfGoes, mfWorld, CleanupAfterAcquire, MfUnchanged
  <2> QED BY <2>2, <2>3
<1>6. PromiseStands'
  BY <1>0 DEF PromiseStands, MfType, Good, MfGoes, mfAux, mfWorld, CleanupAfterAcquire, MfUnchanged
<1> QED BY <1>1, <1>2, <1>3, <1>4, <1>5, <1>6

LEMMA RaceInv == ASSUME MfInv, NEW n \in MfNodes, Race(n) PROVE MfInv'
<1> USE DEF MfInv
<1>0. PICK healthy \in IsHealthiest(n) :
         /\ mfLeader' = IF healthy /\ mfLeader = Nobody1 THEN n ELSE mfLeader
         /\ MfGoes(n, "loaded", IF healthy /\ mfLeader = Nobody1 THEN "cleanup" ELSE "follow")
         /\ mfBroken' = (mfBroken \/ (healthy /\ mfLeader = Nobody1 /\ mfView[n].key # mfKey))
  BY Zenon DEF Race
<1>a. \/ UNCHANGED <<mfKey, mfVer>>
      \/ CandidateGone(n) /\ mfVer' = mfVer + 1 /\ mfVer' \in Nat /\ mfKey' \in MfKeys /\ mfKey'.ver = mfVer' /\ mfKey'.ver \notin mfServed /\ mfView[n].key = mfKey
  BY NothingAsked DEF Race, MfType, MfVersions, OneContent, NoRequest, MfKeys
<1>b. UNCHANGED <<mfWorld, mfRole, mfView, mfClient, mfServed>> /\ mfPromise' = IF mfLeader' # Nobody1 THEN Nobody1 ELSE mfPromise
  BY DEF Race
<1>1. MfType'
  BY <1>0, <1>a, <1>b, ManualFailoverAssumption DEF MfType, MfNames, MfGoes, mfWorld
<1>2. MfVersions'
  BY <1>a, <1>b DEF MfVersions, OneContent, MfType, MfKeys
<1>3. AskedFor'
  BY <1>a, <1>b DEF AskedFor
<1>4. ReadsUnserved'
  BY <1>0, <1>b DEF ReadsUnserved, MfType, MfGoes
<1>5. ServedGoes'
  <2> SUFFICES ASSUME mfKey'.ver \in mfServed, mfLeader' # Nobody1, ~mfBroken'
               PROVE  mfAt'[mfLeader'] = "demoting" \/ (mfAt'[mfLeader'] = "cleanup" /\ mfView'[mfLeader'].key = mfKey')
    BY <1>b DEF ServedGoes
  <2>1. UNCHANGED <<mfKey, mfVer, mfView>>
    BY <1>a, <1>b
  <2>2. CASE healthy /\ mfLeader = Nobody1
    BY <1>0, <2>1, <2>2 DEF MfGoes, MfType
  <2>3. CASE ~(healthy /\ mfLeader = Nobody1)
    <3>1. mfLeader' = mfLeader /\ ~mfBroken /\ mfLeader \in MfNodes
      BY <1>0, <2>3, Zenon DEF MfType, MfNames
    <3>2. mfAt[mfLeader] \in {"demoting", "cleanup"}
      BY <2>1, <3>1 DEF ServedGoes
    <3>3. mfLeader # n
      BY <3>2, <1>0 DEF MfGoes
    <3>4. \E there : mfAt' = [mfAt EXCEPT ![n] = there]
      BY <1>0, Zenon DEF MfGoes
    <3>5. mfAt'[mfLeader] = mfAt[mfLeader]
      BY <3>1, <3>3, <3>4 DEF MfType
    <3> QED BY <2>1, <3>1, <3>5 DEF ServedGoes
  <2> QED BY <2>2, <2>3
<1>6. PromiseStands'
  <2>1. mfPromise # Nobody1 => UNCHANGED mfKey
    BY <1>a DEF PromiseStands, CandidateGone, Good
  <2> QED BY <2>1, <1>b DEF PromiseStands, Good, mfWorld
<1> QED BY <1>1, <1>2, <1>3, <1>4, <1>5, <1>6

LEMMA PostFailoverInv == ASSUME MfInv, NEW c \in Clients, PostFailover(c) PROVE MfInv'
<1> USE DEF MfInv
<1>1. MfType'
  <2>1. MfRequests \subseteq MfKeys
    BY ManualFailoverAssumption DEF MfKeys, MfNames
  <2> QED BY <2>1 DEF MfType, PostFailover, mfAux, mfWorld
<1>2. MfVersions'
  BY DEF MfVersions, OneContent, MfType, mfAux, mfWorld, PostFailover, MfEvent
<1>3. AskedFor'
  <2>1. \A d \in Clients : d # c => mfClient'[d] = mfClient[d]
    BY DEF PostFailover, MfType
  <2>2. Asked(mfClient'[c].req)
    BY DEF PostFailover, MfType
  <2> QED BY <2>1, <2>2 DEF PostFailover, mfAux, mfWorld, AskedFor
<1>4. ReadsUnserved'
  BY ManualFailoverAssumption DEF ReadsUnserved, ServedGoes, MfType, MfVersions, OneContent, mfAux, mfWorld, PostFailover, MfEvent
<1>5. ServedGoes'
  BY ManualFailoverAssumption DEF ServedGoes, AskedFor, MfType, MfNames, mfAux, mfWorld, PostFailover, MfEvent
<1>6. PromiseStands'
  BY DEF PromiseStands, MfType, Good, mfAux, mfWorld, PostFailover, MfEvent
<1> QED BY <1>1, <1>2, <1>3, <1>4, <1>5, <1>6

LEMMA WriteRequestInv == ASSUME MfInv, NEW c \in Clients, WriteRequest(c) PROVE MfInv'
<1> USE DEF MfInv
<1>a. mfClient[c].req \in MfKeys
  BY DEF MfType
<1>0. mfVer' = mfVer + 1 /\ mfVer' \in Nat /\ mfKey' \in MfKeys /\ mfKey'.ver = mfVer' /\ mfKey'.ver \notin mfServed /\ mfPromise' = Nobody1
  BY <1>a, KeyWritten DEF WriteRequest, MfKeys
<1>1. MfType'
  BY <1>0, <1>a, NothingAsked DEF MfType, MfNames, mfAux, mfWorld, WriteRequest, IdleClient
<1>2. MfVersions'
  BY <1>0 DEF MfVersions, OneContent, MfType, MfKeys, mfAux, mfWorld, WriteRequest, IdleClient
<1>3. AskedFor'
  BY <1>0 DEF AskedFor, MfType, MfVersions, OneContent, mfAux, mfWorld, WriteRequest, IdleClient
<1>4. ReadsUnserved'
  BY <1>0, ManualFailoverAssumption DEF ReadsUnserved, ServedGoes, MfType, MfVersions, OneContent, mfAux, mfWorld, WriteRequest, IdleClient
<1>5. ServedGoes'
  BY <1>0, ManualFailoverAssumption DEF ServedGoes, AskedFor, MfType, MfNames, mfAux, mfWorld, WriteRequest, IdleClient
<1>6. PromiseStands'
  BY <1>0 DEF PromiseStands, MfType, Good, mfAux, mfWorld, WriteRequest, IdleClient
<1> QED BY <1>1, <1>2, <1>3, <1>4, <1>5, <1>6

LEMMA PollResultInv == ASSUME MfInv, NEW c \in Clients, PollResult(c) PROVE MfInv'
<1> USE DEF MfInv
<1>1. MfType'
  BY ManualFailoverAssumption DEF MfType, MfNames, mfAux, mfWorld, PollResult
<1>2. MfVersions'
  BY DEF MfVersions, OneContent, MfType, mfAux, mfWorld, PollResult
<1>3. AskedFor'
  BY DEF AskedFor, MfType, MfVersions, OneContent, mfAux, mfWorld, PollResult
<1>4. ReadsUnserved'
  BY ManualFailoverAssumption DEF ReadsUnserved, ServedGoes, MfType, MfVersions, OneContent, mfAux, mfWorld, PollResult
<1>5. ServedGoes'
  BY ManualFailoverAssumption DEF ServedGoes, AskedFor, MfType, MfNames, mfAux, mfWorld, PollResult
<1>6. PromiseStands'
  BY DEF PromiseStands, MfType, Good, mfAux, mfWorld, PollResult
<1> QED BY <1>1, <1>2, <1>3, <1>4, <1>5, <1>6

LEMMA PollEndedInv == ASSUME MfInv, NEW c \in Clients, PollEnded(c) PROVE MfInv'
<1> USE DEF MfInv
<1>1. MfType'
  BY ManualFailoverAssumption DEF MfType, MfNames, mfAux, mfWorld, PollEnded, MfEvent, IdleClient, NoRequest, MfKeys
<1>2. MfVersions'
  BY DEF MfVersions, OneContent, MfType, mfAux, mfWorld, PollEnded, MfEvent, IdleClient, NoRequest, MfKeys
<1>3. AskedFor'
  BY DEF AskedFor, MfType, MfVersions, OneContent, mfAux, mfWorld, PollEnded, MfEvent, IdleClient, NoRequest, MfKeys
<1>4. ReadsUnserved'
  BY ManualFailoverAssumption DEF ReadsUnserved, ServedGoes, MfType, MfVersions, OneContent, mfAux, mfWorld, PollEnded, MfEvent, IdleClient, NoRequest, MfKeys
<1>5. ServedGoes'
  BY ManualFailoverAssumption DEF ServedGoes, AskedFor, MfType, MfNames, mfAux, mfWorld, PollEnded, MfEvent, IdleClient, NoRequest, MfKeys
<1>6. PromiseStands'
  BY DEF PromiseStands, MfType, Good, mfAux, mfWorld, PollEnded, MfEvent, IdleClient, NoRequest, MfKeys
<1> QED BY <1>1, <1>2, <1>3, <1>4, <1>5, <1>6

LEMMA DeleteSwitchoverInv == ASSUME MfInv, NEW c \in Clients, DeleteSwitchover(c) PROVE MfInv'
<1> USE DEF MfInv
<1>1. MfType'
  BY ManualFailoverAssumption DEF MfType, MfNames, mfAux, mfWorld, DeleteSwitchover, MfEvent
<1>2. MfVersions'
  BY DEF MfVersions, OneContent, MfType, mfAux, mfWorld, DeleteSwitchover, MfEvent
<1>3. AskedFor'
  BY DEF AskedFor, MfType, MfVersions, OneContent, mfAux, mfWorld, DeleteSwitchover, MfEvent
<1>4. ReadsUnserved'
  BY ManualFailoverAssumption DEF ReadsUnserved, ServedGoes, MfType, MfVersions, OneContent, mfAux, mfWorld, DeleteSwitchover, MfEvent
<1>5. ServedGoes'
  BY ManualFailoverAssumption DEF ServedGoes, AskedFor, MfType, MfNames, mfAux, mfWorld, DeleteSwitchover, MfEvent
<1>6. PromiseStands'
  BY DEF PromiseStands, MfType, Good, mfAux, mfWorld, DeleteSwitchover, MfEvent
<1> QED BY <1>1, <1>2, <1>3, <1>4, <1>5, <1>6

LEMMA DeleteWritesInv == ASSUME MfInv, NEW c \in Clients, DeleteWrites(c) PROVE MfInv'
<1> USE DEF MfInv
<1>0. UNCHANGED <<mfKey, mfVer, mfPromise>> \/ (mfVer' = mfVer + 1 /\ mfVer' \in Nat /\ mfKey' \in MfKeys /\ mfKey'.ver = mfVer' /\ mfKey'.ver \notin mfServed /\ mfPromise' = Nobody1)
  BY KeyWritten, NothingAsked DEF DeleteWrites, WriteKeyIf
<1>1. MfType'
  BY <1>0, NothingAsked DEF MfType, MfNames, mfAux, mfWorld, DeleteWrites, IdleClient
<1>2. MfVersions'
  BY <1>0 DEF MfVersions, OneContent, MfType, MfKeys, mfAux, mfWorld, DeleteWrites, IdleClient
<1>3. AskedFor'
  BY <1>0 DEF AskedFor, MfType, MfVersions, OneContent, mfAux, mfWorld, DeleteWrites, IdleClient
<1>4. ReadsUnserved'
  BY <1>0, ManualFailoverAssumption DEF ReadsUnserved, ServedGoes, MfType, MfVersions, OneContent, mfAux, mfWorld, DeleteWrites, IdleClient
<1>5. ServedGoes'
  BY <1>0, ManualFailoverAssumption DEF ServedGoes, AskedFor, MfType, MfNames, mfAux, mfWorld, DeleteWrites, IdleClient
<1>6. PromiseStands'
  BY <1>0 DEF PromiseStands, MfType, Good, mfAux, mfWorld, DeleteWrites, IdleClient
<1> QED BY <1>1, <1>2, <1>3, <1>4, <1>5, <1>6

LEMMA TogglePauseInv == ASSUME MfInv, TogglePause PROVE MfInv'
<1> USE DEF MfInv
<1>1. MfType'
  BY ManualFailoverAssumption DEF MfType, MfNames, mfAux, mfWorld, TogglePause, MfEvent
<1>2. MfVersions'
  BY DEF MfVersions, OneContent, MfType, mfAux, mfWorld, TogglePause, MfEvent
<1>3. AskedFor'
  BY DEF AskedFor, MfType, MfVersions, OneContent, mfAux, mfWorld, TogglePause, MfEvent
<1>4. ReadsUnserved'
  BY ManualFailoverAssumption DEF ReadsUnserved, ServedGoes, MfType, MfVersions, OneContent, mfAux, mfWorld, TogglePause, MfEvent
<1>5. ServedGoes'
  BY ManualFailoverAssumption DEF ServedGoes, AskedFor, MfType, MfNames, mfAux, mfWorld, TogglePause, MfEvent
<1>6. PromiseStands'
  BY DEF PromiseStands, MfType, Good, mfAux, mfWorld, TogglePause, MfEvent
<1> QED BY <1>1, <1>2, <1>3, <1>4, <1>5, <1>6

LEMMA KeyLapsesInv == ASSUME MfInv, KeyLapses PROVE MfInv'
<1> USE DEF MfInv
<1>1. MfType'
  BY ManualFailoverAssumption DEF MfType, MfNames, mfAux, mfWorld, KeyLapses, MfEvent
<1>2. MfVersions'
  BY DEF MfVersions, OneContent, MfType, mfAux, mfWorld, KeyLapses, MfEvent
<1>3. AskedFor'
  BY DEF AskedFor, MfType, MfVersions, OneContent, mfAux, mfWorld, KeyLapses, MfEvent
<1>4. ReadsUnserved'
  BY ManualFailoverAssumption DEF ReadsUnserved, ServedGoes, MfType, MfVersions, OneContent, mfAux, mfWorld, KeyLapses, MfEvent
<1>5. ServedGoes'
  BY ManualFailoverAssumption DEF ServedGoes, AskedFor, MfType, MfNames, mfAux, mfWorld, KeyLapses, MfEvent
<1>6. PromiseStands'
  BY DEF PromiseStands, MfType, Good, mfAux, mfWorld, KeyLapses, MfEvent
<1> QED BY <1>1, <1>2, <1>3, <1>4, <1>5, <1>6

LEMMA MfTickInv == ASSUME MfInv, MfTick PROVE MfInv'
<1> USE DEF MfInv
<1>1. MfType'
  BY ManualFailoverAssumption DEF MfType, MfNames, mfAux, mfWorld, MfTick
<1>2. MfVersions'
  BY DEF MfVersions, OneContent, MfType, mfAux, mfWorld, MfTick
<1>3. AskedFor'
  BY DEF AskedFor, MfType, MfVersions, OneContent, mfAux, mfWorld, MfTick
<1>4. ReadsUnserved'
  BY ManualFailoverAssumption DEF ReadsUnserved, ServedGoes, MfType, MfVersions, OneContent, mfAux, mfWorld, MfTick
<1>5. ServedGoes'
  BY ManualFailoverAssumption DEF ServedGoes, AskedFor, MfType, MfNames, mfAux, mfWorld, MfTick
<1>6. PromiseStands'
  BY DEF PromiseStands, MfType, Good, mfAux, mfWorld, MfTick
<1> QED BY <1>1, <1>2, <1>3, <1>4, <1>5, <1>6

LEMMA MfCycleInv == ASSUME MfInv, NEW n \in MfNodes, MfCycle(n) PROVE MfInv'
BY MfLoadInv, LeaderStepsDownInv, LeaderCleansInv, LeaderWaitsInv, UnpromotedWaitsInv, LeaderGivesBackInv, Demoted1Inv, RaceInv,
   CandidateGoneChangedInv, CleanupAfterAcquireInv, MfPromotedInv, MfFollowsInv DEF MfCycle

LEMMA MfClientInv == ASSUME MfInv, NEW c \in Clients, MfClient(c) PROVE MfInv'
BY PostFailoverInv, WriteRequestInv, PollResultInv, PollEndedInv, DeleteSwitchoverInv, DeleteWritesInv DEF MfClient

LEMMA MfStutterInv == ASSUME MfInv, UNCHANGED mfVars PROVE MfInv'
BY DEF mfVars, MfInv, MfType, MfVersions, OneContent, AskedFor, ReadsUnserved, ServedGoes, PromiseStands, Good

LEMMA MfInvCorrect == MfSpec => []MfInv
<1>1. MfInv /\ [MfNext]_mfVars => MfInv'
  BY MfCycleInv, NotPromotedInv, MfCrashInv, LimitedInv, MfClientInv, TogglePauseInv, KeyLapsesInv, MfTickInv, MfStutterInv DEF MfNext
<1> QED BY <1>1, MfInitInv, PTL DEF MfSpec

\* Who goes from loading the cluster to a demotion is the leader, because of a request it has read.
LEMMA OnlyStepDownDemotes ==
    ASSUME MfInv, MfNext, NEW n \in MfNodes, mfAt[n] = "loaded", mfAt'[n] = "demoting"
    PROVE  LeaderStepsDown(n)
<1> USE DEF MfInv, MfType, MfGoes
<1>1. ASSUME NEW m \in MfNodes, MfCycle(m) PROVE LeaderStepsDown(n)
  <2>1. m = n
    BY <1>1 DEF MfCycle, MfLoad, LeaderStepsDown, LeaderCleans, LeaderWaits, UnpromotedWaits, LeaderGivesBack, Demoted1, Race,
                CandidateGoneChanged, CleanupAfterAcquire, MfPromoted, MfFollows
  <2> QED BY <1>1, <2>1 DEF MfCycle, MfLoad, LeaderCleans, LeaderWaits, UnpromotedWaits, LeaderGivesBack, Demoted1, Race,
                CandidateGoneChanged, CleanupAfterAcquire, MfPromoted, MfFollows, Onward
<1>2. ASSUME NEW m \in MfNodes, NotPromoted(m) \/ MfCrash(m) \/ Limited(m) PROVE FALSE
  BY <1>2 DEF NotPromoted, MfCrash, Limited
<1>3. ASSUME NEW c \in Clients, MfClient(c) PROVE FALSE
  BY <1>3 DEF MfClient, PostFailover, WriteRequest, PollResult, PollEnded, DeleteSwitchover, DeleteWrites
<1>4. ASSUME TogglePause \/ KeyLapses \/ MfTick PROVE FALSE
  BY <1>4 DEF TogglePause, KeyLapses, MfTick
<1> QED BY <1>1, <1>2, <1>3, <1>4 DEF MfNext

(***************************************************************************)
(* A request leads to one demotion at most, whatever faults there are and  *)
(* however the requests overlap, unless the node that took over was lost   *)
(* before it removed the key or took over without knowing of it.           *)
(***************************************************************************)
THEOREM OneDemotionPerRequestCorrect == MfSpec => OneDemotionPerRequest
<1>1. MfInv /\ [MfNext]_mfVars =>
        [\A n \in MfNodes : mfAt[n] = "loaded" /\ mfAt'[n] = "demoting" => mfView[n].key.ver \notin mfServed \/ mfBroken]_mfVars
  <2> SUFFICES ASSUME MfInv, MfNext, NEW n \in MfNodes, mfAt[n] = "loaded", mfAt'[n] = "demoting"
               PROVE  mfView[n].key.ver \notin mfServed \/ mfBroken
    OBVIOUS
  <2>1. InOffice(n)
    BY OnlyStepDownDemotes DEF LeaderStepsDown
  <2> QED BY <2>1 DEF InOffice, MfInv, ReadsUnserved
<1> QED BY <1>1, MfInvCorrect, PTL DEF MfSpec, OneDemotionPerRequest

(***************************************************************************)
(* The healthy candidate of a request for which the leader stepped down is *)
(* not overtaken by a replica that knows of the request.                   *)
(***************************************************************************)
THEOREM CandidateTakesOverCorrect == MfSpec => CandidateTakesOver
<1>1. MfInv /\ [MfNext]_mfVars =>
        [mfPromise # Nobody1 /\ mfLeader = Nobody1 /\ mfLeader' # Nobody1
           => mfLeader' = mfPromise \/ mfView[mfLeader'].key # mfKey \/ mfRole[mfLeader'] = "primary"]_mfVars
  <2> SUFFICES ASSUME MfInv, MfNext, mfPromise # Nobody1, mfLeader = Nobody1, mfLeader' # Nobody1
               PROVE  mfLeader' = mfPromise \/ mfView[mfLeader'].key # mfKey \/ mfRole[mfLeader'] = "primary"
    OBVIOUS
  <2>1. PICK n \in MfNodes : Race(n)
    BY DEF MfNext, MfCycle, MfClient, MfLoad, MfUnchanged, LeaderStepsDown, LeaderCleans, LeaderWaits, UnpromotedWaits, LeaderGivesBack, Demoted1,
           CandidateGoneChanged, CleanupAfterAcquire, MfPromoted, MfFollows, NotPromoted, MfCrash, Limited, PostFailover,
           WriteRequest, PollResult, PollEnded, DeleteSwitchover, DeleteWrites, TogglePause, KeyLapses, MfTick
  <2>2. TRUE \in IsHealthiest(n) /\ mfLeader' = n
    <3>1. IsHealthiest(n) \subseteq BOOLEAN
      BY DEF IsHealthiest, ManualNoLeader, Healthiest
    <3> QED BY <2>1, <3>1 DEF Race
  <2> SUFFICES ASSUME mfView[n].key = mfKey, mfRole[n] # "primary", n # mfPromise PROVE FALSE
    BY <2>2
  <2>3. mfView[n].key.cand = mfPromise /\ Good(mfPromise) /\ Asked(mfView[n].key) /\ ~CandidateGone(n)
    BY DEF MfInv, PromiseStands, Asked, CandidateGone
  <2>4. ~ManualNoLeader(n, mfView[n].key, TRUE) /\ ~ManualNoLeader(n, mfView[n].key, FALSE)
    BY <2>3 DEF ManualNoLeader
  <2> QED BY <2>2, <2>3, <2>4 DEF IsHealthiest, MfInv, MfType
<1> QED BY <1>1, MfInvCorrect, PTL DEF MfSpec, CandidateTakesOver

(***************************************************************************)
(* The leader in office, a client that cancels and a primary in pause      *)
(* remove only the request they have read.                                 *)
(***************************************************************************)
THEOREM NewRequestStaysCorrect == MfSpec => NewRequestStays
<1> DEFINE Removed == \/ \E n \in MfNodes : mfAt[n] = "cleanup" /\ mfAt'[n] = "acquired"
                      \/ \E n \in MfNodes : mfAt[n] = "loaded" /\ mfView[n].key = mfKey
                      \/ \E c \in Clients : mfClient[c].at = "delete" /\ mfClient[c].req = mfKey
<1>1. MfInv /\ [MfNext]_mfVars => [Asked(mfKey) /\ ~Asked(mfKey') => Removed]_mfVars
  <2> SUFFICES ASSUME MfInv, MfNext, Asked(mfKey), ~Asked(mfKey') PROVE Removed
    OBVIOUS
  <2>0. mfKey' # mfKey
    OBVIOUS
  <2>1. ASSUME NEW n \in MfNodes, MfCycle(n) PROVE Removed
    <3>1. LeaderCleans(n) \/ Race(n) \/ CleanupAfterAcquire(n)
      BY <2>0, <2>1 DEF MfCycle, MfLoad, LeaderStepsDown, LeaderWaits, UnpromotedWaits, LeaderGivesBack, Demoted1,
                CandidateGoneChanged, MfPromoted, MfFollows
    <3>2. CASE LeaderCleans(n)
      BY <2>0, <3>2 DEF LeaderCleans, WriteKeyIf, MfGoes, MfInv, MfVersions, OneContent
    <3>3. CASE Race(n)
      BY <2>0, <3>3 DEF Race, MfGoes, MfInv, MfVersions, OneContent
    <3>4. CASE CleanupAfterAcquire(n)
      BY <3>4 DEF CleanupAfterAcquire, MfGoes, MfInv, MfType
    <3> QED BY <3>1, <3>2, <3>3, <3>4
  <2>2. ASSUME NEW c \in Clients, MfClient(c) PROVE Removed
    <3>1. WriteRequest(c) \/ DeleteWrites(c)
      BY <2>0, <2>2 DEF MfClient, PostFailover, PollResult, PollEnded, DeleteSwitchover
    <3>2. CASE WriteRequest(c)
      BY <3>2 DEF WriteRequest, WriteKey, MfInv, AskedFor, Asked
    <3>3. CASE DeleteWrites(c)
      BY <2>0, <3>3 DEF DeleteWrites, WriteKeyIf, MfInv, MfVersions, OneContent
    <3> QED BY <3>1, <3>2, <3>3
  <2>3. ASSUME NEW n \in MfNodes, NotPromoted(n) \/ MfCrash(n) \/ Limited(n) PROVE FALSE
    BY <2>0, <2>3 DEF NotPromoted, MfCrash, Limited
  <2>4. ASSUME TogglePause \/ KeyLapses \/ MfTick PROVE FALSE
    BY <2>0, <2>4 DEF TogglePause, KeyLapses, MfTick
  <2> QED BY <2>1, <2>2, <2>3, <2>4 DEF MfNext
<1> QED BY <1>1, MfInvCorrect, PTL DEF MfSpec, NewRequestStays

-----------------------------------------------------------------------------
(***************************************************************************)
(* patronictl.  A request that is written twice moves the lock once: the   *)
(* node that took it because of the request is not one that it moves away. *)
(***************************************************************************)
Moving == ctCmd.cmd \in {"switchover", "failover"}

CtShape ==
    /\ ctLock \in CtNodes \union {CtNobody}
    /\ ctSteps \in {0, 1, 2} /\ ctMoved \in BOOLEAN
    /\ ctCmd = [cmd |-> ctCmd.cmd, at |-> ctCmd.at, ok |-> ctCmd.ok, on |-> ctCmd.on, leader |-> ctCmd.leader, cand |-> ctCmd.cand,
                todo |-> ctCmd.todo, old |-> ctCmd.old, wait |-> ctCmd.wait, i |-> ctCmd.i]

\* A switchover names the leader, a failover the candidate, and not the same node twice.
WellAsked == Moving => ctCmd.leader # ctCmd.cand

\* The holder of the lock is not one that the request moves away.
Arrived == ctLock = ctCmd.cand \/ (ctCmd.cand = CtNobody /\ ctLock # ctCmd.leader)

\* Once a leader stepped down, the request is there until the lock is where it should be.
MovedOnce ==
    Moving /\ ~ctMoved /\ ctSteps # 0 =>
        /\ ctSteps = 1 /\ ctKey \in {CtRequest, NoKeyValue}
        /\ IF ctLock = CtNobody THEN ctKey = CtRequest ELSE Arrived

CtInv == CtShape /\ WellAsked /\ MovedOnce

LEMMA CtInitInv == CtInit => CtInv
<1> SUFFICES ASSUME CtInit PROVE CtInv
  OBVIOUS
<1>1. ctLock = CtFirst /\ ctCmd = NoCommand /\ ctSteps = 0 /\ ctMoved = FALSE
  BY DEF CtInit
<1>2. ~Moving
  BY <1>1 DEF Moving, NoCommand
<1>3. CtShape
  BY <1>1, CtAssumption DEF CtShape, NoCommand
<1> QED BY <1>2, <1>3 DEF CtInv, WellAsked, MovedOnce

\* Steps that leave the lock, the request and its record alone.
LEMMA CtElsewhere ==
    ASSUME CtInv, UNCHANGED <<ctLock, ctKey, ctSteps, ctMoved, ctCmd>> PROVE CtInv'
BY DEF CtInv, CtShape, WellAsked, MovedOnce, Moving, Arrived, CtRequest

LEMMA CtBeginInv == ASSUME CtInv, CtStart PROVE CtInv'
<1>1. ASSUME NEW cmd, NEW on, NEW leader, NEW cand, NEW todo, CtBegin(cmd, on, leader, cand, todo),
             cmd \in {"switchover", "failover"} => leader # cand
      PROVE  CtInv'
  BY <1>1 DEF CtBegin, CtInv, CtShape, MovedOnce, WellAsked, Moving
<1>2. ASSUME NEW action \in {"switchover", "failover"}, NEW leader, NEW cand,
             DoFailoverOrSwitchover(action, leader, cand), action = "failover" => leader = CtNobody
      PROVE  CtInv'
  <2>1. leader # cand
    BY <1>2 DEF DoFailoverOrSwitchover, Replicas
  <2> QED BY <1>1, <1>2, <2>1 DEF DoFailoverOrSwitchover
<1>3. CASE CtSwitchover \/ CtFailover
  BY <1>2, <1>3 DEF CtSwitchover, CtFailover
<1>4. CASE CtPause \/ CtResume \/ DemoteCluster \/ PromoteCluster \/ Reinit
  BY <1>1, <1>4 DEF CtPause, CtResume, DoTogglePause, DemoteCluster, PromoteCluster, ChangeClusterRole, Reinit
<1> QED BY <1>3, <1>4 DEF CtStart

LEMMA CtCycleInv ==
    ASSUME CtInv, NEW n \in CtNodes, CtCycle(n) PROVE CtInv'
<1> USE CtAssumption DEF CtInv
<1>0. ctCmd' = ctCmd
  BY DEF CtCycle
<1>1. CASE UNCHANGED <<ctLock, ctKey, ctSteps, ctMoved>>
  BY <1>0, <1>1, CtElsewhere
<1>2. CASE /\ ctLock = n /\ StepsDown(n) /\ ctLock' = CtNobody /\ UNCHANGED <<ctKey, ctMoved>>
           /\ ctSteps' = IF ctKey = CtRequest /\ ctSteps < 2 THEN ctSteps + 1 ELSE ctSteps
  <2>1. Moving /\ ~ctMoved /\ ctSteps # 0 => FALSE
    BY <1>2 DEF MovedOnce, StepsDown, Arrived, CtRequest, WellAsked
  <2> QED BY <1>0, <1>2, <2>1 DEF CtShape, WellAsked, MovedOnce, Moving, CtRequest
<1>3. CASE ctLock = n /\ ctKey' \in {ctKey, NoKeyValue} /\ UNCHANGED <<ctLock, ctSteps, ctMoved>>
  BY <1>0, <1>3 DEF CtShape, WellAsked, MovedOnce, Moving, Arrived, CtRequest
<1>4. CASE /\ ctLock = CtNobody /\ ctLock' = n /\ ctKey' = NoKeyValue /\ UNCHANGED ctSteps
           /\ ctMoved' = (ctMoved \/ n = ctKey.leader \/ ctKey.cand \notin {CtNobody, n})
  <2>1. CtShape' /\ WellAsked'
    BY <1>0, <1>4 DEF CtShape, WellAsked, Moving
  <2>2. ~ctMoved' => ~ctMoved /\ n # ctKey.leader /\ ctKey.cand \in {CtNobody, n}
    BY <1>4 DEF CtShape
  <2>3. Moving /\ ~ctMoved /\ ctSteps # 0 => ctSteps = 1 /\ ctKey.leader = ctCmd.leader /\ ctKey.cand = ctCmd.cand
    BY <1>4 DEF MovedOnce, CtRequest
  <2> QED BY <1>0, <1>4, <2>1, <2>2, <2>3 DEF MovedOnce, Moving, Arrived
<1> QED BY <1>1, <1>2, <1>3, <1>4 DEF CtCycle

\* patronictl writes the request it has, and goes on with it.
LEMMA CtToolInv ==
    ASSUME CtInv, CtTool PROVE CtInv'
<1>0. ASSUME NEW n, NEW ok, CtHandles(n, ok) PROVE ctLock' = ctLock /\ (ctKey' = ctKey \/ ctKey' = CtRequest)
  BY <1>0 DEF CtHandles, PatchedConfig, PostedFailover, PostedReinitialize, ctDcs
<1>1. UNCHANGED <<ctSteps, ctMoved, ctLock>>
  BY <1>0 DEF CtTool, CtAsk, CtAskFails, CtFallBack, CtPauseWait, CtRoleWait, CtReinitWait, CtGoes, ctDcs
<1>2. ctKey' = ctKey \/ ctKey' = CtRequest
  BY <1>0 DEF CtTool, CtAsk, CtAskFails, CtFallBack, CtPauseWait, CtRoleWait, CtReinitWait, CtGoes, ctDcs
<1>3. /\ ctCmd'.cmd = ctCmd.cmd /\ ctCmd'.leader = ctCmd.leader /\ ctCmd'.cand = ctCmd.cand
      /\ ctCmd' = [cmd |-> ctCmd'.cmd, at |-> ctCmd'.at, ok |-> ctCmd'.ok, on |-> ctCmd'.on, leader |-> ctCmd'.leader, cand |-> ctCmd'.cand,
                todo |-> ctCmd'.todo, old |-> ctCmd'.old, wait |-> ctCmd'.wait, i |-> ctCmd'.i]
  <2> USE DEF CtInv, CtShape
  <2>1. CASE CtAsk
    BY <2>1 DEF CtAsk, Answers
  <2>2. CASE CtAskFails
    BY <2>2 DEF CtAskFails, LostAnswer
  <2>3. CASE CtFallBack \/ CtPauseWait \/ CtRoleWait
    BY <2>3 DEF CtFallBack, CtPauseWait, CtRoleWait, CtGoes
  <2>4. CASE CtReinitWait
    BY <2>4 DEF CtReinitWait, CtGoes, ReinitStep
  <2> QED BY <2>1, <2>2, <2>3, <2>4 DEF CtTool
<1> QED BY <1>1, <1>2, <1>3 DEF CtInv, CtShape, WellAsked, MovedOnce, Moving, Arrived, CtRequest

LEMMA CtExpiresInv ==
    ASSUME CtInv, NEW n \in CtNodes, CtExpires(n) PROVE CtInv'
BY DEF CtExpires, CtInv, CtShape, WellAsked, MovedOnce, Moving, Arrived, CtRequest

(***************************************************************************)
(* However many commands, faults and lost answers there are, a failover or *)
(* switchover makes a leader step down once at most, unless the lock was   *)
(* lost otherwise or another node than the candidate took it.              *)
(***************************************************************************)
THEOREM SwitchoverOnceCorrect == CtSpec => []SwitchoverOnce
<1>1. CtInv /\ [CtNext]_ctVars => CtInv'
  <2> SUFFICES ASSUME CtInv, [CtNext]_ctVars PROVE CtInv'
    OBVIOUS
  <2>1. ASSUME NEW n \in CtNodes, CtLoad(n) \/ CtJob(n) \/ CtCrash(n) \/ CtRestart(n) \/ CtSlow(n) PROVE CtInv'
    BY <2>1, CtElsewhere DEF CtLoad, CtJob, CtCrash, CtRestart, CtSlow, ctDcs
  <2>2. CASE UNCHANGED ctVars
    BY <2>2, CtElsewhere DEF ctVars
  <2> QED BY <2>1, <2>2, CtBeginInv, CtToolInv, CtCycleInv, CtExpiresInv DEF CtNext
<1>2. CtInv => SwitchoverOnce
  BY DEF CtInv, CtShape, MovedOnce, Moving, SwitchoverOnce
<1> QED BY <1>1, <1>2, CtInitInv, PTL DEF CtSpec
====
