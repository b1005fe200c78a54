---------------------------- MODULE StoreProofs ----------------------------
(***************************************************************************)
(* What the clients of the stores guarantee of the leader key, for any     *)
(* bounds on sessions, leases, revisions and commands: that etcd v3 and    *)
(* the Raft store implement LeaderKey, and what remains of it in Consul,   *)
(* ZooKeeper and Kubernetes.                                               *)
(***************************************************************************)
EXTENDS Etcd3, RaftStore, Consul, ZooKeeper, Kubernetes, TLAPS

(***************************************************************************)
(* Consul.  A version of the key is one value of it, other members' keys   *)
(* hang on no session of this member, and a key is deleted only by a       *)
(* member that saw itself as its owner.                                    *)
(***************************************************************************)
CsKeys == [owner : {CsMe, CsOther, CsNobody}, session : Nat, index : Nat]

CsType ==
    /\ csKey \in CsKeys
    /\ csView.leader \in CsKeys
    /\ csSession \in Nat
    /\ csSessions \in [created : Nat, alive : SUBSET (Nat \ {0})]

CsVersions ==
    /\ csView.leader.index <= csKey.index
    /\ csView.leader.index = csKey.index => csView.leader = csKey

CsInv ==
    /\ CsType
    /\ CsVersions
    /\ csKey.owner = CsOther => csKey.session = 0
    /\ csOp \in {"update", "remove", "delete"} => csView.leader.owner = CsMe

\* A session that is refreshed is no other member's.
LEMMA RefreshSessionFacts ==
  ASSUME CsInv, RefreshSession
  PROVE  csSession' \in Nat /\ csSessions' \in [created : Nat, alive : SUBSET (Nat \ {0})]
  BY DEF RefreshSession, CsInv, CsType

\* Every write of the key is a new version of it.
LEMMA CsWriteFacts ==
  ASSUME CsInv, NEW o \in {CsMe, CsOther, CsNobody}, NEW s \in Nat, Write(o, s), csView' = csView
  PROVE  /\ csKey' \in CsKeys /\ csKey'.owner = o /\ csKey'.session = s
         /\ CsVersions'
  BY DEF Write, CsInv, CsType, CsKeys, CsVersions

\* A lock is taken from nobody.
LEMMA CsAcquireFacts ==
  ASSUME CsInv, Acquire, SessionAlive, csView' = csView
  PROVE  /\ csKey' \in CsKeys /\ CsVersions'
         /\ csKey'.owner = CsOther => csKey'.session = 0
         /\ csKey.owner = CsOther => csKey' = csKey
  <1>1. csSession \in Nat \ {0}
    BY DEF CsInv, CsType, SessionAlive
  <1>2. csKey.owner = CsOther => ~(csKey.owner = CsNobody \/ csKey.session = csSession)
    BY <1>1, ConsulAssumption DEF CsInv
  <1>3. CASE csKey.owner = CsNobody \/ csKey.session = csSession
    <2>1. Write(CsMe, csSession)
      BY <1>3 DEF Acquire
    <2> QED
      BY <1>1, <1>2, <1>3, <2>1, CsWriteFacts, ConsulAssumption
  <1>4. CASE ~(csKey.owner = CsNobody \/ csKey.session = csSession)
    <2>1. csKey' = csKey
      BY <1>4 DEF Acquire
    <2> QED
      BY <2>1 DEF CsInv, CsType, CsVersions
  <1> QED
    BY <1>3, <1>4

\* One step of the member, of Consul or of another member.
LEMMA CsStep ==
  ASSUME CsInv, [CsNext]_csVars
  PROVE  /\ CsInv'
         /\ csKey.owner = CsOther /\ csOp' # csOp => csKey' = csKey
  <1> USE DEF CsInv
  <1>1. CASE CsLoad \/ CsBegin
    BY <1>1 DEF CsLoad, CsBegin, CsType, CsVersions, CsKeys
  <1>2. CASE CsUpdate
    BY <1>2, RefreshSessionFacts DEF CsUpdate, CsReturn, CsGoes, CsType, CsVersions
  <1>3. ASSUME NEW where \in {"remove", "delete"}, CsDelete(where)
        PROVE  CsInv' /\ (csKey.owner = CsOther => csKey' = csKey)
    <2>1. csOp' \in {"over", "put"} /\ csView' = csView /\ UNCHANGED <<csSession, csSessions>>
      BY <1>3 DEF CsDelete, CsGoes
    <2>2. CASE csKey.owner # CsNobody /\ csKey.index = csView.leader.index
      <3>1. csKey.owner = CsMe
        BY <1>3, <2>2 DEF CsDelete, CsVersions
      <3>2. Write(CsNobody, 0)
        BY <1>3, <2>2 DEF CsDelete
      <3> QED
        BY <2>1, <3>1, <3>2, CsWriteFacts, ConsulAssumption DEF CsType
    <2>3. CASE ~(csKey.owner # CsNobody /\ csKey.index = csView.leader.index)
      <3>1. csKey' = csKey
        BY <1>3, <2>3 DEF CsDelete
      <3> QED
        BY <2>1, <3>1 DEF CsType, CsVersions
    <2> QED
      BY <2>2, <2>3
  <1>4. CASE CsPut
    BY <1>4, CsAcquireFacts DEF CsPut, CsType
  <1>5. CASE CsLock
    <2>1. CASE SessionAlive
      BY <1>5, <2>1, CsAcquireFacts DEF CsLock, CsType
    <2>2. CASE ~SessionAlive
      BY <1>5, <2>2, RefreshSessionFacts DEF CsLock, CsType, CsVersions
    <2> QED
      BY <2>1, <2>2
  <1>6. CASE CsAcquire
    BY <1>6, RefreshSessionFacts DEF CsAcquire, CsGoes, CsType, CsVersions
  <1>7. CASE CsDone \/ CsOver \/ CsFails
    BY <1>7 DEF CsDone, CsOver, CsFails, CsReturn, CsType, CsVersions
  <1>8. CASE CsTouch
    BY <1>8, RefreshSessionFacts DEF CsTouch, CsType, CsVersions
  <1>9. CASE CsRegister \/ CsTouchFails \/ CsSetTtl
    BY <1>9 DEF CsRegister, CsTouchFails, CsSetTtl, CsType, CsVersions
  <1>10. ASSUME NEW s, SessionExpires(s)
         PROVE  CsInv' /\ csOp' = csOp
    <2>1. /\ csOp' = csOp /\ csView' = csView /\ csSession' = csSession
          /\ csSessions' \in [created : Nat, alive : SUBSET (Nat \ {0})]
      BY <1>10 DEF SessionExpires, CsType
    <2>2. Write(CsNobody, 0) \/ csKey' = csKey
      BY <1>10 DEF SessionExpires
    <2> QED
      BY <2>1, <2>2, CsWriteFacts, ConsulAssumption DEF CsType, CsVersions
  <1>11. CASE CsOtherMember
    <2>1. /\ csOp' = csOp /\ csView' = csView /\ csSession' = csSession /\ csSessions' = csSessions
          /\ Write(CsOther, 0) \/ Write(CsNobody, 0)
      BY <1>11 DEF CsOtherMember
    <2> QED
      BY <2>1, CsWriteFacts DEF CsType
  <1>12. CASE UNCHANGED csVars
    BY <1>12 DEF csVars, CsType, CsVersions
  <1> QED
    BY <1>1, <1>2, <1>3, <1>4, <1>5, <1>6, <1>7, <1>8, <1>9, <1>10, <1>11, <1>12 DEF CsNext, CsCycle

(***************************************************************************)
(* No step of a member takes the leader key in Consul from another member: *)
(* kv.delete compares the index of the cluster object (consul.py,          *)
(* _update_leader and _delete_leader), however old that object is.         *)
(***************************************************************************)
THEOREM CsOthersKeyLeftAloneCorrect == CsSpec => CsOthersKeyLeftAlone
  <1>1. CsInit => CsInv
    BY DEF CsInit, CsInv, CsType, CsKeys, CsVersions
  <1>2. CsInv /\ [CsNext]_csVars => CsInv'
    BY CsStep
  <1>3. CsInv /\ [CsNext]_csVars => [csKey.owner = CsOther /\ csOp' # csOp => csKey' = csKey]_csVars
    BY CsStep
  <1> QED
    BY <1>1, <1>2, <1>3, PTL DEF CsSpec, CsOthersKeyLeftAlone

-----------------------------------------------------------------------------
(***************************************************************************)
(* ZooKeeper.  The znode that the member saw as its own stays while its    *)
(* session lives and no other member deletes it.                           *)
(***************************************************************************)
ZkNodes == [owner : {ZkMe, ZkOther, ZkNobody}, session : Nat]

ZkType ==
    /\ zkLeader \in ZkNodes /\ zkView.leader \in ZkNodes
    /\ zkHeld \in BOOLEAN /\ zkStolen \in BOOLEAN
    /\ zkSessions \in Nat /\ zkClientId \in 0..zkSessions
    /\ zkLeader.session <= zkSessions /\ zkView.leader.session <= zkSessions

OwnNodeStays ==
    zkOp \in {"loaded", "update"} /\ zkView.leader.owner = ZkMe /\ zkView.leader.session \in zkAlive /\ ~zkStolen
        => zkLeader = zkView.leader

ZkInv ==
    /\ ZkType
    /\ OwnNodeStays
    /\ zkOp \in {"update", "acquire", "create", "created"} /\ zkLeader.owner = ZkMe => zkHeld
    /\ zkOp = "created" => zkHeld
    /\ zkOp = "update" => zkView.leader.owner = ZkMe

\* One step of the member, of ZooKeeper or of another member.
LEMMA ZkStep ==
  ASSUME ZkInv, [ZkNext]_zkVars
  PROVE  ZkInv'
  <1> USE DEF ZkInv
  <1>1. CASE ZkLoad
    BY <1>1 DEF ZkLoad, ZkType, OwnNodeStays
  <1>2. CASE ZkBegin
    BY <1>2, ZooKeeperAssumption DEF ZkBegin, zkServer, ZkType, OwnNodeStays
  <1>3. CASE ZkUpdate \/ ZkCreated \/ ZkFails
    BY <1>3 DEF ZkUpdate, ZkCreated, ZkFails, ZkReturn, ZkGoes, zkServer, ZkType, OwnNodeStays
  <1>4. CASE ZkRemove
    BY <1>4, ZooKeeperAssumption DEF ZkRemove, ZkGoes, NoLeader, ZkType, ZkNodes, OwnNodeStays
  <1>5. CASE ZkCreate
    <2>1. \/ zkOp' \in {"created", "acquire"} /\ zkHeld' = TRUE /\ zkLeader' = [owner |-> ZkMe, session |-> zkClientId]
          \/ zkOp' = "touch" /\ zkHeld' = FALSE /\ zkLeader' = zkLeader
      BY <1>5 DEF ZkCreate, ZkReturn
    <2>2. UNCHANGED <<zkSessions, zkAlive, zkStolen, zkClientId, zkView>>
      BY <1>5 DEF ZkCreate
    <2>3. ZkType'
      <3>1. zkHeld' \in BOOLEAN
        BY <2>1
      <3>2. zkLeader' \in ZkNodes /\ zkLeader'.session <= zkSessions
        BY <2>1 DEF ZkType, ZkNodes
      <3> QED
        BY <2>2, <3>1, <3>2 DEF ZkType
    <2> QED
      BY <2>1, <2>2, <2>3 DEF OwnNodeStays
  <1>6. ASSUME NEW s, EndSession(s)
        PROVE  /\ zkLeader' \in ZkNodes /\ zkLeader' \in {zkLeader, NoLeader}
               /\ zkLeader.session # s => zkLeader' = zkLeader
    BY <1>6 DEF EndSession, ZkType, ZkNodes, NoLeader
  <1>7. CASE ZkSetTtl
    <2>1. zkOp' = "idle" /\ UNCHANGED <<zkView, zkHeld, zkStolen>>
      BY <1>7 DEF ZkSetTtl
    <2>2. zkSessions' = zkSessions + 1 /\ zkClientId' = zkSessions + 1 /\ EndSession(zkClientId)
      BY <1>7 DEF ZkSetTtl, ZkRestart
    <2> QED
      <3>1. zkLeader' \in ZkNodes /\ zkLeader'.session <= zkSessions
        BY <1>6, <2>2 DEF ZkType, NoLeader
      <3>2. ZkType'
        BY <2>1, <2>2, <3>1 DEF ZkType, ZkNodes
      <3> QED
        BY <2>1, <3>2 DEF OwnNodeStays
  <1>8. CASE ZkRelease
    <2>1. zkOp' = "touch" /\ zkHeld' \in BOOLEAN /\ UNCHANGED <<zkView, zkStolen>>
      BY <1>8 DEF ZkRelease, ZkReturn
    <2>2. \/ zkSessions' = zkSessions + 1 /\ zkClientId' = zkSessions + 1 /\ EndSession(zkClientId)
          \/ UNCHANGED <<zkLeader, zkSessions, zkClientId>>
      BY <1>8 DEF ZkRelease, ZkRestart
    <2> QED
      <3>1. zkLeader' \in ZkNodes /\ zkLeader'.session <= zkSessions
        BY <1>6, <2>2 DEF ZkType, NoLeader
      <3>2. ZkType'
        BY <2>1, <2>2, <3>1 DEF ZkType, ZkNodes
      <3> QED
        BY <2>1, <3>2 DEF OwnNodeStays
  <1>9. CASE ZkTouch \/ ZkRegister \/ ZkTouchFails
    BY <1>9 DEF ZkTouch, ZkRegister, ZkTouchFails, zkServer, ZkType, OwnNodeStays
  <1>10. CASE ZkExpires
    <2>1. PICK s \in zkAlive : EndSession(s) /\ zkAlive' = zkAlive \ {s}
      BY <1>10 DEF ZkExpires
    <2>2. UNCHANGED <<zkSessions, zkStolen, zkClientId, zkOp, zkView, zkHeld>>
      BY <1>10 DEF ZkExpires
    <2>3. ZkType'
      BY <1>6, <2>1, <2>2 DEF ZkType, NoLeader
    <2>4. OwnNodeStays'
      BY <1>6, <2>1, <2>2 DEF OwnNodeStays
    <2> QED
      BY <1>6, <2>1, <2>2, <2>3, <2>4, ZooKeeperAssumption DEF NoLeader
  <1>11. CASE Reconnect
    <2>1. zkSessions' = zkSessions + 1 /\ zkClientId' = zkSessions + 1 /\ zkAlive' = zkAlive \union {zkSessions + 1}
      BY <1>11 DEF Reconnect
    <2>2. UNCHANGED <<zkLeader, zkStolen, zkOp, zkView, zkHeld>>
      BY <1>11 DEF Reconnect
    <2> QED
      BY <2>1, <2>2 DEF ZkType, ZkNodes, OwnNodeStays
  <1>12. CASE ZkOtherMember
    <2>1. /\ zkLeader' \in {NoLeader, [owner |-> ZkOther, session |-> 0]}
          /\ UNCHANGED <<zkSessions, zkAlive, zkClientId, zkOp, zkView, zkHeld>>
      BY <1>12 DEF ZkOtherMember
    <2>2. zkStolen' \in BOOLEAN /\ (zkStolen' <=> zkStolen \/ zkLeader.owner = ZkMe)
      BY <1>12 DEF ZkOtherMember, ZkType
    <2>3. ZkType'
      BY <2>1, <2>2 DEF ZkType, ZkNodes, NoLeader
    <2>4. OwnNodeStays'
      BY <2>1, <2>2 DEF OwnNodeStays
    <2> QED
      BY <2>1, <2>3, <2>4, ZooKeeperAssumption DEF NoLeader
  <1>13. CASE UNCHANGED zkVars
    BY <1>13 DEF zkVars, ZkType, OwnNodeStays
  <1> QED
    BY <1>1, <1>2, <1>3, <1>4, <1>5, <1>7, <1>8, <1>9, <1>10, <1>11, <1>12, <1>13 DEF ZkNext, ZkCycle

(***************************************************************************)
(* update_leader and attempt_to_acquire_leader (zookeeper.py) return True  *)
(* only to a member that owned the znode during the call, except when its  *)
(* session is gone without kazoo knowing or another member deleted its     *)
(* znode, although an update of a znode of the session asks ZooKeeper      *)
(* nothing.                                                                *)
(***************************************************************************)
THEOREM ZkAnswersTrueCorrect == ZkSpec => ZkAnswersTrue
  <1> DEFINE True == zkOp \notin {"touch", "loaded"} /\ zkOp' = "touch" /\ zkAns' = "yes" => zkHeld \/ ~Connected \/ zkStolen
  <1>1. ZkInit => ZkInv
    <2> SUFFICES ASSUME ZkInit PROVE ZkInv
      OBVIOUS
    <2>1. ZkType
      <3>1. NoLeader \in ZkNodes
        BY DEF NoLeader, ZkNodes
      <3>2. zkHeld \in BOOLEAN /\ zkStolen \in BOOLEAN
        BY DEF ZkInit
      <3>3. zkLeader = NoLeader /\ zkView.leader = NoLeader /\ zkSessions = 1 /\ zkClientId = 1
        BY DEF ZkInit
      <3> QED
        BY <3>1, <3>2, <3>3 DEF ZkType, NoLeader
    <2> QED
      BY <2>1 DEF ZkInit, ZkInv, OwnNodeStays
  <1>2. ZkInv /\ [ZkNext]_zkVars => ZkInv'
    BY ZkStep
  <1>3. ZkInv /\ ZkNext => True
    <2> SUFFICES ASSUME ZkInv, ZkNext, zkOp \notin {"touch", "loaded"}, zkOp' = "touch", zkAns' = "yes"
                 PROVE  zkHeld \/ ~Connected \/ zkStolen
      OBVIOUS
    <2>1. CASE ZkUpdate
      <3>1. zkOp = "update" /\ zkView.leader.session = zkClientId
        BY <2>1 DEF ZkUpdate, ZkReturn, ZkGoes
      <3> QED
        BY <3>1 DEF ZkInv, OwnNodeStays, Connected
    <2>2. CASE ZkCreated
      BY <2>2 DEF ZkCreated, ZkInv
    <2>3. CASE ZkCreate \/ ZkFails \/ ZkRelease \/ ZkRemove
      BY <2>3 DEF ZkCreate, ZkFails, ZkRelease, ZkRemove, ZkReturn, ZkGoes
    <2>4. CASE ZkLoad \/ ZkBegin \/ ZkTouch \/ ZkRegister \/ ZkTouchFails \/ ZkSetTtl \/ ZkExpires \/ Reconnect \/ ZkOtherMember
      BY <2>4 DEF ZkLoad, ZkBegin, ZkTouch, ZkRegister, ZkTouchFails, ZkSetTtl, ZkExpires, Reconnect, ZkOtherMember
    <2> QED
      BY <2>1, <2>2, <2>3, <2>4 DEF ZkNext, ZkCycle
  <1>4. ZkInv /\ [ZkNext]_zkVars => [True]_zkVars
    BY <1>3
  <1> QED
    BY <1>1, <1>2, <1>4, PTL DEF ZkSpec, ZkAnswersTrue

-----------------------------------------------------------------------------
(***************************************************************************)
(* The Raft store.  Whoever is in a call while it owns the key is known to *)
(* have held it, the answer True follows a command that was applied, and   *)
(* who has deleted the key does not own it.                                *)
(***************************************************************************)
RfValues == [owner : {RfMe, RfOther, RfNobody}, updated : Nat, n : Nat]
RfOps == {"idle", "update", "create", "delete", "waitUpdate", "waitCreate", "waitDelete", "done", "deleted"}

RfType ==
    /\ rfLog \in Seq(RfValues) /\ Len(rfLog) > 0
    /\ \A i \in DOMAIN rfLog : rfLog[i].owner = RfNobody => rfLog[i] = Absent
    /\ rfSent \subseteq [kind : {"update", "create", "delete"}, updated : Nat, n : Nat]
    /\ rfNow \in Nat /\ rfCommand \in Nat
    /\ rfOp \in RfOps /\ rfHeld \in BOOLEAN /\ rfGiven \in BOOLEAN

RfInv ==
    /\ RfType
    /\ rfOp # "idle" /\ RfKey.owner = RfMe => rfHeld
    /\ rfOp = "done" => rfHeld
    /\ rfGiven => RfKey.owner # RfMe

\* What is appended to the log is the key from then on.
LEMMA RfAppendFacts ==
  ASSUME RfType, NEW v \in RfValues, v.owner = RfNobody => v = Absent, rfLog' = Append(rfLog, v)
  PROVE  /\ RfKey' = v
         /\ rfLog' \in Seq(RfValues) /\ Len(rfLog') > 0
         /\ \A i \in DOMAIN rfLog' : rfLog'[i].owner = RfNobody => rfLog'[i] = Absent
  BY DEF RfType, RfKey

\* The key is one of the values, and Absent when nobody owns it.
LEMMA RfKeyFacts ==
  ASSUME RfType
  PROVE  RfKey \in RfValues /\ (RfKey.owner = RfNobody => RfKey = Absent)
  BY DEF RfType, RfKey
RfAbstractStep == RfLeaderKey!LkNext \/ UNCHANGED RfLeaderKey!lkVars

\* A step that the leader key does not show.
LEMMA RfStutters ==
  ASSUME RfKey'.owner = RfKey.owner, RfCall' = RfCall, rfAns' = rfAns, rfGiven' = rfGiven
  PROVE  RfAbstractStep
  BY DEF RfAbstractStep, RfLeaderKey!lkVars

\* The HA loop calls one of the operations on the leader key.
LEMMA RfAsks ==
  ASSUME RfKey'.owner = RfKey.owner, RfCall = "out", RfCall' = (IF RfKey.owner = RfMe THEN "held" ELSE "in"),
         rfAns' = rfAns, rfGiven' = rfGiven
  PROVE  RfAbstractStep
  <1>1. RfLeaderKey!Ask(RfMe)
    BY RaftAssumption DEF RfLeaderKey!Ask
  <1> QED
    BY <1>1 DEF RfAbstractStep, RfLeaderKey!LkNext

\* A free key is created.
LEMMA RfTakes ==
  ASSUME NEW m \in {RfMe, RfOther}, RfKey.owner = RfNobody, RfKey'.owner = m,
         RfCall' = (IF m # RfMe \/ RfCall = "out" THEN RfCall ELSE "held"),
         rfAns' = rfAns, rfGiven' = (IF m = RfMe THEN FALSE ELSE rfGiven)
  PROVE  RfAbstractStep
  <1>1. RfLeaderKey!Take(m)
    BY RaftAssumption DEF RfLeaderKey!Take
  <1> QED
    BY <1>1 DEF RfAbstractStep, RfLeaderKey!LkNext

\* The key is removed for its owner.
LEMMA RfKeyExpires ==
  ASSUME RfKey.owner # RfNobody, RfKey'.owner = RfNobody, RfCall' = RfCall, rfAns' = rfAns, rfGiven' = rfGiven
  PROVE  RfAbstractStep
  BY DEF RfAbstractStep, RfLeaderKey!LkNext, RfLeaderKey!Expires

\* The member deletes its key.
LEMMA RfGivesUp ==
  ASSUME RfKey.owner = RfMe, RfKey'.owner = RfNobody, RfCall' = RfCall, rfAns' = rfAns, rfGiven' = TRUE
  PROVE  RfAbstractStep
  <1>1. RfLeaderKey!GiveUp(RfMe)
    BY RaftAssumption DEF RfLeaderKey!GiveUp
  <1> QED
    BY <1>1 DEF RfAbstractStep, RfLeaderKey!LkNext

\* The operation returns.
LEMMA RfAnswers ==
  ASSUME RfKey'.owner = RfKey.owner, RfCall # "out", RfCall' = "out", rfGiven' = rfGiven,
         rfAns' = "no" \/ (rfAns' = "yes" /\ (RfCall = "held" \/ rfGiven))
  PROVE  RfAbstractStep
  <1>1. RfLeaderKey!Answer(RfMe)
    BY RaftAssumption DEF RfLeaderKey!Answer
  <1> QED
    BY <1>1 DEF RfAbstractStep, RfLeaderKey!LkNext

\* A refused request: the call goes on with another one or returns False.
LEMMA RfRefusedFacts ==
  ASSUME RfInv, NEW kind, Refused(kind), rfOp # "idle", rfLog' = rfLog, rfGiven' = rfGiven,
         rfSent' \subseteq rfSent, rfNow' = rfNow, rfCommand' = rfCommand
  PROVE  RfInv' /\ RfAbstractStep
  <1>1. RfKey' = RfKey
    BY DEF RfKey
  <1>2. CASE rfOp' = "create" /\ UNCHANGED <<rfAns, rfHeld>>
    <2>1. RfInv'
      BY <1>1, <1>2 DEF RfInv, RfType, RfOps
    <2> QED
      BY <1>1, <1>2, <2>1, RfStutters DEF RfCall
  <1>3. CASE RfReturn(FALSE)
    <2>1. rfOp' = "idle" /\ rfAns' = "no" /\ rfHeld' \in BOOLEAN
      BY <1>3 DEF RfReturn
    <2>2. RfInv'
      BY <1>1, <2>1 DEF RfInv, RfType, RfOps
    <2> QED
      BY <1>1, <2>1, <2>2, RfAnswers DEF RfCall
  <1> QED
    BY <1>2, <1>3 DEF Refused

\* Every step of the store is a step of LeaderKey or leaves it as it is.
LEMMA RfStep ==
  ASSUME RfInv, [RfNext]_rfVars
  PROVE  RfInv' /\ RfAbstractStep
  <1>k. RfKey \in RfValues /\ (RfKey.owner = RfNobody => RfKey = Absent)
    BY RfKeyFacts DEF RfInv
  <1>a. Absent \in RfValues /\ Absent.owner = RfNobody
    BY DEF Absent, RfValues
  <1>0. ASSUME rfLog' = rfLog, rfGiven' = rfGiven, rfOp' = rfOp, rfHeld' = rfHeld, rfAns' = rfAns,
               rfSent' \subseteq rfSent, rfCommand' = rfCommand, rfNow' \in Nat
        PROVE  RfInv' /\ RfAbstractStep
    <2>1. RfKey' = RfKey /\ RfCall' = RfCall
      BY <1>0 DEF RfKey, RfCall
    <2>2. RfInv'
      BY <1>0, <2>1 DEF RfInv, RfType
    <2> QED
      BY <1>0, <2>1, <2>2, RfStutters
  <1>1. CASE RfBegin
    <2>1. RfKey' = RfKey /\ UNCHANGED <<rfLog, rfSent, rfNow, rfCommand, rfAns, rfGiven>>
      BY <1>1 DEF RfBegin, RfKey
    <2>2. rfOp = "idle" /\ rfOp' \in {"update", "delete", "create", "idle"}
      BY <1>1 DEF RfBegin
    <2>3. rfHeld' \in BOOLEAN /\ (rfHeld' <=> RfKey.owner = RfMe /\ rfOp' # "idle")
      BY <1>1 DEF RfBegin
    <2>4. RfInv'
      BY <2>1, <2>2, <2>3 DEF RfInv, RfType, RfOps
    <2>5. CASE rfOp' = "idle"
      BY <2>1, <2>2, <2>4, <2>5, RfStutters DEF RfCall
    <2>6. CASE rfOp' # "idle"
      BY <2>1, <2>2, <2>3, <2>4, <2>6, RfAsks DEF RfCall
    <2> QED
      BY <2>5, <2>6
  <1>2. CASE RfSend
    <2>1. rfOp \in {"update", "create", "delete"} /\ UNCHANGED <<rfLog, rfNow, rfGiven>>
      BY <1>2 DEF RfSend
    <2>2. CASE Requirements(Local, rfOp)
      <3>1. /\ rfCommand' = rfCommand + 1
            /\ rfSent' = rfSent \union {[kind |-> rfOp, updated |-> rfNow, n |-> rfCommand + 1]}
            /\ rfOp' \in {"waitUpdate", "waitCreate", "waitDelete"}
            /\ UNCHANGED <<rfAns, rfHeld>>
        BY <1>2, <2>2 DEF RfSend
      <3>2. RfKey' = RfKey
        BY <2>1 DEF RfKey
      <3>3. RfInv'
        BY <2>1, <3>1, <3>2 DEF RfInv, RfType, RfOps
      <3> QED
        BY <2>1, <3>1, <3>2, <3>3, RfStutters DEF RfCall
    <2>3. CASE ~Requirements(Local, rfOp)
      BY <1>2, <2>1, <2>3, RfRefusedFacts DEF RfSend
    <2> QED
      BY <2>2, <2>3
  <1>3. CASE RfResult
    <2>1. /\ rfOp # "idle" /\ rfOp' = "idle" /\ rfHeld' \in BOOLEAN
          /\ rfAns' = (IF rfOp = "done" THEN "yes" ELSE "no")
          /\ UNCHANGED <<rfLog, rfSent, rfNow, rfCommand, rfGiven>>
      BY <1>3 DEF RfResult, RfReturn, RfWaiting
    <2>2. RfKey' = RfKey
      BY <2>1 DEF RfKey
    <2>3. RfInv'
      BY <2>1, <2>2 DEF RfInv, RfType, RfOps
    <2>4. rfOp = "done" => RfCall = "held"
      BY DEF RfInv, RfCall
    <2> QED
      BY <2>1, <2>2, <2>3, <2>4, RfAnswers DEF RfCall
  <1>4. ASSUME NEW c \in rfSent, Apply(c)
        PROVE  RfInv' /\ RfAbstractStep
    <2> DEFINE v == IF c.kind = "delete" THEN Absent ELSE [owner |-> RfMe, updated |-> c.updated, n |-> c.n]
    <2>1. c \in [kind : {"update", "create", "delete"}, updated : Nat, n : Nat]
      BY DEF RfInv, RfType
    <2>2. v \in RfValues /\ (v.owner = RfNobody => v = Absent)
      BY <1>a, <2>1, RaftAssumption DEF RfValues
    <2>3. /\ rfLog' = Append(rfLog, v) /\ rfSent' \subseteq rfSent
          /\ UNCHANGED <<rfNow, rfCommand, rfAns>>
          /\ Requirements(RfKey, c.kind)
      BY <1>4 DEF Apply, Commit
    <2>4. /\ RfKey' = v
          /\ rfLog' \in Seq(RfValues) /\ Len(rfLog') > 0
          /\ \A i \in DOMAIN rfLog' : rfLog'[i].owner = RfNobody => rfLog'[i] = Absent
      BY <2>2, <2>3, RfAppendFacts DEF RfInv
    <2>5. rfGiven' \in BOOLEAN /\ (rfGiven' <=> c.kind = "delete")
      BY <1>4 DEF Apply, Commit
    <2>6. rfHeld' \in BOOLEAN /\ (rfHeld' <=> rfHeld \/ (rfOp # "idle" /\ v.owner = RfMe))
      <3>1. rfHeld' = (rfHeld \/ (rfOp # "idle" /\ RfKey'.owner = RfMe))
        BY <1>4 DEF Apply, RfKey
      <3> QED
        BY <2>4, <3>1
    <2>7. /\ rfOp' \in RfOps
          /\ rfOp = "idle" <=> rfOp' = "idle"
          /\ rfOp' = "done" => rfOp = "done" \/ (rfOp # "idle" /\ c.kind # "delete")
      BY <1>4 DEF Apply, RfWaiting, RfInv, RfType, RfOps
    <2>8. v.owner = (IF c.kind = "delete" THEN RfNobody ELSE RfMe)
      BY <1>a
    <2> HIDE DEF v
    <2>9. RfInv'
      BY <2>3, <2>4, <2>5, <2>6, <2>7, <2>8, RaftAssumption DEF RfInv, RfType
    <2>10. CASE c.kind = "delete"
      <3>1. RfKey.owner = RfMe
        BY <2>3, <2>10 DEF Requirements
      <3>2. RfCall' = RfCall
        BY <2>6, <2>7, <2>8, <2>10, RaftAssumption DEF RfCall
      <3> QED
        BY <2>3, <2>4, <2>5, <2>8, <2>9, <2>10, <3>1, <3>2, RfGivesUp DEF RfInv, RfType
    <2>11. CASE c.kind = "create"
      <3>1. RfKey.owner = RfNobody
        BY <1>a, <2>3, <2>11 DEF Requirements
      <3>2. RfCall' = IF RfCall = "out" THEN RfCall ELSE "held"
        BY <2>6, <2>7, <2>8, <2>11 DEF RfCall
      <3> QED
        BY <2>3, <2>4, <2>5, <2>8, <2>9, <2>11, <3>1, <3>2, RfTakes
    <2>12. CASE c.kind = "update"
      <3>1. RfKey.owner = RfMe
        BY <2>3, <2>12 DEF Requirements
      <3>2. RfCall' = RfCall
        BY <2>6, <2>7, <2>8, <2>12, <3>1 DEF RfCall, RfInv
      <3>3. rfGiven' = rfGiven
        BY <2>5, <2>12, <3>1 DEF RfInv, RfType
      <3> QED
        BY <2>3, <2>4, <2>8, <2>9, <2>12, <3>1, <3>2, <3>3, RfStutters
    <2> QED
      BY <2>1, <2>10, <2>11, <2>12
  <1>5. ASSUME NEW c \in rfSent, ApplyDenied(c)
        PROVE  RfInv' /\ RfAbstractStep
    <2>1. UNCHANGED <<rfLog, rfNow, rfCommand, rfGiven>> /\ rfSent' \subseteq rfSent
      BY <1>5 DEF ApplyDenied
    <2>2. CASE RfWaiting /\ c.n = rfCommand
      <3>1. Refused(c.kind) /\ rfOp # "idle"
        BY <1>5, <2>2 DEF ApplyDenied, RfWaiting
      <3> QED
        BY <2>1, <3>1, RfRefusedFacts
    <2>3. CASE ~(RfWaiting /\ c.n = rfCommand)
      <3>1. UNCHANGED <<rfOp, rfAns, rfHeld>>
        BY <1>5, <2>3 DEF ApplyDenied
      <3> QED
        BY <1>0, <2>1, <3>1 DEF RfInv, RfType
    <2> QED
      BY <2>2, <2>3
  <1>6. ASSUME NEW c \in rfSent, Lost(c)
        PROVE  RfInv' /\ RfAbstractStep
    BY <1>0, <1>6 DEF Lost, RfInv, RfType
  <1>7. ASSUME NEW n \in rfExpire, Expire(n) \/ ExpireLost(n)
        PROVE  RfInv' /\ RfAbstractStep
    <2>1. UNCHANGED <<rfSent, rfNow, rfOp, rfCommand, rfAns, rfHeld, rfGiven>>
      BY <1>7 DEF Expire, ExpireLost
    <2>2. CASE rfLog' = rfLog
      BY <1>0, <2>1, <2>2 DEF RfInv, RfType
    <2>3. CASE rfLog' = Append(rfLog, Absent)
      <3>1. /\ RfKey' = Absent
            /\ rfLog' \in Seq(RfValues) /\ Len(rfLog') > 0
            /\ \A i \in DOMAIN rfLog' : rfLog'[i].owner = RfNobody => rfLog'[i] = Absent
        BY <1>a, <2>3, RfAppendFacts DEF RfInv
      <3>2. RfInv'
        BY <1>a, <2>1, <3>1, RaftAssumption DEF RfInv, RfType
      <3>3. RfCall' = RfCall
        BY <2>1 DEF RfCall
      <3> QED
        BY <1>a, <2>1, <3>1, <3>2, <3>3, RfKeyExpires, RfStutters
    <2> QED
      BY <1>7, <2>2, <2>3 DEF Expire, ExpireLost
  <1>8. CASE RfOtherMember
    <2> DEFINE w == [owner |-> RfOther, updated |-> rfNow, n |-> rfCommand + 1]
    <2>1. /\ RfKey.owner # RfMe /\ rfCommand' = rfCommand + 1
          /\ UNCHANGED <<rfSent, rfNow, rfOp, rfAns, rfHeld, rfGiven>>
          /\ rfLog' = Append(rfLog, w) \/ (RfKey.owner = RfOther /\ rfLog' = Append(rfLog, Absent))
      BY <1>8 DEF RfOtherMember
    <2>2. w \in RfValues /\ w.owner = RfOther
      BY DEF RfInv, RfType, RfValues
    <2>3. RfCall' = RfCall
      BY <2>1 DEF RfCall
    <2> HIDE DEF w
    <2>4. CASE rfLog' = Append(rfLog, w)
      <3>1. /\ RfKey' = w
            /\ rfLog' \in Seq(RfValues) /\ Len(rfLog') > 0
            /\ \A i \in DOMAIN rfLog' : rfLog'[i].owner = RfNobody => rfLog'[i] = Absent
        BY <2>2, <2>4, RfAppendFacts, RaftAssumption DEF RfInv
      <3>2. RfInv'
        BY <2>1, <2>2, <3>1, RaftAssumption DEF RfInv, RfType
      <3>3. CASE RfKey.owner = RfNobody
        BY <2>1, <2>2, <2>3, <3>1, <3>2, <3>3, RfTakes, RaftAssumption
      <3>4. CASE RfKey.owner = RfOther
        BY <2>1, <2>2, <2>3, <3>1, <3>2, <3>4, RfStutters
      <3> QED
        BY <1>k, <2>1, <3>3, <3>4 DEF RfValues
    <2>5. CASE RfKey.owner = RfOther /\ rfLog' = Append(rfLog, Absent)
      <3>1. /\ RfKey' = Absent
            /\ rfLog' \in Seq(RfValues) /\ Len(rfLog') > 0
            /\ \A i \in DOMAIN rfLog' : rfLog'[i].owner = RfNobody => rfLog'[i] = Absent
        BY <1>a, <2>5, RfAppendFacts DEF RfInv
      <3>2. RfInv'
        BY <1>a, <2>1, <3>1, RaftAssumption DEF RfInv, RfType
      <3> QED
        BY <1>a, <2>1, <2>3, <2>5, <3>1, <3>2, RfKeyExpires, RaftAssumption
    <2> QED
      BY <2>1, <2>4, <2>5
  <1>9. CASE ExpireKeys \/ RaftLeaderChanges \/ Replicate \/ RfTick \/ UNCHANGED rfVars
    BY <1>0, <1>9 DEF ExpireKeys, RaftLeaderChanges, Replicate, RfTick, rfVars, RfInv, RfType
  <1> QED
    BY <1>1, <1>2, <1>3, <1>4, <1>5, <1>6, <1>7, <1>8, <1>9 DEF RfNext, RfExpires

(***************************************************************************)
(* The Raft store implements LeaderKey: although a member checks a request *)
(* against a replica that may lag, commands are lost, committed twice or   *)
(* late, and the key is renewed while its expiration is under way          *)
(* (raft.py: _update_leader, attempt_to_acquire_leader, _delete_leader,    *)
(* __expire_keys).                                                         *)
(***************************************************************************)
THEOREM RfKeepsPromiseCorrect == RfSpec => RfKeepsPromise
  <1>1. RfInit => RfInv /\ RfLeaderKey!LkInit
    <2> SUFFICES ASSUME RfInit PROVE RfInv /\ RfLeaderKey!LkInit
      OBVIOUS
    <2>1. Absent \in RfValues
      BY DEF Absent, RfValues
    <2>2. rfLog = <<Absent>> /\ RfKey = Absent
      BY DEF RfInit, RfKey
    <2>3. rfHeld \in BOOLEAN /\ rfGiven \in BOOLEAN /\ rfOp \in RfOps /\ rfOp = "idle" /\ ~rfGiven
      BY DEF RfInit, RfOps
    <2>4. RfType
      BY <2>1, <2>2, <2>3 DEF RfInit, RfType
    <2>5. RfInv
      BY <2>3, <2>4 DEF RfInv
    <2>6. RfLeaderKey!LkInit
      BY <2>2, <2>3 DEF RfInit, RfLeaderKey!LkInit, RfCall, Absent
    <2> QED
      BY <2>5, <2>6
  <1>2. RfInv /\ [RfNext]_rfVars => RfInv'
    BY RfStep
  <1>3. RfInv /\ [RfNext]_rfVars => [RfLeaderKey!LkNext]_(RfLeaderKey!lkVars)
    BY RfStep DEF RfAbstractStep
  <1> QED
    BY <1>1, <1>2, <1>3, PTL DEF RfSpec, RfKeepsPromise, RfLeaderKey!LkSpec

-----------------------------------------------------------------------------
(***************************************************************************)
(* etcd v3.  Every revision is a change of the key; the objects a member   *)
(* works with and takes for its own were once put by it, with their lease. *)
(***************************************************************************)
E3Entries == [owner : {E3Me, E3Other, E3Nobody}, lease : Nat, rev : Nat]
E3Caches == [thread : {"list", "install", "watch"}, got : E3Entries, obj : E3Entries, pos : Nat]
E3Ops == {"idle", "loaded", "update", "delete", "acquire", "create", "again", "renew", "created", "renewed", "deleted"}

WrittenByMe(k) == k.owner = E3Me => \E i \in DOMAIN e3Log : e3Log[i].owner = E3Me /\ e3Log[i].lease = k.lease

E3LogOK ==
    /\ e3Log \in Seq(E3Entries) /\ Len(e3Log) > 0
    /\ \A i \in DOMAIN e3Log :
          /\ e3Log[i].owner = E3Nobody => e3Log[i] = NoKey
          /\ e3Log[i].owner = E3Other => e3Log[i].lease = 0
          /\ e3Log[i].lease <= e3Granted
          /\ e3Log[i] = NoKey \/ e3Log[i].rev = i

E3Type ==
    /\ e3Granted \in Nat /\ e3Lease \in 0..e3Granted
    /\ e3Late \in [op : E3Ops \union {"none"}, lease : 0..e3Granted]
    /\ e3Cache \in E3Caches /\ e3View \in E3Entries
    /\ e3Op \in E3Ops /\ e3Held \in BOOLEAN /\ e3Given \in BOOLEAN
    /\ E3LogOK

\* While the lease of the member lives, a key it put with that lease is still there, unless it deleted it itself.
LeaseKeepsKey ==
    \A i \in DOMAIN e3Log :
        e3Log[i].owner = E3Me /\ e3Log[i].lease = e3Lease /\ Alive(e3Lease) => e3Given \/ (Key.owner = E3Me /\ Key.lease = e3Lease)

LateIsCurrent == e3Late # NoRequest => e3Op = "idle" /\ e3Lease \in {0, e3Late.lease}

E3Inv ==
    /\ E3Type
    /\ WrittenByMe(e3Cache.got) /\ WrittenByMe(e3Cache.obj) /\ WrittenByMe(e3View)
    /\ LeaseKeepsKey
    /\ LateIsCurrent
    /\ e3Op \notin {"idle", "loaded"} /\ Key.owner = E3Me => e3Held
    /\ e3Op \in {"created", "renewed"} => e3Held
    /\ e3Op = "update" => e3View.owner = E3Me
    /\ e3Given => Key.owner # E3Me

E3AbstractStep == E3Key!LkNext \/ UNCHANGED E3Key!lkVars

\* A step that the leader key does not show.
LEMMA E3Stutters ==
  ASSUME Key'.owner = Key.owner, E3Call' = E3Call, e3Ans' = e3Ans, e3Given' = e3Given
  PROVE  E3AbstractStep
  BY DEF E3AbstractStep, E3Key!lkVars

\* The HA loop calls one of the operations on the leader key.
LEMMA E3Asks ==
  ASSUME Key'.owner = Key.owner, E3Call = "out", E3Call' = (IF Key.owner = E3Me THEN "held" ELSE "in"),
         e3Ans' = e3Ans, e3Given' = e3Given
  PROVE  E3AbstractStep
  <1>1. E3Key!Ask(E3Me)
    BY Etcd3Assumption DEF E3Key!Ask
  <1> QED
    BY <1>1 DEF E3AbstractStep, E3Key!LkNext

\* A free key is put.
LEMMA E3Takes ==
  ASSUME NEW m \in {E3Me, E3Other}, Key.owner = E3Nobody, Key'.owner = m,
         E3Call' = (IF m # E3Me \/ E3Call = "out" THEN E3Call ELSE "held"),
         e3Ans' = e3Ans, e3Given' = (IF m = E3Me THEN FALSE ELSE e3Given)
  PROVE  E3AbstractStep
  <1>1. E3Key!Take(m)
    BY Etcd3Assumption DEF E3Key!Take
  <1> QED
    BY <1>1 DEF E3AbstractStep, E3Key!LkNext

\* The key goes with its lease.
LEMMA E3KeyExpires ==
  ASSUME Key.owner # E3Nobody, Key'.owner = E3Nobody, E3Call' = E3Call, e3Ans' = e3Ans, e3Given' = e3Given
  PROVE  E3AbstractStep
  BY DEF E3AbstractStep, E3Key!LkNext, E3Key!Expires

\* The member deletes its key.
LEMMA E3GivesUp ==
  ASSUME Key.owner = E3Me, Key'.owner = E3Nobody, E3Call' = E3Call, e3Ans' = e3Ans, e3Given' = TRUE
  PROVE  E3AbstractStep
  <1>1. E3Key!GiveUp(E3Me)
    BY Etcd3Assumption DEF E3Key!GiveUp
  <1> QED
    BY <1>1 DEF E3AbstractStep, E3Key!LkNext

\* The operation returns.
LEMMA E3Answers ==
  ASSUME Key'.owner = Key.owner, E3Call # "out", E3Call' = "out", e3Given' = e3Given,
         e3Ans' = "no" \/ (e3Ans' = "yes" /\ (E3Call = "held" \/ e3Given))
  PROVE  E3AbstractStep
  <1>1. E3Key!Answer(E3Me)
    BY Etcd3Assumption DEF E3Key!Answer
  <1> QED
    BY <1>1 DEF E3AbstractStep, E3Key!LkNext

\* What etcd stores is the key from then on, and the older revisions stay.
LEMMA E3AppendFacts ==
  ASSUME E3Type, NEW v \in E3Entries, e3Log' = Append(e3Log, v), e3Granted' = e3Granted,
         v = NoKey \/ (v.owner # E3Nobody /\ v.rev = Revision + 1),
         v.owner = E3Other => v.lease = 0, v.lease <= e3Granted
  PROVE  /\ E3LogOK'
         /\ Key' = v /\ Len(e3Log') = Len(e3Log) + 1
         /\ DOMAIN e3Log' = DOMAIN e3Log \union {Len(e3Log')}
         /\ \A i \in DOMAIN e3Log : e3Log'[i] = e3Log[i]
  <1>1. e3Log \in Seq(E3Entries) /\ Len(e3Log) \in Nat
    BY DEF E3Type, E3LogOK
  <1>2. /\ e3Log' \in Seq(E3Entries) /\ Len(e3Log') = Len(e3Log) + 1
        /\ DOMAIN e3Log' = DOMAIN e3Log \union {Len(e3Log')}
        /\ \A i \in DOMAIN e3Log : e3Log'[i] = e3Log[i]
        /\ e3Log'[Len(e3Log')] = v
    BY <1>1
  <1>3. Key' = v
    BY <1>2 DEF Key, Revision
  <1>4. E3LogOK'
    BY <1>1, <1>2 DEF E3Type, E3LogOK, Revision, NoKey
  <1> QED
    BY <1>2, <1>3, <1>4

\* The current key is one of the revisions.
LEMMA E3KeyFacts ==
  ASSUME E3Type
  PROVE  /\ Revision \in DOMAIN e3Log /\ Key = e3Log[Revision] /\ Key \in E3Entries
         /\ Key.owner = E3Nobody => Key = NoKey
         /\ Key.owner = E3Other => Key.lease = 0
         /\ Key.lease <= e3Granted
  BY DEF E3Type, E3LogOK, Key, Revision

\* The types of the revisions.
LEMMA E3EntryFacts ==
  ASSUME E3Type
  PROVE  /\ e3Granted \in Nat
         /\ \A i \in DOMAIN e3Log : /\ e3Log[i] \in E3Entries
                                    /\ e3Log[i].lease \in Nat /\ e3Log[i].rev \in Nat /\ e3Log[i].lease <= e3Granted
  <1>1. \A i \in DOMAIN e3Log : e3Log[i] \in E3Entries
    BY DEF E3Type, E3LogOK
  <1> QED
    BY <1>1 DEF E3Type, E3LogOK, E3Entries

\* A lease that is granted is new.
LEMMA RefreshLeaseFacts ==
  ASSUME E3Type, RefreshLease
  PROVE  /\ e3Granted' \in Nat /\ e3Granted <= e3Granted' /\ e3Lease' \in 1..e3Granted'
         /\ \/ Alive(e3Lease) /\ e3Lease' = e3Lease /\ e3Granted' = e3Granted
            \/ e3Lease' = e3Granted + 1 /\ e3Granted' = e3Granted + 1
  BY DEF E3Type, RefreshLease, Alive
(***************************************************************************)
(* A step that changes neither the key nor the fate of a lease; the member *)
(* keeps its lease, drops it or gets a new one, which no key has.          *)
(***************************************************************************)
E3LeaseStep ==
    /\ UNCHANGED <<e3Log, e3Dead, e3Given>>
    /\ \/ e3Lease' \in {0, e3Lease} /\ e3Granted' = e3Granted
       \/ e3Lease' = e3Granted + 1 /\ e3Granted' = e3Granted + 1

\* Such a step leaves alone what is known of the key.
LEMMA E3LeaseStepFacts ==
  ASSUME E3Inv, E3LeaseStep
  PROVE  /\ Key' = Key /\ e3Log' = e3Log /\ e3Given' = e3Given
         /\ E3LogOK' /\ LeaseKeepsKey'
         /\ e3Granted' \in Nat /\ e3Lease' \in 0..e3Granted' /\ e3Granted <= e3Granted'
  <1>1. Key' = Key /\ e3Log' = e3Log /\ e3Given' = e3Given
    BY DEF E3LeaseStep, Key, Revision
  <1>2. e3Granted' \in Nat /\ e3Lease' \in 0..e3Granted' /\ e3Granted <= e3Granted'
    BY DEF E3LeaseStep, E3Inv, E3Type
  <1>3. E3LogOK'
    <2>1. e3Granted \in Nat /\ \A i \in DOMAIN e3Log : e3Log[i].lease \in Nat /\ e3Log[i].lease <= e3Granted
      BY E3EntryFacts DEF E3Inv
    <2>2. \A i \in DOMAIN e3Log : e3Log[i].lease <= e3Granted'
      BY <1>2, <2>1
    <2> QED
      BY <1>1, <2>2 DEF E3Inv, E3Type, E3LogOK, NoKey
  <1>4. LeaseKeepsKey'
    <2> SUFFICES ASSUME NEW i \in DOMAIN e3Log, e3Log[i].owner = E3Me, e3Log[i].lease = e3Lease', Alive(e3Lease)'
                 PROVE  e3Given \/ (Key.owner = E3Me /\ Key.lease = e3Lease')
      BY <1>1 DEF LeaseKeepsKey
    <2>1. e3Log[i].lease <= e3Granted /\ e3Log[i].lease \in Nat /\ e3Granted \in Nat
      BY E3EntryFacts DEF E3Inv
    <2>2. e3Lease' # e3Granted + 1
      BY <2>1
    <2>3. e3Lease' = e3Lease /\ e3Granted' = e3Granted /\ e3Dead' = e3Dead
      BY <2>2 DEF E3LeaseStep, Alive
    <2> QED
      BY <2>3 DEF E3Inv, LeaseKeepsKey, Alive
  <1> QED
    BY <1>1, <1>2, <1>3, <1>4

\* The thread of the cache does not touch the key.
LEMMA E3CacheStep ==
  ASSUME E3Inv, BuildCache \/ InstallCache \/ ProcessEvent \/ WatchEnds
  PROVE  E3Inv' /\ E3AbstractStep
  <1>1. UNCHANGED <<e3Server, e3Client>>
    BY DEF BuildCache, InstallCache, ProcessEvent, WatchEnds
  <1>2. E3LeaseStep
    BY <1>1 DEF E3LeaseStep, e3Server, e3Client
  <1>3. /\ Key' = Key /\ e3Log' = e3Log /\ E3LogOK' /\ LeaseKeepsKey'
    BY <1>2, E3LeaseStepFacts
  <1>4. E3Call' = E3Call
    BY <1>1 DEF E3Call, e3Client
  <1>5. \A i \in DOMAIN e3Log : e3Log[i] \in E3Entries /\ WrittenByMe(e3Log[i])
    BY DEF E3Inv, E3Type, E3LogOK, WrittenByMe
  <1>6. NoKey \in E3Entries /\ NoKey.owner # E3Me
    BY Etcd3Assumption DEF NoKey, E3Entries
  <1>7. e3Cache \in E3Caches /\ WrittenByMe(e3Cache.got) /\ WrittenByMe(e3Cache.obj)
    BY DEF E3Inv, E3Type
  <1>8. e3Cache' \in E3Caches /\ WrittenByMe(e3Cache'.got) /\ WrittenByMe(e3Cache'.obj)
    <2>1. CASE BuildCache
      <3>1. PICK r \in 1..Revision : e3Cache' = [e3Cache EXCEPT !.thread = "install", !.got = e3Log[r], !.pos = r]
        BY <2>1 DEF BuildCache
      <3>2. r \in DOMAIN e3Log /\ r \in Nat
        BY DEF Revision, E3Inv, E3Type, E3LogOK
      <3> QED
        BY <1>5, <1>7, <3>1, <3>2 DEF E3Caches
    <2>2. CASE InstallCache
      BY <1>6, <1>7, <2>2 DEF InstallCache, E3Caches, WrittenByMe
    <2>3. CASE ProcessEvent
      <3> DEFINE next == [e3Cache EXCEPT !.pos = @ + 1]
      <3>1. next \in E3Caches /\ next.got = e3Cache.got /\ next.obj = e3Cache.obj /\ next.pos = e3Cache.pos + 1
        BY <1>7 DEF E3Caches
      <3>2. next.pos \in DOMAIN e3Log
        BY <1>7, <2>3, <3>1 DEF ProcessEvent, Revision, E3Inv, E3Type, E3LogOK, E3Caches
      <3>3. e3Cache' \in {CacheDelete(next, next.pos), CacheSet(next, e3Log[next.pos])}
        BY <2>3 DEF ProcessEvent
      <3> HIDE DEF next
      <3>4. e3Log[next.pos] \in E3Entries /\ WrittenByMe(e3Log[next.pos])
        BY <1>5, <3>2
      <3> QED
        BY <1>6, <1>7, <3>1, <3>3, <3>4 DEF CacheDelete, CacheSet, E3Caches, WrittenByMe
    <2>4. CASE WatchEnds
      BY <1>7, <2>4 DEF WatchEnds, E3Caches
    <2> QED
      BY <2>1, <2>2, <2>3, <2>4
  <1>9. E3Type'
    BY <1>1, <1>3, <1>8 DEF E3Inv, E3Type, e3Server, e3Client
  <1>10. E3Inv'
    BY <1>1, <1>3, <1>8, <1>9 DEF E3Inv, WrittenByMe, LateIsCurrent, e3Server, e3Client
  <1> QED
    BY <1>1, <1>3, <1>4, <1>10, E3Stutters DEF e3Server, e3Client
\* In a call no request of an earlier one is under way.
LEMMA E3NoLateInCall ==
  ASSUME E3Inv, e3Op # "idle"
  PROVE  e3Late = NoRequest
  BY DEF E3Inv, LateIsCurrent

\* A call returns: True only to a member that held the key during the call or gave it up.
LEMMA E3ReturnStep ==
  ASSUME E3Inv, E3LeaseStep, e3Op \notin {"idle", "loaded"}, NEW ok \in BOOLEAN, Return(ok),
         ok => e3Held \/ e3Given,
         e3Late' = e3Late \/ (e3Late' = [op |-> e3Op, lease |-> e3Lease] /\ e3Lease' = e3Lease),
         e3Cache' \in E3Caches, WrittenByMe(e3Cache'.got), WrittenByMe(e3Cache'.obj)
  PROVE  E3Inv' /\ E3AbstractStep
  <1>1. /\ Key' = Key /\ e3Log' = e3Log /\ e3Given' = e3Given
        /\ E3LogOK' /\ LeaseKeepsKey'
        /\ e3Granted' \in Nat /\ e3Lease' \in 0..e3Granted' /\ e3Granted <= e3Granted'
    BY E3LeaseStepFacts
  <1>2. /\ e3Op' = "idle" /\ e3Ans' = (IF ok THEN "yes" ELSE "no") /\ e3View' = NoKey
        /\ e3Held' \in BOOLEAN
    BY DEF Return
  <1>3. NoKey \in E3Entries /\ NoKey.owner # E3Me /\ NoRequest.lease = 0
    BY Etcd3Assumption DEF NoKey, E3Entries, NoRequest
  <1>4. e3Late = NoRequest
    BY E3NoLateInCall
  <1>5. e3Late' \in [op : E3Ops \union {"none"}, lease : 0..e3Granted'] /\ LateIsCurrent'
    <2>1. CASE e3Late' = e3Late
      BY <1>1, <1>4, <2>1 DEF NoRequest, LateIsCurrent
    <2>2. CASE e3Late' = [op |-> e3Op, lease |-> e3Lease] /\ e3Lease' = e3Lease
      BY <1>1, <1>2, <2>2 DEF LateIsCurrent, E3Inv, E3Type
    <2> QED
      BY <2>1, <2>2
  <1>6. E3Type'
    BY <1>1, <1>2, <1>3, <1>5 DEF E3Inv, E3Type, E3Ops
  <1>7. E3Inv'
    BY <1>1, <1>2, <1>3, <1>5, <1>6 DEF E3Inv, WrittenByMe
  <1>8. E3Call # "out" /\ E3Call' = "out" /\ (e3Held => E3Call = "held")
    BY <1>2 DEF E3Call
  <1> QED
    BY <1>1, <1>2, <1>7, <1>8, E3Answers

\* A call goes on to its next request.
LEMMA E3GoesStep ==
  ASSUME E3Inv, E3LeaseStep, e3Op \notin {"idle", "loaded"}, NEW where \in {"create", "again", "renew"}, Goes(where),
         UNCHANGED <<e3Late, e3Cache>>
  PROVE  E3Inv' /\ E3AbstractStep
  <1>1. /\ Key' = Key /\ e3Log' = e3Log /\ e3Given' = e3Given
        /\ E3LogOK' /\ LeaseKeepsKey'
        /\ e3Granted' \in Nat /\ e3Lease' \in 0..e3Granted' /\ e3Granted <= e3Granted'
    BY E3LeaseStepFacts
  <1>2. e3Op' = where /\ UNCHANGED <<e3View, e3Ans, e3Held>>
    BY DEF Goes
  <1>3. e3Late = NoRequest
    BY E3NoLateInCall
  <1>4. e3Late' \in [op : E3Ops \union {"none"}, lease : 0..e3Granted'] /\ LateIsCurrent'
    BY <1>1, <1>3 DEF NoRequest, LateIsCurrent
  <1>5. E3Type'
    BY <1>1, <1>2, <1>4 DEF E3Inv, E3Type, E3Ops
  <1>6. E3Inv'
    BY <1>1, <1>2, <1>4, <1>5 DEF E3Inv, WrittenByMe
  <1>7. E3Call' = E3Call
    BY <1>2 DEF E3Call
  <1> QED
    BY <1>1, <1>2, <1>6, <1>7, E3Stutters

\* The operations of the HA loop up to a request that changes the key.
LEMMA E3ClientStep ==
  ASSUME E3Inv,
         \/ E3LoadCluster \/ BeginCall \/ UpdateLeader \/ AttemptToAcquire \/ DeleteReply
         \/ TxnFails \/ TxnTimesOut \/ TxnReply \/ SetTtl
  PROVE  E3Inv' /\ E3AbstractStep
  <1>t. E3Type /\ e3Granted \in Nat /\ e3Lease \in 0..e3Granted
    BY DEF E3Inv, E3Type
  <1>c. e3Cache \in E3Caches /\ WrittenByMe(e3Cache.got) /\ WrittenByMe(e3Cache.obj) /\ WrittenByMe(e3View) /\ e3View \in E3Entries
    BY DEF E3Inv, E3Type
  <1>n. NoKey \in E3Entries /\ NoKey.owner # E3Me
    BY Etcd3Assumption DEF NoKey, E3Entries
  <1>r. ASSUME RefreshLease, UNCHANGED <<e3Log, e3Dead, e3Given>>
        PROVE  E3LeaseStep
    BY <1>t, <1>r, RefreshLeaseFacts DEF E3LeaseStep
  <1>s. ASSUME UNCHANGED <<e3Log, e3Dead, e3Given, e3Lease, e3Granted>>
        PROVE  E3LeaseStep
    BY <1>s DEF E3LeaseStep
  <1>1. CASE E3LoadCluster
    <2>1. /\ UNCHANGED <<e3Log, e3Dead, e3Given, e3Lease, e3Granted, e3Cache, e3Ans, e3Late, e3Held>>
          /\ e3Op = "idle" /\ e3Late = NoRequest /\ e3Op' = "loaded" /\ e3View' = e3Cache.obj
      BY <1>1 DEF E3LoadCluster, e3Server
    <2>2. Key' = Key /\ E3LogOK' /\ LeaseKeepsKey'
      BY <1>s, <2>1, E3LeaseStepFacts
    <2>3. E3Type'
      BY <1>c, <2>1, <2>2 DEF E3Inv, E3Type, E3Ops, E3Caches
    <2>4. E3Inv'
      BY <1>c, <2>1, <2>2, <2>3 DEF E3Inv, WrittenByMe, LateIsCurrent
    <2> QED
      BY <2>1, <2>2, <2>4, E3Stutters DEF E3Call
  <1>2. CASE BeginCall
    <2>1. /\ UNCHANGED <<e3Log, e3Dead, e3Given, e3Lease, e3Granted, e3Cache, e3Ans, e3Late, e3View>>
          /\ e3Op = "loaded"
      BY <1>2 DEF BeginCall, e3Server
    <2>2. /\ e3Op' \in {"update", "delete", "acquire", "idle"}
          /\ e3Op' = "update" => e3View.owner = E3Me
          /\ e3Op' # "idle" => e3View.owner # E3Other
      BY <1>2, Etcd3Assumption DEF BeginCall
    <2>3. e3Held' \in BOOLEAN /\ (e3Held' <=> Key.owner = E3Me /\ e3View.owner # E3Other)
      BY <1>2 DEF BeginCall
    <2>4. Key' = Key /\ E3LogOK' /\ LeaseKeepsKey'
      BY <1>s, <2>1, E3LeaseStepFacts
    <2>5. e3Late = NoRequest
      BY <2>1, E3NoLateInCall
    <2>6. E3Type'
      BY <2>1, <2>2, <2>3, <2>4 DEF E3Inv, E3Type, E3Ops
    <2>7. E3Inv'
      BY <2>1, <2>2, <2>3, <2>4, <2>5, <2>6 DEF E3Inv, WrittenByMe, LateIsCurrent
    <2>8. CASE e3Op' = "idle"
      BY <2>1, <2>4, <2>7, <2>8, E3Stutters DEF E3Call
    <2>9. CASE e3Op' # "idle"
      <3>1. E3Call = "out" /\ E3Call' = (IF Key.owner = E3Me THEN "held" ELSE "in")
        BY <2>1, <2>2, <2>3, <2>9 DEF E3Call
      <3> QED
        BY <2>1, <2>4, <2>7, <3>1, E3Asks
    <2> QED
      BY <2>8, <2>9
  <1>3. CASE UpdateLeader
    <2>1. e3Op = "update" /\ UNCHANGED <<e3Log, e3Dead, e3Given, e3Cache, e3Late>> /\ e3View.owner = E3Me
      BY <1>3 DEF UpdateLeader, E3Inv
    <2>2. CASE RefreshLease /\ e3View.lease = e3Lease' /\ Return(TRUE)
      <3>1. E3LeaseStep
        BY <1>r, <2>1, <2>2
      <3>2. PICK i \in DOMAIN e3Log : e3Log[i].owner = E3Me /\ e3Log[i].lease = e3View.lease
        BY <1>c, <2>1 DEF WrittenByMe
      <3>3. e3Log[i].lease <= e3Granted /\ e3Log[i].lease \in Nat
        BY <1>t, E3EntryFacts
      <3>4. Alive(e3Lease) /\ e3Lease' = e3Lease
        BY <1>t, <2>2, <3>2, <3>3, RefreshLeaseFacts
      <3>5. e3Given \/ Key.owner = E3Me
        BY <2>2, <3>2, <3>4 DEF E3Inv, LeaseKeepsKey
      <3>6. e3Given \/ e3Held
        BY <2>1, <3>5 DEF E3Inv
      <3> QED
        BY <1>c, <2>1, <2>2, <3>1, <3>6, E3ReturnStep
    <2>3. CASE RefreshLease /\ Goes("renew")
      BY <1>r, <2>1, <2>3, E3GoesStep
    <2>4. CASE Return(FALSE) /\ UNCHANGED <<e3Lease, e3Granted>>
      BY <1>c, <1>s, <2>1, <2>4, E3ReturnStep
    <2> QED
      BY <1>3, <2>2, <2>3, <2>4 DEF UpdateLeader
  <1>4. CASE AttemptToAcquire
    <2>1. e3Op = "acquire" /\ UNCHANGED <<e3Log, e3Dead, e3Given, e3Cache, e3Late>>
      BY <1>4 DEF AttemptToAcquire
    <2>2. CASE RefreshLease /\ Goes("create")
      BY <1>r, <2>1, <2>2, E3GoesStep
    <2>3. CASE Goes("create") /\ UNCHANGED <<e3Lease, e3Granted>>
      BY <1>s, <2>1, <2>3, E3GoesStep
    <2>4. CASE Return(FALSE) /\ UNCHANGED <<e3Lease, e3Granted>>
      BY <1>c, <1>s, <2>1, <2>4, E3ReturnStep
    <2> QED
      BY <1>4, <2>2, <2>3, <2>4 DEF AttemptToAcquire
  <1>5. CASE DeleteReply
    <2>1. /\ e3Op = "deleted" /\ UNCHANGED <<e3Log, e3Dead, e3Given, e3Lease, e3Granted, e3Late>>
          /\ Return(FALSE) /\ e3Cache' = CacheDelete(e3Cache, e3View.rev)
      BY <1>5 DEF DeleteReply, e3Server
    <2>2. e3Cache' \in E3Caches /\ WrittenByMe(e3Cache'.got) /\ WrittenByMe(e3Cache'.obj)
      BY <1>c, <1>n, <2>1 DEF CacheDelete, E3Caches, WrittenByMe
    <2> QED
      BY <1>s, <2>1, <2>2, E3ReturnStep
  <1>6. CASE TxnFails
    <2>1. e3Op \in {"create", "again", "renew"} /\ UNCHANGED <<e3Log, e3Dead, e3Given, e3Cache, e3Late>>
      BY <1>6 DEF TxnFails
    <2>2. CASE RefreshLease /\ Goes("again")
      BY <1>r, <2>1, <2>2, E3GoesStep
    <2>3. CASE Return(FALSE) /\ e3Lease' \in {0, e3Lease} /\ UNCHANGED e3Granted
      <3>1. E3LeaseStep
        BY <2>1, <2>3 DEF E3LeaseStep
      <3> QED
        BY <1>c, <2>1, <2>3, <3>1, E3ReturnStep
    <2> QED
      BY <1>6, <2>2, <2>3 DEF TxnFails
  <1>7. CASE TxnTimesOut
    <2>1. /\ e3Op \notin {"idle", "loaded"} /\ e3Late' = [op |-> e3Op, lease |-> e3Lease] /\ Return(FALSE)
          /\ UNCHANGED <<e3Log, e3Dead, e3Given, e3Granted, e3Cache, e3Lease>>
      BY <1>7 DEF TxnTimesOut, e3Server
    <2> QED
      BY <1>c, <1>s, <2>1, E3ReturnStep
  <1>8. CASE TxnReply
    <2>1. /\ e3Op \in {"created", "renewed"} /\ e3Held
          /\ UNCHANGED <<e3Log, e3Dead, e3Given, e3Granted, e3Lease, e3Late>>
      BY <1>8 DEF TxnReply, e3Server, E3Inv
    <2>2. CASE Return(TRUE) /\ e3Cache' = CacheSet(e3Cache, e3View)
      <3>1. e3Cache' \in E3Caches /\ WrittenByMe(e3Cache'.got) /\ WrittenByMe(e3Cache'.obj)
        BY <1>c, <2>2 DEF CacheSet, E3Caches, WrittenByMe
      <3> QED
        BY <1>s, <2>1, <2>2, <3>1, E3ReturnStep
    <2>3. ASSUME NEW where \in {"create", "renew"}, Goes(where), UNCHANGED e3Cache
          PROVE  E3Inv' /\ E3AbstractStep
      BY <1>s, <2>1, <2>3, E3GoesStep
    <2> QED
      BY <1>8, <2>2, <2>3 DEF TxnReply
  <1>9. CASE SetTtl
    <2>1. /\ e3Op = "idle" /\ e3Lease' = 0
          /\ UNCHANGED <<e3Log, e3Dead, e3Given, e3Granted, e3Cache, e3Op, e3View, e3Ans, e3Late, e3Held>>
      BY <1>9 DEF SetTtl, e3Server
    <2>2. E3LeaseStep
      BY <2>1 DEF E3LeaseStep
    <2>3. Key' = Key /\ E3LogOK' /\ LeaseKeepsKey' /\ e3Lease' \in 0..e3Granted'
      BY <2>2, E3LeaseStepFacts
    <2>4. E3Type'
      BY <2>1, <2>3 DEF E3Inv, E3Type
    <2>5. E3Inv'
      BY <2>1, <2>3, <2>4 DEF E3Inv, WrittenByMe, LateIsCurrent
    <2> QED
      BY <2>1, <2>3, <2>5, E3Stutters DEF E3Call
  <1> QED
    BY <1>1, <1>2, <1>3, <1>4, <1>5, <1>6, <1>7, <1>8, <1>9

\* A change of the key in etcd leaves what the member has seen of it.
LEMMA E3WriteFacts ==
  ASSUME E3Inv, NEW v \in E3Entries, e3Log' = Append(e3Log, v), e3Granted' = e3Granted,
         v = NoKey \/ (v.owner # E3Nobody /\ v.rev = Revision + 1),
         v.owner = E3Other => v.lease = 0, v.lease <= e3Granted
  PROVE  /\ E3LogOK' /\ Key' = v
         /\ \A k : WrittenByMe(k) /\ k.owner = E3Me
                  => \E i \in DOMAIN e3Log' : e3Log'[i].owner = E3Me /\ e3Log'[i].lease = k.lease
         /\ v.owner = E3Me => \E i \in DOMAIN e3Log' : e3Log'[i].owner = E3Me /\ e3Log'[i].lease = v.lease
         /\ \A i \in DOMAIN e3Log' : e3Log'[i] = v \/ (i \in DOMAIN e3Log /\ e3Log'[i] = e3Log[i])
  <1>1. E3Type
    BY DEF E3Inv
  <1>2. /\ E3LogOK'
        /\ Key' = v /\ Len(e3Log') = Len(e3Log) + 1
        /\ DOMAIN e3Log' = DOMAIN e3Log \union {Len(e3Log')}
        /\ \A i \in DOMAIN e3Log : e3Log'[i] = e3Log[i]
    BY <1>1, E3AppendFacts
  <1>3. e3Log'[Len(e3Log')] = v
    BY <1>2 DEF Key, Revision
  <1> QED
    BY <1>2, <1>3 DEF WrittenByMe

\* The requests that etcd executes, in time or late, what expires and what other members do.
LEMMA E3ServerStep ==
  ASSUME E3Inv,
         TxnStores \/ DeleteLeader \/ LateRequest \/ OtherMember \/ \E lease \in 1..MaxLeases : LeaseExpires(lease)
  PROVE  E3Inv' /\ E3AbstractStep
  <1>t. E3Type /\ e3Granted \in Nat /\ e3Lease \in 0..e3Granted
    BY DEF E3Inv, E3Type
  <1>k. /\ Key \in E3Entries /\ Key.lease \in Nat /\ Revision \in Nat
        /\ Key.owner = E3Nobody <=> Key = NoKey
        /\ Key.owner = E3Other => Key.lease = 0
    <2>1. Revision \in DOMAIN e3Log /\ Revision \in Nat
      BY <1>t, E3KeyFacts DEF E3Type, E3LogOK, Revision
    <2> QED
      BY <1>t, <2>1, E3KeyFacts DEF NoKey, E3Entries
  <1>n. NoKey \in E3Entries /\ NoKey.owner = E3Nobody /\ NoKey.owner \notin {E3Me, E3Other} /\ NoKey.lease = 0
    BY Etcd3Assumption DEF NoKey, E3Entries
  <1>c. WrittenByMe(e3Cache.got) /\ WrittenByMe(e3Cache.obj) /\ WrittenByMe(e3View) /\ e3View \in E3Entries
    BY DEF E3Inv, E3Type
  <1>1. CASE TxnStores
    <2> DEFINE v == [owner |-> E3Me, lease |-> e3Lease, rev |-> Revision + 1]
    <2>1. /\ e3Op \in {"create", "again", "renew"} /\ Alive(e3Lease) /\ TxnSucceeds
          /\ e3Log' = Append(e3Log, v) /\ ~e3Given' /\ e3Given' \in BOOLEAN
          /\ e3Held' /\ e3Held' \in BOOLEAN
          /\ e3Op' \in {"renewed", "created"}
          /\ UNCHANGED <<e3Granted, e3Dead, e3Lease, e3Cache, e3Ans, e3Late>>
      BY <1>1 DEF TxnStores, Stored
    <2>2. e3View' = e3Log'[Revision + 1]
      BY <1>1 DEF TxnStores
    <2>3. v \in E3Entries /\ v.owner = E3Me /\ v.lease = e3Lease /\ v.rev = Revision + 1
      BY <1>t, <1>k DEF E3Entries
    <2> HIDE DEF v
    <2>4. /\ E3LogOK' /\ Key' = v
          /\ \A k : WrittenByMe(k) /\ k.owner = E3Me => \E i \in DOMAIN e3Log' : e3Log'[i].owner = E3Me /\ e3Log'[i].lease = k.lease
          /\ v.owner = E3Me => \E i \in DOMAIN e3Log' : e3Log'[i].owner = E3Me /\ e3Log'[i].lease = v.lease
      BY <1>t, <2>1, <2>3, E3WriteFacts, Etcd3Assumption
    <2>5. e3View' = v
      BY <1>t, <2>1, <2>2, <2>3 DEF E3Type, E3LogOK, Revision
    <2>6. e3Late = NoRequest
      BY <2>1, E3NoLateInCall
    <2>7. E3Type'
      BY <2>1, <2>3, <2>4, <2>5 DEF E3Inv, E3Type, E3Ops
    <2>8. WrittenByMe(e3Cache.got)' /\ WrittenByMe(e3Cache.obj)' /\ WrittenByMe(e3View)'
      BY <1>c, <2>1, <2>3, <2>4, <2>5 DEF WrittenByMe
    <2>9. LeaseKeepsKey'
      BY <2>1, <2>3, <2>4 DEF LeaseKeepsKey
    <2>10. E3Inv'
      BY <2>1, <2>6, <2>7, <2>8, <2>9 DEF E3Inv, LateIsCurrent
    <2>11. CASE Key = NoKey
      <3>1. E3Call' = "held" /\ E3Call # "out"
        BY <2>1 DEF E3Call
      <3> QED
        BY <1>n, <2>1, <2>3, <2>4, <2>10, <2>11, <3>1, E3Takes
    <2>12. CASE Key.owner = E3Me
      <3>1. e3Held /\ ~e3Given /\ e3Given \in BOOLEAN
        BY <2>1, <2>12 DEF E3Inv, E3Type
      <3>2. E3Call' = E3Call /\ e3Given' = e3Given
        BY <2>1, <3>1 DEF E3Call
      <3> QED
        BY <2>1, <2>3, <2>4, <2>10, <2>12, <3>2, E3Stutters
    <2> QED
      BY <2>1, <2>11, <2>12 DEF TxnSucceeds
  <1>2. CASE DeleteLeader
    <2>1. e3Op = "delete" /\ UNCHANGED <<e3Granted, e3Dead, e3Lease, e3Cache, e3Late>>
      BY <1>2 DEF DeleteLeader
    <2>2. CASE Key.owner = E3Me
      <3>1. /\ e3Log' = Append(e3Log, NoKey) /\ e3Given' = TRUE /\ e3Op' = "deleted"
            /\ e3View' = [e3View EXCEPT !.rev = Revision + 1] /\ UNCHANGED <<e3Ans, e3Held>>
        BY <1>2, <2>2 DEF DeleteLeader, Deleted
      <3>2. /\ E3LogOK' /\ Key' = NoKey
            /\ \A k : WrittenByMe(k) /\ k.owner = E3Me => \E i \in DOMAIN e3Log' : e3Log'[i].owner = E3Me /\ e3Log'[i].lease = k.lease
        BY <1>t, <1>n, <2>1, <3>1, E3WriteFacts
      <3>3. e3View' \in E3Entries /\ e3View'.owner = e3View.owner /\ e3View'.lease = e3View.lease
        BY <1>c, <1>k, <3>1 DEF E3Entries
      <3>4. WrittenByMe(e3Cache.got)' /\ WrittenByMe(e3Cache.obj)' /\ WrittenByMe(e3View)'
        BY <1>c, <2>1, <3>2, <3>3 DEF WrittenByMe
      <3>5. E3Type'
        BY <2>1, <3>1, <3>2, <3>3 DEF E3Inv, E3Type, E3Ops
      <3>6. e3Late = NoRequest
        BY <2>1, E3NoLateInCall
      <3>7. E3Inv'
        BY <1>n, <2>1, <3>1, <3>2, <3>4, <3>5, <3>6 DEF E3Inv, LateIsCurrent, LeaseKeepsKey
      <3>8. E3Call' = E3Call
        BY <2>1, <3>1 DEF E3Call
      <3> QED
        BY <1>n, <2>2, <3>1, <3>2, <3>7, <3>8, E3GivesUp
    <2>3. CASE Key.owner # E3Me
      <3>1. Return(FALSE) /\ UNCHANGED <<e3Log, e3Given>>
        BY <1>2, <2>3 DEF DeleteLeader
      <3>2. E3LeaseStep
        BY <2>1, <3>1 DEF E3LeaseStep
      <3>3. e3Cache' \in E3Caches /\ WrittenByMe(e3Cache'.got) /\ WrittenByMe(e3Cache'.obj)
        BY <1>c, <2>1 DEF E3Inv, E3Type
      <3> QED
        BY <2>1, <3>1, <3>2, <3>3, E3ReturnStep
    <2> QED
      BY <2>2, <2>3
  <1>3. CASE LateRequest
    <2>1. /\ e3Late # NoRequest /\ e3Late' = NoRequest
          /\ UNCHANGED <<e3Granted, e3Dead, e3Lease, e3Cache, e3Op, e3View, e3Ans, e3Held>>
      BY <1>3 DEF LateRequest
    <2>2. e3Op = "idle" /\ e3Lease \in {0, e3Late.lease} /\ e3Late.lease \in 0..e3Granted
      BY <2>1 DEF E3Inv, LateIsCurrent, E3Type
    <2>3. NoRequest \in [op : E3Ops \union {"none"}, lease : 0..e3Granted]
      BY <1>t DEF NoRequest
    <2>4. E3Call' = E3Call /\ E3Call = "out"
      BY <2>1, <2>2 DEF E3Call
    <2>5. CASE Key.owner = E3Me /\ Deleted
      <3>1. e3Log' = Append(e3Log, NoKey) /\ e3Given' = TRUE
        BY <2>5 DEF Deleted
      <3>2. /\ E3LogOK' /\ Key' = NoKey
            /\ \A k : WrittenByMe(k) /\ k.owner = E3Me => \E i \in DOMAIN e3Log' : e3Log'[i].owner = E3Me /\ e3Log'[i].lease = k.lease
        BY <1>t, <1>n, <2>1, <3>1, E3WriteFacts
      <3>3. WrittenByMe(e3Cache.got)' /\ WrittenByMe(e3Cache.obj)' /\ WrittenByMe(e3View)'
        BY <1>c, <2>1, <3>2 DEF WrittenByMe
      <3>4. E3Type'
        BY <2>1, <2>3, <3>1, <3>2 DEF E3Inv, E3Type
      <3>5. E3Inv'
        BY <1>n, <2>1, <2>2, <3>1, <3>2, <3>3, <3>4 DEF E3Inv, LateIsCurrent, LeaseKeepsKey
      <3> QED
        BY <1>n, <2>1, <2>4, <2>5, <3>1, <3>2, <3>5, E3GivesUp
    <2>6. CASE (Key = NoKey \/ Key.owner = E3Me) /\ Stored(e3Late.lease)
      <3> DEFINE v == [owner |-> E3Me, lease |-> e3Late.lease, rev |-> Revision + 1]
      <3>1. e3Log' = Append(e3Log, v) /\ e3Given' = FALSE
        BY <2>6 DEF Stored
      <3>2. v \in E3Entries /\ v.owner = E3Me /\ v.lease = e3Late.lease /\ v.rev = Revision + 1 /\ v.lease <= e3Granted
        BY <1>t, <1>k, <2>2 DEF E3Entries
      <3> HIDE DEF v
      <3>3. /\ E3LogOK' /\ Key' = v
            /\ \A k : WrittenByMe(k) /\ k.owner = E3Me => \E i \in DOMAIN e3Log' : e3Log'[i].owner = E3Me /\ e3Log'[i].lease = k.lease
        BY <2>1, <3>1, <3>2, E3WriteFacts, Etcd3Assumption
      <3>4. WrittenByMe(e3Cache.got)' /\ WrittenByMe(e3Cache.obj)' /\ WrittenByMe(e3View)'
        BY <1>c, <2>1, <3>3 DEF WrittenByMe
      <3>5. LeaseKeepsKey'
        BY <2>1, <2>2, <3>2, <3>3 DEF LeaseKeepsKey, Alive
      <3>6. E3Type'
        BY <2>1, <2>3, <3>1, <3>3 DEF E3Inv, E3Type
      <3>7. E3Inv'
        BY <2>1, <2>2, <3>1, <3>3, <3>4, <3>5, <3>6 DEF E3Inv, LateIsCurrent
      <3>8. CASE Key = NoKey
        BY <1>n, <2>1, <2>4, <3>1, <3>2, <3>3, <3>7, <3>8, E3Takes
      <3>9. CASE Key.owner = E3Me
        <4>1. e3Given' = e3Given
          BY <3>1, <3>9 DEF E3Inv, E3Type
        <4> QED
          BY <2>1, <2>4, <3>2, <3>3, <3>7, <3>9, <4>1, E3Stutters
      <3> QED
        BY <2>6, <3>8, <3>9
    <2>7. CASE UNCHANGED <<e3Log, e3Given>>
      <3>1. E3LeaseStep
        BY <2>1, <2>7 DEF E3LeaseStep
      <3>2. Key' = Key /\ E3LogOK' /\ LeaseKeepsKey'
        BY <3>1, E3LeaseStepFacts
      <3>3. E3Type'
        BY <2>1, <2>3, <2>7, <3>2 DEF E3Inv, E3Type
      <3>4. E3Inv'
        BY <2>1, <2>7, <3>2, <3>3 DEF E3Inv, LateIsCurrent, WrittenByMe
      <3> QED
        BY <2>1, <2>4, <2>7, <3>2, <3>4, E3Stutters
    <2> QED
      BY <1>3, <2>5, <2>6, <2>7 DEF LateRequest
  <1>4. CASE OtherMember
    <2> DEFINE o == [owner |-> E3Other, lease |-> 0, rev |-> Revision + 1]
               v == IF Key = NoKey THEN o ELSE NoKey
    <2>1. /\ Key.owner # E3Me /\ e3Log' = Append(e3Log, v)
          /\ UNCHANGED <<e3Granted, e3Dead, e3Given, e3Cache, e3Lease, e3Op, e3View, e3Ans, e3Late, e3Held>>
      BY <1>4 DEF OtherMember, e3Client
    <2>2. o \in E3Entries /\ o.owner = E3Other /\ o.lease = 0 /\ o.rev = Revision + 1
      BY <1>k DEF E3Entries
    <2>3. /\ v \in E3Entries /\ (v = NoKey \/ (v.owner # E3Nobody /\ v.rev = Revision + 1)) /\ v.lease = 0
          /\ v.owner = (IF Key = NoKey THEN E3Other ELSE E3Nobody) /\ v.owner # E3Me
      BY <1>n, <2>2, Etcd3Assumption
    <2> HIDE DEF v
    <2>4. /\ E3LogOK' /\ Key' = v
          /\ \A k : WrittenByMe(k) /\ k.owner = E3Me => \E i \in DOMAIN e3Log' : e3Log'[i].owner = E3Me /\ e3Log'[i].lease = k.lease
          /\ \A i \in DOMAIN e3Log' : e3Log'[i] = v \/ (i \in DOMAIN e3Log /\ e3Log'[i] = e3Log[i])
      BY <1>t, <2>1, <2>3, E3WriteFacts
    <2>5. WrittenByMe(e3Cache.got)' /\ WrittenByMe(e3Cache.obj)' /\ WrittenByMe(e3View)'
      BY <1>c, <2>1, <2>4 DEF WrittenByMe
    <2>6. LeaseKeepsKey'
      BY <2>1, <2>3, <2>4 DEF LeaseKeepsKey, Alive, E3Inv
    <2>7. E3Type'
      BY <2>1, <2>4 DEF E3Inv, E3Type
    <2>8. E3Inv'
      BY <2>1, <2>3, <2>4, <2>5, <2>6, <2>7 DEF E3Inv, LateIsCurrent
    <2>9. E3Call' = E3Call
      BY <2>1 DEF E3Call
    <2>10. CASE Key = NoKey
      BY <1>n, <2>1, <2>3, <2>4, <2>8, <2>9, <2>10, E3Takes, Etcd3Assumption
    <2>11. CASE Key # NoKey
      BY <1>k, <2>1, <2>3, <2>4, <2>8, <2>9, <2>11, E3KeyExpires
    <2> QED
      BY <2>10, <2>11
  <1>5. ASSUME NEW lease \in 1..MaxLeases, LeaseExpires(lease)
        PROVE  E3Inv' /\ E3AbstractStep
    <2>1. /\ Alive(lease) /\ e3Dead' = e3Dead \union {lease}
          /\ UNCHANGED <<e3Granted, e3Given, e3Cache, e3Lease, e3Op, e3View, e3Ans, e3Late, e3Held>>
      BY <1>5 DEF LeaseExpires, e3Client
    <2>2. E3Call' = E3Call
      BY <2>1 DEF E3Call
    <2>3. Alive(e3Lease)' => Alive(e3Lease) /\ e3Lease # lease
      BY <2>1 DEF Alive
    <2>4. CASE Key.lease = lease
      <3>1. e3Log' = Append(e3Log, NoKey)
        BY <1>5, <2>4 DEF LeaseExpires
      <3>2. Key # NoKey
        BY <1>n, <2>1, <2>4 DEF Alive
      <3>3. /\ E3LogOK' /\ Key' = NoKey
            /\ \A k : WrittenByMe(k) /\ k.owner = E3Me => \E i \in DOMAIN e3Log' : e3Log'[i].owner = E3Me /\ e3Log'[i].lease = k.lease
            /\ \A i \in DOMAIN e3Log' : e3Log'[i] = NoKey \/ (i \in DOMAIN e3Log /\ e3Log'[i] = e3Log[i])
        BY <1>t, <1>n, <2>1, <3>1, E3WriteFacts
      <3>4. WrittenByMe(e3Cache.got)' /\ WrittenByMe(e3Cache.obj)' /\ WrittenByMe(e3View)'
        BY <1>c, <2>1, <3>3 DEF WrittenByMe
      <3>5. LeaseKeepsKey'
        BY <1>n, <2>1, <2>3, <2>4, <3>3 DEF LeaseKeepsKey, E3Inv
      <3>6. E3Type'
        BY <2>1, <3>3 DEF E3Inv, E3Type
      <3>7. E3Inv'
        BY <1>n, <2>1, <3>3, <3>4, <3>5, <3>6 DEF E3Inv, LateIsCurrent
      <3> QED
        BY <1>k, <1>n, <2>1, <2>2, <3>2, <3>3, <3>7, E3KeyExpires
    <2>5. CASE Key.lease # lease
      <3>1. e3Log' = e3Log
        BY <1>5, <2>5 DEF LeaseExpires
      <3>2. Key' = Key
        BY <3>1 DEF Key, Revision
      <3>3. LeaseKeepsKey'
        BY <2>1, <2>3, <3>1, <3>2 DEF LeaseKeepsKey, E3Inv
      <3>4. E3Type'
        BY <2>1, <3>1 DEF E3Inv, E3Type, E3LogOK
      <3>5. E3Inv'
        BY <2>1, <3>1, <3>2, <3>3, <3>4 DEF E3Inv, LateIsCurrent, WrittenByMe
      <3> QED
        BY <2>1, <2>2, <3>2, <3>5, E3Stutters
    <2> QED
      BY <2>4, <2>5
  <1> QED
    BY <1>1, <1>2, <1>3, <1>4, <1>5

\* Every step of a member and of etcd is a step of LeaderKey or leaves it as it is.
LEMMA E3Step ==
  ASSUME E3Inv, [E3Next]_e3Vars
  PROVE  E3Inv' /\ E3AbstractStep
  <1>1. CASE UNCHANGED e3Vars
    <2>1. Key' = Key /\ E3Call' = E3Call
      BY <1>1 DEF e3Vars, Key, Revision, E3Call
    <2>2. E3Inv'
      BY <1>1, <2>1 DEF e3Vars, E3Inv, E3Type, E3LogOK, WrittenByMe, LeaseKeepsKey, Alive, LateIsCurrent
    <2> QED
      BY <1>1, <2>1, <2>2, E3Stutters DEF e3Vars
  <1> QED
    BY <1>1, E3CacheStep, E3ClientStep, E3ServerStep DEF E3Next

\* etcd starts without a leader key, the member with an empty cache.
LEMMA E3Start ==
  ASSUME E3Init
  PROVE  E3Inv /\ E3Key!LkInit
  <1>1. NoKey \in E3Entries /\ NoKey.owner = E3Nobody /\ NoKey.owner \notin {E3Me, E3Other} /\ NoKey.lease = 0
    BY Etcd3Assumption DEF NoKey, E3Entries
  <1>2. e3Log = <<NoKey>> /\ Key = NoKey
    BY DEF E3Init, Key, Revision
  <1>3. e3Held \in BOOLEAN /\ e3Given \in BOOLEAN /\ ~e3Given /\ e3Op = "idle" /\ e3Op \in E3Ops
    BY DEF E3Init, E3Ops
  <1>4. e3Log \in Seq(E3Entries) /\ Len(e3Log) = 1 /\ \A i \in DOMAIN e3Log : e3Log[i] = NoKey
    BY <1>1, <1>2
  <1>5. e3Granted = 0 /\ e3Lease = 0 /\ e3Late = NoRequest /\ e3View = NoKey
    BY DEF E3Init
  <1>6. E3LogOK
    BY <1>1, <1>4, <1>5, Etcd3Assumption DEF E3LogOK
  <1>7. e3Cache \in E3Caches /\ e3Cache.got = NoKey /\ e3Cache.obj = NoKey
    BY <1>1 DEF E3Init, E3Caches
  <1>8. E3Type
    BY <1>1, <1>3, <1>5, <1>6, <1>7 DEF E3Type, NoRequest
  <1>9. E3Inv
    BY <1>1, <1>2, <1>3, <1>4, <1>5, <1>7, <1>8 DEF E3Inv, WrittenByMe, LeaseKeepsKey, LateIsCurrent
  <1>10. E3Key!LkInit
    BY <1>1, <1>2, <1>3 DEF E3Init, E3Key!LkInit, E3Call
  <1> QED
    BY <1>9, <1>10

(***************************************************************************)
(* etcd v3 implements LeaderKey (etcd3.py: _update_leader,                 *)
(* attempt_to_acquire_leader, _delete_leader): an update that finds its    *)
(* own lease at the cached key answers True without looking at the key,    *)
(* and is right, because a lease that lives keeps the key it was put with, *)
(* however old the cache, however late a request and whatever was retried. *)
(***************************************************************************)
THEOREM E3KeepsPromiseCorrect == E3Spec => E3KeepsPromise
  <1>1. E3Init => E3Inv /\ E3Key!LkInit
    BY E3Start
  <1>2. E3Inv /\ [E3Next]_e3Vars => E3Inv'
    BY E3Step
  <1>3. E3Inv /\ [E3Next]_e3Vars => [E3Key!LkNext]_(E3Key!lkVars)
    BY E3Step DEF E3AbstractStep
  <1> QED
    BY <1>1, <1>2, <1>3, PTL DEF E3Spec, E3KeepsPromise, E3Key!LkSpec

-----------------------------------------------------------------------------
(***************************************************************************)
(* The cache of etcd v3.  A cache that follows the watch shows the key of  *)
(* the revision it has seen, or an object of its own, or nothing because   *)
(* the reply to a deletion overtook the event.  When that reply comes      *)
(* after the event, nothing older than the deletion is left in the cache.  *)
(***************************************************************************)
CacheFollows ==
    e3Cache.thread = "watch" =>
        \/ e3Cache.obj = e3Log[e3Cache.pos]
        \/ e3Cache.obj.owner = E3Me
        \/ e3Cache.obj = NoKey /\ \E j \in DOMAIN e3Log : j > e3Cache.pos /\ e3Log[j] = NoKey

DeletionSeen ==
    e3Op = "deleted" =>
        /\ e3View.rev \in DOMAIN e3Log /\ e3Log[e3View.rev] = NoKey
        /\ e3Cache.thread = "watch" /\ e3Cache.pos >= e3View.rev => e3Cache.obj = NoKey \/ e3Cache.obj.rev >= e3View.rev

CacheInv ==
    /\ e3Cache.pos \in DOMAIN e3Log
    /\ e3Cache.thread = "install" => e3Cache.got = e3Log[e3Cache.pos]
    /\ e3Op \in {"created", "renewed"} => e3View.owner = E3Me
    /\ CacheFollows
    /\ DeletionSeen

\* The history of the key only grows.
LEMMA LogGrows ==
  ASSUME E3Inv, [E3Next]_e3Vars
  PROVE  DOMAIN e3Log \subseteq DOMAIN e3Log' /\ \A i \in DOMAIN e3Log : e3Log'[i] = e3Log[i]
  <1>1. e3Log \in Seq(E3Entries)
    BY DEF E3Inv, E3Type, E3LogOK
  <1>2. e3Log' = e3Log \/ \E v : e3Log' = Append(e3Log, v)
    BY DEF E3Next, e3Vars, e3Server, e3Client, BuildCache, InstallCache, ProcessEvent, WatchEnds, E3LoadCluster, BeginCall,
          UpdateLeader, AttemptToAcquire, DeleteLeader, DeleteReply, TxnStores, TxnFails, TxnTimesOut, TxnReply, LateRequest,
          SetTtl, LeaseExpires, OtherMember, Stored, Deleted
  <1> QED
    BY <1>1, <1>2

\* A step that leaves the cache alone leaves it as right as it was.
LEMMA CacheUntouched ==
  ASSUME E3Inv, CacheInv, e3Cache' = e3Cache, DOMAIN e3Log \subseteq DOMAIN e3Log',
         \A i \in DOMAIN e3Log : e3Log'[i] = e3Log[i]
  PROVE  /\ e3Cache'.pos \in DOMAIN e3Log'
         /\ e3Cache'.thread = "install" => e3Cache'.got = e3Log'[e3Cache'.pos]
         /\ CacheFollows'
  BY DEF CacheInv, CacheFollows

\* Every step of the thread of the cache and of the HA loop keeps the cache right.
LEMMA CacheStep ==
  ASSUME E3Inv, CacheInv, [E3Next]_e3Vars
  PROVE  CacheInv'
  <1>g. DOMAIN e3Log \subseteq DOMAIN e3Log' /\ \A i \in DOMAIN e3Log : e3Log'[i] = e3Log[i]
    BY LogGrows
  <1>t. /\ e3Cache \in E3Caches /\ e3Cache.pos \in Nat /\ e3Cache.obj \in E3Entries /\ e3Cache.obj.rev \in Nat
        /\ e3View \in E3Entries /\ e3View.rev \in Nat
    BY DEF E3Inv, E3Type, E3Caches, E3Entries
  <1>l. /\ e3Log \in Seq(E3Entries) /\ Len(e3Log) \in Nat /\ DOMAIN e3Log = 1..Len(e3Log)
        /\ \A i \in DOMAIN e3Log : e3Log[i].rev \in Nat /\ (e3Log[i] = NoKey \/ e3Log[i].rev = i)
    BY E3EntryFacts DEF E3Inv, E3Type, E3LogOK
  <1>n. NoKey \in E3Entries /\ NoKey.rev = 0 /\ NoKey.owner # E3Me
    BY Etcd3Assumption DEF NoKey, E3Entries
  <1>1. CASE BuildCache
    <2>1. PICK r \in 1..Revision : e3Cache' = [e3Cache EXCEPT !.thread = "install", !.got = e3Log[r], !.pos = r]
      BY <1>1 DEF BuildCache
    <2>2. e3Cache'.thread = "install" /\ e3Cache'.got = e3Log[r] /\ e3Cache'.pos = r /\ r \in DOMAIN e3Log
      BY <1>t, <1>l, <2>1 DEF E3Caches, Revision
    <2>3. UNCHANGED <<e3Log, e3Op, e3View>>
      BY <1>1 DEF BuildCache, e3Server, e3Client
    <2> QED
      BY <2>2, <2>3 DEF CacheInv, CacheFollows, DeletionSeen
  <1>2. CASE InstallCache
    <2>1. e3Cache'.thread = "watch" /\ e3Cache'.obj = e3Log[e3Cache.pos] /\ e3Cache'.pos = e3Cache.pos
      BY <1>2, <1>t DEF InstallCache, E3Caches, CacheInv
    <2>2. UNCHANGED <<e3Log, e3Op, e3View>>
      BY <1>2 DEF InstallCache, e3Server, e3Client
    <2> QED
      BY <1>l, <2>1, <2>2 DEF CacheInv, CacheFollows, DeletionSeen
  <1>3. CASE ProcessEvent
    <2> DEFINE p == e3Cache.pos + 1
               next == [e3Cache EXCEPT !.pos = @ + 1]
    <2>1. UNCHANGED <<e3Log, e3Op, e3View>> /\ e3Cache.thread = "watch"
      BY <1>3 DEF ProcessEvent, e3Server, e3Client
    <2>2. next \in E3Caches /\ next.thread = "watch" /\ next.obj = e3Cache.obj /\ next.pos = p
      BY <1>t, <2>1 DEF E3Caches
    <2>3. p \in DOMAIN e3Log /\ p \in Nat /\ e3Log[p].rev \in Nat
      BY <1>3, <1>t, <1>l DEF ProcessEvent, Revision, CacheInv
    <2>4. e3Cache' = IF e3Log[p] = NoKey THEN CacheDelete(next, p) ELSE CacheSet(next, e3Log[p])
      BY <1>3, <2>2 DEF ProcessEvent
    <2> HIDE DEF next
    <2>5. /\ e3Cache'.thread = "watch" /\ e3Cache'.pos = p
          /\ e3Log[p] = NoKey => e3Cache'.obj = IF e3Cache.obj.rev < p THEN NoKey ELSE e3Cache.obj
          /\ e3Log[p] # NoKey => e3Cache'.obj = IF p > e3Cache.obj.rev THEN e3Log[p] ELSE e3Cache.obj
      BY <1>l, <2>2, <2>3, <2>4 DEF CacheDelete, CacheSet, E3Caches
    <2>6. CacheFollows'
      <3>1. e3Cache.obj = e3Log[e3Cache.pos] => e3Cache.obj.rev < p
        BY <1>t, <1>l, <1>n DEF CacheInv
      <3>2. e3Cache'.obj = e3Log[p] \/ e3Cache'.obj.owner = E3Me
        BY <1>n, <1>t, <2>1, <2>3, <2>5, <3>1 DEF CacheInv, CacheFollows
      <3> QED
        BY <2>1, <2>5, <3>2 DEF CacheFollows
    <2>7. DeletionSeen'
      <3> SUFFICES ASSUME e3Op = "deleted", p >= e3View.rev
                   PROVE  e3Cache'.obj = NoKey \/ e3Cache'.obj.rev >= e3View.rev
        BY <2>1, <2>5 DEF DeletionSeen, CacheInv
      <3>1. e3Log[e3View.rev] = NoKey
        BY DEF CacheInv, DeletionSeen
      <3>2. CASE e3Log[p] = NoKey
        BY <1>t, <2>3, <2>5, <3>2
      <3>3. CASE e3Log[p] # NoKey
        <4>1. e3Log[p].rev = p /\ e3Cache.pos >= e3View.rev
          BY <1>l, <1>t, <2>3, <3>1, <3>3
        <4>2. e3Cache.obj = NoKey \/ e3Cache.obj.rev >= e3View.rev
          BY <2>1, <4>1 DEF CacheInv, DeletionSeen
        <4> QED
          BY <1>n, <1>t, <2>3, <2>5, <3>3, <4>1, <4>2
      <3> QED
        BY <3>2, <3>3
    <2> QED
      BY <2>1, <2>3, <2>5, <2>6, <2>7 DEF CacheInv
  <1>4. CASE WatchEnds
    <2>1. UNCHANGED <<e3Log, e3Op, e3View>> /\ e3Cache'.thread = "list" /\ e3Cache'.pos = e3Cache.pos
      BY <1>4, <1>t DEF WatchEnds, e3Server, e3Client, E3Caches
    <2> QED
      BY <2>1 DEF CacheInv, CacheFollows, DeletionSeen
  <1>5. CASE DeleteReply
    <2>1. /\ e3Op = "deleted" /\ e3Op' = "idle" /\ e3Log' = e3Log /\ e3Cache' = CacheDelete(e3Cache, e3View.rev)
      BY <1>5 DEF DeleteReply, Return, e3Server
    <2>2. /\ e3Cache'.thread = e3Cache.thread /\ e3Cache'.pos = e3Cache.pos /\ e3Cache'.got = e3Cache.got
          /\ e3Cache'.obj = IF e3Cache.obj.rev < e3View.rev THEN NoKey ELSE e3Cache.obj
      BY <1>t, <2>1 DEF CacheDelete, E3Caches
    <2>3. CacheFollows'
      <3> SUFFICES ASSUME e3Cache.thread = "watch"
                   PROVE  \/ e3Cache'.obj = e3Log[e3Cache.pos]
                          \/ e3Cache'.obj.owner = E3Me
                          \/ e3Cache'.obj = NoKey /\ \E j \in DOMAIN e3Log : j > e3Cache.pos /\ e3Log[j] = NoKey
        BY <2>1, <2>2 DEF CacheFollows
      <3>1. CASE e3Cache'.obj = e3Cache.obj
        BY <3>1 DEF CacheInv, CacheFollows
      <3>2. CASE e3Cache'.obj # e3Cache.obj
        <4>1. e3Cache'.obj = NoKey /\ e3Cache.obj # NoKey /\ ~(e3Cache.obj.rev >= e3View.rev)
          BY <1>t, <2>2, <3>2
        <4>2. e3View.rev > e3Cache.pos /\ e3View.rev \in DOMAIN e3Log /\ e3Log[e3View.rev] = NoKey
          BY <1>t, <2>1, <4>1 DEF CacheInv, DeletionSeen
        <4> QED
          BY <4>1, <4>2
      <3> QED
        BY <3>1, <3>2
    <2> QED
      BY <2>1, <2>2, <2>3 DEF CacheInv, DeletionSeen
  <1>6. CASE TxnReply
    <2>1. e3Log' = e3Log /\ e3Op \in {"created", "renewed"}
      BY <1>6 DEF TxnReply, e3Server
    <2>2. CASE Return(TRUE) /\ e3Cache' = CacheSet(e3Cache, e3View)
      <3>1. /\ e3Cache'.thread = e3Cache.thread /\ e3Cache'.pos = e3Cache.pos /\ e3Cache'.got = e3Cache.got
            /\ e3Cache'.obj \in {e3Cache.obj, e3View}
        BY <1>t, <2>2 DEF CacheSet, E3Caches
      <3>2. e3Op' = "idle" /\ e3View.owner = E3Me
        BY <2>1, <2>2 DEF Return, CacheInv
      <3> QED
        BY <2>1, <3>1, <3>2 DEF CacheInv, CacheFollows, DeletionSeen
    <2>3. CASE UNCHANGED e3Cache /\ e3Op' \in {"create", "renew"}
      BY <1>g, <2>3, CacheUntouched DEF CacheInv, DeletionSeen
    <2> QED
      BY <1>6, <2>1, <2>2, <2>3 DEF TxnReply, Goes
  <1>7. CASE DeleteLeader
    <2>1. e3Cache' = e3Cache
      BY <1>7 DEF DeleteLeader
    <2>2. CASE Key.owner = E3Me
      <3>1. e3Op' = "deleted" /\ e3Log' = Append(e3Log, NoKey) /\ e3View' = [e3View EXCEPT !.rev = Revision + 1]
        BY <1>7, <2>2 DEF DeleteLeader, Deleted
      <3>2. e3View'.rev = Len(e3Log) + 1
        BY <1>t, <3>1 DEF E3Entries, Revision
      <3>3. e3View'.rev \in DOMAIN e3Log' /\ e3Log'[e3View'.rev] = NoKey /\ ~(e3Cache.pos >= e3View'.rev)
        BY <1>l, <1>t, <3>1, <3>2 DEF CacheInv
      <3> QED
        BY <1>g, <2>1, <3>1, <3>3, CacheUntouched DEF CacheInv, DeletionSeen
    <2>3. CASE Key.owner # E3Me
      <3>1. e3Op' = "idle"
        BY <1>7, <2>3 DEF DeleteLeader, Return
      <3> QED
        BY <1>g, <2>1, <3>1, CacheUntouched DEF CacheInv, DeletionSeen
    <2> QED
      BY <2>2, <2>3
  <1>8. CASE TxnStores
    <2>1. e3Cache' = e3Cache /\ e3Op' \in {"renewed", "created"} /\ e3View' = e3Log'[Revision + 1]
      BY <1>8 DEF TxnStores
    <2>2. e3Log' = Append(e3Log, [owner |-> E3Me, lease |-> e3Lease, rev |-> Revision + 1])
      BY <1>8 DEF TxnStores, Stored
    <2>3. e3View'.owner = E3Me
      BY <1>l, <2>1, <2>2 DEF Revision
    <2> QED
      BY <1>g, <2>1, <2>3, CacheUntouched DEF CacheInv, DeletionSeen
  <1>9. CASE E3LoadCluster \/ BeginCall \/ UpdateLeader \/ AttemptToAcquire \/ TxnFails \/ TxnTimesOut
    <2>1. e3Cache' = e3Cache
      BY <1>9 DEF E3LoadCluster, BeginCall, UpdateLeader, AttemptToAcquire, TxnFails, TxnTimesOut
    <2>2. e3Op' \notin {"deleted", "created", "renewed"}
      BY <1>9 DEF E3LoadCluster, BeginCall, UpdateLeader, AttemptToAcquire, TxnFails, TxnTimesOut, Return, Goes
    <2> QED
      BY <1>g, <2>1, <2>2, CacheUntouched DEF CacheInv, DeletionSeen
  <1>10. CASE LateRequest \/ SetTtl \/ OtherMember \/ (\E lease \in 1..MaxLeases : LeaseExpires(lease)) \/ UNCHANGED e3Vars
    <2>1. UNCHANGED <<e3Cache, e3Op, e3View>>
      BY <1>10 DEF LateRequest, SetTtl, OtherMember, LeaseExpires, e3Vars, e3Client
    <2> QED
      BY <1>g, <2>1, CacheUntouched DEF CacheInv, DeletionSeen
  <1> QED
    BY <1>1, <1>2, <1>3, <1>4, <1>5, <1>6, <1>7, <1>8, <1>9, <1>10 DEF E3Next

(***************************************************************************)
(* KVCache (etcd3.py): a cache that has processed every event shows the    *)
(* key as it is, or an object of its own, whatever order the events, the   *)
(* snapshots of a lagging node and the replies to its own requests come    *)
(* in.                                                                     *)
(***************************************************************************)
THEOREM CacheConvergesCorrect == E3Spec => []CacheConverges
  <1>1. E3Init => E3Inv /\ CacheInv
    <2> SUFFICES ASSUME E3Init PROVE E3Inv /\ CacheInv
      OBVIOUS
    <2>1. e3Log = <<NoKey>> /\ e3Cache.pos = 1 /\ e3Cache.thread = "list" /\ e3Op = "idle"
      BY DEF E3Init
    <2>2. CacheInv
      BY <2>1 DEF CacheInv, CacheFollows, DeletionSeen
    <2> QED
      BY <2>2, E3Start
  <1>2. E3Inv /\ CacheInv /\ [E3Next]_e3Vars => E3Inv' /\ CacheInv'
    BY E3Step, CacheStep
  <1>3. E3Inv /\ CacheInv => CacheConverges
    <2> SUFFICES ASSUME E3Inv, CacheInv, e3Cache.thread = "watch", e3Cache.pos = Revision
                 PROVE  e3Cache.obj = Key \/ e3Cache.obj.owner = E3Me
      BY DEF CacheConverges
    <2>1. ~\E j \in DOMAIN e3Log : j > e3Cache.pos
      BY DEF E3Inv, E3Type, E3LogOK, Revision
    <2> QED
      BY <2>1 DEF CacheInv, CacheFollows, Key
  <1> QED
    BY <1>1, <1>2, <1>3, PTL DEF E3Spec

-----------------------------------------------------------------------------
(***************************************************************************)
(* Kubernetes.  A record that is replaced is never written again, so the   *)
(* age a node has observed of the current record is at most its true age,  *)
(* and a patch goes through only over the version it was decided for.      *)
(***************************************************************************)
K8Holders == K8Nodes \union {K8Nobody}
K8Stamps == K8Holders \X Nat
K8Records == [leader : K8Holders, stamp : K8Stamps]

Versions == Len(k8Log)

LogType == k8Log \in Seq(K8Records) /\ k8Age \in Nat
CacheType == k8Cache \in [K8Nodes -> Nat]
StreamType == k8Stream \in [K8Nodes -> [at : {"down", "listed", "watch"}, rv : Nat]]
SeenType == k8Seen \in [K8Nodes -> [record : K8Records, age : Nat]]
AtType == k8At \in [K8Nodes -> {"idle", "loaded", "patch", "read", "repatch"}]
OpType == k8Op \in [K8Nodes -> [kind : {"none", "update", "acquire"}, rv : Nat, stamp : K8Stamps]]
K8Type == LogType /\ CacheType /\ StreamType /\ SeenType /\ AtType /\ OpType

\* A record carries a version older than its own.
Stamped == \A i \in 1..Versions : k8Log[i].stamp[2] < i

\* A node knows of no version that is not there yet, and its cache is not behind its stream.
KnownBy(n) ==
    /\ k8Cache[n] <= Versions /\ k8Stream[n].rv <= Versions /\ k8Op[n].rv <= Versions
    /\ k8Stream[n].at = "watch" => k8Stream[n].rv <= k8Cache[n]

\* The holder a node has observed was in the log, and if it still is, not for a shorter time.
SeenBy(n) ==
    /\ k8Seen[n].record.leader # K8Nobody => \E i \in 1..Versions : k8Log[i] = k8Seen[n].record
    /\ Versions > 0 /\ k8Seen[n].record = k8Log[Versions] /\ k8Log[Versions].leader # K8Nobody => k8Seen[n].age <= k8Age

\* During a call a node writes its name with one stamp, which replaces no later record of its own.
CallOf(n) ==
    k8At[n] \in Calling =>
        /\ k8Op[n].stamp[1] = n /\ k8Op[n].stamp[2] <= Versions
        /\ k8At[n] # "repatch" => k8Op[n].rv <= k8Op[n].stamp[2]
        /\ \A i, j \in 1..Versions : i <= j /\ k8Log[i] = Mine(n) => k8Log[j] = Mine(n) \/ k8Log[j].leader # n
        /\ k8At[n] = "repatch" => \A i \in 1..k8Op[n].rv : k8Log[i] # Mine(n)

\* What a call is going to patch over.
ReplacedBy(n) ==
    /\ k8At[n] # "idle" => k8Op[n].kind \in {"update", "acquire"}
    /\ k8At[n] = "repatch" => k8Op[n].kind = "update"
    /\ k8At[n] \in Calling /\ k8Op[n].kind = "update" => k8Op[n].rv = 0 \/ k8Log[k8Op[n].rv].leader = n
    /\ k8At[n] # "idle" /\ k8Op[n].kind = "acquire"
          => /\ k8Op[n].rv # 0 => k8Log[k8Op[n].rv] = k8Seen[n].record
             /\ k8Seen[n].age > K8Ttl \/ k8Seen[n].record.leader = K8Nobody

K8NodeOK(n) == KnownBy(n) /\ SeenBy(n) /\ CallOf(n) /\ ReplacedBy(n)
K8Inv == K8Type /\ Stamped /\ \A n \in K8Nodes : K8NodeOK(n)

\* What a step of n leaves alone.
OthersKept(n) ==
    \A o \in K8Nodes \ {n} :
        /\ k8Cache'[o] = k8Cache[o] /\ k8Stream'[o] = k8Stream[o] /\ k8Seen'[o] = k8Seen[o]
        /\ k8At'[o] = k8At[o] /\ k8Op'[o] = k8Op[o]

-----------------------------------------------------------------------------
LEMMA K8Initial == K8Init => K8Inv
<1> SUFFICES ASSUME K8Init PROVE K8Inv
  OBVIOUS
<1>1. Versions = 0 /\ k8Log \in Seq(K8Records)
  BY DEF K8Init, Versions
<1>2. K8Type
  <2>1. NoRecord \in K8Records /\ NoOp \in [kind : {"none", "update", "acquire"}, rv : Nat, stamp : K8Stamps]
    BY DEF NoRecord, NoOp, K8Records, K8Stamps, K8Holders
  <2>2. LogType /\ CacheType /\ StreamType /\ AtType /\ OpType
    BY <1>1, <2>1 DEF K8Init, LogType, CacheType, StreamType, AtType, OpType
  <2>3. SeenType
    BY <2>1, KubernetesAssumption DEF K8Init, SeenType
  <2> QED BY <2>2, <2>3 DEF K8Type
<1>3. Stamped
  BY <1>1 DEF Stamped
<1>4. ASSUME NEW n \in K8Nodes PROVE K8NodeOK(n)
  BY <1>1 DEF K8Init, K8NodeOK, KnownBy, SeenBy, CallOf, ReplacedBy, NoRecord, NoOp, Calling
<1> QED BY <1>2, <1>3, <1>4 DEF K8Inv

\* A step that writes nothing leaves the facts about the other nodes alone.
LEMMA K8OthersQuiet ==
  ASSUME K8Inv, NEW n \in K8Nodes, OthersKept(n), k8Log' = k8Log, k8Age' = k8Age
  PROVE  \A o \in K8Nodes \ {n} : K8NodeOK(o)'
<1> SUFFICES ASSUME NEW o \in K8Nodes \ {n} PROVE K8NodeOK(o)'
  OBVIOUS
<1>1. K8NodeOK(o) /\ Versions' = Versions
  BY DEF K8Inv, Versions
<1>2. /\ k8Cache'[o] = k8Cache[o] /\ k8Stream'[o] = k8Stream[o] /\ k8Seen'[o] = k8Seen[o]
      /\ k8At'[o] = k8At[o] /\ k8Op'[o] = k8Op[o]
  BY DEF OthersKept
<1>3. Mine(o)' = Mine(o)
  BY <1>2 DEF Mine
<1>4. KnownBy(o)'
  BY <1>1, <1>2 DEF K8NodeOK, KnownBy
<1>5. SeenBy(o)'
  BY <1>1, <1>2 DEF K8NodeOK, SeenBy
<1>6. CallOf(o)'
  BY <1>1, <1>2, <1>3 DEF K8NodeOK, CallOf
<1>7. ReplacedBy(o)'
  BY <1>1, <1>2 DEF K8NodeOK, ReplacedBy
<1> QED BY <1>4, <1>5, <1>6, <1>7 DEF K8NodeOK

\* So does it with those of the node itself as far as they are about what it leaves alone.
LEMMA K8QuietNode ==
  ASSUME K8Inv, NEW n \in K8Nodes, k8Log' = k8Log, k8Age' = k8Age
  PROVE  /\ k8Seen'[n] = k8Seen[n] => SeenBy(n)'
         /\ k8At'[n] = k8At[n] /\ k8Op'[n] = k8Op[n] => CallOf(n)'
         /\ k8At'[n] = k8At[n] /\ k8Op'[n] = k8Op[n] /\ k8Seen'[n] = k8Seen[n] => ReplacedBy(n)'
         /\ k8At'[n] = "idle" => CallOf(n)' /\ ReplacedBy(n)'
         /\ Stamped' /\ Versions' = Versions
<1>1. K8NodeOK(n) /\ Versions' = Versions /\ Stamped
  BY DEF K8Inv, Versions
<1>2. k8Seen'[n] = k8Seen[n] => SeenBy(n)'
  BY <1>1 DEF K8NodeOK, SeenBy
<1>3. ASSUME k8At'[n] = k8At[n], k8Op'[n] = k8Op[n] PROVE CallOf(n)'
  <2>1. Mine(n)' = Mine(n)
    BY <1>3 DEF Mine
  <2> QED BY <1>1, <1>3, <2>1 DEF K8NodeOK, CallOf
<1>4. ASSUME k8At'[n] = k8At[n], k8Op'[n] = k8Op[n], k8Seen'[n] = k8Seen[n] PROVE ReplacedBy(n)'
  BY <1>1, <1>4 DEF K8NodeOK, ReplacedBy
<1>5. k8At'[n] = "idle" => CallOf(n)' /\ ReplacedBy(n)'
  BY DEF CallOf, ReplacedBy, Calling
<1>6. Stamped'
  BY <1>1 DEF Stamped
<1> QED BY <1>1, <1>2, <1>3, <1>4, <1>5, <1>6

\* What the invariant says of one node.
LEMMA K8Facts ==
  ASSUME K8Inv, NEW n \in K8Nodes
  PROVE  /\ Versions \in Nat /\ Current = Versions /\ k8Age \in Nat
         /\ \A i \in 1..Versions : k8Log[i] \in K8Records /\ k8Log[i].stamp[2] < i /\ k8Log[i].stamp[2] \in Nat
         /\ k8Cache[n] \in 0..Versions /\ k8Stream[n].rv \in 0..Versions /\ k8Op[n].rv \in 0..Versions
         /\ k8Seen[n] \in [record : K8Records, age : Nat]
         /\ k8Op[n] \in [kind : {"none", "update", "acquire"}, rv : Nat, stamp : K8Stamps]
         /\ \A rv \in 0..Versions : Record(rv) \in K8Records
         /\ K8NodeOK(n)
<1>1. LogType /\ CacheType /\ StreamType /\ SeenType /\ AtType /\ OpType /\ Stamped /\ K8NodeOK(n)
  BY DEF K8Inv, K8Type
<1>2. Versions \in Nat /\ Current = Versions /\ k8Age \in Nat
  BY <1>1 DEF LogType, Versions, Current
<1>3. \A i \in 1..Versions : k8Log[i] \in K8Records
  BY <1>1 DEF LogType, Versions
<1>4. \A i \in 1..Versions : k8Log[i].stamp[2] < i /\ k8Log[i].stamp[2] \in Nat
  BY <1>1, <1>3 DEF Stamped, K8Records, K8Stamps
<1>5. k8Cache[n] \in Nat /\ k8Stream[n].rv \in Nat /\ k8Op[n].rv \in Nat
  BY <1>1 DEF CacheType, StreamType, OpType
<1>6. k8Cache[n] \in 0..Versions /\ k8Stream[n].rv \in 0..Versions /\ k8Op[n].rv \in 0..Versions
  BY <1>1, <1>2, <1>5 DEF K8NodeOK, KnownBy
<1>7. NoRecord \in K8Records
  BY DEF NoRecord, K8Records, K8Stamps, K8Holders
<1>8. \A rv \in 0..Versions : Record(rv) \in K8Records
  BY <1>2, <1>3, <1>7 DEF Record
<1> QED BY <1>1, <1>2, <1>3, <1>4, <1>6, <1>8 DEF SeenType, OpType

\* ObjectCache.set never goes back.
LEMMA K8CacheSetFacts ==
  ASSUME CacheType, NEW n \in K8Nodes, NEW rv \in Nat, K8CacheSet(n, rv)
  PROVE  /\ CacheType'
         /\ k8Cache'[n] \in {k8Cache[n], rv} /\ k8Cache'[n] >= k8Cache[n] /\ k8Cache'[n] >= rv
         /\ \A o \in K8Nodes \ {n} : k8Cache'[o] = k8Cache[o]
<1>1. k8Cache[n] \in Nat
  BY DEF CacheType
<1>2. DOMAIN k8Cache = K8Nodes /\ k8Cache' = [k8Cache EXCEPT ![n] = IF k8Cache[n] < rv THEN rv ELSE k8Cache[n]]
  BY DEF CacheType, K8CacheSet
<1>3. k8Cache'[n] = (IF k8Cache[n] < rv THEN rv ELSE k8Cache[n]) /\ \A o \in K8Nodes \ {n} : k8Cache'[o] = k8Cache[o]
  BY <1>2
<1>4. CacheType'
  BY <1>2 DEF CacheType
<1> QED BY <1>1, <1>3, <1>4

LEMMA KilledFacts ==
  ASSUME StreamType, NEW n \in K8Nodes, Killed(n)
  PROVE  /\ StreamType'
         /\ k8Stream'[n].at # "watch" /\ (k8Stream'[n].rv = 0 \/ k8Stream'[n] = k8Stream[n])
         /\ \A o \in K8Nodes \ {n} : k8Stream'[o] = k8Stream[o]
  BY DEF StreamType, Killed

LEMMA AnswerFacts ==
  ASSUME AtType, OpType, NEW n \in K8Nodes, NEW yes, Answer(n, yes)
  PROVE  /\ AtType' /\ OpType'
         /\ k8At'[n] = "idle" /\ k8Op'[n] = NoOp
         /\ \A o \in K8Nodes \ {n} : k8At'[o] = k8At[o] /\ k8Op'[o] = k8Op[o]
<1>1. NoOp \in [kind : {"none", "update", "acquire"}, rv : Nat, stamp : K8Stamps]
  BY DEF NoOp, K8Stamps, K8Holders
<1>2. k8At' = [k8At EXCEPT ![n] = "idle"] /\ k8Op' = [k8Op EXCEPT ![n] = NoOp]
  BY DEF Answer
<1>3. AtType' /\ k8At'[n] = "idle" /\ \A o \in K8Nodes \ {n} : k8At'[o] = k8At[o]
  BY <1>2 DEF AtType
<1>4. OpType' /\ k8Op'[n] = NoOp /\ \A o \in K8Nodes \ {n} : k8Op'[o] = k8Op[o]
  BY <1>1, <1>2 DEF OpType
<1> QED BY <1>3, <1>4

\* The thread of the cache.
LEMMA K8CacheStep ==
  ASSUME K8Inv, NEW n \in K8Nodes, CacheGoes(n) \/ StreamBreaks(n)
  PROVE  K8Inv'
<1>1. /\ k8Log' = k8Log /\ k8Age' = k8Age /\ k8Seen' = k8Seen /\ k8At' = k8At /\ k8Op' = k8Op
  BY DEF CacheGoes, CacheList, CacheInstall, CacheEvent, StreamBreaks, k8Store, k8Node
<1>2. CacheType /\ StreamType /\ K8Type
  BY DEF K8Inv, K8Type
<1>3. /\ CacheType' /\ StreamType'
      /\ \A o \in K8Nodes \ {n} : k8Cache'[o] = k8Cache[o] /\ k8Stream'[o] = k8Stream[o]
      /\ k8Cache'[n] <= Versions /\ k8Stream'[n].rv <= Versions
      /\ k8Stream'[n].at = "watch" => k8Stream'[n].rv <= k8Cache'[n]
  <2> USE K8Facts DEF K8NodeOK, KnownBy
  <2>1. CASE CacheList(n)
    <3>1. k8Stream' = [k8Stream EXCEPT ![n] = [at |-> "listed", rv |-> Versions]] /\ k8Cache' = k8Cache
      BY <2>1 DEF CacheList
    <3> QED BY <1>2, <3>1 DEF CacheType, StreamType
  <2>2. CASE CacheInstall(n)
    <3>1. /\ k8Cache' = [k8Cache EXCEPT ![n] = k8Stream[n].rv] /\ k8Stream' = [k8Stream EXCEPT ![n].at = "watch"]
      BY <2>2 DEF CacheInstall
    <3>2. CacheType' /\ k8Cache'[n] = k8Stream[n].rv /\ \A o \in K8Nodes \ {n} : k8Cache'[o] = k8Cache[o]
      BY <1>2, <3>1 DEF CacheType
    <3>3. StreamType' /\ k8Stream'[n].rv = k8Stream[n].rv /\ \A o \in K8Nodes \ {n} : k8Stream'[o] = k8Stream[o]
      BY <1>2, <3>1 DEF StreamType
    <3> QED BY <3>2, <3>3
  <2>3. CASE CacheEvent(n)
    <3>1. k8Stream[n].rv + 1 \in Nat /\ k8Stream[n].rv + 1 <= Versions /\ k8Cache[n] <= Versions
      BY <2>3 DEF CacheEvent
    <3>2. /\ CacheType' /\ k8Cache'[n] >= k8Stream[n].rv + 1 /\ k8Cache'[n] <= Versions
          /\ \A o \in K8Nodes \ {n} : k8Cache'[o] = k8Cache[o]
      BY <1>2, <2>3, <3>1, K8CacheSetFacts DEF CacheEvent
    <3>3. k8Stream' = [k8Stream EXCEPT ![n].rv = @ + 1]
      BY <2>3 DEF CacheEvent
    <3>4. StreamType' /\ k8Stream'[n].rv = k8Stream[n].rv + 1 /\ \A o \in K8Nodes \ {n} : k8Stream'[o] = k8Stream[o]
      BY <1>2, <3>1, <3>3 DEF StreamType
    <3> QED BY <3>1, <3>2, <3>4
  <2>4. CASE StreamBreaks(n)
    <3>1. Killed(n) /\ k8Cache' = k8Cache
      BY <2>4 DEF StreamBreaks
    <3> QED BY <1>2, <3>1, KilledFacts DEF CacheType
  <2> QED BY <2>1, <2>2, <2>3, <2>4 DEF CacheGoes
<1>4. OthersKept(n)
  BY <1>1, <1>3 DEF OthersKept
<1>5. K8Type'
  BY <1>1, <1>2, <1>3 DEF K8Type, LogType, SeenType, AtType, OpType
<1>6. KnownBy(n)'
  <2>1. k8Op[n].rv <= Versions /\ Versions' = Versions
    BY <1>1, K8Facts DEF K8NodeOK, KnownBy, Versions
  <2> QED BY <1>1, <1>3, <2>1 DEF KnownBy
<1>7. Stamped' /\ SeenBy(n)' /\ CallOf(n)' /\ ReplacedBy(n)'
  BY <1>1, K8QuietNode
<1>8. \A o \in K8Nodes \ {n} : K8NodeOK(o)'
  BY <1>1, <1>4, K8OthersQuiet
<1> QED BY <1>5, <1>6, <1>7, <1>8 DEF K8NodeOK, K8Inv

\* get_cluster: the record is observed with the age it has, or as a new one.
LEMMA K8Observes ==
  ASSUME K8Inv, NEW n \in K8Nodes, Loads(n)
  PROVE  /\ SeenType'
         /\ k8Seen'[n] = Observed(n) /\ Observed(n).record = Record(k8Cache[n])
         /\ \A o \in K8Nodes \ {n} : k8Seen'[o] = k8Seen[o]
         /\ k8Log' = k8Log /\ k8Age' = k8Age /\ k8Cache' = k8Cache /\ k8Stream' = k8Stream
         /\ SeenBy(n)'
<1>1. /\ k8Log' = k8Log /\ k8Age' = k8Age /\ k8Cache' = k8Cache /\ k8Stream' = k8Stream
      /\ k8Seen' = [k8Seen EXCEPT ![n] = Observed(n)]
  BY DEF Loads, k8Store
<1>2. SeenType /\ Versions' = Versions
  BY <1>1 DEF K8Inv, K8Type, Versions
<1>3. Record(k8Cache[n]) \in K8Records
  BY K8Facts
<1>4. /\ Observed(n) \in [record : K8Records, age : Nat] /\ Observed(n).record = Record(k8Cache[n])
      /\ Observed(n) = k8Seen[n] \/ Observed(n).age = 0
  BY <1>2, <1>3 DEF Observed, SeenType
<1>5. SeenType' /\ k8Seen'[n] = Observed(n) /\ \A o \in K8Nodes \ {n} : k8Seen'[o] = k8Seen[o]
  BY <1>1, <1>2, <1>4 DEF SeenType
<1>6. Observed(n).record.leader # K8Nobody => \E i \in 1..Versions : k8Log[i] = Observed(n).record
  <2> SUFFICES ASSUME Observed(n).record.leader # K8Nobody PROVE \E i \in 1..Versions : k8Log[i] = Observed(n).record
    OBVIOUS
  <2>1. k8Cache[n] # 0 /\ Observed(n).record = k8Log[k8Cache[n]]
    BY <1>4 DEF Record, NoRecord
  <2> QED BY <2>1, K8Facts
<1>7. Versions > 0 /\ Observed(n).record = k8Log[Versions] /\ k8Log[Versions].leader # K8Nobody => Observed(n).age <= k8Age
  <2>1. CASE Observed(n) = k8Seen[n]
    BY <2>1, K8Facts DEF K8NodeOK, SeenBy
  <2>2. CASE Observed(n).age = 0
    BY <2>2, K8Facts
  <2> QED BY <1>4, <2>1, <2>2
<1>8. SeenBy(n)'
  BY <1>1, <1>2, <1>5, <1>6, <1>7 DEF SeenBy
<1> QED BY <1>1, <1>4, <1>5, <1>8

\* A cycle that ends without a write: the call is answered, or there is none.
LEMMA K8Idle ==
  ASSUME K8Inv, NEW n \in K8Nodes, k8Log' = k8Log, k8Age' = k8Age, K8Type', OthersKept(n), SeenBy(n)',
         k8At'[n] = "idle", k8Op'[n].rv \in {0, k8Op[n].rv}, k8Cache'[n] <= Versions, k8Stream'[n].rv <= Versions,
         k8Stream'[n].at = "watch" => k8Stream'[n].rv <= k8Cache'[n]
  PROVE  K8Inv'
<1>1. Versions' = Versions /\ Stamped' /\ CallOf(n)' /\ ReplacedBy(n)'
  BY K8QuietNode
<1>2. KnownBy(n)'
  BY <1>1, K8Facts DEF KnownBy
<1>3. \A o \in K8Nodes \ {n} : K8NodeOK(o)'
  BY K8OthersQuiet
<1> QED BY <1>1, <1>2, <1>3 DEF K8NodeOK, K8Inv

\* get_cluster, and the cycle of a node that does not race.
LEMMA K8FollowStep ==
  ASSUME K8Inv, NEW n \in K8Nodes, K8Follow(n) \/ K8LoadFails(n)
  PROVE  K8Inv'
<1>1. k8At' = k8At /\ k8Op' = k8Op /\ k8At[n] = "idle" /\ k8Log' = k8Log /\ k8Age' = k8Age /\ k8Cache' = k8Cache /\ k8Stream' = k8Stream
  BY DEF K8Follow, K8LoadFails, Loads, k8Store
<1>2. SeenType' /\ SeenBy(n)' /\ \A o \in K8Nodes \ {n} : k8Seen'[o] = k8Seen[o]
  <2>1. CASE K8Follow(n)
    BY <2>1, K8Observes DEF K8Follow
  <2>2. CASE K8LoadFails(n)
    <3>1. k8Seen' = k8Seen
      BY <2>2 DEF K8LoadFails
    <3> QED BY <1>1, <3>1, K8QuietNode DEF K8Inv, K8Type, SeenType
  <2> QED BY <2>1, <2>2
<1>3. K8Type'
  BY <1>1, <1>2 DEF K8Inv, K8Type, LogType, CacheType, StreamType, AtType, OpType
<1>4. OthersKept(n)
  BY <1>1, <1>2 DEF OthersKept
<1>5. k8Cache[n] <= Versions /\ k8Stream[n].rv <= Versions /\ (k8Stream[n].at = "watch" => k8Stream[n].rv <= k8Cache[n])
  BY K8Facts DEF K8NodeOK, KnownBy
<1>6. k8At'[n] = "idle" /\ k8Op'[n].rv = k8Op[n].rv /\ k8Cache'[n] = k8Cache[n] /\ k8Stream'[n] = k8Stream[n]
  BY <1>1
<1> QED BY <1>1, <1>2, <1>3, <1>4, <1>5, <1>6, K8Idle

\* The call that is decided on: over a version of the record that was found expired.
LEMMA K8LoadStep ==
  ASSUME K8Inv, NEW n \in K8Nodes, K8Load(n)
  PROVE  K8Inv'
<1>1. /\ SeenType' /\ SeenBy(n)' /\ k8Seen'[n] = Observed(n) /\ Observed(n).record = Record(k8Cache[n])
      /\ \A o \in K8Nodes \ {n} : k8Seen'[o] = k8Seen[o]
      /\ k8Log' = k8Log /\ k8Age' = k8Age /\ k8Cache' = k8Cache /\ k8Stream' = k8Stream
  BY K8Observes DEF K8Load
<1> DEFINE op == [kind |-> IF LeaderOf(Observed(n)) = n THEN "update" ELSE "acquire", rv |-> k8Cache[n], stamp |-> NoOp.stamp]
<1>2. k8At' = [k8At EXCEPT ![n] = "loaded"] /\ k8Op' = [k8Op EXCEPT ![n] = op]
  BY DEF K8Load
<1>3. /\ op.rv = k8Cache[n] /\ op.kind = (IF LeaderOf(Observed(n)) = n THEN "update" ELSE "acquire")
      /\ op \in [kind : {"none", "update", "acquire"}, rv : Nat, stamp : K8Stamps]
  BY K8Facts DEF NoOp, K8Stamps, K8Holders
<1> HIDE DEF op
<1>4. AtType' /\ k8At'[n] = "loaded" /\ \A o \in K8Nodes \ {n} : k8At'[o] = k8At[o]
  BY <1>2 DEF K8Inv, K8Type, AtType
<1>5. OpType' /\ k8Op'[n] = op /\ \A o \in K8Nodes \ {n} : k8Op'[o] = k8Op[o]
  BY <1>2, <1>3 DEF K8Inv, K8Type, OpType
<1>6. K8Type'
  BY <1>1, <1>4, <1>5 DEF K8Inv, K8Type, LogType, CacheType, StreamType
<1>7. OthersKept(n)
  BY <1>1, <1>4, <1>5 DEF OthersKept
<1>8. Versions' = Versions /\ Stamped'
  BY <1>1, K8QuietNode
<1>9. KnownBy(n)'
  BY <1>1, <1>3, <1>5, <1>8, K8Facts DEF K8NodeOK, KnownBy
<1>10. CallOf(n)'
  BY <1>4 DEF CallOf, Calling
<1>11. ReplacedBy(n)'
  <2>1. k8Op'[n].kind \in {"update", "acquire"}
    BY <1>3, <1>5
  <2>2. ASSUME k8Op'[n].kind = "acquire"
        PROVE  Observed(n).age > K8Ttl \/ Observed(n).record.leader = K8Nobody
    <3>1. LeaderOf(Observed(n)) = K8Nobody
      BY <1>3, <1>5, <2>2 DEF K8Load
    <3>2. Observed(n).age \in Nat
      BY <1>1 DEF SeenType
    <3> QED BY <3>1, <3>2, KubernetesAssumption DEF LeaderOf
  <2>3. k8Op'[n].rv # 0 => k8Log'[k8Op'[n].rv] = k8Seen'[n].record
    BY <1>1, <1>3, <1>5 DEF Record
  <2> QED BY <1>1, <1>4, <2>1, <2>2, <2>3 DEF ReplacedBy, Calling
<1>12. \A o \in K8Nodes \ {n} : K8NodeOK(o)'
  BY <1>1, <1>7, K8OthersQuiet
<1> QED BY <1>1, <1>6, <1>8, <1>9, <1>10, <1>11, <1>12 DEF K8NodeOK, K8Inv

\* The call is made, with a stamp that is not in the log.
LEMMA K8CallStep ==
  ASSUME K8Inv, NEW n \in K8Nodes, K8Update(n) \/ K8Acquire(n), k8At'[n] # "idle"
  PROVE  K8Inv'
<1>1. k8Log' = k8Log /\ k8Age' = k8Age /\ k8Cache' = k8Cache /\ k8Stream' = k8Stream /\ k8Seen' = k8Seen
  BY DEF K8Update, K8Acquire, k8Store, k8Node
<1>2. AtType /\ OpType
  BY DEF K8Inv, K8Type
<1>3. PICK kind \in {"update", "acquire"}, rv \in 0..Versions :
         /\ k8At' = [k8At EXCEPT ![n] = "patch"]
         /\ k8Op' = [k8Op EXCEPT ![n] = [kind |-> kind, rv |-> rv, stamp |-> Stamp(n)]]
         /\ k8At[n] = "loaded" /\ k8Op[n].kind = kind
         /\ kind = "update" => rv = k8Cache[n] /\ ~(k8Cache[n] # 0 /\ Record(k8Cache[n]).leader # n)
         /\ kind = "acquire" => rv = VersionToReplace(n)
  <2>1. CASE K8Update(n)
    <3>1. ~Answer(n, FALSE)
      BY <1>2, AnswerFacts
    <3> QED BY <2>1, <3>1, K8Facts DEF K8Update
  <2>2. CASE K8Acquire(n)
    <3>1. VersionToReplace(n) \in 0..Versions
      BY K8Facts DEF VersionToReplace
    <3> QED BY <2>2, <3>1 DEF K8Acquire, K8Goes
  <2> QED BY <2>1, <2>2
<1>4. rv \in 0..Versions /\ Stamp(n) = <<n, Versions>> /\ Stamp(n) \in K8Stamps
  BY K8Facts DEF Stamp, K8Stamps, K8Holders
<1>5. AtType' /\ k8At'[n] = "patch" /\ \A o \in K8Nodes \ {n} : k8At'[o] = k8At[o]
  BY <1>2, <1>3 DEF AtType
<1>6. /\ OpType' /\ k8Op'[n].kind = kind /\ k8Op'[n].rv = rv /\ k8Op'[n].stamp = Stamp(n)
      /\ \A o \in K8Nodes \ {n} : k8Op'[o] = k8Op[o]
  BY <1>2, <1>3, <1>4, K8Facts DEF OpType
<1>7. K8Type'
  BY <1>1, <1>5, <1>6 DEF K8Inv, K8Type, LogType, CacheType, StreamType, SeenType
<1>8. OthersKept(n)
  BY <1>1, <1>5, <1>6 DEF OthersKept
<1>9. Versions' = Versions /\ Stamped' /\ SeenBy(n)'
  BY <1>1, K8QuietNode
<1>10. KnownBy(n)'
  BY <1>1, <1>4, <1>6, <1>9, K8Facts DEF K8NodeOK, KnownBy
<1>11. CallOf(n)'
  <2>1. k8Op'[n].stamp[1] = n /\ k8Op'[n].stamp[2] = Versions /\ Mine(n)'.stamp[2] = Versions
    BY <1>4, <1>6 DEF Mine
  <2>2. \A i \in 1..Versions : k8Log[i] # Mine(n)'
    BY <2>1, K8Facts
  <2> QED BY <1>1, <1>4, <1>5, <1>6, <1>9, <2>1, <2>2, K8Facts DEF CallOf
<1>12. ReplacedBy(n)'
  <2>1. kind = "update" => rv = 0 \/ k8Log[rv].leader = n
    BY <1>3 DEF Record
  <2>2. kind = "acquire" => (rv # 0 => k8Log[rv] = k8Seen[n].record) /\ (k8Seen[n].age > K8Ttl \/ k8Seen[n].record.leader = K8Nobody)
    <3>1. /\ kind = "acquire" /\ k8Op[n].rv # 0 => k8Log[k8Op[n].rv] = k8Seen[n].record
          /\ kind = "acquire" => k8Seen[n].age > K8Ttl \/ k8Seen[n].record.leader = K8Nobody
      BY <1>3, K8Facts DEF K8NodeOK, ReplacedBy
    <3> QED BY <1>3, <3>1 DEF VersionToReplace, Record
  <2> QED BY <1>1, <1>3, <1>5, <1>6, <2>1, <2>2 DEF ReplacedBy
<1>13. \A o \in K8Nodes \ {n} : K8NodeOK(o)'
  BY <1>1, <1>8, K8OthersQuiet
<1> QED BY <1>7, <1>9, <1>10, <1>11, <1>12, <1>13 DEF K8NodeOK, K8Inv

\* A call that is answered without a write.
LEMMA K8AnswerStep ==
  ASSUME K8Inv, NEW n \in K8Nodes, NEW yes, Answer(n, yes), k8Log' = k8Log, k8Age' = k8Age, k8Seen' = k8Seen,
         k8Cache' = k8Cache \/ K8CacheSet(n, Current), k8Stream' = k8Stream \/ Killed(n)
  PROVE  K8Inv'
<1>1. CacheType /\ StreamType /\ SeenType /\ AtType /\ OpType /\ K8Type
  BY DEF K8Inv, K8Type
<1>2. AtType' /\ OpType' /\ k8At'[n] = "idle" /\ k8Op'[n].rv = 0 /\ \A o \in K8Nodes \ {n} : k8At'[o] = k8At[o] /\ k8Op'[o] = k8Op[o]
  BY <1>1, AnswerFacts DEF NoOp
<1>3. Versions \in Nat /\ Current = Versions /\ k8Cache[n] \in 0..Versions /\ k8Stream[n].rv \in 0..Versions
      /\ (k8Stream[n].at = "watch" => k8Stream[n].rv <= k8Cache[n])
  BY K8Facts DEF K8NodeOK, KnownBy
<1>4. CacheType' /\ k8Cache'[n] \in 0..Versions /\ k8Cache'[n] >= k8Cache[n] /\ \A o \in K8Nodes \ {n} : k8Cache'[o] = k8Cache[o]
  <2>1. CASE k8Cache' = k8Cache
    BY <1>1, <1>3, <2>1 DEF CacheType
  <2>2. CASE K8CacheSet(n, Versions)
    BY <1>1, <1>3, <2>2, K8CacheSetFacts
  <2> QED BY <1>3, <2>1, <2>2
<1>5. /\ StreamType' /\ k8Stream'[n].rv <= Versions /\ (k8Stream'[n].at = "watch" => k8Stream'[n] = k8Stream[n])
      /\ \A o \in K8Nodes \ {n} : k8Stream'[o] = k8Stream[o]
  <2>1. CASE k8Stream' = k8Stream
    BY <1>1, <1>3, <2>1 DEF StreamType
  <2>2. CASE Killed(n)
    BY <1>1, <1>3, <2>2, KilledFacts
  <2> QED BY <2>1, <2>2
<1>6. K8Type'
  BY <1>1, <1>2, <1>4, <1>5 DEF K8Type, LogType, SeenType
<1>7. OthersKept(n)
  BY <1>2, <1>4, <1>5 DEF OthersKept
<1>8. SeenBy(n)'
  BY K8QuietNode
<1>9. k8Stream'[n].at = "watch" => k8Stream'[n].rv <= k8Cache'[n]
  BY <1>3, <1>4, <1>5
<1>10. k8Cache'[n] <= Versions
  BY <1>3, <1>4
<1> QED BY <1>2, <1>5, <1>6, <1>7, <1>8, <1>9, <1>10, K8Idle

\* The patch met a conflict: the object is read ...
LEMMA K8ConflictStep ==
  ASSUME K8Inv, NEW n \in K8Nodes, PatchConflict(n)
  PROVE  K8Inv'
<1>1. /\ k8At[n] = "patch" /\ k8Log' = k8Log /\ k8Age' = k8Age /\ k8Cache' = k8Cache /\ k8Seen' = k8Seen
      /\ k8Stream' = k8Stream \/ Killed(n)
      /\ Answer(n, FALSE) \/ (k8At' = [k8At EXCEPT ![n] = "read"] /\ k8Op' = k8Op)
  BY DEF PatchConflict, k8Store
<1>2. CASE Answer(n, FALSE)
  BY <1>1, <1>2, K8AnswerStep
<1>3. CASE k8At' = [k8At EXCEPT ![n] = "read"] /\ k8Op' = k8Op
  <2>1. CacheType /\ StreamType /\ SeenType /\ AtType /\ OpType /\ K8Type
    BY DEF K8Inv, K8Type
  <2>2. AtType' /\ k8At'[n] = "read" /\ \A o \in K8Nodes \ {n} : k8At'[o] = k8At[o]
    BY <1>3, <2>1 DEF AtType
  <2>3. /\ StreamType' /\ k8Stream'[n].rv <= Versions /\ (k8Stream'[n].at = "watch" => k8Stream'[n] = k8Stream[n])
        /\ \A o \in K8Nodes \ {n} : k8Stream'[o] = k8Stream[o]
    <3>0. k8Stream[n].rv <= Versions /\ Versions \in Nat
      BY K8Facts
    <3>1. CASE k8Stream' = k8Stream
      BY <2>1, <3>0, <3>1 DEF StreamType
    <3>2. CASE Killed(n)
      BY <2>1, <3>0, <3>2, KilledFacts
    <3> QED BY <1>1, <3>1, <3>2
  <2>4. K8Type'
    BY <1>1, <1>3, <2>1, <2>2, <2>3 DEF K8Type, LogType, CacheType, SeenType, OpType
  <2>5. OthersKept(n)
    BY <1>1, <1>3, <2>2, <2>3 DEF OthersKept
  <2>6. SeenBy(n)' /\ Versions' = Versions /\ Stamped'
    BY <1>1, K8QuietNode
  <2>7. KnownBy(n)'
    <3>1. KnownBy(n)
      BY K8Facts DEF K8NodeOK
    <3> QED BY <1>1, <1>3, <2>3, <2>6, <3>1 DEF KnownBy
  <2>8. CallOf(n)'
    <3>1. CallOf(n) /\ k8At[n] \in Calling /\ k8At[n] # "repatch" /\ k8At'[n] # "repatch" /\ Mine(n)' = Mine(n)
      BY <1>1, <1>3, <2>2, K8Facts DEF K8NodeOK, Mine, Calling
    <3> QED BY <1>1, <1>3, <2>6, <3>1 DEF CallOf
  <2>9. ReplacedBy(n)'
    <3>1. ReplacedBy(n) /\ k8At[n] \in Calling /\ k8At[n] # "idle" /\ k8At'[n] # "idle" /\ k8At'[n] # "repatch"
      BY <1>1, <2>2, K8Facts DEF K8NodeOK, Calling
    <3> QED BY <1>1, <1>3, <3>1 DEF ReplacedBy
  <2>10. \A o \in K8Nodes \ {n} : K8NodeOK(o)'
    BY <1>1, <2>5, K8OthersQuiet
  <2> QED BY <2>4, <2>6, <2>7, <2>8, <2>9, <2>10 DEF K8NodeOK, K8Inv
<1> QED BY <1>1, <1>2, <1>3

\* ... and patched again if it carries an older record of this node, which shows that the lost patch was not accepted.
LEMMA K8ReadStep ==
  ASSUME K8Inv, NEW n \in K8Nodes, UpdateReads(n)
  PROVE  K8Inv'
<1>1. /\ k8At[n] = "read" /\ k8Log' = k8Log /\ k8Age' = k8Age /\ k8Seen' = k8Seen /\ k8Stream' = k8Stream
      /\ k8Op[n].kind = "update" /\ K8CacheSet(n, Current)
      /\ \/ Answer(n, FALSE) \/ Answer(n, TRUE)
         \/ /\ Record(Current).leader = n /\ Record(Current) # Mine(n)
            /\ k8At' = [k8At EXCEPT ![n] = "repatch"] /\ k8Op' = [k8Op EXCEPT ![n].rv = Current]
  BY DEF UpdateReads, k8Store, WrittenBefore
<1>2. CASE Answer(n, FALSE) \/ Answer(n, TRUE)
  BY <1>1, <1>2, K8AnswerStep
<1>3. CASE /\ Record(Current).leader = n /\ Record(Current) # Mine(n)
           /\ k8At' = [k8At EXCEPT ![n] = "repatch"] /\ k8Op' = [k8Op EXCEPT ![n].rv = Current]
  <2>1. CacheType /\ StreamType /\ SeenType /\ AtType /\ OpType /\ K8Type
    BY DEF K8Inv, K8Type
  <2>2. Versions \in Nat \ {0} /\ Current = Versions /\ k8Log[Versions].leader = n /\ k8Log[Versions] # Mine(n)
    <3>1. Current # 0
      BY <1>3, KubernetesAssumption DEF Record, NoRecord
    <3> QED BY <1>3, <3>1, K8Facts DEF Record
  <2>3. AtType' /\ k8At'[n] = "repatch" /\ \A o \in K8Nodes \ {n} : k8At'[o] = k8At[o]
    BY <1>3, <2>1 DEF AtType
  <2>4. /\ OpType' /\ k8Op'[n].rv = Versions /\ k8Op'[n].kind = k8Op[n].kind /\ k8Op'[n].stamp = k8Op[n].stamp
        /\ \A o \in K8Nodes \ {n} : k8Op'[o] = k8Op[o]
    BY <1>3, <2>1, <2>2 DEF OpType
  <2>5. CacheType' /\ k8Cache'[n] \in {k8Cache[n], Versions} /\ k8Cache'[n] >= k8Cache[n] /\ \A o \in K8Nodes \ {n} : k8Cache'[o] = k8Cache[o]
    BY <1>1, <2>1, <2>2, K8CacheSetFacts
  <2>6. K8Type'
    BY <1>1, <2>1, <2>3, <2>4, <2>5 DEF K8Type, LogType, StreamType, SeenType
  <2>7. OthersKept(n)
    BY <1>1, <2>3, <2>4, <2>5 DEF OthersKept
  <2>8. SeenBy(n)' /\ Versions' = Versions /\ Stamped'
    BY <1>1, K8QuietNode
  <2>9. KnownBy(n)'
    <3>1. /\ k8Cache[n] \in 0..Versions /\ k8Stream[n].rv \in 0..Versions
          /\ k8Stream[n].at = "watch" => k8Stream[n].rv <= k8Cache[n]
      BY K8Facts DEF K8NodeOK, KnownBy
    <3>2. k8Cache'[n] <= Versions /\ k8Op'[n].rv <= Versions
      BY <2>2, <2>4, <2>5, <3>1
    <3>3. k8Stream'[n] = k8Stream[n]
      BY <1>1
    <3>4. k8Stream[n].at = "watch" => k8Stream[n].rv <= k8Cache'[n]
      BY <2>2, <2>5, <3>1
    <3> QED BY <2>8, <3>1, <3>2, <3>3, <3>4 DEF KnownBy
  <2>10. CallOf(n)'
    <3>1. CallOf(n) /\ k8At[n] \in Calling /\ Mine(n)' = Mine(n)
      BY <1>1, <2>4, K8Facts DEF K8NodeOK, Mine, Calling
    <3>2. \A i \in 1..Versions : k8Log[i] # Mine(n)
      <4>1. \A i, j \in 1..Versions : i <= j /\ k8Log[i] = Mine(n) => k8Log[j] = Mine(n) \/ k8Log[j].leader # n
        BY <3>1 DEF CallOf
      <4>2. Versions \in 1..Versions /\ \A i \in 1..Versions : i <= Versions
        BY <2>2
      <4> QED BY <2>2, <4>1, <4>2
    <3> QED BY <1>1, <2>3, <2>4, <2>8, <3>1, <3>2 DEF CallOf
  <2>11. ReplacedBy(n)'
    BY <1>1, <2>2, <2>3, <2>4 DEF ReplacedBy
  <2>12. \A o \in K8Nodes \ {n} : K8NodeOK(o)'
    BY <1>1, <2>7, K8OthersQuiet
  <2> QED BY <2>6, <2>8, <2>9, <2>10, <2>11, <2>12 DEF K8NodeOK, K8Inv
<1> QED BY <1>1, <1>2, <1>3

-----------------------------------------------------------------------------
\* A record that may be written over the current one by n: it is the current one, names nobody, or is new.
Writable(n, record) ==
    /\ record \in K8Records /\ record.stamp[2] <= Versions
    /\ record.leader \in {n, K8Nobody} \/ record = Record(Versions)
    /\ record.leader = K8Nobody \/ record = Record(Versions) \/ \A i \in 1..Versions : k8Log[i] # record

LEMMA K8WriteFacts ==
  ASSUME K8Inv, NEW n \in K8Nodes, NEW record, Writable(n, record), K8Write(record)
  PROVE  /\ LogType' /\ Stamped' /\ Versions' = Versions + 1 /\ k8Log'[Versions + 1] = record
         /\ \A i \in 1..Versions : k8Log'[i] = k8Log[i]
         /\ \/ record = Record(Versions) /\ k8Age' = k8Age
            \/ record # Record(Versions) /\ k8Age' = 0
<1>1. record \in K8Records /\ LogType /\ Versions \in Nat /\ Current = Versions
  BY K8Facts DEF K8Inv, K8Type, Writable
<1>2. k8Log' = Append(k8Log, record) /\ k8Age' = IF record = Record(Versions) THEN k8Age ELSE 0
  BY <1>1 DEF K8Write
<1>3. /\ k8Log' \in Seq(K8Records) /\ Versions' = Versions + 1 /\ k8Log'[Versions + 1] = record
      /\ \A i \in 1..Versions : k8Log'[i] = k8Log[i]
  BY <1>1, <1>2 DEF LogType, Versions
<1>4. LogType'
  BY <1>1, <1>2, <1>3 DEF LogType
<1>5. Stamped'
  <2> SUFFICES ASSUME NEW i \in 1..(Versions + 1) PROVE k8Log'[i].stamp[2] < i
    BY <1>3 DEF Stamped
  <2>1. CASE i \in 1..Versions
    BY <1>3, <2>1, K8Facts
  <2>2. CASE i = Versions + 1
    <3>1. record.stamp[2] \in Nat /\ record.stamp[2] <= Versions
      BY <1>1 DEF Writable, K8Records, K8Stamps
    <3> QED BY <1>1, <1>3, <2>2, <3>1
  <2> QED BY <1>1, <2>1, <2>2
<1> QED BY <1>2, <1>3, <1>4, <1>5

\* A new record has been observed by nobody.
LEMMA K8SeenWritten ==
  ASSUME K8Inv, NEW n \in K8Nodes, NEW record, Writable(n, record), K8Write(record),
         NEW o \in K8Nodes, k8Seen'[o] = k8Seen[o]
  PROVE  SeenBy(o)'
<1>1. /\ Versions' = Versions + 1 /\ k8Log'[Versions + 1] = record /\ \A i \in 1..Versions : k8Log'[i] = k8Log[i]
      /\ (record = Record(Versions) /\ k8Age' = k8Age) \/ (record # Record(Versions) /\ k8Age' = 0)
  BY K8WriteFacts
<1>2. Versions \in Nat /\ SeenBy(o)
  BY K8Facts DEF K8NodeOK
<1>3. k8Seen[o].record.leader # K8Nobody => \E i \in 1..Versions : k8Log[i] = k8Seen[o].record
  BY <1>2 DEF SeenBy
<1>4. k8Seen[o].record.leader # K8Nobody => \E i \in 1..(Versions + 1) : k8Log'[i] = k8Seen[o].record
  BY <1>1, <1>2, <1>3
<1>5. ASSUME k8Seen[o].record = record, record.leader # K8Nobody PROVE k8Seen[o].age <= k8Age'
  <2>1. record = Record(Versions)
    BY <1>3, <1>5 DEF Writable
  <2>2. Versions # 0 /\ record = k8Log[Versions]
    BY <1>5, <2>1 DEF Record, NoRecord
  <2> QED BY <1>1, <1>2, <1>5, <2>1, <2>2 DEF SeenBy
<1> QED BY <1>1, <1>4, <1>5 DEF SeenBy

LEMMA K8OthersWritten ==
  ASSUME K8Inv, NEW n \in K8Nodes, NEW record, Writable(n, record), K8Write(record), OthersKept(n)
  PROVE  \A o \in K8Nodes \ {n} : K8NodeOK(o)'
<1> SUFFICES ASSUME NEW o \in K8Nodes \ {n} PROVE K8NodeOK(o)'
  OBVIOUS
<1>1. /\ Versions' = Versions + 1 /\ k8Log'[Versions + 1] = record /\ \A i \in 1..Versions : k8Log'[i] = k8Log[i]
  BY K8WriteFacts
<1>2. /\ k8Cache'[o] = k8Cache[o] /\ k8Stream'[o] = k8Stream[o] /\ k8Seen'[o] = k8Seen[o]
      /\ k8At'[o] = k8At[o] /\ k8Op'[o] = k8Op[o] /\ Mine(o)' = Mine(o)
  BY DEF OthersKept, Mine
<1>3. /\ Versions \in Nat /\ KnownBy(o) /\ CallOf(o) /\ ReplacedBy(o)
      /\ k8Cache[o] \in 0..Versions /\ k8Stream[o].rv \in 0..Versions /\ k8Op[o].rv \in 0..Versions
      /\ k8Op[o].stamp[2] \in Nat
  BY K8Facts DEF K8NodeOK, K8Stamps
<1>4. KnownBy(o)'
  BY <1>1, <1>2, <1>3 DEF KnownBy
<1>5. SeenBy(o)'
  BY <1>2, K8SeenWritten
<1>6. CallOf(o)'
  <2> SUFFICES ASSUME k8At[o] \in Calling
               PROVE  /\ k8Op[o].stamp[1] = o /\ k8Op[o].stamp[2] <= Versions + 1
                      /\ k8At[o] # "repatch" => k8Op[o].rv <= k8Op[o].stamp[2]
                      /\ \A i, j \in 1..(Versions + 1) : i <= j /\ k8Log'[i] = Mine(o) => k8Log'[j] = Mine(o) \/ k8Log'[j].leader # o
                      /\ k8At[o] = "repatch" => \A i \in 1..k8Op[o].rv : k8Log'[i] # Mine(o)
    BY <1>1, <1>2 DEF CallOf
  <2>1. /\ k8Op[o].stamp[1] = o /\ k8Op[o].stamp[2] <= Versions + 1
        /\ k8At[o] # "repatch" => k8Op[o].rv <= k8Op[o].stamp[2]
    <3>1. /\ k8Op[o].stamp[1] = o /\ k8Op[o].stamp[2] <= Versions
          /\ k8At[o] # "repatch" => k8Op[o].rv <= k8Op[o].stamp[2]
      BY <1>3, Zenon DEF CallOf
    <3>2. \A x \in Nat : x <= Versions => x <= Versions + 1
      BY <1>3
    <3> QED BY <1>3, <3>1, <3>2, Zenon
  <2>2. k8At[o] = "repatch" => \A i \in 1..k8Op[o].rv : k8Log'[i] # Mine(o)
    <3>1. \A i \in 1..k8Op[o].rv : i \in 1..Versions
      BY <1>3
    <3> QED BY <1>1, <1>3, <3>1 DEF CallOf
  <2>3. \A i, j \in 1..Versions : i <= j /\ k8Log[i] = Mine(o) => k8Log[j] = Mine(o) \/ k8Log[j].leader # o
    BY <1>3 DEF CallOf
  <2>4. ASSUME NEW i \in 1..(Versions + 1), NEW j \in 1..(Versions + 1), i <= j, k8Log'[i] = Mine(o)
        PROVE  k8Log'[j] = Mine(o) \/ k8Log'[j].leader # o
    <3>1. CASE j \in 1..Versions
      BY <1>1, <1>3, <2>3, <2>4, <3>1
    <3>2. CASE i = j
      BY <2>4, <3>2
    <3>3. CASE i \in 1..Versions /\ j = Versions + 1
      <4>1. CASE record.leader \in {n, K8Nobody}
        BY <1>1, <3>3, <4>1, KubernetesAssumption
      <4>2. CASE record = Record(Versions)
        <5>1. record = k8Log[Versions] /\ Versions \in 1..Versions /\ i <= Versions
          BY <1>3, <3>3, <4>2 DEF Record
        <5> QED BY <1>1, <2>3, <2>4, <3>3, <5>1
      <4> QED BY <4>1, <4>2 DEF Writable
    <3> QED BY <1>3, <2>4, <3>1, <3>2, <3>3
  <2> QED BY <2>1, <2>2, <2>4
<1>7. ReplacedBy(o)'
  <2>1. k8Op[o].rv # 0 => k8Log'[k8Op[o].rv] = k8Log[k8Op[o].rv]
    BY <1>1, <1>3
  <2> QED BY <1>2, <1>3, <2>1 DEF ReplacedBy
<1> QED BY <1>4, <1>5, <1>6, <1>7 DEF K8NodeOK

\* A patch that is accepted writes a record of this call, which is the current one or a new one ...
LEMMA K8PatchWritable ==
  ASSUME K8Inv, NEW n \in K8Nodes, k8At[n] \in {"patch", "repatch"}, Matches(n)
  PROVE  Writable(n, Mine(n))
<1>1. /\ Versions \in Nat /\ Current = Versions /\ CallOf(n) /\ k8Op[n].stamp \in K8Stamps /\ k8Op[n].stamp[2] \in Nat
      /\ k8Op[n].rv = Versions
  BY K8Facts DEF K8NodeOK, K8Stamps, Matches
<1>2. Mine(n) \in K8Records /\ Mine(n).leader = n /\ Mine(n).stamp = k8Op[n].stamp
  BY <1>1 DEF Mine, K8Records, K8Holders
<1>3. k8At[n] \in Calling
  BY DEF Calling
<1>4. k8Op[n].stamp[2] <= Versions
  BY <1>1, <1>3, Zenon DEF CallOf
<1>5. CASE k8At[n] = "patch"
  <2>1. Versions <= k8Op[n].stamp[2]
    BY <1>1, <1>3, <1>5 DEF CallOf
  <2>2. \A i \in 1..Versions : k8Log[i] # Mine(n)
    <3> SUFFICES ASSUME NEW i \in 1..Versions, k8Log[i] = Mine(n) PROVE FALSE
      OBVIOUS
    <3>1. k8Op[n].stamp[2] < i /\ i <= Versions /\ i \in Nat
      BY <1>1, <1>2, K8Facts
    <3>2. \A x \in Nat : Versions <= x /\ x < i => FALSE
      BY <1>1, <3>1
    <3> QED BY <1>1, <2>1, <3>1, <3>2, Zenon
  <2> QED BY <1>2, <1>4, <2>2 DEF Writable
<1>6. CASE k8At[n] = "repatch"
  <2>1. \A i \in 1..Versions : k8Log[i] # Mine(n)
    BY <1>1, <1>3, <1>6 DEF CallOf
  <2> QED BY <1>2, <1>4, <2>1 DEF Writable
<1> QED BY <1>5, <1>6

\* ... and replaces no other holder but one that was found expired.
LEMMA K8PatchLate ==
  ASSUME K8Inv, NEW n \in K8Nodes, k8At[n] \in {"patch", "repatch"}, Matches(n),
         Record(Versions).leader \notin {n, K8Nobody}
  PROVE  k8Age > K8Ttl
<1>1. Versions \in Nat /\ k8Op[n].rv = Versions /\ K8NodeOK(n) /\ k8Age \in Nat /\ k8Seen[n].age \in Nat /\ K8Ttl \in Nat
  BY KubernetesAssumption, K8Facts DEF Matches
<1>2. Versions # 0 /\ Record(Versions) = k8Log[Versions]
  BY DEF Record, NoRecord
<1>3. k8Op[n].kind = "acquire"
  BY <1>1, <1>2 DEF K8NodeOK, ReplacedBy, Calling
<1>4. k8Log[Versions] = k8Seen[n].record /\ k8Seen[n].age > K8Ttl
  BY <1>1, <1>2, <1>3 DEF K8NodeOK, ReplacedBy
<1>5. k8Seen[n].age <= k8Age
  <2>1. SeenBy(n) /\ Versions > 0 /\ k8Log[Versions].leader # K8Nobody
    BY <1>1, <1>2 DEF K8NodeOK
  <2> QED BY <1>4, <2>1, Zenon DEF SeenBy
<1>6. \A x, y, z \in Nat : x > z /\ x <= y => y > z
  OBVIOUS
<1> QED BY <1>1, <1>4, <1>5, <1>6, Zenon

LEMMA K8PatchStep ==
  ASSUME K8Inv, NEW n \in K8Nodes, PatchAnswered(n)
  PROVE  K8Inv'
<1>1. /\ k8At[n] \in {"patch", "repatch"} /\ Matches(n) /\ K8Write(Mine(n)) /\ K8CacheSet(n, Current + 1) /\ Answer(n, TRUE)
      /\ k8Stream' = k8Stream /\ k8Seen' = k8Seen
  BY DEF PatchAnswered
<1>2. Writable(n, Mine(n))
  BY <1>1, K8PatchWritable
<1>3. LogType' /\ Stamped' /\ Versions' = Versions + 1
  BY <1>1, <1>2, K8WriteFacts
<1>4. CacheType /\ StreamType /\ SeenType /\ AtType /\ OpType /\ Versions \in Nat /\ Current = Versions
      /\ k8Cache[n] \in 0..Versions /\ k8Stream[n].rv \in 0..Versions
  BY K8Facts DEF K8Inv, K8Type
<1>5. CacheType' /\ k8Cache'[n] = Versions + 1 /\ \A o \in K8Nodes \ {n} : k8Cache'[o] = k8Cache[o]
  <2>1. Versions + 1 \in Nat /\ K8CacheSet(n, Versions + 1)
    BY <1>1, <1>4
  <2>2. CacheType' /\ k8Cache'[n] \in {k8Cache[n], Versions + 1} /\ k8Cache'[n] >= Versions + 1
        /\ \A o \in K8Nodes \ {n} : k8Cache'[o] = k8Cache[o]
    BY <1>4, <2>1, K8CacheSetFacts
  <2>3. k8Cache[n] # k8Cache'[n]
    BY <1>4, <2>2
  <2> QED BY <2>2, <2>3
<1>6. AtType' /\ OpType' /\ k8At'[n] = "idle" /\ k8Op'[n].rv = 0 /\ \A o \in K8Nodes \ {n} : k8At'[o] = k8At[o] /\ k8Op'[o] = k8Op[o]
  <2>1. NoOp.rv = 0
    BY DEF NoOp
  <2> QED BY <1>1, <1>4, <2>1, AnswerFacts
<1>7. K8Type'
  BY <1>1, <1>3, <1>4, <1>5, <1>6 DEF K8Type, StreamType, SeenType
<1>8. OthersKept(n)
  BY <1>1, <1>5, <1>6 DEF OthersKept
<1>9. SeenBy(n)'
  BY <1>1, <1>2, K8SeenWritten
<1>10. KnownBy(n)'
  <2>1. k8Stream'[n] = k8Stream[n] /\ k8Stream[n].rv <= Versions + 1
    BY <1>1, <1>4
  <2> QED BY <1>3, <1>4, <1>5, <1>6, <2>1 DEF KnownBy
<1>11. CallOf(n)' /\ ReplacedBy(n)'
  BY <1>6 DEF CallOf, ReplacedBy, Calling
<1>12. \A o \in K8Nodes \ {n} : K8NodeOK(o)'
  BY <1>1, <1>2, <1>8, K8OthersWritten
<1> QED BY <1>3, <1>7, <1>9, <1>10, <1>11, <1>12 DEF K8NodeOK, K8Inv

\* The reply is lost: the call goes on.
LEMMA K8LostStep ==
  ASSUME K8Inv, NEW n \in K8Nodes, PatchReplyLost(n)
  PROVE  K8Inv'
<1>1. /\ k8At[n] \in {"patch", "repatch"} /\ Matches(n) /\ K8Write(Mine(n)) /\ k8Cache' = k8Cache
      /\ k8Stream' = k8Stream /\ k8Seen' = k8Seen /\ k8At' = k8At /\ k8Op' = k8Op
  BY DEF PatchReplyLost, k8Node
<1>2. Writable(n, Mine(n))
  BY <1>1, K8PatchWritable
<1>3. LogType' /\ Stamped' /\ Versions' = Versions + 1 /\ k8Log'[Versions + 1] = Mine(n) /\ \A i \in 1..Versions : k8Log'[i] = k8Log[i]
  BY <1>1, <1>2, K8WriteFacts
<1>4. K8Type /\ Versions \in Nat /\ KnownBy(n) /\ CallOf(n) /\ ReplacedBy(n) /\ k8Cache[n] \in 0..Versions
      /\ k8Stream[n].rv \in 0..Versions /\ k8Op[n].rv \in 0..Versions /\ k8Op[n].stamp[2] \in Nat
  BY K8Facts DEF K8Inv, K8NodeOK, K8Stamps
<1>5. K8Type'
  BY <1>1, <1>3, <1>4 DEF K8Type, CacheType, StreamType, SeenType, AtType, OpType
<1>6. OthersKept(n)
  BY <1>1 DEF OthersKept
<1>7. SeenBy(n)'
  BY <1>1, <1>2, K8SeenWritten
<1>8. KnownBy(n)'
  <2>1. k8Cache'[n] = k8Cache[n] /\ k8Stream'[n] = k8Stream[n] /\ k8Op'[n] = k8Op[n]
    BY <1>1
  <2>2. k8Cache[n] <= Versions + 1 /\ k8Stream[n].rv <= Versions + 1 /\ k8Op[n].rv <= Versions + 1
    BY <1>4
  <2> QED BY <1>3, <1>4, <2>1, <2>2 DEF KnownBy
<1>9. CallOf(n)'
  <2>1. k8At[n] \in Calling /\ Mine(n)' = Mine(n) /\ k8At'[n] = k8At[n] /\ k8Op'[n] = k8Op[n]
    BY <1>1 DEF Mine, Calling
  <2>2. /\ k8Op[n].stamp[1] = n /\ k8Op[n].stamp[2] <= Versions
        /\ k8At[n] # "repatch" => k8Op[n].rv <= k8Op[n].stamp[2]
    BY <1>4, <2>1, Zenon DEF CallOf
  <2>3. k8Op[n].stamp[2] <= Versions + 1
    <3>1. \A x \in Nat : x <= Versions => x <= Versions + 1
      BY <1>4
    <3> QED BY <1>4, <2>2, <3>1, Zenon
  <2>4. \A i, j \in 1..Versions : i <= j /\ k8Log[i] = Mine(n) => k8Log[j] = Mine(n) \/ k8Log[j].leader # n
    BY <1>4, <2>1 DEF CallOf
  <2>5. \A i, j \in 1..(Versions + 1) : i <= j /\ k8Log'[i] = Mine(n) => k8Log'[j] = Mine(n) \/ k8Log'[j].leader # n
    <3> SUFFICES ASSUME NEW i \in 1..(Versions + 1), NEW j \in 1..(Versions + 1), i <= j, k8Log'[i] = Mine(n), j # Versions + 1
                 PROVE  k8Log'[j] = Mine(n) \/ k8Log'[j].leader # n
      BY <1>3
    <3>1. i \in 1..Versions /\ j \in 1..Versions
      BY <1>4
    <3> QED BY <1>3, <2>4, <3>1
  <2>6. k8At[n] = "repatch" => \A i \in 1..k8Op[n].rv : k8Log'[i] # Mine(n)
    <3>1. \A i \in 1..k8Op[n].rv : i \in 1..Versions
      BY <1>4
    <3> QED BY <1>3, <1>4, <2>1, <3>1 DEF CallOf
  <2> QED BY <1>3, <2>1, <2>2, <2>3, <2>5, <2>6 DEF CallOf
<1>10. ReplacedBy(n)'
  <2>1. k8Op[n].rv # 0 => k8Log'[k8Op[n].rv] = k8Log[k8Op[n].rv]
    BY <1>3, <1>4
  <2> QED BY <1>1, <1>4, <2>1 DEF ReplacedBy
<1>11. \A o \in K8Nodes \ {n} : K8NodeOK(o)'
  BY <1>1, <1>2, <1>6, K8OthersWritten
<1> QED BY <1>3, <1>5, <1>7, <1>8, <1>9, <1>10, <1>11 DEF K8NodeOK, K8Inv

\* delete_leader and write_leader_optime.
LEMMA K8IdleWrite ==
  ASSUME K8Inv, NEW n \in K8Nodes, k8At[n] = "idle", NEW record, Writable(n, record), K8Write(record),
         K8CacheSet(n, Current + 1), UNCHANGED <<k8Stream, k8Seen, k8At, k8Op>>
  PROVE  K8Inv'
<1>1. LogType' /\ Stamped' /\ Versions' = Versions + 1
  BY K8WriteFacts
<1>2. /\ CacheType /\ StreamType /\ SeenType /\ AtType /\ OpType /\ Versions \in Nat /\ Current = Versions
      /\ k8Cache[n] \in 0..Versions /\ k8Stream[n].rv \in 0..Versions /\ k8Op[n].rv \in 0..Versions
  BY K8Facts DEF K8Inv, K8Type
<1>3. Versions + 1 \in Nat /\ K8CacheSet(n, Versions + 1)
  BY <1>2
<1>4. /\ CacheType' /\ k8Cache'[n] \in {k8Cache[n], Versions + 1} /\ k8Cache'[n] >= Versions + 1
      /\ \A o \in K8Nodes \ {n} : k8Cache'[o] = k8Cache[o]
  BY <1>2, <1>3, K8CacheSetFacts
<1>5. K8Type'
  BY <1>1, <1>2, <1>4 DEF K8Type, StreamType, SeenType, AtType, OpType
<1>6. OthersKept(n)
  BY <1>4 DEF OthersKept
<1>7. SeenBy(n)'
  BY K8SeenWritten
<1>8. KnownBy(n)'
  <2>1. k8Cache'[n] = Versions + 1
    BY <1>2, <1>4
  <2>2. k8Stream[n].rv <= Versions + 1 /\ k8Op[n].rv <= Versions + 1
    BY <1>2
  <2> QED BY <1>1, <1>2, <2>1, <2>2 DEF KnownBy
<1>9. CallOf(n)' /\ ReplacedBy(n)'
  BY DEF CallOf, ReplacedBy, Calling
<1>10. \A o \in K8Nodes \ {n} : K8NodeOK(o)'
  BY <1>6, K8OthersWritten
<1> QED BY <1>1, <1>5, <1>7, <1>8, <1>9, <1>10 DEF K8NodeOK, K8Inv

LEMMA K8ReleaseStep ==
  ASSUME K8Inv, NEW n \in K8Nodes, K8Release(n) \/ WriteOptime(n)
  PROVE  /\ K8Inv'
         /\ k8Log' = k8Log \/ \E record : K8Write(record) /\ Writable(n, record) /\ record.leader \in {K8Nobody, Record(Versions).leader}
<1>1. k8At[n] = "idle" /\ k8Seen' = k8Seen /\ k8At' = k8At /\ k8Op' = k8Op
  BY DEF K8Release, WriteOptime, k8Node
<1>2. Versions \in Nat /\ Current = Versions /\ Record(Versions) \in K8Records
  BY K8Facts
<1>3. ASSUME Versions # 0 PROVE Record(Versions).stamp[2] <= Versions
  <2>1. Versions \in 1..Versions /\ Record(Versions) = k8Log[Versions]
    BY <1>2, <1>3 DEF Record
  <2>2. k8Log[Versions].stamp[2] < Versions /\ k8Log[Versions].stamp[2] \in Nat
    BY <2>1, K8Facts
  <2> QED BY <1>2, <2>1, <2>2
<1>4. CASE WriteOptime(n)
  <2>1. K8Write(Record(Versions)) /\ K8CacheSet(n, Current + 1) /\ k8Stream' = k8Stream /\ Versions # 0
    BY <1>2, <1>4 DEF WriteOptime
  <2>2. Writable(n, Record(Versions))
    BY <1>2, <1>3, <2>1 DEF Writable
  <2> QED BY <1>1, <2>1, <2>2, K8IdleWrite
<1>5. CASE /\ Record(k8Cache[n]).leader = n /\ k8Cache[n] = Current
           /\ K8Write([Record(Current) EXCEPT !.leader = K8Nobody]) /\ K8CacheSet(n, Current + 1) /\ k8Stream' = k8Stream
  <2> DEFINE record == [Record(Versions) EXCEPT !.leader = K8Nobody]
  <2>1. Versions # 0
    BY <1>2, <1>5, KubernetesAssumption DEF Record, NoRecord
  <2>2. record \in K8Records /\ record.leader = K8Nobody /\ record.stamp = Record(Versions).stamp
    BY <1>2 DEF K8Records, K8Holders
  <2>3. K8Write(record)
    BY <1>2, <1>5
  <2> HIDE DEF record
  <2>4. Writable(n, record)
    BY <1>3, <2>1, <2>2 DEF Writable
  <2> QED BY <1>1, <1>5, <2>2, <2>3, <2>4, K8IdleWrite
<1>6. CASE k8Log' = k8Log /\ k8Age' = k8Age /\ k8Cache' = k8Cache /\ (k8Stream' = k8Stream \/ Killed(n))
  <2>1. CacheType /\ StreamType /\ SeenType /\ AtType /\ OpType /\ K8Type
    BY DEF K8Inv, K8Type
  <2>2. k8Cache[n] \in 0..Versions /\ k8Stream[n].rv \in 0..Versions /\ (k8Stream[n].at = "watch" => k8Stream[n].rv <= k8Cache[n])
    BY K8Facts DEF K8NodeOK, KnownBy
  <2>3. /\ StreamType' /\ k8Stream'[n].rv <= Versions /\ (k8Stream'[n].at = "watch" => k8Stream'[n] = k8Stream[n])
        /\ \A o \in K8Nodes \ {n} : k8Stream'[o] = k8Stream[o]
    <3>1. CASE k8Stream' = k8Stream
      BY <1>2, <2>1, <2>2, <3>1 DEF StreamType
    <3>2. CASE Killed(n)
      BY <1>2, <2>1, <2>2, <3>2, KilledFacts
    <3> QED BY <1>6, <3>1, <3>2
  <2>4. K8Type'
    BY <1>1, <1>6, <2>1, <2>3 DEF K8Type, LogType, CacheType, SeenType, AtType, OpType
  <2>5. OthersKept(n)
    BY <1>1, <1>6, <2>3 DEF OthersKept
  <2>6. SeenBy(n)'
    BY <1>1, <1>6, K8QuietNode
  <2>7. /\ k8At'[n] = "idle" /\ k8Op'[n].rv = k8Op[n].rv /\ k8Cache'[n] <= Versions
        /\ k8Stream'[n].at = "watch" => k8Stream'[n].rv <= k8Cache'[n]
    BY <1>1, <1>2, <1>6, <2>2, <2>3
  <2> QED BY <1>6, <2>3, <2>4, <2>5, <2>6, <2>7, K8Idle
<1> QED BY <1>4, <1>5, <1>6 DEF K8Release, k8Store

\* The clock: ages grow together up to the ttl.
LEMMA K8TickStep == K8Inv /\ K8Tick => K8Inv'
<1> SUFFICES ASSUME K8Inv, K8Tick PROVE K8Inv'
  OBVIOUS
<1>1. /\ k8Log' = k8Log /\ k8Cache' = k8Cache /\ k8Stream' = k8Stream /\ k8At' = k8At /\ k8Op' = k8Op
      /\ k8Age' = Older(k8Age) /\ k8Seen' = [n \in K8Nodes |-> [k8Seen[n] EXCEPT !.age = Older(@)]]
  BY DEF K8Tick
<1>2. \A x \in Nat : Older(x) \in Nat /\ Older(x) >= x
  BY KubernetesAssumption DEF Older
<1>3. \A x, y \in Nat : x <= y => Older(x) <= Older(y)
  BY KubernetesAssumption DEF Older
<1>4. SeenType /\ LogType /\ K8Type
  BY DEF K8Inv, K8Type
<1>5. SeenType' /\ \A n \in K8Nodes : k8Seen'[n].record = k8Seen[n].record /\ k8Seen'[n].age = Older(k8Seen[n].age)
  BY <1>1, <1>2, <1>4 DEF SeenType
<1>6. K8Type'
  BY <1>1, <1>2, <1>4, <1>5 DEF K8Type, LogType, CacheType, StreamType, AtType, OpType
<1>7. Versions' = Versions /\ Stamped'
  BY <1>1 DEF K8Inv, Stamped, Versions
<1>8. ASSUME NEW n \in K8Nodes PROVE K8NodeOK(n)'
  <2>1. K8NodeOK(n) /\ k8Seen[n].age \in Nat /\ k8Age \in Nat
    BY K8Facts
  <2>2. KnownBy(n)'
    BY <1>1, <1>7, <2>1 DEF K8NodeOK, KnownBy
  <2>3. CallOf(n)'
    <3>1. Mine(n)' = Mine(n)
      BY <1>1 DEF Mine
    <3> QED BY <1>1, <1>7, <2>1, <3>1 DEF K8NodeOK, CallOf
  <2>4. SeenBy(n)'
    <3>1. k8Seen[n].age <= k8Age => k8Seen'[n].age <= k8Age'
      BY <1>1, <1>3, <1>5, <2>1
    <3> QED BY <1>1, <1>5, <1>7, <2>1, <3>1 DEF K8NodeOK, SeenBy
  <2>5. ReplacedBy(n)'
    <3>1. k8Seen[n].age > K8Ttl => k8Seen'[n].age > K8Ttl
      BY <1>2, <1>5, <2>1, KubernetesAssumption DEF Older
    <3> QED BY <1>1, <1>5, <2>1, <3>1 DEF K8NodeOK, ReplacedBy
  <2> QED BY <2>2, <2>3, <2>4, <2>5 DEF K8NodeOK
<1> QED BY <1>6, <1>7, <1>8 DEF K8Inv

LEMMA K8Step == K8Inv /\ [K8Next]_k8Vars => K8Inv'
<1> SUFFICES ASSUME K8Inv, [K8Next]_k8Vars PROVE K8Inv'
  OBVIOUS
<1>1. ASSUME NEW n \in K8Nodes, K8Update(n) \/ K8Acquire(n) PROVE K8Inv'
  <2>1. CASE Answer(n, FALSE) /\ K8Update(n)
    <3>1. k8Log' = k8Log /\ k8Age' = k8Age /\ k8Seen' = k8Seen /\ k8Cache' = k8Cache /\ k8Stream' = k8Stream
      BY <2>1 DEF K8Update, k8Store
    <3> QED BY <2>1, <3>1, K8AnswerStep
  <2>2. CASE k8At' = [k8At EXCEPT ![n] = "patch"]
    <3>1. k8At'[n] # "idle"
      BY <2>2 DEF K8Inv, K8Type, AtType
    <3> QED BY <1>1, <3>1, K8CallStep
  <2> QED BY <1>1, <2>1, <2>2 DEF K8Update, K8Acquire, K8Goes
<1>2. ASSUME NEW n \in K8Nodes, PatchAgainConflict(n) \/ AcquireReads(n) \/ K8GivesUp(n) \/ K8Exhausted(n) PROVE K8Inv'
  <2>1. /\ k8Log' = k8Log /\ k8Age' = k8Age /\ k8Seen' = k8Seen /\ k8Cache' = k8Cache /\ k8Stream' = k8Stream
        /\ \E yes : Answer(n, yes)
    BY <1>2 DEF PatchAgainConflict, AcquireReads, K8GivesUp, K8Exhausted, k8Store
  <2> QED BY <2>1, K8AnswerStep
<1>3. CASE UNCHANGED k8Vars
  <2>1. /\ k8Log' = k8Log /\ k8Age' = k8Age /\ k8Seen' = k8Seen /\ k8Cache' = k8Cache /\ k8Stream' = k8Stream
        /\ k8At' = k8At /\ k8Op' = k8Op
    BY <1>3 DEF k8Vars
  <2>2. K8Type' /\ Stamped' /\ Versions' = Versions
    BY <2>1 DEF K8Inv, K8Type, LogType, CacheType, StreamType, SeenType, AtType, OpType, Stamped, Versions
  <2>3. ASSUME NEW n \in K8Nodes PROVE K8NodeOK(n)'
    <3>1. SeenBy(n)' /\ CallOf(n)' /\ ReplacedBy(n)'
      BY <2>1, K8QuietNode
    <3>2. KnownBy(n)'
      BY <2>1, <2>2, K8Facts DEF K8NodeOK, KnownBy
    <3> QED BY <3>1, <3>2 DEF K8NodeOK
  <2> QED BY <2>2, <2>3 DEF K8Inv
<1> QED BY <1>1, <1>2, <1>3, K8TickStep, K8CacheStep, K8FollowStep, K8LoadStep, K8ConflictStep, K8ReadStep, K8PatchStep,
           K8LostStep, K8ReleaseStep DEF K8Next, K8Cycle, K8Faults, CacheGoes

LEMMA K8InvCorrect == K8Spec => []K8Inv
  BY K8Initial, K8Step, PTL DEF K8Spec

(***************************************************************************)
(* A holder is replaced by another node only if it has not renewed its     *)
(* record for more than ttl, for any number of pods, of versions and of    *)
(* lost replies, and however late the caches are.                          *)
(***************************************************************************)
THEOREM NotStolenEarlyCorrect == K8Spec => NotStolenEarly
<1> DEFINE Stolen == LET old == Record(Current).leader new == Record(Current)'.leader
                     IN  old # K8Nobody /\ new # K8Nobody /\ old # new => k8Age > K8Ttl
<1>1. K8Inv /\ [K8Next]_k8Vars => [Stolen]_k8Vars
  <2> SUFFICES ASSUME K8Inv, K8Next PROVE Stolen
    OBVIOUS
  <2>1. ASSUME k8Log' = k8Log PROVE Stolen
    BY <2>1 DEF Record, Current
  <2>2. ASSUME NEW n \in K8Nodes, NEW record, Writable(n, record), K8Write(record)
        PROVE  Record(Current)' = record /\ Current = Versions
    <3>1. Versions' = Versions + 1 /\ k8Log'[Versions + 1] = record /\ Versions \in Nat /\ Current = Versions /\ Current' = Versions'
      BY <2>2, K8WriteFacts, K8Facts DEF Current, Versions
    <3>2. Current' = Versions + 1 /\ Current' # 0
      BY <3>1
    <3> QED BY <3>1, <3>2 DEF Record
  <2>3. ASSUME NEW n \in K8Nodes, PatchAnswered(n) \/ PatchReplyLost(n) PROVE Stolen
    <3>1. k8At[n] \in {"patch", "repatch"} /\ Matches(n) /\ K8Write(Mine(n))
      BY <2>3 DEF PatchAnswered, PatchReplyLost
    <3>2. Record(Current)' = Mine(n) /\ Current = Versions /\ Mine(n).leader = n
      BY <2>2, <3>1, K8PatchWritable DEF Mine
    <3> QED BY <3>1, <3>2, K8PatchLate
  <2>4. ASSUME NEW n \in K8Nodes, K8Release(n) \/ WriteOptime(n) PROVE Stolen
    BY <2>1, <2>2, <2>4, K8ReleaseStep
  <2>5. ASSUME NEW n \in K8Nodes, CacheGoes(n) \/ K8Cycle(n) \/ K8Faults(n),
               ~(PatchAnswered(n) \/ PatchReplyLost(n) \/ K8Release(n) \/ WriteOptime(n))
        PROVE  k8Log' = k8Log
    BY <2>5 DEF CacheGoes, K8Cycle, K8Faults, CacheList, CacheInstall, CacheEvent, StreamBreaks, Loads, K8Load, K8Follow, K8LoadFails,
         K8Update, K8Acquire, PatchConflict, PatchAgainConflict, UpdateReads, AcquireReads, K8GivesUp, K8Exhausted, k8Store
  <2>6. K8Tick => k8Log' = k8Log
    BY DEF K8Tick
  <2> HIDE DEF Stolen
  <2> QED BY <2>1, <2>3, <2>4, <2>5, <2>6 DEF K8Next
<1> QED BY <1>1, K8InvCorrect, PTL DEF K8Spec, NotStolenEarly

(***************************************************************************)
(* Once the stream of a node has delivered everything its cache holds the  *)
(* current version, in whatever order the list, the events and the replies *)
(* to the HA loop arrived.                                                 *)
(***************************************************************************)
THEOREM K8CacheConvergesCorrect == K8Spec => []K8CacheConverges
<1>1. K8Inv => K8CacheConverges
  <2> SUFFICES ASSUME K8Inv, NEW n \in K8Nodes, k8Stream[n].at = "watch", k8Stream[n].rv = Current PROVE k8Cache[n] = Current
    BY DEF K8CacheConverges
  <2>1. k8Stream[n].rv <= k8Cache[n] /\ k8Cache[n] \in 0..Versions /\ Current = Versions /\ Versions \in Nat
    BY K8Facts DEF K8NodeOK, KnownBy
  <2> QED BY <2>1
<1> QED BY <1>1, K8InvCorrect, PTL
====
