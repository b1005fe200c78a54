----------------------------- MODULE ZooKeeper -----------------------------
(***************************************************************************)
(* The leader and the member znode in ZooKeeper (patroni/dcs/zookeeper.py):*)
(* both are ephemeral, they go with the session of their member.  kazoo    *)
(* makes a new session in the background when the old one has expired.     *)
(* One member is modelled in full, the others by what they do to the       *)
(* leader znode.  A step is one request with the work up to the next one.  *)
(***************************************************************************)
EXTENDS Naturals

CONSTANTS ZkMe, ZkOther, ZkNobody,
          MaxZkSessions, \* bound: sessions of this member
          MaxZkOther     \* bound: changes of the znode by other members

ASSUME ZooKeeperAssumption == /\ ZkMe # ZkOther /\ ZkNobody \notin {ZkMe, ZkOther}
                              /\ {MaxZkSessions, MaxZkOther} \subseteq Nat

VARIABLES zkLeader,   \* the leader znode: owner and session
          zkMember,   \* session of the member znode, 0: there is none
          zkSessions, \* number of sessions of this member
          zkAlive,    \* the sessions among them that live
          zkClientId, \* client_id of kazoo
          zkOp,       \* where the HA loop is
          zkView,     \* cluster object of the cycle: leader, and session of the member
          zkLast,     \* __last_member_data is set
          zkAns,      \* what the last call returned
          zkHeld,     \* auxiliary: the znode was owned at some moment of the call
          zkStolen,   \* auxiliary: another member deleted our znode since the cluster was loaded
          zkOthers    \* counts what the other members do

zkVars == <<zkLeader, zkMember, zkSessions, zkAlive, zkClientId, zkOp, zkView, zkLast, zkAns, zkHeld, zkStolen,
            zkOthers>>
zkServer == <<zkLeader, zkMember, zkSessions, zkAlive, zkStolen, zkOthers>>

NoLeader == [owner |-> ZkNobody, session |-> 0]

ZkInit ==
    /\ zkLeader = NoLeader
    /\ zkMember = 0
    /\ zkSessions = 1 /\ zkAlive = {1} /\ zkClientId = 1
    /\ zkOp = "idle"
    /\ zkView = [leader |-> NoLeader, member |-> 0]
    /\ zkLast = FALSE
    /\ zkAns = "no"
    /\ zkHeld = FALSE
    /\ zkStolen = FALSE
    /\ zkOthers = 0

Connected == zkClientId \in zkAlive

\* The call returns, or raises ZooKeeperError; touch_member comes next.
ZkReturn(ok) ==
    /\ zkOp' = "touch"
    /\ zkAns' = IF ok THEN "yes" ELSE "no"
    /\ zkHeld' = FALSE

ZkGoes(where) == zkOp' = where /\ UNCHANGED <<zkAns, zkHeld>>

-----------------------------------------------------------------------------
\* The cluster loader; it needs a connection.
ZkLoad ==
    /\ zkOp = "idle" /\ Connected
    /\ zkOp' = "loaded"
    /\ zkView' = [leader |-> zkLeader, member |-> zkMember]
    /\ zkStolen' = FALSE
    /\ UNCHANGED <<zkLeader, zkMember, zkSessions, zkAlive, zkOthers, zkClientId, zkLast, zkAns, zkHeld>>

ZkBegin ==
    /\ zkOp = "loaded"
    /\ zkOp' \in CASE zkView.leader.owner = ZkMe -> {"update", "release"}
                   [] zkView.leader.owner = ZkNobody -> {"acquire", "touch"}
                   [] OTHER -> {"touch"}
    /\ zkHeld' = (zkLeader.owner = ZkMe)
    /\ UNCHANGED <<zkServer, zkClientId, zkView, zkLast, zkAns>>

\* Altered form: the session of the znode is not compared with that of this member.
ZkUpdateTrusting ==
    /\ zkOp = "update"
    /\ ZkReturn(TRUE)
    /\ UNCHANGED <<zkServer, zkClientId, zkView, zkLast>>

\* _update_leader: no request is made for a znode of the session; another one is recreated.
ZkUpdate ==
    /\ zkOp = "update"
    /\ IF zkView.leader.session = zkClientId THEN ZkReturn(TRUE) ELSE ZkGoes("remove")
    /\ UNCHANGED <<zkServer, zkClientId, zkView, zkLast>>

\* _update_leader: the znode is deleted, whoever owns it by now; NoNodeError is ignored.
ZkRemove ==
    /\ zkOp = "remove" /\ Connected
    /\ zkLeader' = NoLeader
    /\ ZkGoes("create")
    /\ UNCHANGED <<zkMember, zkSessions, zkAlive, zkStolen, zkOthers, zkClientId, zkView, zkLast>>

\* The leader znode is created; the reply may be lost, and the request repeated.
ZkCreate ==
    /\ zkOp \in {"create", "acquire"} /\ Connected
    /\ IF zkLeader = NoLeader
       THEN /\ zkLeader' = [owner |-> ZkMe, session |-> zkClientId]
            /\ zkHeld' = TRUE
            /\ zkOp' \in {"created", "acquire"} /\ UNCHANGED zkAns
       ELSE ZkReturn(FALSE) /\ UNCHANGED zkLeader
    /\ UNCHANGED <<zkMember, zkSessions, zkAlive, zkStolen, zkOthers, zkClientId, zkView, zkLast>>

ZkCreated ==
    /\ zkOp = "created"
    /\ ZkReturn(TRUE)
    /\ UNCHANGED <<zkServer, zkClientId, zkView, zkLast>>

\* A request fails for good: ConnectionClosedError, RetryFailedError and the like.
ZkFails ==
    /\ zkOp \in {"remove", "create", "acquire"}
    /\ ZkReturn(FALSE)
    /\ UNCHANGED <<zkServer, zkClientId, zkView, zkLast>>

\* The session ends: its znodes go.
EndSession(s) ==
    /\ zkLeader' = IF zkLeader.session = s THEN NoLeader ELSE zkLeader
    /\ zkMember' = IF zkMember = s THEN 0 ELSE zkMember

\* restart(): the session is closed and another one opened.
ZkRestart ==
    /\ zkSessions < MaxZkSessions
    /\ EndSession(zkClientId)
    /\ zkSessions' = zkSessions + 1
    /\ zkClientId' = zkSessions + 1
    /\ zkAlive' = (zkAlive \ {zkClientId}) \union {zkSessions + 1}

\* _delete_leader.
ZkRelease ==
    /\ zkOp = "release"
    /\ \/ ZkRestart /\ ZkReturn(FALSE)
       \/ zkSessions = MaxZkSessions /\ ZkReturn(FALSE) /\ UNCHANGED <<zkLeader, zkMember, zkSessions, zkClientId, zkAlive>>
    /\ UNCHANGED <<zkView, zkLast, zkStolen, zkOthers>>

\* set_ttl.
ZkSetTtl ==
    /\ zkOp = "idle"
    /\ ZkRestart
    /\ UNCHANGED <<zkOp, zkView, zkLast, zkAns, zkHeld, zkStolen, zkOthers>>

\* touch_member: a znode of another session is deleted; one of this session with the same data is left alone.
ZkTouch ==
    /\ zkOp = "touch" /\ Connected
    /\ LET stale == zkView.member # 0 /\ zkView.member # zkClientId
       IN /\ zkMember' = IF stale THEN 0 ELSE zkMember
          /\ zkOp' = IF stale \/ zkView.member = 0 THEN "register" ELSE "idle"
    /\ UNCHANGED <<zkLeader, zkSessions, zkAlive, zkStolen, zkOthers, zkClientId, zkView, zkLast, zkAns, zkHeld>>

\* touch_member: create; if the znode exists after all (of an older session, say) its data is set.
ZkRegister ==
    /\ zkOp = "register" /\ Connected
    /\ zkOp' = "idle"
    /\ zkMember' = IF zkMember = 0 THEN zkClientId ELSE zkMember
    /\ zkLast' = TRUE
    /\ UNCHANGED <<zkLeader, zkSessions, zkAlive, zkStolen, zkOthers, zkClientId, zkView, zkAns, zkHeld>>

ZkTouchFails ==
    /\ zkOp \in {"touch", "register"}
    /\ zkOp' = "idle"
    /\ UNCHANGED <<zkServer, zkClientId, zkView, zkLast, zkAns, zkHeld>>

-----------------------------------------------------------------------------
\* The session expires on the server; the client does not know yet.
ZkExpires ==
    /\ zkSessions < MaxZkSessions
    /\ \E s \in zkAlive : EndSession(s) /\ zkAlive' = zkAlive \ {s}
    /\ UNCHANGED <<zkSessions, zkStolen, zkOthers, zkClientId, zkOp, zkView, zkLast, zkAns, zkHeld>>

\* kazoo is told that its session has expired and opens another one.
Reconnect ==
    /\ ~Connected
    /\ zkSessions' = zkSessions + 1
    /\ zkClientId' = zkSessions + 1
    /\ zkAlive' = zkAlive \union {zkSessions + 1}
    /\ UNCHANGED <<zkLeader, zkMember, zkStolen, zkOthers, zkOp, zkView, zkLast, zkAns, zkHeld>>

\* Another member takes a free znode or loses its own, or, with a cluster object that is out of
\* date and a new session, deletes ours as in ZkRemove.
ZkOtherMember ==
    /\ zkOthers < MaxZkOther
    /\ zkLeader' = IF zkLeader = NoLeader THEN [owner |-> ZkOther, session |-> 0] ELSE NoLeader
    /\ zkStolen' = (zkStolen \/ zkLeader.owner = ZkMe)
    /\ zkOthers' = zkOthers + 1
    /\ UNCHANGED <<zkMember, zkSessions, zkAlive, zkClientId, zkOp, zkView, zkLast, zkAns, zkHeld>>

ZkCycle == ZkLoad \/ ZkBegin \/ ZkUpdate \/ ZkRemove \/ ZkCreate \/ ZkCreated \/ ZkRelease \/ ZkTouch \/ ZkRegister

ZkNext == ZkCycle \/ ZkFails \/ ZkTouchFails \/ ZkSetTtl \/ ZkExpires \/ Reconnect \/ ZkOtherMember

ZkSpec == ZkInit /\ [][ZkNext]_zkVars

-----------------------------------------------------------------------------
(***************************************************************************)
(* update_leader and attempt_to_acquire_leader return True to a member     *)
(* that owned the znode during the call, or whose session has expired      *)
(* without kazoo having noticed, or whose znode was deleted by another     *)
(* member that recreated its own.                                          *)
(***************************************************************************)
ZkAnswersTrue ==
    [][zkOp \notin {"touch", "loaded"} /\ zkOp' = "touch" /\ zkAns' = "yes"
         => zkHeld \/ ~Connected \/ zkStolen]_zkVars

(***************************************************************************)
(* The docstring of _update_leader: "You have to use CAS".  A step of this *)
(* member would then never take the znode from another member.             *)
(***************************************************************************)
ZkOthersKeyLeftAlone ==
    [][zkLeader.owner = ZkOther /\ zkOp' # zkOp => zkLeader' = zkLeader]_zkVars

\* The member znode comes to belong to the session of its member once sessions no longer expire, if the HA loop goes on.
ZkMemberKeyLives == []<>(zkOp # "idle") => <>[](zkMember = zkClientId)
=============================================================================
