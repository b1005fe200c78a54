------------------------------- MODULE Consul -------------------------------
(***************************************************************************)
(* The leader and the member key in Consul (patroni/dcs/consul.py).  Both  *)
(* hang on the session of their member: when the session ends, Consul      *)
(* deletes them.  One member is modelled in full, the others by what they  *)
(* do to the leader key.  A step is one request to Consul with the work up *)
(* to the next one; the cluster object is as old as the HA cycle.          *)
(***************************************************************************)
EXTENDS Naturals

CONSTANTS CsMe, CsOther, CsNobody,
          MaxSessions, \* bound: sessions created
          MaxIndex     \* bound: changes of the leader key

ASSUME ConsulAssumption == /\ CsMe # CsOther /\ CsNobody \notin {CsMe, CsOther}
                           /\ {MaxSessions, MaxIndex} \subseteq Nat

VARIABLES csKey,      \* the leader key: owner, session, ModifyIndex of its last change
          csMember,   \* session of the member key of CsMe, 0: there is no key
          csSessions, \* sessions created, and the one among them that lives (0: none)
          csSession,  \* _session, 0: None
          csOp,       \* where the HA loop is
          csView,     \* cluster object of the cycle: leader and session of the member
          csAns,      \* what the last call returned
          csHeld,     \* auxiliary: the key was owned at some moment of the call
          csGiven     \* auxiliary: the key was deleted by its owner and not taken since

csVars == <<csKey, csMember, csSessions, csSession, csOp, csView, csAns, csHeld, csGiven>>

CsInit ==
    /\ csKey = [owner |-> CsNobody, session |-> 0, index |-> 0]
    /\ csMember = 0
    /\ csSessions = [created |-> 0, alive |-> {}]
    /\ csSession = 0
    /\ csOp = "idle"
    /\ csView = [leader |-> csKey, member |-> 0]
    /\ csAns = "no"
    /\ csHeld = FALSE
    /\ csGiven = FALSE

SessionAlive == csSession \in csSessions.alive

\* The call returns or raises DCSError; touch_member comes next.
CsReturn(ok) ==
    /\ csOp' = "touch"
    /\ csAns' = IF ok THEN "yes" ELSE "no"
    /\ csHeld' = FALSE

CsGoes(where) == csOp' = where /\ UNCHANGED <<csAns, csHeld>>

\* Every change of the leader key has an index of its own.
Write(owner, session) ==
    /\ csKey.index < MaxIndex
    /\ csKey' = [owner |-> owner, session |-> session, index |-> csKey.index + 1]

\* get_cluster.
CsLoad ==
    /\ csOp = "idle"
    /\ csOp' = "loaded"
    /\ csView' = [leader |-> csKey, member |-> csMember]
    /\ UNCHANGED <<csKey, csMember, csSessions, csSession, csAns, csHeld, csGiven>>

\* What the HA loop does with that leader, sooner or later: renew or release its lock, take a free one.
CsBegin ==
    /\ csOp = "loaded"
    /\ csOp' \in CASE csView.leader.owner = CsMe -> {"update", "delete"}
                   [] csView.leader.owner = CsNobody -> {"acquire", "touch"}
                   [] OTHER -> {"touch"}
    /\ csHeld' = (csKey.owner = CsMe)
    /\ UNCHANGED <<csKey, csMember, csSessions, csSession, csView, csAns, csGiven>>

\* _do_refresh_session: renewed, or replaced if Consul does not know it any more.
RefreshSession ==
    IF SessionAlive THEN UNCHANGED <<csSessions, csSession>>
    ELSE /\ csSessions.created < MaxSessions
         /\ csSession' = csSessions.created + 1
         /\ csSessions' = [created |-> csSession', alive |-> csSessions.alive \union {csSession'}]

\* The request fails: ConsulError, InvalidSession while writing, or ReturnFalseException.
CsFails ==
    /\ csOp \in {"update", "acquire", "remove", "put", "lock", "again", "delete"}
    /\ CsReturn(FALSE)
    /\ UNCHANGED <<csKey, csMember, csSessions, csSession, csView, csGiven>>

\* _update_leader: refresh; a key that hangs on another session is recreated.
CsUpdate ==
    /\ csOp = "update"
    /\ RefreshSession
    /\ IF csView.leader.session = csSession' THEN CsReturn(TRUE) ELSE CsGoes("remove")
    /\ UNCHANGED <<csKey, csMember, csView, csGiven>>

\* Altered form: the key is deleted whoever owns it by now.
CsDeleteAny(where) ==
    /\ csOp = where
    /\ IF csKey.owner # CsNobody
       THEN Write(CsNobody, 0) /\ csGiven' = (csKey.owner = CsMe \/ csGiven)
       ELSE UNCHANGED <<csKey, csGiven>>
    /\ CsGoes(IF where = "delete" THEN "over" ELSE "put")
    /\ UNCHANGED <<csMember, csSessions, csSession, csView>>

\* kv.delete with cas: only the version of the cluster object goes.  Nobody looks at the result.
CsDelete(where) ==
    /\ csOp = where
    /\ IF csKey.owner # CsNobody /\ csKey.index = csView.leader.index
       THEN Write(CsNobody, 0) /\ csGiven' = TRUE
       ELSE UNCHANGED <<csKey, csGiven>>
    /\ CsGoes(IF where = "delete" THEN "over" ELSE "put")
    /\ UNCHANGED <<csMember, csSessions, csSession, csView>>

\* kv.put with acquire: Consul takes the lock for a session that lives, if no other session has it.
Acquire ==
    IF csKey.owner = CsNobody \/ csKey.session = csSession
    THEN Write(CsMe, csSession) /\ csGiven' = FALSE /\ csHeld' = TRUE
    ELSE UNCHANGED <<csKey, csGiven, csHeld>>

\* _update_leader: the lock is taken again, or not: the answer is that there is a session.
CsPut ==
    /\ csOp = "put" /\ SessionAlive
    /\ Acquire
    /\ csOp' = "done" /\ UNCHANGED csAns
    /\ UNCHANGED <<csMember, csSessions, csSession, csView>>

CsDone ==
    /\ csOp = "done"
    /\ CsReturn(TRUE)
    /\ UNCHANGED <<csKey, csMember, csSessions, csSession, csView, csGiven>>

\* attempt_to_acquire_leader: the session is refreshed unless that was done a moment ago.
CsAcquire ==
    /\ csOp = "acquire"
    /\ RefreshSession \/ (csSession # 0 /\ UNCHANGED <<csSessions, csSession>>)
    /\ CsGoes("lock")
    /\ UNCHANGED <<csKey, csMember, csView, csGiven>>

\* _do_attempt_to_acquire_leader; InvalidSession makes it get a new session and try once more.
CsLock ==
    /\ csOp \in {"lock", "again"}
    /\ IF SessionAlive
       THEN /\ Acquire
            /\ csOp' = IF csKey' = csKey THEN "over" ELSE "done"
            /\ UNCHANGED <<csSessions, csSession>>
       ELSE csOp = "lock" /\ RefreshSession /\ csOp' = "again" /\ UNCHANGED <<csKey, csGiven, csHeld>>
    /\ UNCHANGED <<csMember, csView, csAns>>

\* touch_member: a key of another session is deleted first; an unchanged one is left alone.
CsTouch ==
    /\ csOp = "touch"
    /\ RefreshSession
    /\ LET stale == csView.member # 0 /\ (~SessionAlive \/ csView.member # csSession')
       IN /\ csMember' = IF stale THEN 0 ELSE csMember
          /\ csOp' = IF stale \/ csView.member = 0 THEN "register" ELSE "idle"
    /\ UNCHANGED <<csKey, csView, csAns, csHeld, csGiven>>

\* touch_member: kv.put with acquire; it is refused while the key hangs on a session that lives.
CsRegister ==
    /\ csOp = "register"
    /\ csOp' = "idle"
    /\ csMember' = IF SessionAlive /\ csMember = 0 THEN csSession ELSE csMember
    /\ csSession' = IF SessionAlive THEN csSession ELSE 0
    /\ UNCHANGED <<csKey, csSessions, csView, csAns, csHeld, csGiven>>

\* touch_member cannot refresh the session.
CsTouchFails ==
    /\ csOp = "touch"
    /\ csOp' = "idle"
    /\ UNCHANGED <<csKey, csMember, csSessions, csSession, csView, csAns, csHeld, csGiven>>

-----------------------------------------------------------------------------
\* A session expires; its keys go.
SessionExpires(s) ==
    /\ s \in csSessions.alive /\ csSessions.created < MaxSessions
    /\ csSessions' = [csSessions EXCEPT !.alive = @ \ {s}]
    /\ csMember' = IF csMember = s THEN 0 ELSE csMember
    /\ IF csKey.session = s THEN Write(CsNobody, 0) ELSE UNCHANGED csKey
    /\ UNCHANGED <<csSession, csOp, csView, csAns, csHeld, csGiven>>

\* set_ttl: a session with the old ttl is dropped.
CsSetTtl ==
    /\ csOp = "idle" /\ csSession # 0 /\ csSessions.created < MaxSessions
    /\ csSession' = 0
    /\ UNCHANGED <<csKey, csMember, csSessions, csOp, csView, csAns, csHeld, csGiven>>

CsOtherMember ==
    /\ csKey.owner # CsMe
    /\ Write(IF csKey.owner = CsNobody THEN CsOther ELSE CsNobody, 0)
    /\ UNCHANGED <<csMember, csSessions, csSession, csOp, csView, csAns, csHeld, csGiven>>

CsOver ==
    /\ csOp = "over"
    /\ CsReturn(FALSE)
    /\ UNCHANGED <<csKey, csMember, csSessions, csSession, csView, csGiven>>

CsCycle ==
    \/ CsLoad \/ CsBegin \/ CsUpdate \/ CsDelete("remove") \/ CsDelete("delete") \/ CsPut \/ CsDone
    \/ CsAcquire \/ CsLock \/ CsOver \/ CsTouch \/ CsRegister

CsNext ==
    \/ CsCycle \/ CsFails \/ CsTouchFails \/ CsSetTtl \/ CsOtherMember
    \/ \E s \in 1..MaxSessions : SessionExpires(s)

CsSpec == CsInit /\ [][CsNext]_csVars

-----------------------------------------------------------------------------
CsCall == IF csOp \in {"idle", "loaded", "touch", "register"} THEN "out" ELSE IF csHeld THEN "held" ELSE "in"

CsKey == INSTANCE LeaderKey WITH Members <- {CsMe, CsOther}, Nobody <- CsNobody, owner <- csKey.owner,
    call <- [m \in {CsMe, CsOther} |-> IF m = CsMe THEN CsCall ELSE "out"],
    ans <- [m \in {CsMe, CsOther} |-> IF m = CsMe THEN csAns ELSE "no"],
    given <- IF csGiven THEN {CsMe} ELSE {}

(***************************************************************************)
(* The promise of the leader key as the docstring of update_leader states  *)
(* it: "True if leader key (or session) has been updated successfully".    *)
(***************************************************************************)
CsKeepsPromise == CsKey!LkSpec

(***************************************************************************)
(* attempt_to_acquire_leader and delete_leader keep it: what they answer   *)
(* is true, and a step of this member never takes the key from another.    *)
(***************************************************************************)
CsOthersKeyLeftAlone ==
    [][csKey.owner = CsOther /\ csOp' # csOp => csKey' = csKey]_csVars

\* An attempt that returns True has owned the key.
CsAcquireTrue == csOp = "done" /\ csView.leader.owner = CsNobody => csHeld

(***************************************************************************)
(* If the HA loop goes on, the member key comes to hang on the session of  *)
(* its member and stays there once sessions no longer expire: touch_member *)
(* writes nothing when it thinks that nothing has changed.                 *)
(***************************************************************************)
CsMemberKeyLives == []<>(csOp # "idle") => <>[](csMember = csSession)
=============================================================================
