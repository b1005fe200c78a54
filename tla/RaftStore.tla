----------------------------- MODULE RaftStore -----------------------------
(***************************************************************************)
(* The leader key in Patroni's own Raft store (patroni/dcs/raft.py): a     *)
(* member checks a request against its replica, sends it to the Raft       *)
(* leader as a command, and every replica checks it again when it applies  *)
(* the command.  The Raft leader removes expired keys by commands too.     *)
(*                                                                         *)
(* Raft itself (pysyncobj) is external: commands are committed in one      *)
(* order, may be lost, committed twice when they are sent again, and       *)
(* committed after their sender gave up.  One member is modelled in full,  *)
(* the others by the commands they get committed.                          *)
(***************************************************************************)
EXTENDS Naturals, Sequences

CONSTANTS RfMe, RfOther, RfNobody,
          Ttl,        \* ttl of the leader key
          MaxNow,     \* bound: the clock
          MaxCommits  \* bound: changes of the leader key

ASSUME RaftAssumption == /\ RfMe # RfOther /\ RfNobody \notin {RfMe, RfOther}
                         /\ {Ttl, MaxNow, MaxCommits} \subseteq Nat

VARIABLES rfLog,     \* states of the key: owner, time of the write (with Ttl: expire), number of the command
          rfReplica, \* how many of them the replica of RfMe has applied
          rfSent,    \* commands of RfMe under way
          rfExpire,  \* _expire commands under way: the numbers of the values they were made for
          rfLimb,    \* __limb of the Raft leader, 0: empty
          rfNow,     \* the clock
          rfOp,      \* where the HA loop of RfMe is
          rfCommand, \* number of the last command made
          rfAns,     \* what its last call returned
          rfHeld,    \* auxiliary: the key was owned at some moment of the call
          rfGiven    \* auxiliary: the key was deleted by its owner and not taken since

rfVars == <<rfLog, rfReplica, rfSent, rfExpire, rfLimb, rfNow, rfOp, rfCommand, rfAns, rfHeld, rfGiven>>

Absent == [owner |-> RfNobody, updated |-> 0, n |-> 0]

RfInit ==
    /\ rfLog = <<Absent>>
    /\ rfReplica = 1
    /\ rfSent = {}
    /\ rfExpire = {}
    /\ rfLimb = 0
    /\ rfNow = 0
    /\ rfOp = "idle"
    /\ rfCommand = 0
    /\ rfAns = "no"
    /\ rfHeld = FALSE
    /\ rfGiven = FALSE

RfKey == rfLog[Len(rfLog)]
Local == rfLog[rfReplica]
Expired(value) == value # Absent /\ value.updated + Ttl <= rfNow

\* __check_requirements: prevExist=False, or prevValue with our name.
Requirements(old, kind) == IF kind = "create" THEN old = Absent ELSE old.owner = RfMe

-----------------------------------------------------------------------------
\* The HA loop calls update_leader, attempt_to_acquire_leader or delete_leader.
RfBegin ==
    /\ rfOp = "idle" /\ rfCommand < MaxCommits
    /\ rfOp' \in CASE Local.owner = RfMe -> {"update", "delete"}
                   [] Local = Absent -> {"create"}
                   [] OTHER -> {"idle"}
    /\ rfHeld' = (RfKey.owner = RfMe /\ rfOp' # "idle")
    /\ UNCHANGED <<rfLog, rfReplica, rfSent, rfExpire, rfLimb, rfNow, rfCommand, rfAns, rfGiven>>

RfReturn(ok) ==
    /\ rfOp' = "idle"
    /\ rfAns' = IF ok THEN "yes" ELSE "no"
    /\ rfHeld' = FALSE

\* A refused update: _update_leader tries to create the key if the replica has none, else returns False.
Refused(kind) ==
    IF kind = "update" /\ Local = Absent
    THEN rfOp' = "create" /\ UNCHANGED <<rfAns, rfHeld>>
    ELSE RfReturn(FALSE)

\* set and delete: the requirements are checked on the replica before the command is sent.
RfSend ==
    /\ rfOp \in {"update", "create", "delete"}
    /\ IF Requirements(Local, rfOp)
       THEN /\ rfCommand' = rfCommand + 1
            /\ rfSent' = rfSent \union {[kind |-> rfOp, updated |-> rfNow, n |-> rfCommand + 1]}
            /\ rfOp' = IF rfOp = "update" THEN "waitUpdate" ELSE IF rfOp = "create" THEN "waitCreate" ELSE "waitDelete"
            /\ UNCHANGED <<rfAns, rfHeld>>
       ELSE Refused(rfOp) /\ UNCHANGED <<rfCommand, rfSent>>
    /\ UNCHANGED <<rfLog, rfReplica, rfExpire, rfLimb, rfNow, rfGiven>>

RfWaiting == rfOp \in {"waitUpdate", "waitCreate", "waitDelete"}

\* What a committed command makes of the key.
Commit(c) ==
    /\ Len(rfLog) <= MaxCommits
    /\ rfLog' = Append(rfLog, IF c.kind = "delete" THEN Absent ELSE [owner |-> RfMe, updated |-> c.updated, n |-> c.n])
    /\ rfGiven' = (c.kind = "delete")

\* Altered form: the command is not checked again when it is applied.
ApplyUnchecked(c) ==
    /\ rfSent' \in {rfSent, rfSent \ {c}}
    /\ Commit(c)
    /\ rfHeld' = (rfHeld \/ (rfOp # "idle" /\ rfLog'[Len(rfLog')].owner = RfMe))
    /\ rfOp' = IF RfWaiting /\ c.n = rfCommand THEN (IF c.kind = "delete" THEN "deleted" ELSE "done") ELSE rfOp
    /\ UNCHANGED <<rfReplica, rfExpire, rfLimb, rfNow, rfCommand, rfAns>>

\* _set and _delete: the command is applied if the requirements hold; a command sent twice stays under way.
Apply(c) ==
    /\ Requirements(RfKey, c.kind)
    /\ rfSent' \in {rfSent, rfSent \ {c}}
    /\ Commit(c)
    /\ rfHeld' = (rfHeld \/ (rfOp # "idle" /\ rfLog'[Len(rfLog')].owner = RfMe))
    /\ rfOp' = IF RfWaiting /\ c.n = rfCommand THEN (IF c.kind = "delete" THEN "deleted" ELSE "done") ELSE rfOp
    /\ UNCHANGED <<rfReplica, rfExpire, rfLimb, rfNow, rfCommand, rfAns>>

\* The command is applied and does nothing: it returns False.
ApplyDenied(c) ==
    /\ ~Requirements(RfKey, c.kind)
    /\ rfSent' = rfSent \ {c}
    /\ IF RfWaiting /\ c.n = rfCommand THEN Refused(c.kind) ELSE UNCHANGED <<rfOp, rfAns, rfHeld>>
    /\ UNCHANGED <<rfLog, rfReplica, rfExpire, rfLimb, rfNow, rfCommand, rfGiven>>

Lost(c) ==
    /\ rfSent' = rfSent \ {c}
    /\ UNCHANGED <<rfLog, rfReplica, rfExpire, rfLimb, rfNow, rfOp, rfCommand, rfAns, rfHeld, rfGiven>>

\* retry: success, or RaftError after the timeout, with the command still under way.
RfResult ==
    /\ rfOp \in {"done", "deleted"} \/ RfWaiting
    /\ RfReturn(rfOp = "done")
    /\ UNCHANGED <<rfLog, rfReplica, rfSent, rfExpire, rfLimb, rfNow, rfCommand, rfGiven>>

-----------------------------------------------------------------------------
\* __expire_keys of the Raft leader: a value that has expired is put into limbo and its removal sent.
ExpireKeys ==
    /\ Expired(RfKey) /\ rfLimb # RfKey.n
    /\ rfLimb' = RfKey.n
    /\ rfExpire' = rfExpire \union {RfKey.n}
    /\ UNCHANGED <<rfLog, rfReplica, rfSent, rfNow, rfOp, rfCommand, rfAns, rfHeld, rfGiven>>

\* _expire: the value it was made for goes, and no other; the callback takes it out of limbo.
Expire(n) ==
    /\ rfExpire' = rfExpire \ {n}
    /\ rfLimb' = IF rfLimb = n THEN 0 ELSE rfLimb
    /\ IF RfKey.n = n THEN rfLog' = Append(rfLog, Absent) ELSE UNCHANGED rfLog
    /\ UNCHANGED <<rfReplica, rfSent, rfNow, rfOp, rfCommand, rfAns, rfHeld, rfGiven>>

\* The _expire command fails: the callback is called as well.
ExpireLost(n) ==
    /\ rfExpire' = rfExpire \ {n}
    /\ rfLimb' = IF rfLimb = n THEN 0 ELSE rfLimb
    /\ UNCHANGED <<rfLog, rfReplica, rfSent, rfNow, rfOp, rfCommand, rfAns, rfHeld, rfGiven>>

\* Another node becomes the Raft leader, with an empty limbo.
RaftLeaderChanges ==
    /\ rfLimb # 0
    /\ rfLimb' = 0
    /\ UNCHANGED <<rfLog, rfReplica, rfSent, rfExpire, rfNow, rfOp, rfCommand, rfAns, rfHeld, rfGiven>>

\* Another member creates, renews or deletes the key.
RfOtherMember ==
    /\ RfKey.owner # RfMe /\ Len(rfLog) <= MaxCommits /\ rfCommand < MaxCommits
    /\ rfCommand' = rfCommand + 1
    /\ \/ rfLog' = Append(rfLog, [owner |-> RfOther, updated |-> rfNow, n |-> rfCommand + 1])
       \/ RfKey.owner = RfOther /\ rfLog' = Append(rfLog, Absent)
    /\ ~RfWaiting
    /\ UNCHANGED <<rfReplica, rfSent, rfExpire, rfLimb, rfNow, rfOp, rfAns, rfHeld, rfGiven>>

\* The replica of this member applies the next change.
Replicate ==
    /\ rfReplica < Len(rfLog)
    /\ rfReplica' = rfReplica + 1
    /\ UNCHANGED <<rfLog, rfSent, rfExpire, rfLimb, rfNow, rfOp, rfCommand, rfAns, rfHeld, rfGiven>>

RfTick ==
    /\ rfNow < MaxNow
    /\ rfNow' = rfNow + 1
    /\ UNCHANGED <<rfLog, rfReplica, rfSent, rfExpire, rfLimb, rfOp, rfCommand, rfAns, rfHeld, rfGiven>>

RfExpires == \E n \in rfExpire : Expire(n)

RfNext ==
    \/ RfBegin \/ RfSend \/ RfResult
    \/ \E c \in rfSent : Apply(c) \/ ApplyDenied(c) \/ Lost(c)
    \/ ExpireKeys \/ RfExpires \/ \E n \in rfExpire : ExpireLost(n)
    \/ RaftLeaderChanges \/ RfOtherMember \/ Replicate \/ RfTick

RfSpec == RfInit /\ [][RfNext]_rfVars

-----------------------------------------------------------------------------
RfCall == IF rfOp = "idle" THEN "out" ELSE IF rfHeld THEN "held" ELSE "in"

RfLeaderKey == INSTANCE LeaderKey WITH Members <- {RfMe, RfOther}, Nobody <- RfNobody, owner <- RfKey.owner,
    call <- [m \in {RfMe, RfOther} |-> IF m = RfMe THEN RfCall ELSE "out"],
    ans <- [m \in {RfMe, RfOther} |-> IF m = RfMe THEN rfAns ELSE "no"],
    given <- IF rfGiven THEN {RfMe} ELSE {}

(***************************************************************************)
(* The Raft store keeps the promise of the leader key: a request checked   *)
(* on a replica that lags is checked again where it counts.                *)
(***************************************************************************)
RfKeepsPromise == RfLeaderKey!LkSpec

(***************************************************************************)
(* A leader key that was renewed is not removed by the expiration of what  *)
(* it was before: only a value whose own ttl has passed is expired.        *)
(***************************************************************************)
NotExpiredEarly ==
    [][RfKey # Absent /\ rfLog'[Len(rfLog')] = Absent /\ rfExpire' # rfExpire => Expired(RfKey)]_rfVars

\* A leader key that is not renewed does not survive its ttl, even if commands of the Raft leader fail.
ExpiredKeyRemoved == []<>~Expired(RfKey)
=============================================================================
