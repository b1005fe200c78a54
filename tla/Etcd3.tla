------------------------------- MODULE Etcd3 -------------------------------
(***************************************************************************)
(* The leader key in etcd v3 (patroni/dcs/etcd3.py): a member keeps a      *)
(* lease and a thread that mirrors the keys of the cluster in a cache.     *)
(* Its HA loop reads the cache and then refreshes the lease, takes the     *)
(* lock, renews it or deletes it; the watch may break at any moment, a     *)
(* snapshot may come from an etcd node that lags, a reply may be lost and  *)
(* its request repeated, a request may be executed after the call gave up  *)
(* (but not after the next HA cycle has begun).                            *)
(*                                                                         *)
(* One member is modelled in full; the others are what they do to the key. *)
(* A step is one request to etcd with the work up to the next one, or one  *)
(* block of the cache thread under its lock.  e3Log is etcd's history of   *)
(* the leader key: its length is the revision.                             *)
(***************************************************************************)
EXTENDS Naturals, Sequences

CONSTANTS E3Me, E3Other, E3Nobody,
          E3Lag,     \* how many revisions behind an etcd node may be
          MaxLeases, \* bound: leases granted
          MaxRev     \* bound: changes of the leader key

ASSUME Etcd3Assumption == /\ E3Me # E3Other /\ E3Nobody \notin {E3Me, E3Other}
                          /\ {E3Lag, MaxLeases, MaxRev} \subseteq Nat

VARIABLES e3Log,     \* states of the key: owner, lease, and the revision of its last put (0: no key)
          e3Granted, \* number of leases granted
          e3Dead,    \* leases that have expired
          e3Lease,   \* _lease, 0: None
          e3Cache,   \* KVCache: its thread, the snapshot read, the object, the revision watched up to
          e3Op,      \* where the HA loop is
          e3View,    \* leader in the cluster object it works with
          e3Ans,     \* what its last call returned
          e3Late,    \* request still on its way after the call gave up, with its lease
          e3Held,    \* auxiliary: the key was owned at some moment of the call
          e3Given    \* auxiliary: the key was deleted by its owner and not taken since

e3Vars == <<e3Log, e3Granted, e3Dead, e3Lease, e3Cache, e3Op, e3View, e3Ans, e3Late, e3Held, e3Given>>
e3Server == <<e3Log, e3Granted, e3Dead, e3Given>>
e3Client == <<e3Lease, e3Op, e3View, e3Ans, e3Late, e3Held>>

NoKey == [owner |-> E3Nobody, lease |-> 0, rev |-> 0]
NoRequest == [op |-> "none", lease |-> 0]

E3Init ==
    /\ e3Log = <<NoKey>>
    /\ e3Granted = 0
    /\ e3Dead = {}
    /\ e3Lease = 0
    /\ e3Cache = [thread |-> "list", got |-> NoKey, obj |-> NoKey, pos |-> 1]
    /\ e3Op = "idle"
    /\ e3View = NoKey
    /\ e3Ans = "no"
    /\ e3Late = NoRequest
    /\ e3Held = FALSE
    /\ e3Given = FALSE

Revision == Len(e3Log)
Key == e3Log[Revision]
Alive(lease) == lease \in (1..e3Granted) \ e3Dead

-----------------------------------------------------------------------------
\* KVCache.set: a newer object replaces the cached one.
CacheSet(c, key) == [c EXCEPT !.obj = IF key.rev > c.obj.rev THEN key ELSE @]

\* KVCache.delete: only an object older than the deletion goes.
CacheDelete(c, rev) == [c EXCEPT !.obj = IF c.obj.rev < rev THEN NoKey ELSE @]

\* _build_cache: the snapshot is read, perhaps from a node that lags.
BuildCache ==
    /\ e3Cache.thread = "list"
    /\ \E r \in 1..Revision :
          /\ r + E3Lag >= Revision
          /\ e3Cache' = [e3Cache EXCEPT !.thread = "install", !.got = e3Log[r], !.pos = r]
    /\ UNCHANGED <<e3Server, e3Client>>

\* Altered form: the watch starts at the revision of the moment and not at that of the snapshot.
InstallWatchingNow ==
    /\ e3Cache.thread = "install"
    /\ e3Cache' = [thread |-> "watch", got |-> NoKey, obj |-> e3Cache.got, pos |-> Revision]
    /\ UNCHANGED <<e3Server, e3Client>>

\* _build_cache: the snapshot replaces the cache, which is ready from now on; the watch starts after it.
InstallCache ==
    /\ e3Cache.thread = "install"
    /\ e3Cache' = [e3Cache EXCEPT !.thread = "watch", !.got = NoKey, !.obj = e3Cache.got]
    /\ UNCHANGED <<e3Server, e3Client>>

\* _process_event.
ProcessEvent ==
    /\ e3Cache.thread = "watch" /\ e3Cache.pos < Revision
    /\ LET next == [e3Cache EXCEPT !.pos = @ + 1]
           key == e3Log[next.pos]
       IN e3Cache' = IF key = NoKey THEN CacheDelete(next, next.pos) ELSE CacheSet(next, key)
    /\ UNCHANGED <<e3Server, e3Client>>

\* The watch breaks, is cancelled, or is shut down by kill_stream: the cache is not ready.
WatchEnds ==
    /\ e3Cache.thread = "watch"
    /\ e3Cache' = [e3Cache EXCEPT !.thread = "list"]
    /\ UNCHANGED <<e3Server, e3Client>>

-----------------------------------------------------------------------------
\* The call returns, or raises DCSError, which leaves the member where False does.
Return(ok) ==
    /\ e3Op' = "idle"
    /\ e3Ans' = IF ok THEN "yes" ELSE "no"
    /\ e3Held' = FALSE
    /\ e3View' = NoKey

Goes(where) ==
    /\ e3Op' = where
    /\ UNCHANGED <<e3View, e3Ans, e3Held>>

\* get_cluster.
E3LoadCluster ==
    /\ e3Op = "idle" /\ e3Late = NoRequest /\ e3Cache.thread = "watch"
    /\ e3Op' = "loaded"
    /\ e3View' = e3Cache.obj
    /\ UNCHANGED <<e3Server, e3Cache, e3Lease, e3Ans, e3Late, e3Held>>

\* What the HA loop does with that leader, sooner or later: renew or release its lock, take a free one.
BeginCall ==
    /\ e3Op = "loaded"
    /\ e3Op' \in CASE e3View.owner = E3Me -> {"update", "delete"}
                   [] e3View.owner = E3Nobody -> {"acquire"}
                   [] OTHER -> {"idle"}
    /\ e3Held' = (Key.owner = E3Me /\ e3View.owner # E3Other)
    /\ UNCHANGED <<e3Server, e3Cache, e3Lease, e3View, e3Ans, e3Late>>

\* _do_refresh_lease: a lease that is gone is replaced.
RefreshLease ==
    IF Alive(e3Lease) THEN UNCHANGED <<e3Lease, e3Granted>>
    ELSE /\ e3Granted < MaxLeases
         /\ e3Granted' = e3Granted + 1
         /\ e3Lease' = e3Granted + 1

\* Altered form: the lease of the key is not compared with the lease of this member.
UpdateLeaderTrusting ==
    /\ e3Op = "update"
    /\ \/ RefreshLease /\ Return(TRUE)
       \/ Return(FALSE) /\ UNCHANGED <<e3Lease, e3Granted>>
    /\ UNCHANGED <<e3Log, e3Dead, e3Given, e3Cache, e3Late>>

\* _update_leader: the lease is refreshed; a key that hangs on another lease must be written again.
UpdateLeader ==
    /\ e3Op = "update"
    /\ \/ /\ RefreshLease
          /\ IF e3View.lease = e3Lease' THEN Return(TRUE) ELSE Goes("renew")
       \/ Return(FALSE) /\ UNCHANGED <<e3Lease, e3Granted>>
    /\ UNCHANGED <<e3Log, e3Dead, e3Given, e3Cache, e3Late>>

\* attempt_to_acquire_leader: the lease is refreshed unless that was done a moment ago.
AttemptToAcquire ==
    /\ e3Op = "acquire"
    /\ \/ RefreshLease /\ Goes("create")
       \/ e3Lease # 0 /\ Goes("create") /\ UNCHANGED <<e3Lease, e3Granted>>
       \/ Return(FALSE) /\ UNCHANGED <<e3Lease, e3Granted>>
    /\ UNCHANGED <<e3Log, e3Dead, e3Given, e3Cache, e3Late>>

\* etcd executes a put of the leader key by this member.
Stored(lease) ==
    /\ Revision < MaxRev
    /\ e3Log' = Append(e3Log, [owner |-> E3Me, lease |-> lease, rev |-> Revision + 1])
    /\ e3Given' = FALSE

Deleted ==
    /\ Revision < MaxRev
    /\ e3Log' = Append(e3Log, NoKey)
    /\ e3Given' = TRUE

\* create_revision = 0; in _update_leader it is enough that the value is still our name.
TxnSucceeds == Key = NoKey \/ (Key.owner = E3Me /\ e3Op = "renew")

TxnStores ==
    /\ e3Op \in {"create", "again", "renew"} /\ Alive(e3Lease) /\ TxnSucceeds
    /\ Stored(e3Lease)
    /\ e3View' = e3Log'[Revision + 1]
    /\ e3Held' = TRUE
    /\ e3Op' = IF e3Op = "renew" THEN "renewed" ELSE "created"
    /\ UNCHANGED <<e3Granted, e3Dead, e3Lease, e3Cache, e3Ans, e3Late>>

\* The transaction is refused; an attempt that finds its lease gone gets a new one and tries once more.
TxnFails ==
    /\ e3Op \in {"create", "again", "renew"}
    /\ \/ Alive(e3Lease) /\ ~TxnSucceeds /\ Return(FALSE) /\ UNCHANGED <<e3Lease, e3Granted>>
       \/ ~Alive(e3Lease) /\ e3Op = "create" /\ RefreshLease /\ Goes("again")
       \/ /\ ~Alive(e3Lease) /\ Return(FALSE) /\ UNCHANGED e3Granted
          /\ e3Lease' = IF e3Op = "create" THEN 0 ELSE e3Lease
    /\ UNCHANGED <<e3Log, e3Dead, e3Given, e3Cache, e3Late>>

\* No answer in time: the call gives up, the request may still be executed.
TxnTimesOut ==
    /\ e3Op \in {"create", "again", "renew", "delete"}
    /\ e3Late' = [op |-> e3Op, lease |-> e3Lease]
    /\ Return(FALSE)
    /\ UNCHANGED <<e3Server, e3Cache, e3Lease>>

\* call_rpc: the reply puts our own object into the cache; or it is lost and the request is repeated.
TxnReply ==
    /\ e3Op \in {"created", "renewed"}
    /\ \/ Return(TRUE) /\ e3Cache' = CacheSet(e3Cache, e3View)
       \/ Goes(IF e3Op = "created" THEN "create" ELSE "renew") /\ UNCHANGED e3Cache
    /\ UNCHANGED <<e3Server, e3Lease, e3Late>>

\* _delete_leader: only a key with our name is deleted.
DeleteLeader ==
    /\ e3Op = "delete"
    /\ IF Key.owner = E3Me
       THEN /\ Deleted
            /\ e3Op' = "deleted"
            /\ e3View' = [e3View EXCEPT !.rev = Revision + 1]
            /\ UNCHANGED <<e3Ans, e3Held>>
       ELSE Return(FALSE) /\ UNCHANGED <<e3Log, e3Given>>
    /\ UNCHANGED <<e3Granted, e3Dead, e3Lease, e3Cache, e3Late>>

DeleteReply ==
    /\ e3Op = "deleted"
    /\ e3Cache' = CacheDelete(e3Cache, e3View.rev)
    /\ Return(FALSE)
    /\ UNCHANGED <<e3Server, e3Lease, e3Late>>

\* set_ttl: a lease with the old ttl is dropped.
SetTtl ==
    /\ e3Op = "idle" /\ e3Lease # 0
    /\ e3Lease' = 0
    /\ UNCHANGED <<e3Server, e3Cache, e3Op, e3View, e3Ans, e3Late, e3Held>>

-----------------------------------------------------------------------------
\* etcd executes a request that its sender has given up, or drops it.
LateRequest ==
    /\ e3Late # NoRequest
    /\ e3Late' = NoRequest
    /\ \/ e3Late.op = "delete" /\ Key.owner = E3Me /\ Deleted
       \/ /\ e3Late.op # "delete" /\ Alive(e3Late.lease)
          /\ Key = NoKey \/ (Key.owner = E3Me /\ e3Late.op = "renew")
          /\ Stored(e3Late.lease)
       \/ UNCHANGED <<e3Log, e3Given>>
    /\ UNCHANGED <<e3Granted, e3Dead, e3Lease, e3Cache, e3Op, e3View, e3Ans, e3Held>>

\* A lease expires and takes the key with it.
LeaseExpires(lease) ==
    /\ Alive(lease)
    /\ e3Dead' = e3Dead \union {lease}
    /\ IF Key.lease = lease THEN Revision < MaxRev /\ e3Log' = Append(e3Log, NoKey) ELSE UNCHANGED e3Log
    /\ UNCHANGED <<e3Granted, e3Given, e3Cache, e3Client>>

\* Another member takes a free key, or its key goes.
OtherMember ==
    /\ Key.owner # E3Me /\ Revision < MaxRev
    /\ e3Log' = Append(e3Log, IF Key = NoKey THEN [owner |-> E3Other, lease |-> 0, rev |-> Revision + 1] ELSE NoKey)
    /\ UNCHANGED <<e3Granted, e3Dead, e3Given, e3Cache, e3Client>>

E3Next ==
    \/ BuildCache \/ InstallCache \/ ProcessEvent \/ WatchEnds
    \/ E3LoadCluster \/ BeginCall \/ UpdateLeader \/ AttemptToAcquire \/ DeleteLeader \/ DeleteReply
    \/ TxnStores \/ TxnFails \/ TxnTimesOut \/ TxnReply \/ LateRequest \/ SetTtl
    \/ \E lease \in 1..MaxLeases : LeaseExpires(lease)
    \/ OtherMember

E3Spec == E3Init /\ [][E3Next]_e3Vars

-----------------------------------------------------------------------------
E3Call == IF e3Op \in {"idle", "loaded"} THEN "out" ELSE IF e3Held THEN "held" ELSE "in"

E3Key == INSTANCE LeaderKey WITH Members <- {E3Me, E3Other}, Nobody <- E3Nobody, owner <- Key.owner,
    call <- [m \in {E3Me, E3Other} |-> IF m = E3Me THEN E3Call ELSE "out"],
    ans <- [m \in {E3Me, E3Other} |-> IF m = E3Me THEN e3Ans ELSE "no"],
    given <- IF e3Given THEN {E3Me} ELSE {}

(***************************************************************************)
(* etcd v3 keeps the promise of the leader key, although update_leader     *)
(* asks etcd nothing about the key when the cached lease is its own.       *)
(***************************************************************************)
E3KeepsPromise == E3Key!LkSpec

(***************************************************************************)
(* A cache that has processed every event shows the key as it is.  The one *)
(* exception is an own object: the reply to a put may arrive after the     *)
(* events of the put and of its deletion, and KVCache.set brings it back.  *)
(***************************************************************************)
CacheConverges ==
    e3Cache.thread = "watch" /\ e3Cache.pos = Revision => e3Cache.obj = Key \/ e3Cache.obj.owner = E3Me
=============================================================================
