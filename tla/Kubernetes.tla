----------------------------- MODULE Kubernetes -----------------------------
(* The Kubernetes client (patroni/dcs/kubernetes.py).  The leader key is an
   annotation of an Endpoint or ConfigMap.  The API server never removes it: a
   node that has not seen the record change for ttl takes it for expired and
   replaces it with a patch that carries the resourceVersion it read.  What a
   node reads comes from a cache (ObjectCache) that a thread of its own fills
   from a list and a watch, while the patches of the HA loop put their replies
   into the same cache.

   A version of the object is a position in k8Log.  A record is its holder and
   the stamp (renewTime) of the call that wrote it. *)
EXTENDS Integers, Sequences, TLC

CONSTANTS K8Nodes,      \* the pods
          K8Nobody,     \* no holder
          K8Ttl,        \* ttl, in ticks of the clock
          MaxVersions,  \* bound: versions of the leader object
          MaxK8Events   \* bound: lost replies, broken streams, time-outs

ASSUME KubernetesAssumption == K8Nobody \notin K8Nodes /\ {K8Ttl, MaxVersions, MaxK8Events} \subseteq Nat

VARIABLES
  k8Log,     \* every version of the leader object, the last one current
  k8Age,     \* ticks since the holder was last written (saturates above ttl)
  k8Cache,   \* per node: the version in _kinds (0: none)
  k8Stream,  \* per node: the thread of ObjectCache, [at, rv]
  k8Seen,    \* per node: _leader_observed_record and its age
  k8At,      \* per node: where the HA loop is
  k8Op,      \* per node: the call it is to make or is making, [kind, rv, stamp]
  k8Role,    \* per node: "primary" or "replica"
  k8Events

k8Vars == <<k8Log, k8Age, k8Cache, k8Stream, k8Seen, k8At, k8Op, k8Role, k8Events>>
k8Store == <<k8Log, k8Age>>
k8Node == <<k8Seen, k8Role>>

NoRecord == [leader |-> K8Nobody, stamp |-> <<K8Nobody, 0>>]
NoOp == [kind |-> "none", rv |-> 0, stamp |-> <<K8Nobody, 0>>]
Record(rv) == IF rv = 0 THEN NoRecord ELSE k8Log[rv]
Current == Len(k8Log)

K8Init ==
  /\ k8Log = <<>> /\ k8Age = 0
  /\ k8Cache = [n \in K8Nodes |-> 0]
  /\ k8Stream = [n \in K8Nodes |-> [at |-> "down", rv |-> 0]]
  /\ k8Seen = [n \in K8Nodes |-> [record |-> NoRecord, age |-> K8Ttl + 1]]
  /\ k8At = [n \in K8Nodes |-> "idle"]
  /\ k8Op = [n \in K8Nodes |-> NoOp]
  /\ k8Role = [n \in K8Nodes |-> "replica"]
  /\ k8Events = 0

K8Event == k8Events < MaxK8Events /\ k8Events' = k8Events + 1
K8Goes(n, here, there) == k8At[n] = here /\ k8At' = [k8At EXCEPT ![n] = there]

(* A new version of the object; a renewed or new holder restarts its ttl. *)
K8Write(record) ==
  /\ Current < MaxVersions
  /\ k8Log' = Append(k8Log, record)
  /\ k8Age' = IF record = Record(Current) THEN k8Age ELSE 0

(***************************************************************************)
(* ObjectCache                                                             *)
(***************************************************************************)
(* set: only a newer version replaces the cached one. *)
K8CacheSet(n, rv) == k8Cache' = [k8Cache EXCEPT ![n] = IF k8Cache[n] < rv THEN rv ELSE @]

(* kill_stream, or the end of the watch: the cache is not ready until it is
   listed again. *)
Killed(n) == k8Stream' = [k8Stream EXCEPT ![n] = IF @.at = "watch" THEN [at |-> "down", rv |-> 0] ELSE @]

(* _build_cache: the list is answered first, and put in place of the whole
   cache later; a reply that the HA loop stored meanwhile is overwritten. *)
CacheList(n) ==
  /\ k8Stream[n].at = "down"
  /\ k8Stream' = [k8Stream EXCEPT ![n] = [at |-> "listed", rv |-> Current]]
  /\ UNCHANGED <<k8Store, k8Cache, k8Node, k8At, k8Op, k8Events>>

CacheInstall(n) ==
  /\ k8Stream[n].at = "listed"
  /\ k8Cache' = [k8Cache EXCEPT ![n] = k8Stream[n].rv]
  /\ k8Stream' = [k8Stream EXCEPT ![n].at = "watch"]
  /\ UNCHANGED <<k8Store, k8Node, k8At, k8Op, k8Events>>

(* _do_watch and _process_event: the next event of the stream. *)
CacheEvent(n) ==
  /\ k8Stream[n].at = "watch" /\ k8Stream[n].rv < Current
  /\ k8Stream' = [k8Stream EXCEPT ![n].rv = @ + 1]
  /\ K8CacheSet(n, k8Stream[n].rv + 1)
  /\ UNCHANGED <<k8Store, k8Node, k8At, k8Op, k8Events>>

(* The connection breaks, or the server answers 410. *)
StreamBreaks(n) ==
  /\ k8Stream[n].at = "watch" /\ K8Event
  /\ Killed(n)
  /\ UNCHANGED <<k8Store, k8Cache, k8Node, k8At, k8Op>>

(***************************************************************************)
(* get_cluster                                                             *)
(***************************************************************************)
(* _cluster_from_nodes: a record that differs from the observed one is
   observed now; the holder counts as long as its record is at most ttl old. *)
Observed(n) == IF Record(k8Cache[n]) = k8Seen[n].record THEN k8Seen[n] ELSE [record |-> Record(k8Cache[n]), age |-> 0]
LeaderOf(seen) == IF seen.age <= K8Ttl THEN seen.record.leader ELSE K8Nobody

(* Both caches are ready: the view is built from them. *)
Loads(n) ==
  /\ k8Stream[n].at = "watch" /\ k8At[n] = "idle"
  /\ k8Seen' = [k8Seen EXCEPT ![n] = Observed(n)]
  /\ UNCHANGED <<k8Store, k8Cache, k8Stream, k8Events>>

(* This node holds the key, or nobody does and it takes part in the race. *)
K8Load(n) ==
  /\ Loads(n) /\ LeaderOf(Observed(n)) \in {n, K8Nobody}
  /\ k8At' = [k8At EXCEPT ![n] = "loaded"]
  /\ k8Op' = [k8Op EXCEPT ![n] = [kind |-> IF LeaderOf(Observed(n)) = n THEN "update" ELSE "acquire",
                                   rv |-> k8Cache[n], stamp |-> NoOp.stamp]]
  /\ UNCHANGED k8Role

(* Another node holds the key, or nobody does and this node stays away. *)
K8Follow(n) ==
  /\ Loads(n) /\ LeaderOf(Observed(n)) # n
  /\ k8Role' = [k8Role EXCEPT ![n] = "replica"]
  /\ UNCHANGED <<k8At, k8Op>>

(* _wait_caches runs out of time: the node cannot stay primary. *)
K8LoadFails(n) ==
  /\ k8Stream[n].at # "watch" /\ k8At[n] = "idle" /\ K8Event
  /\ k8Role' = [k8Role EXCEPT ![n] = "replica"]
  /\ UNCHANGED <<k8Store, k8Cache, k8Stream, k8Seen, k8At, k8Op>>

(***************************************************************************)
(* update_leader                                                           *)
(***************************************************************************)
Stamp(n) == <<n, Current>>

(* The answer of the call: the HA loop goes on as primary or as replica. *)
Answer(n, yes) ==
  /\ k8At' = [k8At EXCEPT ![n] = "idle"]
  /\ k8Op' = [k8Op EXCEPT ![n] = NoOp]
  /\ k8Role' = [k8Role EXCEPT ![n] = IF yes THEN "primary" ELSE "replica"]

K8Update(n) ==
  /\ k8At[n] = "loaded" /\ k8Op[n].kind = "update"
  /\ IF k8Cache[n] # 0 /\ Record(k8Cache[n]).leader # n
     THEN Answer(n, FALSE)
     ELSE /\ k8At' = [k8At EXCEPT ![n] = "patch"]
          /\ k8Op' = [k8Op EXCEPT ![n] = [kind |-> "update", rv |-> k8Cache[n], stamp |-> Stamp(n)]]
          /\ UNCHANGED k8Role
  /\ UNCHANGED <<k8Store, k8Cache, k8Stream, k8Seen, k8Events>>

(***************************************************************************)
(* attempt_to_acquire_leader                                               *)
(***************************************************************************)
(* Mutant: the freshest version is used whether or not the record changed. *)
VersionFreshest(n) == IF k8Op[n].rv = 0 THEN 0 ELSE k8Cache[n]

(* The version of the view, or the cached one when its record is still the
   one that was found expired. *)
VersionToReplace(n) ==
  IF k8Op[n].rv # 0 /\ Record(k8Cache[n]) = k8Seen[n].record THEN k8Cache[n] ELSE k8Op[n].rv

K8Acquire(n) ==
  /\ k8Op[n].kind = "acquire"
  /\ K8Goes(n, "loaded", "patch")
  /\ k8Op' = [k8Op EXCEPT ![n] = [kind |-> "acquire", rv |-> VersionToReplace(n), stamp |-> Stamp(n)]]
  /\ UNCHANGED <<k8Store, k8Cache, k8Stream, k8Node, k8Events>>

(***************************************************************************)
(* _patch_or_create and what follows a conflict                            *)
(***************************************************************************)
(* The HA loop is inside update_leader or attempt_to_acquire_leader. *)
Calling == {"patch", "read", "repatch"}

Mine(n) == [leader |-> n, stamp |-> k8Op[n].stamp]
Matches(n) == k8Op[n].rv = Current

(* The server accepts the patch (or creates the object) and the reply goes
   into the cache. *)
PatchAnswered(n) ==
  /\ k8At[n] \in {"patch", "repatch"} /\ Matches(n)
  /\ K8Write(Mine(n))
  /\ K8CacheSet(n, Current + 1)
  /\ Answer(n, TRUE)
  /\ UNCHANGED <<k8Stream, k8Seen, k8Events>>

(* The server accepts the patch and its reply is lost: it is sent again. *)
PatchReplyLost(n) ==
  /\ k8At[n] \in {"patch", "repatch"} /\ Matches(n) /\ K8Event
  /\ K8Write(Mine(n))
  /\ UNCHANGED <<k8Cache, k8Stream, k8Node, k8At, k8Op>>

(* 409.  update_leader always reads the object then.  acquire does so, after
   ending both streams, only when its patch named a version. *)
PatchConflict(n) ==
  /\ k8At[n] = "patch" /\ ~Matches(n)
  /\ IF k8Op[n].kind = "acquire" /\ k8Op[n].rv = 0
     THEN Answer(n, FALSE)
     ELSE k8At' = [k8At EXCEPT ![n] = "read"] /\ UNCHANGED <<k8Op, k8Role>>
  /\ IF k8Op[n].kind = "acquire" /\ k8Op[n].rv # 0 THEN Killed(n) ELSE UNCHANGED k8Stream
  /\ UNCHANGED <<k8Store, k8Cache, k8Seen, k8Events>>

PatchAgainConflict(n) ==
  /\ k8At[n] = "repatch" /\ ~Matches(n)
  /\ Answer(n, FALSE)
  /\ UNCHANGED <<k8Store, k8Cache, k8Stream, k8Seen, k8Events>>

(* The object that was read carries what the lost patch wrote. *)
WrittenBefore(n) == Record(Current) = Mine(n)

(* _update_leader_with_retry: the object is read from the server. *)
UpdateReads(n) ==
  /\ k8At[n] = "read" /\ k8Op[n].kind = "update"
  /\ K8CacheSet(n, Current)
  /\ \/ /\ Record(Current).leader # n \/ Current = k8Op[n].rv
        /\ Answer(n, FALSE)
     \/ /\ Record(Current).leader = n /\ WrittenBefore(n)
        /\ Answer(n, TRUE)
     \/ /\ Record(Current).leader = n /\ ~WrittenBefore(n)
        /\ k8At' = [k8At EXCEPT ![n] = "repatch"]
        /\ k8Op' = [k8Op EXCEPT ![n].rv = Current]
        /\ UNCHANGED k8Role
  /\ UNCHANGED <<k8Store, k8Stream, k8Seen, k8Events>>

AcquireReads(n) ==
  /\ k8At[n] = "read" /\ k8Op[n].kind = "acquire"
  /\ Answer(n, Current # k8Op[n].rv /\ WrittenBefore(n))
  /\ UNCHANGED <<k8Store, k8Cache, k8Stream, k8Seen, k8Events>>

(* The retry deadline passes, with or without a patch that was accepted. *)
K8GivesUp(n) ==
  /\ k8At[n] \in Calling /\ K8Event
  /\ Answer(n, FALSE)
  /\ UNCHANGED <<k8Store, k8Cache, k8Stream, k8Seen>>

(* The bound: the server answers no more patches. *)
K8Exhausted(n) ==
  /\ k8At[n] \in Calling /\ Current = MaxVersions /\ Matches(n)
  /\ Answer(n, FALSE)
  /\ UNCHANGED <<k8Store, k8Cache, k8Stream, k8Seen, k8Events>>

(***************************************************************************)
(* delete_leader and write_leader_optime                                   *)
(***************************************************************************)
K8Release(n) ==
  /\ k8At[n] = "idle" /\ k8Role[n] = "primary" /\ K8Event
  /\ k8Role' = [k8Role EXCEPT ![n] = "replica"]
  /\ \/ /\ Record(k8Cache[n]).leader = n /\ k8Cache[n] = Current
        /\ K8Write([Record(Current) EXCEPT !.leader = K8Nobody])
        /\ K8CacheSet(n, Current + 1) /\ UNCHANGED k8Stream
     \/ /\ Record(k8Cache[n]).leader = n /\ k8Cache[n] # Current
        /\ Killed(n) /\ UNCHANGED <<k8Store, k8Cache>>
     \/ /\ Record(k8Cache[n]).leader # n
        /\ UNCHANGED <<k8Store, k8Cache, k8Stream>>
  /\ UNCHANGED <<k8Seen, k8At, k8Op>>

(* A node that was shut down patches the position into the object, naming no
   version: the record stays, the version does not. *)
WriteOptime(n) ==
  /\ k8At[n] = "idle" /\ k8Role[n] = "replica" /\ Current > 0 /\ K8Event
  /\ K8Write(Record(Current))
  /\ K8CacheSet(n, Current + 1)
  /\ UNCHANGED <<k8Stream, k8Node, k8At, k8Op>>

(***************************************************************************)
(* The clock and the specification                                         *)
(***************************************************************************)
Older(age) == IF age > K8Ttl THEN age ELSE age + 1
K8Tick ==
  /\ k8Age <= K8Ttl \/ \E n \in K8Nodes : k8Seen[n].age <= K8Ttl
  /\ k8Age' = Older(k8Age)
  /\ k8Seen' = [n \in K8Nodes |-> [k8Seen[n] EXCEPT !.age = Older(@)]]
  /\ UNCHANGED <<k8Log, k8Cache, k8Stream, k8At, k8Op, k8Role, k8Events>>

CacheGoes(n) == CacheList(n) \/ CacheInstall(n) \/ CacheEvent(n)
K8Cycle(n) ==
  \/ K8Load(n) \/ K8Update(n) \/ K8Acquire(n) \/ K8Follow(n) \/ PatchAnswered(n) \/ PatchConflict(n)
  \/ PatchAgainConflict(n) \/ UpdateReads(n) \/ AcquireReads(n) \/ K8Exhausted(n)
K8Faults(n) ==
  \/ StreamBreaks(n) \/ K8LoadFails(n) \/ PatchReplyLost(n) \/ K8GivesUp(n) \/ K8Release(n)
  \/ WriteOptime(n)

K8Next == K8Tick \/ \E n \in K8Nodes : CacheGoes(n) \/ K8Cycle(n) \/ K8Faults(n)
K8Spec == K8Init /\ [][K8Next]_k8Vars

(***************************************************************************)
(* Properties                                                              *)
(***************************************************************************)
(* A holder is replaced by another node only when it has not renewed its
   record for more than ttl, however late the caches of the others are and
   whatever versions the object went through meanwhile: the version patched
   over is one whose record was seen to be old. *)
NotStolenEarly ==
  [][LET old == Record(Current).leader new == Record(Current)'.leader
     IN  old # K8Nobody /\ new # K8Nobody /\ old # new => k8Age > K8Ttl]_k8Vars

(* When update_leader or attempt_to_acquire_leader returns True, the object
   carries the record of this very call, also when the reply was lost and the
   retry met the conflict its first try had caused. *)
K8AnswersTrue ==
  [][\A n \in K8Nodes : k8At[n] \in Calling /\ k8At'[n] = "idle" /\ k8Role'[n] = "primary" => Record(Current)' = Mine(n)]_k8Vars

(* A cache whose stream has delivered everything holds the current version,
   whatever order the list, the events and the replies of the HA loop came in. *)
K8CacheConverges ==
  \A n \in K8Nodes : k8Stream[n].at = "watch" /\ k8Stream[n].rv = Current => k8Cache[n] = Current

=============================================================================
