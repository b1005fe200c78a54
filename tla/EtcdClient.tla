----------------------------- MODULE EtcdClient -----------------------------
(***************************************************************************)
(* How the etcd clients find a server that answers                         *)
(* (AbstractEtcdClientWithFailover of patroni/dcs/etcd.py, on which the v2 *)
(* and the v3 client are built, and Retry of patroni/utils.py): the list   *)
(* of machines, the one that is asked first, the retries and the time they *)
(* may take, and the guard against servers that have fallen behind.        *)
(*                                                                         *)
(* The HA loop makes requests with a retry (get_cluster, update_leader)    *)
(* and without one (touch_member) in turn.  A server that does not answer  *)
(* refuses the connection or hangs.  Time is counted in units of the       *)
(* shortest timeout of a server.                                           *)
(***************************************************************************)
EXTENDS Integers, Sequences, SequencesExt, FiniteSets

CONSTANTS EtcdServers,  \* servers of etcd, present and future
          EtcdHosts,    \* those named in the configuration
          RetryTimeout, \* retry_timeout, also read_timeout
          MaxTerm,      \* bound: raft terms
          MaxEcEvents   \* bound: changes of the etcd cluster

VARIABLES ecMembers,  \* members of the etcd cluster
          ecUp,       \* servers that answer
          ecTerm,     \* raft term a server reports
          ecLeader,   \* the etcd cluster has a leader
          ecCache,    \* _machines_cache
          ecBase,     \* _base_uri
          ecReload,   \* _update_machines_cache
          ecSeen,     \* _raft_term
          ecAt,       \* where the request is
          ecRetry,    \* it has a Retry
          ecTodo,     \* machines not asked yet in this pass
          ecShare,    \* timeout of one machine, its retries included
          ecFailed,   \* some_request_failed
          ecNow,      \* time since the request began
          ecServed,   \* outcomes of the last request without and with a retry
          ecEvents

ecVars == <<ecMembers, ecUp, ecTerm, ecLeader, ecCache, ecBase, ecReload, ecSeen, ecAt, ecRetry, ecTodo, ecShare,
            ecFailed, ecNow, ecServed, ecEvents>>
ecEtcd == <<ecMembers, ecUp, ecTerm, ecLeader, ecEvents>>
ecRequest == <<ecAt, ecRetry, ecTodo, ecShare, ecFailed, ecNow, ecServed>>

\* The client has been created: the list comes from the etcd cluster.
EcInit ==
    /\ ecMembers \in {M \in SUBSET EtcdServers : M # {} /\ M \intersect EtcdHosts # {}}
    /\ ecUp = ecMembers
    /\ ecTerm = [s \in EtcdServers |-> 1] /\ ecLeader = TRUE
    /\ ecCache \in SetToSeqs(ecMembers) /\ ecBase = ecCache[1]
    /\ ecReload = FALSE /\ ecSeen = 1
    /\ ecAt = "idle" /\ ecRetry = FALSE /\ ecTodo = <<>> /\ ecShare = 0 /\ ecFailed = FALSE /\ ecNow = 0
    /\ ecServed = [plain |-> TRUE, retried |-> TRUE]
    /\ ecEvents = 0

-----------------------------------------------------------------------------
(***************************************************************************)
(* The list of machines.                                                   *)
(***************************************************************************)

\* machines_cache: _base_uri comes first
MachinesCache(cache, base) ==
    (IF base \in ToSet(cache) THEN <<base>> ELSE <<>>) \o SelectSeq(cache, LAMBDA s : s # base)

\* _check_cluster_raft_term: an answer with an older term is refused
Accepts(s) == s \in ecUp /\ ecTerm[s] >= ecSeen

\* Machines that hang cost their share of the time; those that refuse cost nothing.
Hanging(S) == {k * (RetryTimeout \div Cardinality(S)) : k \in 0..Cardinality(S \ ecUp)}

\* _refresh_machines_cache asks the machines S for the members, in no particular order (_get_machines_list).
RefreshFinds(S, base, seen) ==
    /\ \E s \in S : Accepts(s) /\ seen = ecTerm[s]
    /\ \E cost \in Hanging(S) : ecNow' = ecNow + cost
    /\ ecCache' \in SetToSeqs(ecMembers)
    /\ ecBase' = IF base \in ecMembers THEN base ELSE ecCache'[1]

RefreshFails(S, base, seen) ==
    /\ (\A s \in S : ~Accepts(s)) /\ seen = ecSeen
    /\ \E cost \in Hanging(S) : ecNow' = ecNow + cost
    /\ ecBase' = base
    /\ UNCHANGED ecCache

\* _load_machines_cache asks the hosts of the configuration too
ToLoad == EtcdHosts \union ToSet(ecCache)

-----------------------------------------------------------------------------
(***************************************************************************)
(* A request.                                                              *)
(***************************************************************************)

EcOutcome(ok) == ecServed' = IF ecRetry THEN [ecServed EXCEPT !.retried = ok] ELSE [ecServed EXCEPT !.plain = ok]

EcReturns(ok) ==
    /\ ecAt' = "idle" /\ ecTodo' = <<>> /\ ecShare' = 0 /\ ecFailed' = FALSE
    /\ EcOutcome(ok)
    /\ UNCHANGED ecRetry

\* The pass over the machines, with the timeout of each (_prepare_common_parameters).
EcPass(list, time) ==
    /\ ecAt' = "pass"
    /\ ecTodo' = list /\ ecShare' = time \div Len(list)
    /\ UNCHANGED <<ecRetry, ecFailed, ecServed>>

EcCall ==
    /\ ecAt = "idle"
    /\ ecRetry' = ~ecRetry /\ ecNow' = 0 /\ ecFailed' = FALSE
    /\ ecAt' = "execute"
    /\ UNCHANGED <<ecEtcd, ecCache, ecBase, ecReload, ecSeen, ecTodo, ecShare, ecServed>>

\* api_execute: the list is loaded if that failed before ...
EcLoadFirst ==
    /\ ecAt = "execute" /\ ecReload
    /\ \E seen \in 1..MaxTerm :
          /\ ecSeen' = seen
          /\ \/ RefreshFinds(ToLoad, ecBase, seen) /\ ecReload' = FALSE /\ EcPass(MachinesCache(ecCache', ecBase'), RetryTimeout)
             \/ RefreshFails(ToLoad, ecBase, seen) /\ UNCHANGED ecReload /\ EcReturns(FALSE)
    /\ UNCHANGED ecEtcd

\* ... or refreshed if it is old
EcRefreshFirst ==
    /\ ecAt = "execute" /\ ~ecReload
    /\ \E seen \in 1..MaxTerm :
          /\ ecSeen' = seen
          /\ \/ RefreshFinds(ToSet(ecCache), ecBase, seen) \/ RefreshFails(ToSet(ecCache), ecBase, seen)
             \/ seen = ecSeen /\ UNCHANGED <<ecCache, ecBase, ecNow>>
    /\ EcPass(MachinesCache(ecCache', ecBase'), RetryTimeout)
    /\ UNCHANGED <<ecEtcd, ecReload>>

EcAsked == ecAt = "pass" /\ ecTodo # <<>>
EcMachine == ecTodo[1]

\* Altered form: the machine that answered is not remembered.
RememberedNot(seen) == seen = ecSeen /\ UNCHANGED <<ecCache, ecBase, ecNow>>

\* _do_http_request: a machine responds; if others failed before, it is asked first from now on and the list is
\* refreshed, before the response is looked at.
Remembered(seen) ==
    IF ecFailed
    THEN RefreshFinds(ToSet(ecCache), EcMachine, seen) \/ RefreshFails(ToSet(ecCache), EcMachine, seen)
    ELSE seen = ecSeen /\ UNCHANGED <<ecCache, ecBase, ecNow>>

EcAnswers ==
    /\ EcAsked /\ EcMachine \in ecUp /\ ecLeader
    /\ \E seen \in 1..MaxTerm : Remembered(seen) /\ ecTerm[EcMachine] >= seen /\ ecSeen' = ecTerm[EcMachine]
    /\ EcReturns(TRUE)
    /\ UNCHANGED <<ecEtcd, ecReload>>

\* The etcd cluster has no leader: Retry.__call__ executes the request again, while there is time.
EcNoLeader ==
    /\ EcAsked /\ EcMachine \in ecUp /\ ~ecLeader
    /\ \E seen \in 1..MaxTerm : Remembered(seen) /\ ecTerm[EcMachine] >= seen /\ ecSeen' = ecTerm[EcMachine]
    /\ IF ecRetry /\ ecNow' + 1 < RetryTimeout
       THEN /\ ecAt' = "retry" /\ ecTodo' = <<>> /\ ecShare' = 0 /\ ecFailed' = FALSE
            /\ UNCHANGED <<ecRetry, ecServed>>
       ELSE EcReturns(FALSE)
    /\ UNCHANGED <<ecEtcd, ecReload>>

EcSleeps ==
    /\ ecAt \in {"retry", "sleep"}
    /\ ecAt' = IF ecAt = "retry" THEN "execute" ELSE "pass"
    /\ ecNow' = ecNow + 1 /\ ecFailed' = FALSE
    /\ UNCHANGED <<ecEtcd, ecCache, ecBase, ecReload, ecSeen, ecRetry, ecTodo, ecShare, ecServed>>

\* The failure of a machine.  Without a retry another one is asked first the next time; with one the pass goes on.
EcFails(base) ==
    IF ecRetry
    THEN /\ ecTodo' = Tail(ecTodo) /\ ecFailed' = TRUE /\ ecBase' = base
         /\ UNCHANGED <<ecAt, ecRetry, ecShare, ecServed>>
    ELSE /\ ecBase' = IF Len(ecTodo) > 1 THEN ecTodo[2] ELSE base
         /\ EcReturns(FALSE)

\* StaleEtcdNode: it has fallen behind
EcBehind ==
    /\ EcAsked /\ EcMachine \in ecUp
    /\ \E seen \in 1..MaxTerm :
          /\ ecTerm[EcMachine] < seen /\ ecSeen' = seen
          /\ IF ecFailed
             THEN /\ Remembered(seen)
                  /\ ecTodo' = Tail(ecTodo)
                  /\ UNCHANGED <<ecFailed, ecAt, ecRetry, ecShare, ecServed>>
             ELSE /\ seen = ecSeen /\ UNCHANGED <<ecCache, ecNow>>
                  /\ EcFails(ecBase)
    /\ UNCHANGED <<ecEtcd, ecReload>>

EcNoAnswer ==
    /\ EcAsked /\ EcMachine \notin ecUp
    /\ \E cost \in {0, ecShare} : ecNow' = ecNow + cost
    /\ EcFails(ecBase)
    /\ UNCHANGED <<ecEtcd, ecCache, ecReload, ecSeen>>

\* _calculate_timeouts: as many machines as the time allows for
MachinesFor(n, time) == IF time < n THEN IF time < 0 THEN 0 ELSE time ELSE n

Remaining(now) == RetryTimeout - 1 - now

\* All of them failed: the list is loaded again, and the machines are asked once more if there is time, else the
\* next request begins with the list.
EcAllFailed ==
    /\ ecAt = "pass" /\ ecTodo = <<>>
    /\ \E seen \in 1..MaxTerm :
          /\ ecSeen' = seen
          /\ \/ RefreshFinds(ToLoad, ecBase, seen) /\ ecReload' = FALSE
             \/ RefreshFails(ToLoad, ecBase, seen) /\ ecReload' = TRUE
    /\ LET n == MachinesFor(Len(ecCache'), Remaining(ecNow'))
       IN  IF n = 0
           THEN ecAt' = "give up" /\ UNCHANGED <<ecTodo, ecShare, ecFailed, ecRetry, ecServed>>
           ELSE ecAt' = "sleep" /\ ecTodo' = SubSeq(MachinesCache(ecCache', ecBase'), 1, n)
                /\ ecShare' = Remaining(ecNow') \div n /\ UNCHANGED <<ecFailed, ecRetry, ecServed>>
    /\ UNCHANGED ecEtcd

EcGivesUp ==
    /\ ecAt = "give up"
    /\ ecReload' = TRUE
    /\ EcReturns(FALSE)
    /\ UNCHANGED <<ecEtcd, ecCache, ecBase, ecSeen, ecNow>>

-----------------------------------------------------------------------------
(***************************************************************************)
(* The etcd cluster.                                                       *)
(***************************************************************************)
EcEvent == ecEvents < MaxEcEvents /\ ecEvents' = ecEvents + 1

EcServer(s) ==
    /\ EcEvent /\ s \in ecMembers
    /\ ecUp' = IF s \in ecUp THEN ecUp \ {s} ELSE ecUp \union {s}
    /\ UNCHANGED <<ecMembers, ecTerm, ecLeader, ecCache, ecBase, ecReload, ecSeen, ecRequest>>

\* A leader is lost; the members but one that is cut off from the others elect another.
EcElects ==
    /\ \/ /\ ecLeader /\ EcEvent
          /\ ecLeader' = FALSE /\ UNCHANGED ecTerm
       \/ /\ ~ecLeader /\ UNCHANGED ecEvents
          /\ ecLeader' = TRUE
          /\ \E term \in {ecTerm[s] + 1 : s \in ecMembers}, cut \in SUBSET ecMembers :
                /\ \A s \in ecMembers : ecTerm[s] < term
                /\ term <= MaxTerm /\ 2 * Cardinality(cut) < Cardinality(ecMembers)
                /\ ecTerm' = [s \in EtcdServers |-> IF s \in cut THEN ecTerm[s] ELSE term]
    /\ UNCHANGED <<ecMembers, ecUp, ecCache, ecBase, ecReload, ecSeen, ecRequest>>

\* A server that was cut off catches up.
EcCatchesUp ==
    /\ \E s, t \in ecMembers : ecTerm[s] < ecTerm[t] /\ ecTerm' = [ecTerm EXCEPT ![s] = ecTerm[t]]
    /\ UNCHANGED <<ecMembers, ecUp, ecLeader, ecEvents, ecCache, ecBase, ecReload, ecSeen, ecRequest>>

\* The membership changes; a server that is not a member does not answer.
EcMembership(M) ==
    /\ EcEvent
    /\ M # {} /\ M # ecMembers /\ M \intersect EtcdHosts # {}
    /\ ecMembers' = M
    /\ ecUp' = (ecUp \intersect M) \union (M \ ecMembers)
    /\ ecTerm' = [s \in EtcdServers |-> IF s \in ecMembers THEN ecTerm[s] ELSE ecTerm[CHOOSE m \in ecMembers : \A k \in ecMembers : ecTerm[k] <= ecTerm[m]]]
    /\ UNCHANGED <<ecLeader, ecCache, ecBase, ecReload, ecSeen, ecRequest>>

-----------------------------------------------------------------------------
EcClient ==
    EcCall \/ EcLoadFirst \/ EcRefreshFirst \/ EcAnswers \/ EcNoLeader \/ EcBehind \/ EcNoAnswer \/ EcAllFailed \/ EcSleeps \/ EcGivesUp

EcNext ==
    \/ EcClient
    \/ \E s \in EtcdServers : EcServer(s)
    \/ EcElects \/ EcCatchesUp
    \/ \E M \in SUBSET EtcdServers : EcMembership(M)

\* The HA loop goes on, and etcd elects a leader.
EcSpec == EcInit /\ [][EcNext]_ecVars /\ WF_ecVars(EcClient) /\ WF_ecVars(EcElects /\ ~ecLeader) /\ WF_ecVars(EcCatchesUp)

-----------------------------------------------------------------------------
\* Type invariant.
EcTypeOK ==
    /\ ecMembers \subseteq EtcdServers /\ ecUp \subseteq ecMembers
    /\ ToSet(ecCache) \subseteq EtcdServers /\ ecCache # <<>> /\ ecBase \in EtcdServers
    /\ ecTerm \in [EtcdServers -> 1..MaxTerm] /\ ecSeen \in 1..MaxTerm
    /\ ecAt \in {"idle", "execute", "pass", "retry", "sleep", "give up"}

\* The client does not go back to a server that has fallen behind one that it has listened to, neither for a request
\* nor for the list of members.
TermsGrow == [][ecSeen' >= ecSeen]_ecVars

\* A request ends within four times retry_timeout, whatever the servers do.
RequestEnds == ecNow <= 4 * RetryTimeout

\* As long as a server that the client can know of answers, requests of both kinds succeed again and again.
ServedAgain ==
    []<>((\A s \in ToLoad : ~Accepts(s)) \/ ~ecLeader \/ (ecServed.plain /\ ecServed.retried))
=============================================================================
