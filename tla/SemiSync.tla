------------------------------ MODULE SemiSync ------------------------------
(***************************************************************************)
(* MySQL with semi-synchronous replication: promote, demote, follow and    *)
(* the safety check of each cycle (patroni/mysql/__init__.py, and          *)
(* _demote_mysql of patroni/ha.py).                                        *)
(*                                                                         *)
(* A commit is acknowledged to its client when WaitCount replicas have it, *)
(* as long as the source plugin of the server is on.  A server that has    *)
(* failed does not return.  A lock expires only when its holder has failed *)
(* or has demoted itself.                                                  *)
(***************************************************************************)
EXTENDS Integers, FiniteSets

CONSTANTS SsNodes,       \* servers
          SsNone,        \* no server
          ClusterSize,   \* parameter cluster_size, three or more
          MaxCommits,    \* bound: commits
          MaxSsEvents    \* bound: failures

ASSUME SemiSyncAssumption ==
    SsNone \notin SsNodes /\ ClusterSize \in Nat \ 0..2 /\ MaxCommits \in Nat /\ MaxSsEvents \in Nat

VARIABLES ssUp,       \* servers that run
          ssLock,     \* holder of the leader key
          ssFrom,     \* CHANGE MASTER: where a server replicates from
          ssLinked,   \* servers whose replication works
          ssReadOnly, \* servers with super_read_only
          ssOn,       \* servers whose source plugin is on
          ssLog,      \* commits in the log of a server
          ssSafe,     \* commits acknowledged with the plugin on
          ssLoose,    \* commits acknowledged with the plugin off
          ssKeys,     \* members in the DCS
          ssStep,     \* progress of promote
          ssTotal, ssEvents

ssVars == <<ssUp, ssLock, ssFrom, ssLinked, ssReadOnly, ssOn, ssLog, ssSafe, ssLoose, ssKeys, ssStep, ssTotal, ssEvents>>
ssData == <<ssLog, ssSafe, ssLoose, ssTotal>>
ssServers == <<ssUp, ssFrom, ssLinked, ssReadOnly, ssOn>>

\* A running cluster: one primary, enabled by Patroni; the source plugin is off on the others.
SsInit ==
    /\ \E p \in SsNodes :
          /\ ssLock = p /\ ssOn = {p} /\ ssReadOnly = SsNodes \ {p}
          /\ ssFrom = [n \in SsNodes |-> IF n = p THEN SsNone ELSE p]
    /\ ssUp = SsNodes /\ ssLinked = SsNodes /\ ssKeys = SsNodes
    /\ ssLog = [n \in SsNodes |-> {}] /\ ssSafe = {} /\ ssLoose = {}
    /\ ssStep = [n \in SsNodes |-> "idle"]
    /\ ssTotal = 0 /\ ssEvents = 0

SsEvent == ssEvents < MaxSsEvents /\ ssEvents' = ssEvents + 1
SsGoes(n, step) == ssStep' = [ssStep EXCEPT ![n] = step]

\* is_primary: SHOW SLAVE STATUS is empty
SsIsPrimary(n) == n \in ssUp /\ ssFrom[n] = SsNone

\* count_semi_sync_replicas
SemiSyncReplicas(p) == {n \in ssUp \intersect ssLinked : ssFrom[n] = p}

\* Altered form: half of the replicas.
WaitCountHalf == (ClusterSize - 1) \div 4

\* _configure_semi_sync_wait_count
WaitCount == IF (ClusterSize - 1) \div 2 > 1 THEN (ClusterSize - 1) \div 2 ELSE 1

-----------------------------------------------------------------------------
(***************************************************************************)
(* MySQL.                                                                  *)
(***************************************************************************)

\* A commit of a server whose plugin is off is acknowledged at once.
SsCommit(p) ==
    /\ SsIsPrimary(p) /\ p \notin ssReadOnly /\ ssTotal < MaxCommits
    /\ ssTotal' = ssTotal + 1
    /\ ssLog' = [ssLog EXCEPT ![p] = @ \union {ssTotal + 1}]
    /\ ssLoose' = IF p \in ssOn THEN ssLoose ELSE ssLoose \union {ssTotal + 1}
    /\ UNCHANGED <<ssServers, ssLock, ssSafe, ssKeys, ssStep, ssEvents>>

SsReplicate(n) ==
    /\ n \in ssUp \intersect ssLinked /\ ssFrom[n] \in ssUp
    /\ \E c \in ssLog[ssFrom[n]] \ ssLog[n] :
          /\ \A d \in ssLog[ssFrom[n]] \ ssLog[n] : c <= d
          /\ ssLog' = [ssLog EXCEPT ![n] = @ \union {c}]
    /\ UNCHANGED <<ssServers, ssLock, ssSafe, ssLoose, ssKeys, ssStep, ssTotal, ssEvents>>

\* The others wait for enough replicas, for ever in a cluster of three or more nodes (_configure_semi_sync_timeout).
SsAcknowledge(p) ==
    /\ p \in ssUp \intersect ssOn
    /\ \E c \in ssLog[p] \ (ssSafe \union ssLoose) :
          /\ Cardinality({n \in SsNodes \ {p} : c \in ssLog[n]}) >= WaitCount
          /\ ssSafe' = ssSafe \union {c}
    /\ UNCHANGED <<ssServers, ssLock, ssLog, ssLoose, ssKeys, ssStep, ssTotal, ssEvents>>

\* The replication of a server stops, and works again.
SsUnlink(n) ==
    /\ n \in ssLinked /\ SsEvent
    /\ ssLinked' = ssLinked \ {n}
    /\ UNCHANGED <<ssUp, ssFrom, ssReadOnly, ssOn, ssLock, ssData, ssKeys, ssStep>>

SsLink(n) ==
    /\ n \notin ssLinked
    /\ ssLinked' = ssLinked \union {n}
    /\ UNCHANGED <<ssUp, ssFrom, ssReadOnly, ssOn, ssLock, ssData, ssKeys, ssStep, ssEvents>>

\* The primary fails for good.
SsFail(n) ==
    /\ SsIsPrimary(n) /\ ssUp = SsNodes /\ SsEvent
    /\ ssUp' = ssUp \ {n}
    /\ SsGoes(n, "idle")
    /\ UNCHANGED <<ssFrom, ssLinked, ssReadOnly, ssOn, ssLock, ssData, ssKeys>>

-----------------------------------------------------------------------------
(***************************************************************************)
(* The DCS.                                                                *)
(***************************************************************************)

\* A holder that is down or has demoted itself loses the lock.
SsLockExpires ==
    /\ ssLock # SsNone /\ (ssLock \notin ssUp \/ ssStep[ssLock] = "demoted")
    /\ ssLock' = SsNone /\ ssKeys' = ssKeys \ {ssLock}
    /\ UNCHANGED <<ssServers, ssData, ssStep, ssEvents>>

SsKeyExpires(n) ==
    /\ n \in ssKeys /\ n \notin ssUp
    /\ ssKeys' = ssKeys \ {n}
    /\ UNCHANGED <<ssServers, ssLock, ssData, ssStep, ssEvents>>

-----------------------------------------------------------------------------
(***************************************************************************)
(* Patroni.                                                                *)
(***************************************************************************)

\* The race: no node that answers has more.
SsRace(n) ==
    /\ ssLock = SsNone /\ n \in ssUp /\ ssStep[n] \in {"idle", "demoted"}
    /\ \A m \in ssUp : Cardinality(ssLog[m]) <= Cardinality(ssLog[n])
    /\ ssLock' = n /\ ssKeys' = ssKeys \union {n}
    /\ SsGoes(n, "promote")
    /\ UNCHANGED <<ssServers, ssData, ssEvents>>

\* promote: a server that does not replicate is left as it is
SsAlreadyPrimary(n) ==
    /\ ssStep[n] = "promote" /\ SsIsPrimary(n)
    /\ SsGoes(n, "idle")
    /\ UNCHANGED <<ssServers, ssLock, ssData, ssKeys, ssEvents>>

\* STOP SLAVE, RESET SLAVE ALL, set_read_write
SsPromote(n) ==
    /\ ssStep[n] = "promote" /\ n \in ssUp /\ ~SsIsPrimary(n)
    /\ ssFrom' = [ssFrom EXCEPT ![n] = SsNone]
    /\ ssReadOnly' = ssReadOnly \ {n}
    /\ SsGoes(n, "writable")
    /\ UNCHANGED <<ssUp, ssLinked, ssOn, ssLock, ssData, ssKeys, ssEvents>>

\* _enable_semi_sync, whose failure is only logged
SsEnable(n) ==
    /\ ssStep[n] = "writable" /\ n \in ssUp
    /\ \/ ssOn' = ssOn \union {n} /\ UNCHANGED ssEvents
       \/ SsEvent /\ UNCHANGED ssOn
    /\ SsGoes(n, "idle")
    /\ UNCHANGED <<ssUp, ssFrom, ssLinked, ssReadOnly, ssLock, ssData, ssKeys>>

\* run_semi_sync_safety_check of the lock holder, with the members in the DCS as the size of the cluster; the role
\* of a server that does not replicate becomes primary again (enforce_primary_role)
SafetyCheck(p) ==
    /\ p = ssLock /\ SsIsPrimary(p) /\ ssStep[p] \in {"idle", "demoted"}
    /\ ssReadOnly' = IF Cardinality(SemiSyncReplicas(p)) < Cardinality(ssKeys) \div 2
                     THEN ssReadOnly \union {p} ELSE ssReadOnly \ {p}
    /\ SsGoes(p, "idle")
    /\ UNCHANGED <<ssUp, ssFrom, ssLinked, ssOn, ssLock, ssData, ssKeys, ssEvents>>

\* The DCS cannot be reached: read-only, the plugin off (_demote_mysql, mode offline); nothing to follow.
SsDemote(p) ==
    /\ p = ssLock /\ SsIsPrimary(p) /\ ssStep[p] = "idle" /\ SsEvent
    /\ ssReadOnly' = ssReadOnly \union {p}
    /\ ssOn' = ssOn \ {p}
    /\ SsGoes(p, "demoted")
    /\ UNCHANGED <<ssUp, ssFrom, ssLinked, ssLock, ssData, ssKeys>>

\* follow: CHANGE MASTER, read-only, the replica plugin on
SsFollow(n) ==
    /\ n \in ssUp /\ ssStep[n] \in {"idle", "demoted"} /\ ssLock \in ssUp \ {n} /\ ssFrom[n] # ssLock
    /\ ssFrom' = [ssFrom EXCEPT ![n] = ssLock]
    /\ ssReadOnly' = ssReadOnly \union {n}
    /\ ssKeys' = ssKeys \union {n}
    /\ SsGoes(n, "idle")
    /\ UNCHANGED <<ssUp, ssLinked, ssOn, ssLock, ssData, ssEvents>>

-----------------------------------------------------------------------------
SsNext ==
    \/ \E n \in SsNodes :
          \/ SsCommit(n) \/ SsReplicate(n) \/ SsAcknowledge(n) \/ SsUnlink(n) \/ SsLink(n) \/ SsFail(n)
          \/ SsKeyExpires(n) \/ SsRace(n) \/ SsAlreadyPrimary(n) \/ SsPromote(n) \/ SsEnable(n)
          \/ SafetyCheck(n) \/ SsDemote(n) \/ SsFollow(n)
    \/ SsLockExpires

\* Each node runs its cycles; replication that works goes on.
SsFairness ==
    /\ \A n \in SsNodes :
          WF_ssVars(SafetyCheck(n)) /\ WF_ssVars(SsPromote(n) \/ SsAlreadyPrimary(n) \/ SsEnable(n)) /\ WF_ssVars(SsFollow(n))
          /\ WF_ssVars(SsLink(n))
    /\ WF_ssVars(SsLockExpires) /\ WF_ssVars(\E n \in SsNodes : SsRace(n))

SsSpec == SsInit /\ [][SsNext]_ssVars /\ SsFairness

-----------------------------------------------------------------------------
\* Type invariant.
SsTypeOK ==
    /\ {ssUp, ssLinked, ssReadOnly, ssOn, ssKeys} \subseteq SUBSET SsNodes
    /\ ssLock \in SsNodes \union {SsNone} /\ ssFrom \in [SsNodes -> SsNodes \union {SsNone}]
    /\ ssLog \in [SsNodes -> SUBSET (1..MaxCommits)] /\ ssSafe \union ssLoose \subseteq 1..MaxCommits
    /\ ssStep \in [SsNodes -> {"idle", "promote", "writable", "demoted"}]

\* A commit that was acknowledged by replicas is on the server that the cluster writes to next, whichever fails.
AcknowledgedKept == \A n \in SsNodes : ssLock = n /\ n \in ssUp => ssSafe \subseteq ssLog[n]

\* A commit waits until it is on the source and acknowledged by enough replicas.
CommitWaitsForReplicas ==
    \A c \in ssSafe \union ssLoose : Cardinality({n \in SsNodes : c \in ssLog[n]}) >= WaitCount + 1

\* Whatever fails, the cluster has a primary that can be written to again, or too few replicas are connected to it.
WritableAgain ==
    []<>\E n \in SsNodes :
          ssLock = n /\ SsIsPrimary(n)
          /\ (n \notin ssReadOnly \/ Cardinality(SemiSyncReplicas(n)) < Cardinality(ssKeys) \div 2)
=============================================================================
