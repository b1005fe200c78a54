---------------------------- MODULE QuorumProofs ----------------------------
(***************************************************************************)
(* Counting servers.                                                       *)
(*                                                                         *)
(* The arithmetic of QuorumStateResolver for any number of nodes: what its *)
(* check_invariants compares implies that quorums really have a node in    *)
(* common, and an update that is not refused has been compared.            *)
(*                                                                         *)
(* Semi-synchronous replication of MySQL for any number of servers: a      *)
(* commit that enough replicas acknowledged is on the next primary.        *)
(*                                                                         *)
(* Group replication of MySQL for any number of members: who bootstraps a  *)
(* new group has every transaction that was published.                     *)
(*                                                                         *)
(* Quorum commit of PostgreSQL for any cluster: at every step between two  *)
(* consistent settings, who may acknowledge and who may elect overlap, so  *)
(* that a commit is on whoever wins the next leader race.                  *)
(***************************************************************************)
EXTENDS QuorumCommit, SemiSync, GroupReplication, FiniteSetTheorems, TLAPS

\* The part of a resolver record that check_invariants looks at.
WellFormed(r) ==
    /\ r.leader \in Nodes
    /\ r.leaderWanted \in Nodes
    /\ r.voters \in SUBSET Nodes
    /\ r.sync \in SUBSET Nodes
    /\ r.quorum \in Int
    /\ r.numsync \in Int

(***************************************************************************)
(* Two sets with more members than there is room for have a member in      *)
(* common.                                                                 *)
(***************************************************************************)
LEMMA Pigeonhole ==
    ASSUME NEW U, IsFiniteSet(U), NEW E \in SUBSET U, NEW A \in SUBSET U,
           Cardinality(U) < Cardinality(E) + Cardinality(A)
    PROVE  E \intersect A # {}
<1>1. IsFiniteSet(E) /\ IsFiniteSet(A)
  BY FS_Subset
<1>2. Cardinality(E \union A) = Cardinality(E) + Cardinality(A) - Cardinality(E \intersect A)
  BY <1>1, FS_Union
<1>3. Cardinality(E \union A) <= Cardinality(U) /\ Cardinality(U) \in Nat
  <2>1. E \union A \subseteq U
    OBVIOUS
  <2>2. QED BY <2>1, FS_Subset, FS_CardinalityType
<1>4. Cardinality(E) \in Nat /\ Cardinality(A) \in Nat /\ Cardinality(E \union A) \in Nat
  BY <1>1, FS_CardinalityType, FS_Union
<1>5. SUFFICES ASSUME E \intersect A = {} PROVE FALSE
  OBVIOUS
<1>6. Cardinality(E \intersect A) = 0
  BY <1>5, FS_EmptySet
<1> QED BY <1>2, <1>3, <1>4, <1>6

(***************************************************************************)
(* check_invariants means what the comment in it says: if it passes, every *)
(* group of quorum + 1 members of the /sync key shares a node with every   *)
(* group of numsync listed standbys together with the primary.  This is    *)
(* QuorumsOverlap of module QuorumCommit, for any number of nodes.         *)
(***************************************************************************)
THEOREM CheckedQuorumsOverlap ==
    ASSUME NEW r, WellFormed(r), InvariantsHold(r), r.voters # {},
           r.leaderWanted \notin r.sync,
           NEW E \in SUBSET (r.voters \union {r.leader}), Cardinality(E) = r.quorum + 1,
           NEW A \in SUBSET r.sync, Cardinality(A) = r.numsync
    PROVE  E \intersect (A \union {r.leaderWanted}) # {}
<1> DEFINE U == (r.voters \union {r.leader}) \union (r.sync \union {r.leaderWanted})
           B == A \union {r.leaderWanted}
<1>1. IsFiniteSet(U)
  <2>1. U \subseteq Nodes
    BY DEF WellFormed
  <2>2. QED BY <2>1, NodesAssumption, FS_Subset
<1>2. Cardinality(U) <= r.quorum + r.numsync + 1
  BY DEF InvariantsHold
<1>3. E \in SUBSET U /\ B \in SUBSET U
  OBVIOUS
<1>4. IsFiniteSet(A)
  <2>1. A \subseteq U
    OBVIOUS
  <2>2. QED BY <1>1, <2>1, FS_Subset
<1>5. Cardinality(B) = r.numsync + 1
  <2>1. r.leaderWanted \notin A
    OBVIOUS
  <2>2. QED BY <1>4, <2>1, FS_AddElement
<1>6. Cardinality(U) < Cardinality(E) + Cardinality(B)
  <2>1. Cardinality(U) \in Nat
    BY <1>1, FS_CardinalityType
  <2> HIDE DEF U, B
  <2> QED BY <1>2, <1>5, <2>1 DEF WellFormed
<1> HIDE DEF U, B
<1>7. E \intersect B # {}
  BY <1>1, <1>3, <1>6, Pigeonhole
<1> QED BY <1>7 DEF B
-----------------------------------------------------------------------------
(***************************************************************************)
(* Semi-synchronous replication of MySQL.                                  *)
(***************************************************************************)

\* The log A is the beginning of the log B.
Prefix(A, B) ==
    /\ A \subseteq B
    /\ \A c \in A, d \in B : d <= c => d \in A

\* Only the holder of the lock is promoted, and a server that can be written to holds it.
LockGuards ==
    /\ \A n \in ssUp : ssStep[n] \in {"promote", "writable"} => ssLock = n
    /\ \A n \in ssUp : ssStep[n] = "demoted" => n \in ssReadOnly
    /\ \A n \in ssUp : n \notin ssReadOnly /\ ssFrom[n] = SsNone => ssLock = n

\* No log is ahead of the numbers that were given out.
Numbered == ssTotal \in Nat /\ ssTotal <= MaxCommits /\ \A n \in SsNodes : \A c \in ssLog[n] : c <= ssTotal

\* Of two servers that run, one has the beginning of the log of the other.
OneHistory == \A m, n \in ssUp : Prefix(ssLog[m], ssLog[n]) \/ Prefix(ssLog[n], ssLog[m])

\* A holder of the lock that runs has the longest log.
HolderHasAll == ssLock \in ssUp => \A m \in ssUp : Prefix(ssLog[m], ssLog[ssLock])

(***************************************************************************)
(* A commit acknowledged by replicas is on two servers while all run, and  *)
(* on one of those that run afterwards.                                    *)
(***************************************************************************)
SafeIsHeld ==
    \A c \in ssSafe :
        /\ \E n \in ssUp : c \in ssLog[n]
        /\ ssUp = SsNodes => \E m, n \in SsNodes : m # n /\ c \in ssLog[m] /\ c \in ssLog[n]

SsInv == SsTypeOK /\ LockGuards /\ Numbered /\ OneHistory /\ HolderHasAll /\ SafeIsHeld

-----------------------------------------------------------------------------
(***************************************************************************)
(* A replica that takes the first commit it misses of its source still has *)
(* the beginning of every log it had the beginning of.                     *)
(***************************************************************************)
LEMMA TakesPrefix ==
    ASSUME NEW A \in SUBSET Nat, NEW F \in SUBSET Nat, NEW L \in SUBSET Nat, NEW c \in F \ A,
           \A d \in F \ A : c <= d, Prefix(A, L), Prefix(F, L)
    PROVE  Prefix(A \union {c}, L)
<1>1. A \union {c} \subseteq L
  BY DEF Prefix
<1>2. ASSUME NEW x \in A \union {c}, NEW d \in L, d <= x
      PROVE  d \in A \union {c}
  <2>1. CASE x \in A
    BY <1>2, <2>1 DEF Prefix
  <2>2. CASE x = c
    <3>1. d \in F
      BY <1>2, <2>2 DEF Prefix
    <3>2. d \in F \ A => c <= d
      OBVIOUS
    <3>3. c \in Nat /\ d \in Nat
      OBVIOUS
    <3> QED BY <1>2, <2>2, <3>1, <3>2, <3>3
  <2> QED BY <2>1, <2>2
<1> QED BY <1>1, <1>2 DEF Prefix

\* It stays comparable with any log that was comparable with its own and that of its source.
LEMMA TakesComparable ==
    ASSUME NEW A \in SUBSET Nat, NEW F \in SUBSET Nat, NEW B \in SUBSET Nat, NEW c \in F \ A,
           \A d \in F \ A : c <= d, Prefix(A, F),
           Prefix(A, B) \/ Prefix(B, A), Prefix(F, B) \/ Prefix(B, F)
    PROVE  Prefix(A \union {c}, B) \/ Prefix(B, A \union {c})
<1>0. c \in Nat
  OBVIOUS
<1>1. CASE Prefix(B, A)
  <2>1. B \subseteq A \union {c}
    BY <1>1 DEF Prefix
  <2>2. ASSUME NEW x \in B, NEW d \in A \union {c}, d <= x
        PROVE  d \in B
    <3>1. CASE d \in A
      BY <1>1, <2>2, <3>1 DEF Prefix
    <3>2. CASE d = c
      <4>1. x \in A
        BY <1>1 DEF Prefix
      <4>2. c \in A
        BY <2>2, <3>2, <4>1 DEF Prefix
      <4> QED BY <4>2
    <3> QED BY <3>1, <3>2
  <2> QED BY <2>1, <2>2 DEF Prefix
<1>2. CASE Prefix(A, B) /\ Prefix(F, B)
  BY <1>2, TakesPrefix
<1>3. CASE Prefix(A, B) /\ Prefix(B, F) /\ c \in B
  <2>1. A \union {c} \subseteq B
    BY <1>3 DEF Prefix
  <2>2. ASSUME NEW x \in A \union {c}, NEW d \in B, d <= x
        PROVE  d \in A \union {c}
    <3>1. CASE x \in A
      BY <1>3, <2>2, <3>1 DEF Prefix
    <3>2. CASE x = c
      <4>1. d \in F
        BY <1>3 DEF Prefix
      <4>2. d \in F \ A => c <= d
        OBVIOUS
      <4>3. d \in Nat
        OBVIOUS
      <4> QED BY <1>0, <2>2, <3>2, <4>1, <4>2, <4>3
    <3> QED BY <3>1, <3>2
  <2> QED BY <2>1, <2>2 DEF Prefix
<1>4. CASE Prefix(A, B) /\ Prefix(B, F) /\ c \notin B
  <2>1. B \subseteq A
    <3> SUFFICES ASSUME NEW x \in B, x \notin A PROVE FALSE
      OBVIOUS
    <3>1. x \in F \ A
      BY <1>4 DEF Prefix
    <3>2. c <= x
      BY <3>1
    <3> QED BY <1>4, <3>2 DEF Prefix
  <2>2. A = B
    BY <1>4, <2>1 DEF Prefix
  <2>3. Prefix(B, A)
    BY <1>4, <2>2
  <2> QED BY <1>1, <2>3
<1> QED BY <1>1, <1>2, <1>3, <1>4

\* Of two comparable logs the one with no more commits is the beginning of the other.
LEMMA FewerIsPrefix ==
    ASSUME NEW N \in Nat, NEW A \in SUBSET (1..N), NEW B \in SUBSET (1..N),
           Prefix(A, B) \/ Prefix(B, A), Cardinality(A) <= Cardinality(B)
    PROVE  Prefix(A, B)
<1>1. IsFiniteSet(1..N)
  BY FS_Interval
<1>2. IsFiniteSet(A) /\ IsFiniteSet(B)
  BY <1>1, FS_Subset
<1>3. Cardinality(A) \in Nat /\ Cardinality(B) \in Nat
  BY <1>2, FS_CardinalityType
<1>4. CASE Prefix(B, A)
  <2>1. B \in SUBSET A
    BY <1>4 DEF Prefix
  <2>2. Cardinality(B) <= Cardinality(A) /\ (Cardinality(A) = Cardinality(B) => A = B)
    BY <1>2, <2>1, FS_Subset
  <2>3. A = B
    BY <1>3, <2>2
  <2> QED BY <1>4, <2>3
<1> QED BY <1>4

\* The plugin waits for one replica at least.
LEMMA WaitsForOne == WaitCount \in Nat /\ WaitCount >= 1
  BY SemiSyncAssumption DEF WaitCount

-----------------------------------------------------------------------------
LEMMA SsInitial == SsInit => SsInv
<1> SUFFICES ASSUME SsInit PROVE SsInv
  OBVIOUS
<1> USE SemiSyncAssumption
<1>1. SsTypeOK
  BY DEF SsInit, SsTypeOK
<1>2. LockGuards
  BY DEF SsInit, LockGuards
<1>3. Numbered
  BY DEF SsInit, Numbered
<1>4. OneHistory
  BY DEF SsInit, OneHistory, Prefix
<1>5. HolderHasAll
  BY DEF SsInit, HolderHasAll, Prefix
<1>6. SafeIsHeld
  BY DEF SsInit, SafeIsHeld
<1> QED BY <1>1, <1>2, <1>3, <1>4, <1>5, <1>6 DEF SsInv

LEMMA SsTypes == SsInv /\ [SsNext]_ssVars => SsTypeOK'
<1> SUFFICES ASSUME SsInv, [SsNext]_ssVars PROVE SsTypeOK'
  OBVIOUS
<1> USE SemiSyncAssumption DEF SsInv, SsTypeOK, Numbered
<1>1. ASSUME NEW n \in SsNodes, SsCommit(n) PROVE SsTypeOK'
  BY <1>1 DEF SsCommit, ssServers
<1>2. ASSUME NEW n \in SsNodes, SsReplicate(n) PROVE SsTypeOK'
  BY <1>2 DEF SsReplicate, ssServers
<1>3. ASSUME NEW n \in SsNodes, SsAcknowledge(n) PROVE SsTypeOK'
  BY <1>3 DEF SsAcknowledge, ssServers
<1>4. ASSUME NEW n \in SsNodes, SsUnlink(n) \/ SsLink(n) PROVE SsTypeOK'
  BY <1>4 DEF SsUnlink, SsLink, ssData
<1>5. ASSUME NEW n \in SsNodes, SsFail(n) PROVE SsTypeOK'
  BY <1>5 DEF SsFail, SsGoes, ssData
<1>6. ASSUME NEW n \in SsNodes, SsKeyExpires(n) PROVE SsTypeOK'
  BY <1>6 DEF SsKeyExpires, ssData, ssServers
<1>7. ASSUME NEW n \in SsNodes, SsRace(n) PROVE SsTypeOK'
  BY <1>7 DEF SsRace, SsGoes, ssData, ssServers
<1>8. ASSUME NEW n \in SsNodes, SsAlreadyPrimary(n) PROVE SsTypeOK'
  BY <1>8 DEF SsAlreadyPrimary, SsGoes, ssData, ssServers
<1>9. ASSUME NEW n \in SsNodes, SsPromote(n) PROVE SsTypeOK'
  BY <1>9 DEF SsPromote, SsGoes, ssData
<1>10. ASSUME NEW n \in SsNodes, SsEnable(n) PROVE SsTypeOK'
  BY <1>10 DEF SsEnable, SsGoes, ssData
<1>11. ASSUME NEW n \in SsNodes, SafetyCheck(n) PROVE SsTypeOK'
  BY <1>11 DEF SafetyCheck, SsGoes, ssData
<1>12. ASSUME NEW n \in SsNodes, SsDemote(n) PROVE SsTypeOK'
  BY <1>12 DEF SsDemote, SsGoes, ssData
<1>13. ASSUME NEW n \in SsNodes, SsFollow(n) PROVE SsTypeOK'
  BY <1>13 DEF SsFollow, SsGoes, ssData
<1>14. ASSUME SsLockExpires PROVE SsTypeOK'
  BY <1>14 DEF SsLockExpires, ssData, ssServers
<1>15. CASE UNCHANGED ssVars
  BY <1>15 DEF ssVars
<1> QED BY <1>1, <1>2, <1>3, <1>4, <1>5, <1>6, <1>7, <1>8, <1>9, <1>10, <1>11, <1>12, <1>13, <1>14, <1>15 DEF SsNext

LEMMA SsLockGuarded == SsInv /\ [SsNext]_ssVars => LockGuards'
<1> SUFFICES ASSUME SsInv, [SsNext]_ssVars PROVE LockGuards'
  OBVIOUS
<1> USE SemiSyncAssumption DEF SsInv, SsTypeOK, LockGuards
<1>1. ASSUME NEW n \in SsNodes, SsCommit(n) PROVE LockGuards'
  BY <1>1 DEF SsCommit, ssServers
<1>2. ASSUME NEW n \in SsNodes, SsReplicate(n) PROVE LockGuards'
  BY <1>2 DEF SsReplicate, ssServers
<1>3. ASSUME NEW n \in SsNodes, SsAcknowledge(n) PROVE LockGuards'
  BY <1>3 DEF SsAcknowledge, ssServers
<1>4. ASSUME NEW n \in SsNodes, SsUnlink(n) PROVE LockGuards'
  BY <1>4 DEF SsUnlink, ssData
<1>5. ASSUME NEW n \in SsNodes, SsLink(n) PROVE LockGuards'
  BY <1>5 DEF SsLink, ssData
<1>6. ASSUME NEW n \in SsNodes, SsFail(n) PROVE LockGuards'
  BY <1>6 DEF SsFail, SsGoes, ssData
<1>7. ASSUME NEW n \in SsNodes, SsKeyExpires(n) PROVE LockGuards'
  BY <1>7 DEF SsKeyExpires, ssData, ssServers
<1>8. ASSUME NEW n \in SsNodes, SsRace(n) PROVE LockGuards'
  BY <1>8 DEF SsRace, SsGoes, ssData, ssServers
<1>9. ASSUME NEW n \in SsNodes, SsAlreadyPrimary(n) PROVE LockGuards'
  BY <1>9 DEF SsAlreadyPrimary, SsGoes, ssData, ssServers
<1>10. ASSUME NEW n \in SsNodes, SsPromote(n) PROVE LockGuards'
  BY <1>10 DEF SsPromote, SsGoes, ssData
<1>11. ASSUME NEW n \in SsNodes, SsEnable(n) PROVE LockGuards'
  BY <1>11 DEF SsEnable, SsGoes, ssData
<1>12. ASSUME NEW n \in SsNodes, SafetyCheck(n) PROVE LockGuards'
  BY <1>12 DEF SafetyCheck, SsGoes, SsIsPrimary, ssData
<1>13. ASSUME NEW n \in SsNodes, SsDemote(n) PROVE LockGuards'
  BY <1>13 DEF SsDemote, SsGoes, SsIsPrimary, ssData
<1>14. ASSUME NEW n \in SsNodes, SsFollow(n) PROVE LockGuards'
  BY <1>14 DEF SsFollow, SsGoes, ssData
<1>15. ASSUME SsLockExpires PROVE LockGuards'
  BY <1>15 DEF SsLockExpires, ssServers
<1>16. CASE UNCHANGED ssVars
  BY <1>16 DEF ssVars
<1> QED BY <1>1, <1>2, <1>3, <1>4, <1>5, <1>6, <1>7, <1>8, <1>9, <1>10, <1>11, <1>12, <1>13, <1>14, <1>15, <1>16 DEF SsNext

\* Steps that leave the logs, and no server added to those that run, leave the histories comparable.
LEMMA SsHistory == SsInv /\ [SsNext]_ssVars => Numbered' /\ OneHistory'
<1> SUFFICES ASSUME SsInv, [SsNext]_ssVars PROVE Numbered' /\ OneHistory'
  OBVIOUS
<1> USE SemiSyncAssumption DEF SsInv
<1>0. ssUp \subseteq SsNodes /\ \A n \in SsNodes : ssLog[n] \in SUBSET (1..MaxCommits) /\ ssLog[n] \in SUBSET Nat
  BY DEF SsTypeOK
<1>1. ASSUME NEW p \in SsNodes, SsCommit(p) PROVE Numbered' /\ OneHistory'
  <2>1. p \in ssUp /\ ssLock = p /\ ssUp' = ssUp
    BY <1>1 DEF SsCommit, SsIsPrimary, LockGuards, ssServers
  <2>2. /\ ssLog'[p] = ssLog[p] \union {ssTotal + 1}
        /\ \A n \in SsNodes \ {p} : ssLog'[n] = ssLog[n]
        /\ ssTotal' = ssTotal + 1 /\ ssTotal < MaxCommits
    BY <1>1 DEF SsCommit, SsTypeOK
  <2>3. Numbered'
    BY <1>0, <2>2 DEF Numbered
  <2>4. ASSUME NEW m \in ssUp, m # p PROVE Prefix(ssLog'[m], ssLog'[p])
    <3>1. Prefix(ssLog[m], ssLog[p])
      BY <2>1 DEF HolderHasAll
    <3>2. \A c \in ssLog[m] : c \in Nat /\ c <= ssTotal
      BY <1>0 DEF Numbered
    <3>3. ssTotal \in Nat
      BY DEF Numbered
    <3> QED BY <1>0, <2>2, <2>4, <3>1, <3>2, <3>3 DEF Prefix
  <2>5. Prefix(ssLog'[p], ssLog'[p])
    BY DEF Prefix
  <2>6. ASSUME NEW m \in ssUp, NEW n \in ssUp
        PROVE  Prefix(ssLog'[m], ssLog'[n]) \/ Prefix(ssLog'[n], ssLog'[m])
    BY <1>0, <2>2, <2>4, <2>5 DEF OneHistory
  <2> QED BY <2>1, <2>3, <2>6 DEF OneHistory
<1>2. ASSUME NEW r \in SsNodes, SsReplicate(r) PROVE Numbered' /\ OneHistory'
  <2>1. r \in ssUp /\ ssFrom[r] \in ssUp /\ ssUp' = ssUp /\ ssTotal' = ssTotal
    BY <1>2 DEF SsReplicate, ssServers
  <2>2. PICK c \in ssLog[ssFrom[r]] \ ssLog[r] :
          /\ \A d \in ssLog[ssFrom[r]] \ ssLog[r] : c <= d
          /\ ssLog' = [ssLog EXCEPT ![r] = @ \union {c}]
    BY <1>2 DEF SsReplicate
  <2>3. /\ ssLog'[r] = ssLog[r] \union {c}
        /\ \A n \in SsNodes \ {r} : ssLog'[n] = ssLog[n]
    BY <2>2 DEF SsTypeOK
  <2>4. Numbered'
    BY <1>0, <2>1, <2>3 DEF Numbered
  <2>5. Prefix(ssLog[r], ssLog[ssFrom[r]])
    BY <2>1, <2>2 DEF OneHistory, Prefix
  <2>6. ASSUME NEW m \in ssUp, m # r
        PROVE  Prefix(ssLog'[r], ssLog'[m]) \/ Prefix(ssLog'[m], ssLog'[r])
    <3>1. /\ Prefix(ssLog[r], ssLog[m]) \/ Prefix(ssLog[m], ssLog[r])
          /\ Prefix(ssLog[ssFrom[r]], ssLog[m]) \/ Prefix(ssLog[m], ssLog[ssFrom[r]])
      BY <2>1 DEF OneHistory
    <3>2. /\ ssLog[r] \in SUBSET Nat /\ ssLog[m] \in SUBSET Nat
          /\ ssLog[ssFrom[r]] \in SUBSET Nat
      BY <1>0, <2>1
    <3>3. Prefix(ssLog[r] \union {c}, ssLog[m]) \/ Prefix(ssLog[m], ssLog[r] \union {c})
      BY <2>2, <2>5, <3>1, <3>2, TakesComparable
    <3> QED BY <1>0, <2>3, <2>6, <3>3
  <2>7. Prefix(ssLog'[r], ssLog'[r])
    BY DEF Prefix
  <2>8. ASSUME NEW m \in ssUp, NEW n \in ssUp
        PROVE  Prefix(ssLog'[m], ssLog'[n]) \/ Prefix(ssLog'[n], ssLog'[m])
    BY <1>0, <2>3, <2>6, <2>7 DEF OneHistory
  <2> QED BY <2>1, <2>4, <2>8 DEF OneHistory
<1>3. ASSUME ssUp' \subseteq ssUp, UNCHANGED <<ssLog, ssTotal>> PROVE Numbered' /\ OneHistory'
  BY <1>3 DEF Numbered, OneHistory
<1>4. CASE \E n \in SsNodes : SsCommit(n) \/ SsReplicate(n)
  BY <1>1, <1>2, <1>4
<1>5. CASE ~\E n \in SsNodes : SsCommit(n) \/ SsReplicate(n)
  <2>1. ssUp' \subseteq ssUp /\ UNCHANGED <<ssLog, ssTotal>>
    BY <1>5 DEF SsNext, ssVars, ssData, ssServers, SsAcknowledge, SsUnlink, SsLink, SsFail, SsKeyExpires, SsRace,
         SsAlreadyPrimary, SsPromote, SsEnable, SafetyCheck, SsDemote, SsFollow, SsLockExpires
  <2> QED BY <1>3, <2>1
<1> QED BY <1>4, <1>5

LEMMA SsHolder == SsInv /\ [SsNext]_ssVars => HolderHasAll'
<1> SUFFICES ASSUME SsInv, [SsNext]_ssVars PROVE HolderHasAll'
  OBVIOUS
<1> USE SemiSyncAssumption DEF SsInv
<1>0. ssUp \subseteq SsNodes /\ \A n \in SsNodes : ssLog[n] \in SUBSET (1..MaxCommits) /\ ssLog[n] \in SUBSET Nat
  BY DEF SsTypeOK
<1>1. ASSUME NEW p \in SsNodes, SsCommit(p) PROVE HolderHasAll'
  <2>1. p \in ssUp /\ ssLock = p /\ ssUp' = ssUp /\ ssLock' = ssLock
    BY <1>1 DEF SsCommit, SsIsPrimary, LockGuards, ssServers
  <2>2. /\ ssLog'[p] = ssLog[p] \union {ssTotal + 1}
        /\ \A n \in SsNodes \ {p} : ssLog'[n] = ssLog[n]
    BY <1>1 DEF SsCommit, SsTypeOK
  <2>4. ASSUME NEW m \in ssUp, m # p PROVE Prefix(ssLog'[m], ssLog'[p])
    <3>1. Prefix(ssLog[m], ssLog[p])
      BY <2>1 DEF HolderHasAll
    <3>2. \A c \in ssLog[m] : c \in Nat /\ c <= ssTotal
      BY <1>0 DEF Numbered
    <3>3. ssTotal \in Nat
      BY DEF Numbered
    <3> QED BY <1>0, <2>2, <2>4, <3>1, <3>2, <3>3 DEF Prefix
  <2>5. Prefix(ssLog'[p], ssLog'[p])
    BY DEF Prefix
  <2> QED BY <2>1, <2>4, <2>5 DEF HolderHasAll
<1>2. ASSUME NEW r \in SsNodes, SsReplicate(r), ssLock \in ssUp PROVE HolderHasAll'
  <2>1. r \in ssUp /\ ssFrom[r] \in ssUp /\ ssUp' = ssUp /\ ssLock' = ssLock
    BY <1>2 DEF SsReplicate, ssServers
  <2>2. PICK c \in ssLog[ssFrom[r]] \ ssLog[r] :
          /\ \A d \in ssLog[ssFrom[r]] \ ssLog[r] : c <= d
          /\ ssLog' = [ssLog EXCEPT ![r] = @ \union {c}]
    BY <1>2 DEF SsReplicate
  <2>3. /\ ssLog'[r] = ssLog[r] \union {c}
        /\ \A n \in SsNodes \ {r} : ssLog'[n] = ssLog[n]
    BY <2>2 DEF SsTypeOK
  <2>4. \A m \in ssUp : Prefix(ssLog[m], ssLog[ssLock])
    BY <1>2 DEF HolderHasAll
  <2>5. r # ssLock
    BY <2>1, <2>2, <2>4 DEF Prefix
  <2>6. Prefix(ssLog[r] \union {c}, ssLog[ssLock])
    <3>1. ssLog[r] \in SUBSET Nat /\ ssLog[ssLock] \in SUBSET Nat /\ ssLog[ssFrom[r]] \in SUBSET Nat
      BY <1>0, <1>2, <2>1
    <3> QED BY <2>1, <2>2, <2>4, <3>1, TakesPrefix
  <2> QED BY <1>0, <1>2, <2>1, <2>3, <2>4, <2>5, <2>6 DEF HolderHasAll
<1>3. ASSUME NEW n \in SsNodes, SsRace(n) PROVE HolderHasAll'
  <2>1. n \in ssUp /\ ssLock' = n /\ ssUp' = ssUp /\ ssLog' = ssLog
    BY <1>3 DEF SsRace, ssServers, ssData
  <2>2. ASSUME NEW m \in ssUp PROVE Prefix(ssLog[m], ssLog[n])
    <3>1. Cardinality(ssLog[m]) <= Cardinality(ssLog[n])
      BY <1>3 DEF SsRace
    <3>2. Prefix(ssLog[m], ssLog[n]) \/ Prefix(ssLog[n], ssLog[m])
      BY <2>1 DEF OneHistory
    <3>3. ssLog[m] \in SUBSET (1..MaxCommits) /\ ssLog[n] \in SUBSET (1..MaxCommits)
      BY <1>0
    <3> QED BY <3>1, <3>2, <3>3, FewerIsPrefix
  <2> QED BY <2>1, <2>2 DEF HolderHasAll
<1>4. ASSUME ssUp' \subseteq ssUp, ssLock' \in {ssLock, SsNone}, UNCHANGED ssLog PROVE HolderHasAll'
  BY <1>0, <1>4 DEF HolderHasAll
<1>5. CASE \E n \in SsNodes : SsCommit(n) \/ SsRace(n)
  BY <1>1, <1>3, <1>5
<1>6. CASE \E n \in SsNodes : SsReplicate(n)
  <2>1. UNCHANGED <<ssUp, ssLock>>
    BY <1>6 DEF SsReplicate, ssServers
  <2> QED BY <1>2, <1>6, <2>1 DEF HolderHasAll
<1>7. CASE ~\E n \in SsNodes : SsCommit(n) \/ SsRace(n) \/ SsReplicate(n)
  <2>1. ssUp' \subseteq ssUp /\ ssLock' \in {ssLock, SsNone} /\ UNCHANGED ssLog
    BY <1>7 DEF SsNext, ssVars, ssData, ssServers, SsAcknowledge, SsUnlink, SsLink, SsFail, SsKeyExpires,
         SsAlreadyPrimary, SsPromote, SsEnable, SafetyCheck, SsDemote, SsFollow, SsLockExpires
  <2> QED BY <1>4, <2>1
<1> QED BY <1>5, <1>6, <1>7

LEMMA SsHeld == SsInv /\ [SsNext]_ssVars => SafeIsHeld'
<1> SUFFICES ASSUME SsInv, [SsNext]_ssVars PROVE SafeIsHeld'
  OBVIOUS
<1> USE SemiSyncAssumption DEF SsInv
<1>0. ssUp \subseteq SsNodes /\ \A n \in SsNodes : ssLog[n] \in SUBSET (1..MaxCommits)
  BY DEF SsTypeOK
<1>1. ASSUME NEW p \in SsNodes, SsAcknowledge(p) PROVE SafeIsHeld'
  <2>1. PICK c \in ssLog[p] :
          /\ Cardinality({n \in SsNodes \ {p} : c \in ssLog[n]}) >= WaitCount
          /\ ssSafe' = ssSafe \union {c}
    BY <1>1 DEF SsAcknowledge
  <2>2. {n \in SsNodes \ {p} : c \in ssLog[n]} # {}
    <3>1. ASSUME {n \in SsNodes \ {p} : c \in ssLog[n]} = {} PROVE FALSE
      <4>1. Cardinality({n \in SsNodes \ {p} : c \in ssLog[n]}) = 0
        BY <3>1, FS_EmptySet
      <4> QED BY <2>1, <4>1, WaitsForOne
    <3> QED BY <3>1
  <2>3. PICK m \in SsNodes : m # p /\ c \in ssLog[m]
    BY <2>2
  <2>4. p \in ssUp /\ UNCHANGED <<ssUp, ssLog>>
    BY <1>1 DEF SsAcknowledge, ssServers
  <2> QED BY <2>1, <2>3, <2>4 DEF SafeIsHeld
<1>2. ASSUME NEW n \in SsNodes, SsFail(n) PROVE SafeIsHeld'
  <2>1. ssUp = SsNodes /\ ssUp' = SsNodes \ {n} /\ UNCHANGED <<ssLog, ssSafe>>
    BY <1>2 DEF SsFail, ssData
  <2>2. ssUp' # SsNodes
    BY <2>1
  <2> QED BY <2>1, <2>2 DEF SafeIsHeld
<1>3. ASSUME UNCHANGED <<ssUp, ssSafe>>, \A n \in SsNodes : ssLog[n] \subseteq ssLog'[n] PROVE SafeIsHeld'
  BY <1>0, <1>3 DEF SafeIsHeld
<1>4. CASE \E n \in SsNodes : SsAcknowledge(n) \/ SsFail(n)
  BY <1>1, <1>2, <1>4
<1>5. CASE \E n \in SsNodes : SsCommit(n) \/ SsReplicate(n)
  <2>1. UNCHANGED <<ssUp, ssSafe>> /\ \A n \in SsNodes : ssLog[n] \subseteq ssLog'[n]
    BY <1>5 DEF SsCommit, SsReplicate, ssServers, SsTypeOK
  <2> QED BY <1>3, <2>1
<1>6. CASE ~\E n \in SsNodes : SsAcknowledge(n) \/ SsFail(n) \/ SsCommit(n) \/ SsReplicate(n)
  <2>1. UNCHANGED <<ssUp, ssSafe, ssLog>>
    BY <1>6 DEF SsNext, ssVars, ssData, ssServers, SsUnlink, SsLink, SsKeyExpires, SsRace,
         SsAlreadyPrimary, SsPromote, SsEnable, SafetyCheck, SsDemote, SsFollow, SsLockExpires
  <2> QED BY <1>3, <2>1
<1> QED BY <1>4, <1>5, <1>6

(***************************************************************************)
(* A commit that was acknowledged by replicas is on the server that the    *)
(* cluster writes to next, however many servers and replicas to wait for:  *)
(* the source plugin waits for a replica, the logs are beginnings of one   *)
(* history, and the race is won by the longest of those that run.          *)
(***************************************************************************)
THEOREM AcknowledgedKeptCorrect == SsSpec => []AcknowledgedKept
<1>1. SsInit => SsInv
  BY SsInitial
<1>2. SsInv /\ [SsNext]_ssVars => SsInv'
  BY SsTypes, SsLockGuarded, SsHistory, SsHolder, SsHeld DEF SsInv
<1>3. SsInv => AcknowledgedKept
  BY DEF SsInv, AcknowledgedKept, SafeIsHeld, HolderHasAll, Prefix
<1> QED BY <1>1, <1>2, <1>3, PTL DEF SsSpec

-----------------------------------------------------------------------------
(***************************************************************************)
(* Group replication of MySQL.                                             *)
(***************************************************************************)

(***************************************************************************)
(* A set of numbers has a least one: of the intervals that end in its      *)
(* members one contains no other.                                          *)
(***************************************************************************)
LEMMA LeastNumber ==
  ASSUME NEW T \in SUBSET Nat, T # {}
  PROVE  \E x \in T : \A y \in T : x <= y
<1> DEFINE Ends == {0..x : x \in T}
<1>1. Ends \subseteq FiniteSubsetsOf(Nat) /\ Ends # {}
  <2>1. ASSUME NEW x \in T PROVE 0..x \in FiniteSubsetsOf(Nat)
    <3>1. IsFiniteSet(0..x)
      BY FS_Interval
    <3> QED BY <3>1 DEF FiniteSubsetsOf
  <2> QED BY <2>1
<1>2. \E I \in Ends : \A J \in Ends : <<J, I>> \notin StrictSubsetOrdering(Nat)
  <2> HIDE DEF Ends
  <2> QED BY <1>1, FS_StrictSubsetOrderingWellFounded, WFMin
<1>3. PICK x \in T : \A J \in Ends : <<J, 0..x>> \notin StrictSubsetOrdering(Nat)
  BY <1>2
<1>4. ASSUME NEW y \in T, y < x PROVE FALSE
  <2>1. 0..y \subseteq 0..x /\ 0..y # 0..x /\ 0..y \in SUBSET Nat /\ 0..x \in SUBSET Nat
    <3>1. x \in 0..x /\ x \notin 0..y
      BY <1>4
    <3> QED BY <1>4, <3>1
  <2> QED BY <1>3, <2>1 DEF StrictSubsetOrdering
<1> QED BY <1>4

LEMMA MinIsLeast ==
  ASSUME NEW T \in SUBSET Nat, T # {}
  PROVE  Min(T) \in T /\ \A y \in T : Min(T) <= y
  BY LeastNumber DEF Min

\* A candidate is not beyond every maximal one.
LEMMA MaximalAbove ==
  ASSUME NEW N, NEW K \in Nat, NEW gtid \in [N -> SUBSET (1..K)], NEW c \in Candidates(gtid)
  PROVE  \E m \in Maximal(gtid) : gtid[c] \subseteq gtid[m]
<1> DEFINE Above == {n \in Candidates(gtid) : gtid[c] \subseteq gtid[n]}
           Lacks(n) == K - Cardinality(gtid[n])
<1>1. \A n \in N : IsFiniteSet(gtid[n]) /\ Cardinality(gtid[n]) \in Nat /\ Cardinality(gtid[n]) <= K
  <2> SUFFICES ASSUME NEW n \in N PROVE IsFiniteSet(gtid[n]) /\ Cardinality(gtid[n]) \in Nat /\ Cardinality(gtid[n]) <= K
    OBVIOUS
  <2>1. IsFiniteSet(1..K) /\ Cardinality(1..K) = K
    BY FS_Interval
  <2>2. gtid[n] \in SUBSET (1..K)
    OBVIOUS
  <2>3. IsFiniteSet(gtid[n]) /\ Cardinality(gtid[n]) <= Cardinality(1..K)
    BY <2>1, <2>2, FS_Subset
  <2> QED BY <2>1, <2>3, FS_CardinalityType
<1>2. {Lacks(n) : n \in Above} \in SUBSET Nat /\ {Lacks(n) : n \in Above} # {}
  BY <1>1 DEF Candidates
<1>3. PICK m \in Above : \A n \in Above : Lacks(m) <= Lacks(n)
  <2> HIDE DEF Lacks, Above
  <2>1. \E x \in {Lacks(n) : n \in Above} : \A y \in {Lacks(n) : n \in Above} : x <= y
    BY <1>2, LeastNumber
  <2> QED BY <2>1
<1>4. ASSUME NEW n \in Candidates(gtid), gtid[m] \subseteq gtid[n] PROVE gtid[n] = gtid[m]
  <2>1. n \in Above /\ m \in N /\ n \in N
    BY <1>4 DEF Candidates
  <2>2. Cardinality(gtid[n]) <= Cardinality(gtid[m])
    BY <1>1, <1>3, <2>1
  <2>3. Cardinality(gtid[m]) <= Cardinality(gtid[n])
    BY <1>1, <1>4, <2>1, FS_Subset
  <2>4. Cardinality(gtid[n]) = Cardinality(gtid[m])
    BY <1>1, <2>1, <2>2, <2>3
  <2> QED BY <1>1, <1>4, <2>1, <2>4, FS_Subset
<1>5. m \in Maximal(gtid)
  BY <1>4 DEF Maximal, Relation, Candidates
<1> QED BY <1>5

(***************************************************************************)
(* select_mgr_bootstrap_winner: the winner has every transaction that any  *)
(* member shows, however many members there are and whatever they show.    *)
(***************************************************************************)
THEOREM WinnerHasAll ==
  ASSUME NEW N \in SUBSET (Nat \ {0}), NEW K \in Nat, NEW gtid \in [N -> SUBSET (1..K)], Winner(gtid) # GrNobody
  PROVE  Winner(gtid) \in N /\ gtid[Winner(gtid)] # {} /\ \A m \in N : gtid[m] \subseteq gtid[Winner(gtid)]
<1>1. Maximal(gtid) # {} /\ Winner(gtid) = Min(Maximal(gtid))
  BY DEF Winner
<1>2. Maximal(gtid) \subseteq N /\ \A n \in Maximal(gtid) : n \in Candidates(gtid) /\ gtid[n] # {}
  BY DEF Maximal, Candidates
<1>3. Winner(gtid) \in Maximal(gtid)
  BY <1>1, <1>2, MinIsLeast
<1>4. \A m, n \in Maximal(gtid) : gtid[m] = gtid[n]
  BY <1>1 DEF Winner, Relation, GrNobody
<1>5. ASSUME NEW m \in N PROVE gtid[m] \subseteq gtid[Winner(gtid)]
  <2>1. CASE gtid[m] = {}
    BY <2>1
  <2>2. CASE m \in Candidates(gtid)
    BY <2>2, <1>3, <1>4, MaximalAbove
  <2> QED BY <2>1, <2>2 DEF Candidates
<1> QED BY <1>2, <1>3, <1>5

-----------------------------------------------------------------------------
GrRoles == {"replica", "primary", "demoted", "mgr_primary", "mgr_secondary"}
GrSets == SUBSET (1..MaxTxns)
GrMembers == [there : BOOLEAN, gtid : GrSets, role : GrRoles \union {"none"}]
GrViews == [lock : GrNodes \union {GrNobody}, paused : BOOLEAN, keys : [GrNodes -> GrMembers]]

GrTypes ==
    /\ GrTypeOK
    /\ grKey \in [GrNodes -> GrMembers] /\ grView \in [GrNodes -> GrViews]
    /\ grGroups \in 0..MaxGroups /\ grTxns \in 0..MaxTxns

\* The primary of a group is in it and has the transactions of its members.
LedBy(n) ==
    grGroup[n] # 0 =>
        /\ grGroup[n] <= grGroups
        /\ grLead[grGroup[n]] \in GrNodes
        /\ grGroup[grLead[grGroup[n]]] = grGroup[n]
        /\ grGtid[n] \subseteq grGtid[grLead[grGroup[n]]]

\* What a node has published, and what it has read of it, it has.
OwnKept(n) == grKey[n].gtid \subseteq grGtid[n] /\ grView[n].keys[n].gtid \subseteq grGtid[n]

\* A node that is electing is in no group, and has all it has seen once it is to bootstrap one.
Electing == {"rejoin", "rejoin_or_bootstrap", "bootstrap"}
Elected(n) ==
    /\ grAt[n] \in Electing => grGroup[n] = 0
    /\ grAt[n] \in {"rejoin_or_bootstrap", "bootstrap"} => \A m \in GrNodes : grView[n].keys[m].gtid \subseteq grGtid[n]

GrInv == GrTypes /\ \A n \in GrNodes : LedBy(n) /\ OwnKept(n) /\ Elected(n)

LEMMA GrNoViewType == GrNoView \in GrViews /\ NoMember \in GrMembers
  BY DEF GrNoView, GrViews, NoMember, GrMembers, GrSets

LEMMA GrStart == GrInit => GrInv
<1> SUFFICES ASSUME GrInit PROVE GrInv
  OBVIOUS
<1>1. Min(GrNodes) \in GrNodes
  BY GroupAssumption, MinIsLeast
<1>2. grKey \in [GrNodes -> GrMembers] /\ grView \in [GrNodes -> GrViews]
  BY GrNoViewType DEF GrInit, GrMembers, GrRoles, GrSets
<1> DEFINE Alone == /\ grGroup = [m \in GrNodes |-> 0] /\ grGroups = 0
                    /\ grLead = [g \in 1..MaxGroups |-> GrNobody]
                    /\ grRole = [m \in GrNodes |-> "replica"] /\ grLock = GrNobody
           First == Min(GrNodes)
           Grouped == /\ grGroup = [m \in GrNodes |-> 1] /\ grGroups = 1
                      /\ grLead = [g \in 1..MaxGroups |-> IF g = 1 THEN First ELSE GrNobody]
                      /\ grRole = [m \in GrNodes |-> IF m = First THEN "mgr_primary" ELSE "mgr_secondary"]
                      /\ grLock = First
<1>0. Alone \/ Grouped
  BY DEF GrInit
<1> HIDE DEF First
<1>11. First \in GrNodes
  BY <1>1 DEF First
<1>12. MaxGroups \in Nat \ {0}
  BY GroupAssumption
<1>3. GrTypes
  <2>1. grGroup \in [GrNodes -> 0..MaxGroups] /\ grGroups \in 0..MaxGroups
    BY <1>0, <1>12
  <2>2. grLead \in [1..MaxGroups -> GrNodes \union {GrNobody}] /\ grLock \in GrNodes \union {GrNobody}
    BY <1>0, <1>11
  <2>3. grRole \in [GrNodes -> GrRoles]
    BY <1>0 DEF GrRoles
  <2>4. /\ grGtid \in [GrNodes -> SUBSET (1..MaxTxns)] /\ grUp \in [GrNodes -> BOOLEAN] /\ grPaused \in BOOLEAN
        /\ grAt \in [GrNodes -> {"idle", "loaded", "rejoin", "rejoin_or_bootstrap", "bootstrap"}]
    BY DEF GrInit
  <2>5. grTxns \in 0..MaxTxns
    BY GroupAssumption DEF GrInit
  <2> HIDE DEF Alone, Grouped
  <2> QED BY <1>2, <2>1, <2>2, <2>3, <2>4, <2>5 DEF GrTypes, GrTypeOK, GrRoles
<1>4. ASSUME NEW n \in GrNodes PROVE LedBy(n) /\ OwnKept(n) /\ Elected(n)
  <2>1. LedBy(n)
    <3>1. CASE Alone
      BY <3>1 DEF LedBy
    <3>2. CASE Grouped
      BY <3>2, <1>11, <1>12 DEF GrInit, LedBy
    <3> QED BY <1>0, <3>1, <3>2
  <2>2. OwnKept(n) /\ Elected(n)
    BY DEF GrInit, OwnKept, Elected, Electing, GrNoView, NoMember
  <2> QED BY <2>1, <2>2
<1> QED BY <1>3, <1>4 DEF GrInv

(***************************************************************************)
(* A step that changes no data and, of one node, at most the position, the *)
(* role and what it has published and read.                                *)
(***************************************************************************)
LEMMA GrEndsFacts ==
  ASSUME GrInv, NEW n \in GrNodes, GrEnds(n), grGtid' \in [GrNodes -> GrSets],
         grRole' \in [GrNodes -> GrRoles], grGtid[n] \subseteq grGtid'[n],
         \A m \in GrNodes \ {n} : grGtid'[m] = grGtid[m]
  PROVE  /\ grKey' \in [GrNodes -> GrMembers] /\ grView' \in [GrNodes -> GrViews]
         /\ grAt' \in [GrNodes -> {"idle", "loaded", "rejoin", "rejoin_or_bootstrap", "bootstrap"}]
         /\ \A m \in GrNodes : OwnKept(m)'
         /\ (\A m \in GrNodes \ {n} : grGroup'[m] = grGroup[m]) => \A m \in GrNodes : Elected(m)'
<1>1. grKey' \in [GrNodes -> GrMembers] /\ grView' \in [GrNodes -> GrViews]
  BY GrNoViewType DEF GrInv, GrTypes, GrEnds, GrMembers
<1>2. grAt' \in [GrNodes -> {"idle", "loaded", "rejoin", "rejoin_or_bootstrap", "bootstrap"}]
  BY DEF GrInv, GrTypes, GrTypeOK, GrEnds
<1>3. ASSUME NEW m \in GrNodes PROVE OwnKept(m)'
  <2>1. CASE m = n
    BY <2>1 DEF GrInv, GrTypes, GrTypeOK, GrEnds, OwnKept, GrNoView, NoMember
  <2>2. CASE m # n
    BY <2>2 DEF GrInv, GrTypes, GrTypeOK, GrEnds, OwnKept
  <2> QED BY <2>1, <2>2
<1>4. ASSUME \A m \in GrNodes \ {n} : grGroup'[m] = grGroup[m], NEW m \in GrNodes PROVE Elected(m)'
  <2>1. CASE m = n
    BY <2>1 DEF GrInv, GrTypes, GrTypeOK, GrEnds, Elected, Electing
  <2>2. CASE m # n
    BY <2>2, <1>4 DEF GrInv, GrTypes, GrTypeOK, GrEnds, Elected, Electing
  <2> QED BY <2>1, <2>2
<1> QED BY <1>1, <1>2, <1>3, <1>4

\* A cycle that ends with the data as it was.
LEMMA GrEndsInv ==
  ASSUME GrInv, NEW n \in GrNodes, GrEnds(n), UNCHANGED <<grData, grUp>>,
         grRole' \in [GrNodes -> GrRoles], grLock' \in GrNodes \union {GrNobody}, grPaused' \in BOOLEAN
  PROVE  GrInv'
<1>1. grGtid' \in [GrNodes -> GrSets]
  BY DEF GrInv, GrTypes, GrTypeOK, grData, GrSets
<1>2. GrTypes'
  BY <1>1, GrEndsFacts DEF GrInv, GrTypes, GrTypeOK, grData, GrRoles, GrSets
<1>3. \A m \in GrNodes : LedBy(m)'
  BY DEF GrInv, LedBy, grData
<1>4. \A m \in GrNodes : OwnKept(m)' /\ Elected(m)'
  BY <1>1, GrEndsFacts DEF grData
<1> QED BY <1>2, <1>3, <1>4 DEF GrInv

\* The node goes on to another position with what it has read.
LEMMA GrGoesInv ==
  ASSUME GrInv, NEW n \in GrNodes, NEW at \in Electing, GrGoes(n, at),
         UNCHANGED <<grData, grRole, grUp, grKey, grLock, grView, grPaused>>, grGroup[n] = 0,
         at # "rejoin" => \A m \in GrNodes : grView[n].keys[m].gtid \subseteq grGtid[n]
  PROVE  GrInv'
<1>1. GrTypes'
  BY DEF GrInv, GrTypes, GrTypeOK, grData, GrGoes, Electing
<1>2. \A m \in GrNodes : LedBy(m)' /\ OwnKept(m)'
  BY DEF GrInv, LedBy, OwnKept, grData
<1>3. ASSUME NEW m \in GrNodes PROVE Elected(m)'
  <2>1. CASE m = n
    BY <2>1 DEF GrInv, GrTypes, GrTypeOK, GrGoes, Elected, Electing, grData
  <2>2. CASE m # n
    BY <2>2 DEF GrInv, GrTypes, GrTypeOK, GrGoes, Elected, Electing, grData
  <2> QED BY <2>1, <2>2
<1> QED BY <1>1, <1>2, <1>3 DEF GrInv

LEMMA GrLoadInv == ASSUME GrInv, NEW n \in GrNodes, GrLoad(n) PROVE GrInv'
<1>1. GrTypes'
  BY DEF GrInv, GrTypes, GrTypeOK, grData, GrLoad, GrGoes, GrViews
<1>2. \A m \in GrNodes : LedBy(m)'
  BY DEF GrInv, LedBy, grData, GrLoad
<1>3. ASSUME NEW m \in GrNodes PROVE OwnKept(m)' /\ Elected(m)'
  <2>1. CASE m = n
    BY <2>1 DEF GrInv, GrTypes, GrTypeOK, GrLoad, GrGoes, OwnKept, Elected, Electing, grData
  <2>2. CASE m # n
    BY <2>2 DEF GrInv, GrTypes, GrTypeOK, GrLoad, GrGoes, OwnKept, Elected, Electing, grData
  <2> QED BY <2>1, <2>2
<1> QED BY <1>1, <1>2, <1>3 DEF GrInv

\* The node alone keeps its position; other members see nothing but its role and the locks.
LEMMA GrCycleEnds ==
  ASSUME GrInv, NEW n \in GrNodes, GrRace(n) \/ GrLostLock(n) \/ GrPausedRelease(n) \/ GrActive(n)
  PROVE  GrInv'
<1>1. GrEnds(n) /\ UNCHANGED <<grData, grUp, grPaused>>
  BY DEF GrRace, GrLostLock, GrPausedRelease, GrActive
<1>2. grLock' \in GrNodes \union {GrNobody} /\ grPaused' \in BOOLEAN
  BY <1>1 DEF GrInv, GrTypes, GrTypeOK, GrRace, GrLostLock, GrPausedRelease, GrActive
<1>3. grRole \in [GrNodes -> GrRoles]
  BY DEF GrInv, GrTypes, GrTypeOK, GrRoles
<1>4. grRole[n] \in GrRoles
  BY <1>3
<1>5. grRole' = grRole \/ \E role \in GrRoles : grRole' = [grRole EXCEPT ![n] = role]
  <2>1. CASE GrRace(n)
    BY <2>1, <1>4 DEF GrRace, GrRoleIs, GrRoles
  <2>2. CASE GrLostLock(n)
    BY <2>2, <1>4 DEF GrLostLock, GrRoleIs, GrRoles
  <2>3. CASE GrPausedRelease(n)
    BY <2>3 DEF GrPausedRelease
  <2>4. CASE GrActive(n)
    <3> DEFINE role == IF grLead[grGroup[n]] = n THEN "mgr_primary" ELSE "mgr_secondary"
    <3>1. role \in GrRoles /\ "primary" \in GrRoles
      BY DEF GrRoles
    <3>2. GrRoleIs(n, role) \/ \E enforced \in {role, "primary"} : GrRoleIs(n, enforced)
      BY <2>4 DEF GrActive
    <3> HIDE DEF role
    <3> QED BY <3>1, <3>2 DEF GrRoleIs
  <2> QED BY <2>1, <2>2, <2>3, <2>4
<1>6. grRole' \in [GrNodes -> GrRoles]
  BY <1>3, <1>5
<1> QED BY <1>1, <1>2, <1>6, GrEndsInv

\* What the others show and the node itself has.
LEMMA SeenType ==
  ASSUME GrInv, NEW n \in GrNodes
  PROVE  Seen(n) \in [GrNodes -> SUBSET (1..MaxTxns)]
  BY DEF GrInv, GrTypes, GrTypeOK, Seen, GrViews, GrMembers, GrSets

LEMMA SeenHeld ==
  ASSUME GrInv, NEW n \in GrNodes, \A m \in GrNodes : Seen(n)[m] \subseteq grGtid[n]
  PROVE  \A m \in GrNodes : grView[n].keys[m].gtid \subseteq grGtid[n]
<1> SUFFICES ASSUME NEW m \in GrNodes PROVE grView[n].keys[m].gtid \subseteq grGtid[n]
  OBVIOUS
<1>1. CASE m = n
  BY <1>1 DEF GrInv, OwnKept
<1>2. CASE m # n
  BY <1>2 DEF Seen
<1> QED BY <1>1, <1>2

LEMMA GrElectInv == ASSUME GrInv, NEW n \in GrNodes, GrElect(n) PROVE GrInv'
<1>1. grGroup[n] = 0 /\ UNCHANGED <<grData, grRole, grUp>>
  BY DEF GrElect
<1>2. grLock \in GrNodes \union {GrNobody} /\ grPaused \in BOOLEAN /\ grRole' \in [GrNodes -> GrRoles]
  BY <1>1 DEF GrInv, GrTypes, GrTypeOK, GrRoles
<1>3. CASE GrEnds(n) /\ grLock' \in {grLock, GrNobody} /\ grPaused' \in {grPaused, TRUE}
  BY <1>1, <1>2, <1>3, GrEndsInv
<1>4. CASE GrGoes(n, "rejoin") /\ UNCHANGED <<grView, grKey, grLock, grPaused>>
  BY <1>1, <1>4, GrGoesInv DEF Electing
<1>5. CASE ElectEmpty(n)
  <2>1. CASE Candidates(Seen(n)) = {} /\ GrGoes(n, "bootstrap") /\ UNCHANGED <<grView, grKey>>
    <3>1. \A m \in GrNodes : Seen(n)[m] \subseteq grGtid[n]
      BY <2>1, SeenType DEF Candidates
    <3> QED BY <1>1, <1>5, <2>1, <3>1, SeenHeld, GrGoesInv DEF Electing, ElectEmpty
  <2> QED BY <1>3, <1>4, <1>5, <2>1 DEF ElectEmpty
<1>6. CASE ElectFork(n)
  BY <1>3, <1>6 DEF ElectFork
<1>7. CASE ElectOther(n)
  BY <1>3, <1>4, <1>7 DEF ElectOther
<1>8. CASE ElectSelf(n)
  <2>1. CASE \E at \in {"rejoin_or_bootstrap", "bootstrap"} : GrGoes(n, at) /\ UNCHANGED <<grView, grKey>>
    <3>1. n # GrNobody /\ Winner(Seen(n)) = n
      BY <1>8, GroupAssumption DEF GrNobody, ElectSelf
    <3>2. GrNodes \in SUBSET (Nat \ {0}) /\ MaxTxns \in Nat
      BY GroupAssumption
    <3>3. \A m \in GrNodes : Seen(n)[m] \subseteq Seen(n)[n]
      BY <3>1, <3>2, SeenType, WinnerHasAll
    <3>4. \A m \in GrNodes : Seen(n)[m] \subseteq grGtid[n]
      BY <3>3 DEF Seen
    <3> QED BY <1>1, <1>8, <2>1, <3>4, SeenHeld, GrGoesInv DEF Electing, ElectSelf
  <2> QED BY <1>3, <1>4, <1>8, <2>1 DEF ElectSelf
<1> QED BY <1>5, <1>6, <1>7, <1>8 DEF GrElect

LEMMA GrJoinsInv == ASSUME GrInv, NEW n \in GrNodes, GrJoins(n) PROVE GrInv'
<1>1. PICK m \in GrNodes \ {n} :
        /\ CanJoin(n, m)
        /\ grGroup' = [grGroup EXCEPT ![n] = grGroup[m]]
        /\ grGtid' = [grGtid EXCEPT ![n] = grGtid[m]]
  BY DEF GrJoins, Advertised
<1>2. grGroup[n] = 0 /\ grGroup[m] # 0 /\ grGtid[n] \subseteq grGtid[m]
  BY <1>1 DEF GrInv, Elected, Electing, GrJoins, CanJoin
<1>3. grGtid' \in [GrNodes -> GrSets] /\ grRole' \in [GrNodes -> GrRoles]
  BY <1>1 DEF GrInv, GrTypes, GrTypeOK, GrSets, GrJoins, GrRoleIs, GrRoles
<1>4. grGtid[n] \subseteq grGtid'[n] /\ \A o \in GrNodes \ {n} : grGtid'[o] = grGtid[o] /\ grGroup'[o] = grGroup[o]
  BY <1>1, <1>2 DEF GrInv, GrTypes, GrTypeOK
<1>5. GrTypes'
  <2>1. grGroup' \in [GrNodes -> 0..MaxGroups] /\ grLock' \in GrNodes \union {GrNobody}
    BY <1>1 DEF GrInv, GrTypes, GrTypeOK, GrJoins
  <2>2. GrEnds(n) /\ UNCHANGED <<grLead, grGroups, grTxns, grUp, grPaused>>
    BY DEF GrJoins
  <2> QED BY <1>3, <1>4, <2>1, <2>2, GrEndsFacts DEF GrInv, GrTypes, GrTypeOK, GrRoles, GrSets
<1>6. ASSUME NEW o \in GrNodes PROVE LedBy(o)'
  <2>1. UNCHANGED <<grLead, grGroups>>
    BY DEF GrJoins
  <2>2. \A p \in GrNodes : grGroup[p] # 0 => grLead[grGroup[p]] # n
    BY <1>2 DEF GrInv, LedBy
  <2>3. CASE o = n
    BY <1>1, <1>2, <1>4, <2>1, <2>2, <2>3 DEF GrInv, GrTypes, GrTypeOK, LedBy
  <2>4. CASE o # n
    BY <1>4, <2>1, <2>2, <2>4 DEF GrInv, GrTypes, GrTypeOK, LedBy
  <2> QED BY <2>3, <2>4
<1>7. \A o \in GrNodes : OwnKept(o)' /\ Elected(o)'
  BY <1>3, <1>4, GrEndsFacts DEF GrJoins
<1> QED BY <1>5, <1>6, <1>7 DEF GrInv

LEMMA GrJoinFailsInv == ASSUME GrInv, NEW n \in GrNodes, GrJoinFails(n) PROVE GrInv'
<1>1. UNCHANGED <<grData, grRole, grUp, grLock, grPaused>>
  BY DEF GrJoinFails
<1>2. grLock \in GrNodes \union {GrNobody} /\ grPaused \in BOOLEAN /\ grRole' \in [GrNodes -> GrRoles]
  BY <1>1 DEF GrInv, GrTypes, GrTypeOK, GrRoles
<1>3. CASE GrEnds(n)
  BY <1>1, <1>2, <1>3, GrEndsInv
<1>4. CASE grAt[n] = "rejoin_or_bootstrap" /\ GrGoes(n, "bootstrap") /\ UNCHANGED <<grView, grKey>>
  BY <1>1, <1>4, GrGoesInv DEF GrInv, Elected, Electing
<1> QED BY <1>3, <1>4 DEF GrJoinFails

LEMMA GrBootstrapInv == ASSUME GrInv, NEW n \in GrNodes, GrBootstrap(n) PROVE GrInv'
<1>1. GrEnds(n) /\ UNCHANGED <<grGtid, grTxns, grUp, grLock, grPaused>> /\ grGroup[n] = 0
  BY DEF GrBootstrap, GrInv, Elected, Electing
<1>2. grLock \in GrNodes \union {GrNobody} /\ grPaused \in BOOLEAN /\ grRole \in [GrNodes -> GrRoles]
      /\ grGtid \in [GrNodes -> GrSets]
  BY DEF GrInv, GrTypes, GrTypeOK, GrRoles, GrSets
<1>3. CASE UNCHANGED <<grGroups, grGroup, grLead, grRole>>
  BY <1>1, <1>2, <1>3, GrEndsInv DEF grData
<1>4. CASE /\ grGroups < MaxGroups
           /\ grGroups' = grGroups + 1
           /\ grGroup' = [grGroup EXCEPT ![n] = grGroups + 1]
           /\ grLead' = [grLead EXCEPT ![grGroups + 1] = n]
           /\ GrRoleIs(n, "mgr_primary")
  <2>1. grGroups + 1 \in 1..MaxGroups /\ grGroups \in Nat /\ MaxGroups \in Nat
    BY <1>4, GroupAssumption DEF GrInv, GrTypes
  <2>2. grRole' \in [GrNodes -> GrRoles]
    BY <1>2, <1>4 DEF GrRoleIs, GrRoles
  <2>3. /\ grGroup' \in [GrNodes -> 0..MaxGroups] /\ grLead' \in [1..MaxGroups -> GrNodes \union {GrNobody}]
        /\ grGroups' \in 0..MaxGroups
        /\ \A m \in GrNodes \ {n} : grGroup'[m] = grGroup[m]
        /\ grGroup'[n] = grGroups + 1 /\ grLead'[grGroups + 1] = n
    BY <1>4, <2>1 DEF GrInv, GrTypes, GrTypeOK
  <2>4. GrTypes'
    BY <1>1, <1>2, <2>2, <2>3, GrEndsFacts DEF GrInv, GrTypes, GrTypeOK, GrRoles, GrSets
  <2>5. ASSUME NEW o \in GrNodes PROVE LedBy(o)'
    <3>1. CASE o = n
      BY <1>1, <1>4, <2>1, <2>3, <3>1 DEF LedBy
    <3>2. CASE o # n /\ grGroup[o] # 0
      <4>1. grGroup[o] \in 1..grGroups /\ grLead[grGroup[o]] # n
        BY <1>1, <2>1, <3>2 DEF GrInv, GrTypes, GrTypeOK, LedBy
      <4>2. grLead'[grGroup[o]] = grLead[grGroup[o]]
        BY <1>4, <2>1, <4>1 DEF GrInv, GrTypes, GrTypeOK
      <4> QED BY <1>1, <1>4, <2>1, <2>3, <3>2, <4>1, <4>2 DEF GrInv, LedBy
    <3> QED BY <2>3, <3>1, <3>2 DEF LedBy
  <2>6. \A o \in GrNodes : OwnKept(o)' /\ Elected(o)'
    BY <1>1, <1>2, <2>2, <2>3, GrEndsFacts
  <2> QED BY <2>4, <2>5, <2>6 DEF GrInv
<1> QED BY <1>3, <1>4 DEF GrBootstrap

\* Nodes whose transactions grow keep what was said of them.
LEMMA GrowsKept ==
  ASSUME GrInv, \A n \in GrNodes : grGtid[n] \subseteq grGtid'[n],
         UNCHANGED <<grGroup, grKey, grView, grAt>>
  PROVE  \A n \in GrNodes : OwnKept(n)' /\ Elected(n)'
  BY DEF GrInv, OwnKept, Elected

LEMMA GrCommitInv == ASSUME GrInv, NEW g \in 1..MaxGroups, GrCommit(g) PROVE GrInv'
<1>1. grLead[g] \in GrNodes /\ grGroup[grLead[g]] = g
  BY DEF GrCommit, GroupOf
<1>2. grTxns + 1 \in 1..MaxTxns /\ grTxns' = grTxns + 1
  BY GroupAssumption DEF GrInv, GrTypes, GrCommit
<1>3. grGtid' \in [GrNodes -> SUBSET (1..MaxTxns)] /\ \A n \in GrNodes : grGtid[n] \subseteq grGtid'[n]
  BY <1>1, <1>2 DEF GrInv, GrTypes, GrTypeOK, GrCommit
<1>4. GrTypes'
  BY <1>2, <1>3 DEF GrInv, GrTypes, GrTypeOK, GrCommit
<1>5. ASSUME NEW n \in GrNodes PROVE LedBy(n)'
  <2>1. CASE grGroup[n] = g
    BY <1>1, <2>1 DEF GrInv, GrTypes, GrTypeOK, LedBy, GrCommit
  <2>2. CASE grGroup[n] # g
    BY <1>1, <1>3, <2>2 DEF GrInv, GrTypes, GrTypeOK, LedBy, GrCommit
  <2> QED BY <2>1, <2>2
<1>6. \A n \in GrNodes : OwnKept(n)' /\ Elected(n)'
  BY <1>3, GrowsKept DEF GrCommit
<1> QED BY <1>4, <1>5, <1>6 DEF GrInv

LEMMA GrApplyInv == ASSUME GrInv, NEW n \in GrNodes, GrApply(n) PROVE GrInv'
<1>1. grLead[grGroup[n]] \in GrNodes /\ grLead[grGroup[n]] # n /\ grGtid[n] \subseteq grGtid[grLead[grGroup[n]]]
      /\ grGroup[grLead[grGroup[n]]] = grGroup[n]
  BY DEF GrInv, LedBy, GrApply
<1>2. grGtid' \in [GrNodes -> SUBSET (1..MaxTxns)] /\ \A m \in GrNodes : grGtid[m] \subseteq grGtid'[m]
  BY <1>1 DEF GrInv, GrTypes, GrTypeOK, GrApply
<1>3. GrTypes'
  BY <1>2 DEF GrInv, GrTypes, GrTypeOK, GrApply
<1>4. ASSUME NEW m \in GrNodes PROVE LedBy(m)'
  <2>1. CASE grGroup[m] # 0
    <3>1. grLead[grGroup[m]] \in GrNodes /\ grLead[grGroup[m]] # n
      BY <1>1, <2>1 DEF GrInv, LedBy
    <3> QED BY <1>1, <2>1, <3>1 DEF GrInv, GrTypes, GrTypeOK, LedBy, GrApply
  <2> QED BY <2>1 DEF LedBy, GrApply
<1>5. \A m \in GrNodes : OwnKept(m)' /\ Elected(m)'
  BY <1>2, GrowsKept DEF GrApply
<1> QED BY <1>3, <1>4, <1>5 DEF GrInv

LEMMA GrCrashInv == ASSUME GrInv, NEW C \in SUBSET GrNodes, GrCrash(C) PROVE GrInv'
<1>1. PICK lead \in [1..MaxGroups -> GrNodes \union {GrNobody}] :
        /\ \A g \in 1..MaxGroups :
              IF Survives(g, C) /\ grLead[g] \in C THEN lead[g] \in GroupOf(g) \ C ELSE lead[g] = grLead[g]
        /\ grLead' = lead
        /\ grGtid' = [n \in GrNodes |->
              IF grGroup[n] # 0 /\ lead[grGroup[n]] = n THEN grGtid[n] \union grGtid[grLead[grGroup[n]]] ELSE grGtid[n]]
  BY DEF GrCrash
<1>2. \A n \in GrNodes : grGroup[n] # 0 => grGroup[n] \in 1..MaxGroups
  BY GroupAssumption DEF GrInv, GrTypes, GrTypeOK
<1>3. grGtid' \in [GrNodes -> SUBSET (1..MaxTxns)] /\ \A n \in GrNodes : grGtid[n] \subseteq grGtid'[n]
  <2> SUFFICES ASSUME NEW n \in GrNodes PROVE grGtid'[n] \in SUBSET (1..MaxTxns) /\ grGtid[n] \subseteq grGtid'[n]
    BY <1>1
  <2>1. CASE grGroup[n] # 0
    BY <1>1, <2>1 DEF GrInv, GrTypes, GrTypeOK, LedBy
  <2>2. CASE grGroup[n] = 0
    BY <1>1, <2>2 DEF GrInv, GrTypes, GrTypeOK
  <2> QED BY <2>1, <2>2
<1>4. GrTypes'
  <2>1. grGroup' \in [GrNodes -> 0..MaxGroups] /\ grUp' \in [GrNodes -> BOOLEAN] /\ grRole' \in [GrNodes -> GrRoles]
    BY GroupAssumption DEF GrInv, GrTypes, GrTypeOK, GrCrash, GrRoles
  <2>2. /\ grAt' \in [GrNodes -> {"idle", "loaded", "rejoin", "rejoin_or_bootstrap", "bootstrap"}]
        /\ grView' \in [GrNodes -> GrViews]
    BY GrNoViewType DEF GrInv, GrTypes, GrTypeOK, GrCrash
  <2> QED BY <1>1, <1>3, <2>1, <2>2 DEF GrInv, GrTypes, GrTypeOK, GrCrash, GrRoles
<1>5. ASSUME NEW n \in GrNodes PROVE LedBy(n)'
  <2>1. CASE n \in C \/ ~Survives(grGroup[n], C) \/ grGroup[n] = 0
    BY <2>1 DEF LedBy, GrCrash
  <2>2. CASE n \notin C /\ Survives(grGroup[n], C) /\ grGroup[n] # 0
    <3> DEFINE g == grGroup[n]
               old == grLead[g]
    <3>1. g \in 1..MaxGroups /\ old \in GrNodes /\ grGroup[old] = g /\ grGtid[n] \subseteq grGtid[old] /\ g <= grGroups
      BY <1>2, <2>2 DEF GrInv, LedBy
    <3>2. lead[g] \in GrNodes /\ lead[g] \notin C /\ grGroup[lead[g]] = g
      BY <1>1, <2>2, <3>1 DEF GroupOf
    <3>3. grGroup'[n] = g /\ grGroup'[lead[g]] = g
      BY <2>2, <3>2 DEF GrCrash
    <3>4. grGtid'[n] \subseteq grGtid'[lead[g]]
      <4>1. CASE lead[g] = n
        BY <4>1
      <4>2. CASE lead[g] # n
        <5>1. grGtid'[n] = grGtid[n]
          BY <1>1, <4>2
        <5>2. grGtid'[lead[g]] = grGtid[lead[g]] \union grGtid[old]
          BY <1>1, <2>2, <3>2
        <5> QED BY <3>1, <5>1, <5>2
      <4> QED BY <4>1, <4>2
    <3> QED BY <1>1, <3>1, <3>2, <3>3, <3>4 DEF LedBy, GrCrash
  <2> QED BY <2>1, <2>2
<1>6. ASSUME NEW n \in GrNodes PROVE OwnKept(n)' /\ Elected(n)'
  <2>1. CASE n \in C
    BY <1>3, <2>1 DEF GrInv, OwnKept, Elected, Electing, GrCrash, GrNoView, NoMember
  <2>2. CASE n \notin C
    <3>1. grAt'[n] = grAt[n] /\ grView'[n] = grView[n] /\ grGroup'[n] \in {0, grGroup[n]} /\ grKey' = grKey
      BY <2>2 DEF GrCrash
    <3> QED BY <1>3, <3>1 DEF GrInv, OwnKept, Elected
  <2> QED BY <2>1, <2>2
<1> QED BY <1>4, <1>5, <1>6 DEF GrInv

LEMMA GrRestInv ==
  ASSUME GrInv, (\E n \in GrNodes : GrRestart(n) \/ GrKeyExpires(n)) \/ GrResume \/ UNCHANGED grVars
  PROVE  GrInv'
<1>1. CASE \E n \in GrNodes : GrKeyExpires(n)
  <2>1. PICK n \in GrNodes : GrKeyExpires(n)
    BY <1>1
  <2>2. GrTypes'
    BY <2>1, GrNoViewType DEF GrInv, GrTypes, GrTypeOK, GrKeyExpires, grData
  <2>3. ASSUME NEW m \in GrNodes PROVE LedBy(m)' /\ OwnKept(m)' /\ Elected(m)'
    <3>1. grKey'[m] = grKey[m] \/ grKey'[m].gtid = {}
      BY <2>1 DEF GrInv, GrTypes, GrKeyExpires, NoMember
    <3> QED BY <2>1, <3>1 DEF GrInv, LedBy, OwnKept, Elected, GrKeyExpires, grData
  <2> QED BY <2>2, <2>3 DEF GrInv
<1>2. CASE (\E n \in GrNodes : GrRestart(n)) \/ GrResume \/ UNCHANGED grVars
  <2>1. GrTypes'
    BY <1>2 DEF GrInv, GrTypes, GrTypeOK, GrRestart, GrResume, grData, grVars
  <2>2. UNCHANGED <<grData, grKey, grView, grAt>>
    BY <1>2 DEF GrRestart, GrResume, grData, grVars
  <2> QED BY <2>1, <2>2 DEF GrInv, LedBy, OwnKept, Elected, grData
<1> QED BY <1>1, <1>2

LEMMA GrStep == GrInv /\ [GrNext]_grVars => GrInv'
<1> SUFFICES ASSUME GrInv, [GrNext]_grVars PROVE GrInv'
  OBVIOUS
<1>1. CASE \E n \in GrNodes : GrCycle(n)
  BY <1>1, GrLoadInv, GrCycleEnds, GrElectInv, GrJoinsInv, GrJoinFailsInv, GrBootstrapInv DEF GrCycle
<1>2. CASE \E n \in GrNodes : GrApply(n)
  BY <1>2, GrApplyInv
<1>3. CASE (\E n \in GrNodes : GrRestart(n) \/ GrKeyExpires(n)) \/ GrResume \/ UNCHANGED grVars
  BY <1>3, GrRestInv
<1>4. CASE \E g \in 1..MaxGroups : GrCommit(g)
  BY <1>4, GrCommitInv
<1>5. CASE \E C \in SUBSET GrNodes : GrCrash(C)
  BY <1>5, GrCrashInv
<1> QED BY <1>1, <1>2, <1>3, <1>4, <1>5 DEF GrNext

(***************************************************************************)
(* bootstrap_mgr_group: whoever forms a new group has every transaction    *)
(* that any member had published when it loaded the cluster, for any       *)
(* number of members, crashes and groups, although the winner was elected  *)
(* from sets published at different times and may have tried to join       *)
(* another group first.                                                    *)
(***************************************************************************)
THEOREM NothingPublishedLostCorrect == GrSpec => NothingPublishedLost
<1> DEFINE Kept == \A n \in GrNodes :
                       grAt[n] = "bootstrap" /\ grGroup'[n] # grGroup[n] =>
                           \A m \in GrNodes : grView[n].keys[m].gtid \subseteq grGtid[n]
<1>1. GrInv /\ [GrNext]_grVars => [Kept]_grVars
  BY DEF GrInv, Elected
<1> QED BY <1>1, GrStart, GrStep, PTL DEF GrSpec, NothingPublishedLost
-----------------------------------------------------------------------------
(***************************************************************************)
(* Quorum commit of PostgreSQL.  What the primary can observe of the two   *)
(* places is a view; a transition of the resolver changes one half of it.  *)
(***************************************************************************)
Standbys == Cluster \ {primary}

QcViews == [leader : Cluster, quorum : Nat, voters : SUBSET Cluster, numsync : Nat, sync : SUBSET Standbys]

\* What is in the DCS and in PostgreSQL now.
ActualView ==
    [leader |-> key.leader, quorum |-> key.quorum, voters |-> key.voters,
     numsync |-> Lower(guc.num, Cardinality(guc.names)), sync |-> guc.names]

\* The view after a transition.
Applied(v, t) ==
    IF t.type = "quorum" THEN [leader |-> t.leader, quorum |-> t.num, voters |-> t.names,
                               numsync |-> v.numsync, sync |-> v.sync]
    ELSE IF t.type = "sync" THEN [leader |-> v.leader, quorum |-> v.quorum, voters |-> v.voters,
                                  numsync |-> t.num, sync |-> t.names]
    ELSE v

\* Who may elect and who may acknowledge outnumber all nodes involved.  The primary alone
\* needs nobody.
SafeView(v) ==
    v.voters # {} \/ v.leader # primary =>
        Cardinality((v.voters \union {v.leader}) \union (v.sync \union {primary}))
            <= v.quorum + v.numsync + 1

\* A transition as the resolver yields it.
QcUpdates == [type : {"quorum", "sync", "restart"}, leader : Cluster, num : Nat, names : SUBSET Cluster]
IsUpdate(t) ==
    /\ t \in QcUpdates
    /\ t.type = "sync" => t.names \in SUBSET Standbys /\ t.num <= Cardinality(t.names)

\* p[i] is the view after i transitions, and every one of them is safe.
SafePath(p, out) ==
    /\ p \in [0..Len(out) -> QcViews]
    /\ \A i \in 1..Len(out) : p[i] = Applied(p[i - 1], out[i])
    /\ \A i \in 0..Len(out) : SafeView(p[i])

(***************************************************************************)
(* PostgreSQL refuses "ANY 0 (...)".  Such a transition comes only while   *)
(* no standby is listed and before any other number is written: keeping    *)
(* the old setting is as good.                                             *)
(***************************************************************************)
Refused(t) == t.type = "sync" /\ t.num = 0 /\ t.names # {}
OnlyZeros(out) == guc.names = {} /\ \A j \in 1..Len(out) : out[j].type = "sync" => out[j].num = 0
RefusedFirst(out) ==
    \A i \in 1..Len(out) : Refused(out[i]) =>
        guc.names = {} /\ \A j \in 1..i : out[j].type = "sync" => out[j].num = 0

\* The transitions lead safely from what there is to the view v.
LeadsTo(out, v) ==
    /\ out \in Seq(QcUpdates)
    /\ \A i \in 1..Len(out) : IsUpdate(out[i])
    /\ RefusedFirst(out)
    /\ \E p : SafePath(p, out) /\ p[0] = ActualView /\ p[Len(out)] = v

LEMMA LeadsSafely ==
  ASSUME NEW out, NEW v, LeadsTo(out, v)
  PROVE  SafeView(v) /\ v \in QcViews
<1>1. PICK p : SafePath(p, out) /\ p[Len(out)] = v
  BY DEF LeadsTo
<1>2. Len(out) \in 0..Len(out)
  BY DEF LeadsTo
<1> QED BY <1>1, <1>2 DEF SafePath

LEMMA ClusterFacts ==
  ASSUME setup \in Setups
  PROVE  /\ Cluster \subseteq Nodes /\ NoNode \notin Cluster /\ FirstPrimary \in Cluster
         /\ SyncCounts \subseteq Nat \ {0} /\ Strict \in BOOLEAN
  BY ParametersAssumption, NodesAssumption DEF Cluster, SyncCounts, Strict

LEMMA Counted ==
  ASSUME setup \in Setups, NEW S \in SUBSET Cluster
  PROVE  IsFiniteSet(S) /\ Cardinality(S) \in Nat /\ (S # {} => Cardinality(S) >= 1) /\ (S = {} => Cardinality(S) = 0)
<1>1. IsFiniteSet(Nodes) /\ S \subseteq Nodes
  BY NodesAssumption, ClusterFacts
<1>2. IsFiniteSet(S)
  BY <1>1, FS_Subset
<1>3. Cardinality(S) \in Nat /\ (Cardinality(S) = 0 <=> S = {})
  BY <1>2, FS_CardinalityType, FS_EmptySet
<1> QED BY <1>2, <1>3

LEMMA Smaller ==
  ASSUME setup \in Setups, NEW S \in SUBSET Cluster, NEW T \in SUBSET S
  PROVE  /\ Cardinality(T) <= Cardinality(S)
         /\ Cardinality(S \ T) = Cardinality(S) - Cardinality(T)
<1>1. IsFiniteSet(S)
  BY Counted
<1>2. Cardinality(T) <= Cardinality(S)
  BY <1>1, FS_Subset
<1>3. Cardinality(S \ T) = Cardinality(S) - Cardinality(S \intersect T)
  BY <1>1, FS_Difference
<1>4. S \intersect T = T
  OBVIOUS
<1> QED BY <1>2, <1>3, <1>4

LEMMA LowerHigher ==
  ASSUME NEW a \in Int, NEW b \in Int
  PROVE  /\ Lower(a, b) \in Int /\ Lower(a, b) <= a /\ Lower(a, b) <= b /\ Lower(a, b) \in {a, b}
         /\ Higher(a, b) \in Int /\ Higher(a, b) >= a /\ Higher(a, b) >= b /\ Higher(a, b) \in {a, b}
  BY DEF Lower, Higher

LEMMA AppliedView ==
  ASSUME NEW v \in QcViews, NEW t, IsUpdate(t)
  PROVE  Applied(v, t) \in QcViews
<1>1. t \in QcUpdates /\ t.type \in {"quorum", "sync", "restart"} /\ t.leader \in Cluster /\ t.num \in Nat /\ t.names \in SUBSET Cluster
  BY DEF IsUpdate, QcUpdates
<1>2. v.leader \in Cluster /\ v.quorum \in Nat /\ v.voters \in SUBSET Cluster /\ v.numsync \in Nat /\ v.sync \in SUBSET Standbys
  BY DEF QcViews
<1>3. CASE t.type = "quorum"
  BY <1>1, <1>2, <1>3 DEF Applied, QcViews
<1>4. CASE t.type = "sync"
  BY <1>1, <1>2, <1>4 DEF Applied, QcViews, IsUpdate
<1>5. CASE t.type = "restart"
  BY <1>5 DEF Applied
<1> QED BY <1>1, <1>3, <1>4, <1>5

\* Of two transitions of the same type the second one counts.
LEMMA AppliedTwice ==
  ASSUME NEW v, NEW s, NEW t, s.type = t.type
  PROVE  Applied(Applied(v, s), t) = Applied(v, t)
  BY DEF Applied

\* One more transition.
LEMMA LeadsFurther ==
  ASSUME NEW out, NEW v, LeadsTo(out, v), NEW t, IsUpdate(t), SafeView(Applied(v, t)),
         Refused(t) => OnlyZeros(out)
  PROVE  LeadsTo(Append(out, t), Applied(v, t))
<1> DEFINE new == Append(out, t)
           n == Len(out)
           w == Applied(v, t)
<1>1. PICK p : SafePath(p, out) /\ p[0] = ActualView /\ p[n] = v
  BY DEF LeadsTo
<1>2. out \in Seq(QcUpdates) /\ t \in QcUpdates /\ n \in Nat
  BY DEF LeadsTo, IsUpdate
<1>3. new \in Seq(QcUpdates) /\ Len(new) = n + 1 /\ new[n + 1] = t /\ \A i \in 1..n : new[i] = out[i]
  BY <1>2
<1>4. v \in QcViews
  <2>1. n \in 0..n
    BY <1>2
  <2> QED BY <1>1, <2>1 DEF SafePath
<1>5. w \in QcViews
  BY <1>4, AppliedView
<1> DEFINE q == [i \in 0..(n + 1) |-> IF i <= n THEN p[i] ELSE w]
<1> HIDE DEF w
<1>6. q \in [0..(n + 1) -> QcViews]
  <2>1. ASSUME NEW i \in 0..(n + 1) PROVE (IF i <= n THEN p[i] ELSE w) \in QcViews
    <3>1. CASE i <= n
      <4>1. i \in 0..n
        BY <1>2, <3>1
      <4> QED BY <1>1, <3>1, <4>1 DEF SafePath
    <3>2. CASE ~(i <= n)
      BY <1>5, <3>2
    <3> QED BY <3>1, <3>2
  <2> QED BY <2>1
<1>7. q[n + 1] = w /\ (\A i \in 0..n : q[i] = p[i])
  BY <1>2
<1>8. ASSUME NEW i \in 1..(n + 1) PROVE q[i] = Applied(q[i - 1], new[i])
  <2> HIDE DEF q, new
  <2>1. CASE i \in 1..n
    <3>1. i \in 0..n /\ i - 1 \in 0..n
      BY <1>2, <2>1
    <3>2. q[i] = p[i] /\ q[i - 1] = p[i - 1] /\ new[i] = out[i]
      BY <1>3, <1>7, <2>1, <3>1
    <3>3. p[i] = Applied(p[i - 1], out[i])
      BY <1>1, <2>1 DEF SafePath
    <3> QED BY <3>2, <3>3
  <2>2. CASE i = n + 1
    <3>1. i - 1 = n /\ n \in 0..n
      BY <1>2, <2>2
    <3>2. q[i - 1] = v
      BY <1>1, <1>7, <3>1
    <3> QED BY <1>3, <1>7, <2>2, <3>2 DEF w
  <2> QED BY <1>2, <2>1, <2>2
<1>9. ASSUME NEW i \in 0..(n + 1) PROVE SafeView(q[i])
  <2> HIDE DEF q
  <2>1. CASE i \in 0..n
    BY <1>1, <1>7, <2>1 DEF SafePath
  <2>2. CASE i = n + 1
    BY <1>7, <2>2 DEF w
  <2> QED BY <1>2, <2>1, <2>2
<1> HIDE DEF q, new
<1>10. SafePath(q, new)
  BY <1>3, <1>6, <1>8, <1>9 DEF SafePath
<1>11. q[0] = ActualView /\ q[Len(new)] = w
  <2>1. 0 \in 0..n
    BY <1>2
  <2> QED BY <1>1, <1>3, <1>7, <2>1
<1>12. \A i \in 1..(n + 1) : i \in 1..n \/ i = n + 1
  BY <1>2
<1>13. \A i \in 1..(n + 1) : IsUpdate(new[i])
  <2> SUFFICES ASSUME NEW i \in 1..(n + 1) PROVE IsUpdate(new[i])
    OBVIOUS
  <2>1. \A j \in 1..n : IsUpdate(out[j])
    BY DEF LeadsTo
  <2> QED BY <1>3, <1>12, <2>1
<1>14. RefusedFirst(new)
  <2> SUFFICES ASSUME NEW i \in 1..(n + 1), Refused(new[i])
               PROVE  guc.names = {} /\ \A j \in 1..i : new[j].type = "sync" => new[j].num = 0
    BY <1>3 DEF RefusedFirst
  <2>1. CASE i \in 1..n
    <3>1. \A j \in 1..i : j \in 1..n
      BY <1>2, <2>1
    <3>2. guc.names = {} /\ \A j \in 1..i : out[j].type = "sync" => out[j].num = 0
      BY <1>3, <2>1 DEF LeadsTo, RefusedFirst
    <3> QED BY <1>3, <3>1, <3>2
  <2>2. CASE i = n + 1
    <3>1. guc.names = {} /\ \A j \in 1..n : out[j].type = "sync" => out[j].num = 0
      BY <1>3, <2>2 DEF OnlyZeros
    <3>2. t.num = 0
      BY <1>3, <2>2 DEF Refused
    <3> QED BY <1>3, <1>12, <2>2, <3>1, <3>2
  <2> QED BY <1>12, <2>1, <2>2
<1> QED BY <1>3, <1>10, <1>11, <1>13, <1>14 DEF LeadsTo, new, w

LEMMA ZerosFurther ==
  ASSUME NEW out \in Seq(QcUpdates), NEW t \in QcUpdates, OnlyZeros(out), t.type = "sync" => t.num = 0
  PROVE  OnlyZeros(Append(out, t))
<1>1. Len(out) \in Nat /\ Len(Append(out, t)) = Len(out) + 1 /\ Append(out, t)[Len(out) + 1] = t
      /\ \A i \in 1..Len(out) : Append(out, t)[i] = out[i]
  OBVIOUS
<1>2. \A i \in 1..(Len(out) + 1) : i \in 1..Len(out) \/ i = Len(out) + 1
  BY <1>1
<1>3. ASSUME NEW i \in 1..(Len(out) + 1), Append(out, t)[i].type = "sync" PROVE Append(out, t)[i].num = 0
  BY <1>1, <1>2, <1>3 DEF OnlyZeros
<1> QED BY <1>1, <1>3 DEF OnlyZeros

-----------------------------------------------------------------------------
(***************************************************************************)
(* __iter__ of the resolver: leaving out all but the last of neighbours of *)
(* the same type leads to the same views.                                  *)
(***************************************************************************)
\* How many members of K are not beyond i.
Rank(K, i) == Cardinality({j \in K : j <= i})

LEMMA Numbers ==
  ASSUME NEW n \in Nat, NEW K \in SUBSET (1..n)
  PROVE  /\ IsFiniteSet(K) /\ Cardinality(K) \in Nat
         /\ \A j \in K : j \in Nat /\ 1 <= j /\ j <= n
<1>1. IsFiniteSet(1..n)
  BY FS_Interval
<1>2. IsFiniteSet(K)
  BY <1>1, FS_Subset
<1> QED BY <1>2, FS_CardinalityType

LEMMA RankGrows ==
  ASSUME NEW n \in Nat, NEW K \in SUBSET (1..n), NEW a \in Nat, NEW b \in Nat
  PROVE  /\ Rank(K, a) \in Nat
         /\ a <= b => Rank(K, a) <= Rank(K, b)
         /\ a < b /\ b \in K => Rank(K, a) + 1 <= Rank(K, b)
         /\ Rank(K, 0) = 0 /\ Rank(K, n) = Cardinality(K)
<1>1. IsFiniteSet(K) /\ \A j \in K : j \in Nat /\ 1 <= j /\ j <= n
  BY Numbers
<1>2. ASSUME NEW i PROVE IsFiniteSet({j \in K : j <= i}) /\ Rank(K, i) \in Nat
  BY <1>1, FS_Subset, FS_CardinalityType DEF Rank
<1>3. ASSUME a <= b PROVE Rank(K, a) <= Rank(K, b)
  <2>1. {j \in K : j <= a} \subseteq {j \in K : j <= b}
    <3>1. ASSUME NEW j \in K, j <= a PROVE j <= b
      <4>1. j \in Nat
        BY <1>1
      <4> QED BY <1>3, <3>1, <4>1
    <3> QED BY <3>1
  <2> QED BY <1>2, <2>1, FS_Subset DEF Rank
<1>4. ASSUME a < b, b \in K PROVE Rank(K, a) + 1 <= Rank(K, b)
  <2> DEFINE A == {j \in K : j <= a}
  <2>1. b \notin A
    BY <1>4
  <2>2. A \union {b} \subseteq {j \in K : j <= b}
    <3>1. ASSUME NEW j \in K, j <= a PROVE j <= b
      <4>1. j \in Nat
        BY <1>1
      <4> QED BY <1>4, <3>1, <4>1
    <3>2. b <= b
      OBVIOUS
    <3> QED BY <1>4, <3>1, <3>2
  <2>3. IsFiniteSet(A) /\ Cardinality(A) = Rank(K, a)
    BY <1>2 DEF Rank
  <2> HIDE DEF A
  <2>4. Cardinality(A \union {b}) = Cardinality(A) + 1
    BY <2>1, <2>3, FS_AddElement
  <2>5. Cardinality(A \union {b}) <= Rank(K, b)
    BY <1>2, <2>2, FS_Subset DEF Rank
  <2> QED BY <2>3, <2>4, <2>5
<1>5. Rank(K, 0) = 0
  <2>1. {j \in K : j <= 0} = {}
    <3>1. ASSUME NEW j \in K PROVE ~(j <= 0)
      <4>1. j \in Nat /\ 1 <= j
        BY <1>1
      <4> QED BY <4>1
    <3> QED BY <3>1
  <2> QED BY <2>1, FS_EmptySet DEF Rank
<1>6. Rank(K, n) = Cardinality(K)
  <2>1. {j \in K : j <= n} = K
    BY <1>1
  <2> QED BY <2>1 DEF Rank
<1> QED BY <1>2, <1>3, <1>4, <1>5, <1>6

\* Every number up to that of the members is the rank of a member.
LEMMA RankReached ==
  ASSUME NEW n \in Nat, NEW K \in SUBSET (1..n), NEW k \in 1..Cardinality(K)
  PROVE  \E i \in K : Rank(K, i) = k
<1>0. Cardinality(K) \in Nat /\ k \in Nat /\ k >= 1
  BY Numbers
<1> DEFINE T == {i \in 0..n : Rank(K, i) >= k}
<1>1. \A i \in Nat : Rank(K, i) \in Nat
  BY RankGrows
<1>2. n \in T
  BY <1>0, RankGrows
<1>3. PICK x \in T : \A y \in T : x <= y
  <2>1. T \in SUBSET Nat /\ T # {}
    BY <1>2
  <2> HIDE DEF T
  <2> QED BY <2>1, LeastNumber
<1>4. x # 0
  BY <1>0, <1>3, RankGrows
<1>5. x - 1 \in 0..n /\ x - 1 \notin T
  BY <1>3, <1>4
<1>6. Rank(K, x - 1) < k /\ Rank(K, x) >= k /\ x \in Nat /\ x - 1 \in Nat
  <2>1. x - 1 \in Nat /\ x \in Nat
    BY <1>4
  <2>2. Rank(K, x - 1) \in Nat
    BY <2>1, <1>1
  <2> QED BY <1>0, <1>3, <1>5, <2>1, <2>2
<1> DEFINE A == {j \in K : j <= x - 1}
<1>7. x \in K
  <2> SUFFICES ASSUME x \notin K PROVE FALSE
    OBVIOUS
  <2>1. A = {j \in K : j <= x}
    <3>1. ASSUME NEW j \in K PROVE j <= x - 1 <=> j <= x
      <4>1. j \in Nat /\ j # x
        BY Numbers
      <4> QED BY <1>6, <4>1
    <3> QED BY <3>1
  <2> QED BY <1>0, <1>1, <1>6, <2>1 DEF Rank
<1>8. Rank(K, x) = Rank(K, x - 1) + 1
  <2>1. {j \in K : j <= x} = A \union {x} /\ x \notin A
    <3>1. ASSUME NEW j \in K PROVE j <= x <=> j <= x - 1 \/ j = x
      <4>1. j \in Nat
        BY Numbers
      <4> QED BY <1>6, <4>1
    <3>2. ~(x <= x - 1)
      BY <1>6
    <3> QED BY <1>7, <3>1, <3>2
  <2>2. IsFiniteSet(A)
    <3>1. IsFiniteSet(K)
      BY Numbers
    <3> QED BY <3>1, FS_Subset
  <2>3. Cardinality(A \union {x}) = Cardinality(A) + 1
    <3> HIDE DEF A
    <3> QED BY <2>1, <2>2, FS_AddElement
  <2> QED BY <2>1, <2>3 DEF Rank
<1>9. Rank(K, x) = k
  <2>1. Rank(K, x) \in Nat /\ Rank(K, x - 1) \in Nat
    BY <1>1, <1>6
  <2> QED BY <1>0, <1>6, <1>8, <2>1
<1> QED BY <1>7, <1>9

\* After neighbours of the same type the view is as if only the last one had been applied.
LEMMA RunOfOneType ==
  ASSUME NEW out, NEW p, SafePath(p, out), Len(out) \in Nat, NEW a \in 0..Len(out), NEW b \in 1..Len(out), a < b,
         \A m \in (a + 1)..(b - 1) : out[m].type = out[m + 1].type
  PROVE  p[b] = Applied(p[a], out[b])
<1> DEFINE Bad == {m \in (a + 1)..b : p[m] # Applied(p[a], out[m])}
<1>1. ASSUME Bad # {} PROVE FALSE
  <2>1. Bad \in SUBSET Nat
    OBVIOUS
  <2>2. PICK m \in Bad : \A y \in Bad : m <= y
    <3> HIDE DEF Bad
    <3> QED BY <1>1, <2>1, LeastNumber
  <2>3. m \in (a + 1)..b /\ m \in 1..Len(out) /\ m \in Int
    OBVIOUS
  <2>4. p[m] = Applied(p[m - 1], out[m])
    BY <2>3 DEF SafePath
  <2>5. CASE m = a + 1
    <3>1. m - 1 = a
      BY <2>5
    <3> QED BY <2>2, <2>4, <3>1
  <2>6. CASE m # a + 1
    <3>1. m - 1 \in (a + 1)..b /\ m - 1 \in (a + 1)..(b - 1) /\ m - 1 < m /\ (m - 1) + 1 = m
      BY <2>3, <2>6
    <3>2. m - 1 \notin Bad
      BY <2>2, <2>3, <3>1
    <3>3. p[m - 1] = Applied(p[a], out[m - 1])
      BY <3>1, <3>2
    <3>4. out[m - 1].type = out[m].type
      BY <3>1
    <3>5. Applied(Applied(p[a], out[m - 1]), out[m]) = Applied(p[a], out[m])
      BY <3>4, AppliedTwice
    <3> QED BY <2>2, <2>4, <3>3, <3>5
  <2> QED BY <2>5, <2>6
<1>2. b \in (a + 1)..b
  OBVIOUS
<1> QED BY <1>1, <1>2

\* The indices __iter__ keeps.
LastOfType(out, i) == i = Len(out) \/ out[i].type # out[i + 1].type
Stopped(out, i) == \E j \in 1..(i - 1) : LastOfType(out, j) /\ out[j].type = "restart"
Kept(out) == {i \in 1..Len(out) : LastOfType(out, i) /\ ~Stopped(out, i)}
NthKept(out, k) == CHOOSE i \in Kept(out) : Rank(Kept(out), i) = k

LEMMA MergedKept ==
  ASSUME NEW out
  PROVE  Merged(out) = [k \in 1..Cardinality(Kept(out)) |-> out[NthKept(out, k)]]
  BY DEF Merged, NthKept, Kept, LastOfType, Stopped, Rank

LEMMA NthKeptFacts ==
  ASSUME NEW out, Len(out) \in Nat, NEW k \in 1..Cardinality(Kept(out))
  PROVE  /\ NthKept(out, k) \in Kept(out) /\ NthKept(out, k) \in 1..Len(out)
         /\ Rank(Kept(out), NthKept(out, k)) = k
<1>1. Kept(out) \in SUBSET (1..Len(out))
  BY DEF Kept
<1>2. \E i \in Kept(out) : Rank(Kept(out), i) = k
  BY <1>1, RankReached
<1> QED BY <1>1, <1>2 DEF NthKept

\* Between two kept transitions all are of the type of the second one.
LEMMA NothingBetween ==
  ASSUME NEW out, Len(out) \in Nat, NEW a \in 0..Len(out), NEW b \in Kept(out), a < b,
         Rank(Kept(out), b) = Rank(Kept(out), a) + 1
  PROVE  \A m \in (a + 1)..(b - 1) : out[m].type = out[m + 1].type
<1> SUFFICES ASSUME NEW m \in (a + 1)..(b - 1), out[m].type # out[m + 1].type PROVE FALSE
  OBVIOUS
<1>0. Kept(out) \in SUBSET (1..Len(out)) /\ b \in 1..Len(out)
  BY DEF Kept
<1>1. m \in 1..Len(out) /\ m \in Nat /\ a \in Nat /\ b \in Nat /\ a < m /\ m < b
  BY <1>0
<1>2. ~Stopped(out, m)
  <2> SUFFICES ASSUME NEW j \in 1..(m - 1), LastOfType(out, j) /\ out[j].type = "restart" PROVE FALSE
    BY DEF Stopped
  <2>1. j \in 1..(b - 1)
    BY <1>1
  <2>2. Stopped(out, b)
    BY <2>1 DEF Stopped
  <2> QED BY <2>2 DEF Kept
<1>3. m \in Kept(out)
  BY <1>1, <1>2 DEF Kept, LastOfType
<1>4. Rank(Kept(out), a) + 1 <= Rank(Kept(out), m) /\ Rank(Kept(out), m) + 1 <= Rank(Kept(out), b)
  BY <1>0, <1>1, <1>3, RankGrows
<1>5. Rank(Kept(out), a) \in Nat /\ Rank(Kept(out), m) \in Nat /\ Rank(Kept(out), b) \in Nat
  BY <1>0, <1>1, RankGrows
<1> QED BY <1>4, <1>5

LEMMA MergedLeads ==
  ASSUME NEW out, NEW v, LeadsTo(out, v)
  PROVE  \E w : LeadsTo(Merged(out), w)
<1> DEFINE K == Kept(out)
           c == Cardinality(K)
           N(k) == NthKept(out, k)
           new == Merged(out)
<1>1. PICK p : SafePath(p, out) /\ p[0] = ActualView
  BY DEF LeadsTo
<1>2. out \in Seq(QcUpdates) /\ Len(out) \in Nat
  BY DEF LeadsTo
<1>3. K \in SUBSET (1..Len(out)) /\ c \in Nat
  <2>1. K \in SUBSET (1..Len(out))
    BY DEF Kept
  <2> QED BY <1>2, <2>1, Numbers
<1>4. new = [k \in 1..c |-> out[N(k)]]
  BY MergedKept
<1>5. ASSUME NEW k \in 1..c PROVE N(k) \in K /\ N(k) \in 1..Len(out) /\ Rank(K, N(k)) = k
  BY <1>2, NthKeptFacts
<1> HIDE DEF K, c, N, new
<1>6. new \in Seq(QcUpdates) /\ Len(new) = c /\ \A k \in 1..c : new[k] = out[N(k)]
  <2>1. \A i \in 1..Len(out) : out[i] \in QcUpdates
    BY <1>2
  <2>2. \A k \in 1..c : out[N(k)] \in QcUpdates
    BY <1>5, <2>1
  <2>3. new \in [1..c -> QcUpdates]
    BY <1>4, <2>2
  <2>4. new \in Seq(QcUpdates) /\ Len(new) = c
    BY <1>3, <2>3
  <2> QED BY <1>4, <2>4
<1>7. ASSUME NEW j \in 1..c, NEW k \in 1..c, j < k PROVE N(j) < N(k)
  <2> SUFFICES ASSUME N(k) <= N(j) PROVE FALSE
    BY <1>5
  <2>1. N(k) \in Nat /\ N(j) \in Nat
    BY <1>5
  <2>2. Rank(K, N(k)) <= Rank(K, N(j))
    BY <1>2, <1>3, <2>1, RankGrows
  <2> QED BY <1>5, <1>7, <2>2
<1> DEFINE M(k) == IF k = 0 THEN 0 ELSE N(k)
           q == [k \in 0..c |-> p[M(k)]]
<1>8. ASSUME NEW k \in 0..c PROVE M(k) \in 0..Len(out) /\ Rank(K, M(k)) = k
  <2>1. CASE k = 0
    BY <1>2, <1>3, <2>1, RankGrows
  <2>2. CASE k # 0
    <3>1. k \in 1..c
      BY <2>2, <1>3
    <3> QED BY <1>5, <2>2, <3>1
  <2> QED BY <2>1, <2>2
<1>9. ASSUME NEW k \in 1..c
      PROVE  p[M(k)] = Applied(p[M(k - 1)], new[k])
  <2> DEFINE a == M(k - 1)
             b == N(k)
  <2>1. k - 1 \in 0..c /\ k \in 0..c
    BY <1>3
  <2>2. a \in 0..Len(out) /\ Rank(K, a) = k - 1
    BY <1>8, <2>1
  <2>3. b \in K /\ b \in 1..Len(out) /\ Rank(K, b) = k
    BY <1>5
  <2>4. a < b
    <3>1. CASE k = 1
      BY <2>3, <3>1
    <3>2. CASE k # 1
      <4>1. k - 1 \in 1..c /\ k - 1 < k /\ k - 1 # 0
        BY <1>3, <3>2
      <4>2. N(k - 1) < N(k)
        BY <1>7, <4>1
      <4> QED BY <4>1, <4>2
    <3> QED BY <3>1, <3>2
  <2>5. Rank(K, b) = Rank(K, a) + 1
    BY <2>2, <2>3
  <2>6. M(k) = b /\ new[k] = out[b]
    BY <1>6
  <2> HIDE DEF a, b, M
  <2>7. \A m \in (a + 1)..(b - 1) : out[m].type = out[m + 1].type
    BY <1>2, <2>2, <2>3, <2>4, <2>5, NothingBetween DEF K
  <2>8. p[b] = Applied(p[a], out[b])
    BY <1>1, <1>2, <2>2, <2>3, <2>4, <2>7, RunOfOneType
  <2> QED BY <2>6, <2>8 DEF a
<1>10. SafePath(q, new) /\ q[0] = ActualView
  <2>1. \A k \in 0..c : q[k] = p[M(k)]
    OBVIOUS
  <2>2. \A k \in 0..c : p[M(k)] \in QcViews /\ SafeView(p[M(k)])
    <3> SUFFICES ASSUME NEW k \in 0..c PROVE p[M(k)] \in QcViews /\ SafeView(p[M(k)])
      OBVIOUS
    <3>1. M(k) \in 0..Len(out)
      BY <1>8
    <3> HIDE DEF M
    <3> QED BY <1>1, <3>1 DEF SafePath
  <2>3. q \in [0..c -> QcViews]
    <3> HIDE DEF M
    <3> QED BY <2>2
  <2>4. \A k \in 1..c : q[k] = Applied(q[k - 1], new[k])
    <3> SUFFICES ASSUME NEW k \in 1..c PROVE q[k] = Applied(q[k - 1], new[k])
      OBVIOUS
    <3>1. k \in 0..c /\ k - 1 \in 0..c
      BY <1>3
    <3> HIDE DEF q, M
    <3> QED BY <1>9, <2>1, <3>1
  <2>5. q[0] = ActualView
    <3>1. 0 \in 0..c /\ M(0) = 0
      BY <1>3
    <3> HIDE DEF q, M
    <3> QED BY <1>1, <2>1, <3>1
  <2> HIDE DEF q, M
  <2>6. \A k \in 0..c : SafeView(q[k])
    BY <2>1, <2>2
  <2> QED BY <1>6, <2>3, <2>4, <2>5, <2>6 DEF SafePath
<1>11. \A k \in 1..c : IsUpdate(new[k])
  BY <1>5, <1>6 DEF LeadsTo
<1>12. RefusedFirst(new)
  <2> SUFFICES ASSUME NEW k \in 1..c, Refused(new[k])
               PROVE  guc.names = {} /\ \A j \in 1..k : new[j].type = "sync" => new[j].num = 0
    BY <1>6 DEF RefusedFirst
  <2>1. guc.names = {} /\ \A i \in 1..N(k) : out[i].type = "sync" => out[i].num = 0
    BY <1>5, <1>6 DEF LeadsTo, RefusedFirst
  <2>2. ASSUME NEW j \in 1..k PROVE N(j) \in 1..N(k) /\ j \in 1..c
    <3>1. j \in 1..c /\ N(j) \in Nat /\ N(j) >= 1 /\ N(k) \in Nat
      BY <1>3, <1>5
    <3>2. j = k \/ N(j) < N(k)
      BY <1>7, <3>1
    <3> QED BY <3>1, <3>2
  <2> QED BY <1>6, <2>1, <2>2
<1> HIDE DEF q
<1> QED BY <1>6, <1>10, <1>11, <1>12 DEF LeadsTo, new

-----------------------------------------------------------------------------
(***************************************************************************)
(* The resolver.  Whatever it does, its record stays well typed, and while *)
(* it has not failed the transitions it has yielded lead safely to the     *)
(* view it works on: check_invariants is called before every yield.        *)
(***************************************************************************)
QcResolvers ==
    [leader : Cluster, quorum : Nat, voters : SUBSET Cluster, numsync : Nat, sync : SUBSET Standbys,
     confirmed : Int, active : SUBSET Standbys, wanted : Nat \ {0}, leaderWanted : {primary},
     out : Seq(QcUpdates), err : {"none", "QuorumError", "AssertionError"}]

ViewOf(r) == [leader |-> r.leader, quorum |-> r.quorum, voters |-> r.voters, numsync |-> r.numsync, sync |-> r.sync]

Consistent(r) == r.err = "none" => LeadsTo(r.out, ViewOf(r))

\* The part of the record quorum_update leaves alone, and the part sync_update does.
KeyOnly(w, r) ==
    /\ w.numsync = r.numsync /\ w.sync = r.sync
    /\ w.confirmed = r.confirmed /\ w.active = r.active /\ w.wanted = r.wanted
SyncOnly(w, r) ==
    /\ w.leader = r.leader /\ w.quorum = r.quorum /\ w.voters = r.voters
    /\ w.confirmed = r.confirmed /\ w.active = r.active /\ w.wanted = r.wanted

LEMMA ResolverFields ==
  ASSUME NEW r \in QcResolvers
  PROVE  /\ r.leader \in Cluster /\ r.quorum \in Nat /\ r.voters \in SUBSET Cluster
         /\ r.numsync \in Nat /\ r.sync \in SUBSET Standbys /\ r.confirmed \in Int
         /\ r.active \in SUBSET Standbys /\ r.wanted \in Nat /\ r.wanted >= 1 /\ r.leaderWanted = primary
         /\ r.out \in Seq(QcUpdates) /\ r.err \in {"none", "QuorumError", "AssertionError"}
  BY DEF QcResolvers

LEMMA SubsetOfCluster ==
  ASSUME NEW S \in SUBSET Standbys
  PROVE  S \in SUBSET Cluster /\ primary \notin S
  BY DEF Standbys

LEMMA RaiseFacts ==
  ASSUME NEW r \in QcResolvers, NEW e \in {"QuorumError", "AssertionError"}
  PROVE  /\ Raise(r, e) \in QcResolvers /\ KeyOnly(Raise(r, e), r) /\ SyncOnly(Raise(r, e), r)
         /\ Raise(r, e).out = r.out /\ Raise(r, e).err = e /\ e # "none"
  BY DEF QcResolvers, Raise, KeyOnly, SyncOnly

LEMMA CheckFacts ==
  ASSUME NEW r \in QcResolvers
  PROVE  /\ CheckInvariants(r) \in QcResolvers /\ KeyOnly(CheckInvariants(r), r) /\ SyncOnly(CheckInvariants(r), r)
         /\ CheckInvariants(r).out = r.out
         /\ CheckInvariants(r).err = "none" => r.err = "none" /\ InvariantsHold(r) /\ CheckInvariants(r) = r
         /\ CheckInvariants(r).err # "none" /\ r.err = "none" =>
              ~InvariantsHold(r) /\ CheckInvariants(r).err = "QuorumError"
<1>1. CASE r.err # "none" \/ InvariantsHold(r)
  BY <1>1 DEF CheckInvariants, KeyOnly, SyncOnly
<1>2. CASE ~(r.err # "none" \/ InvariantsHold(r))
  <2>1. CheckInvariants(r) = Raise(r, "QuorumError")
    BY <1>2 DEF CheckInvariants
  <2> QED BY <1>2, <2>1, RaiseFacts
<1> QED BY <1>1, <1>2

LEMMA YieldFacts ==
  ASSUME NEW r \in QcResolvers, NEW t \in QcUpdates
  PROVE  /\ Yield(r, t) \in QcResolvers /\ KeyOnly(Yield(r, t), r) /\ SyncOnly(Yield(r, t), r)
         /\ Yield(r, t).err = r.err
         /\ r.err # "none" => Yield(r, t) = r
         /\ r.err = "none" => Yield(r, t).out = Append(r.out, t)
<1>1. CASE r.err # "none"
  BY <1>1 DEF Yield, KeyOnly, SyncOnly
<1>2. CASE r.err = "none"
  <2>1. Append(r.out, t) \in Seq(QcUpdates)
    BY ResolverFields
  <2> DEFINE o == Append(r.out, t)
  <2>2. Yield(r, t) = [r EXCEPT !.out = o]
    BY <1>2 DEF Yield
  <2> HIDE DEF o
  <2>3. o \in Seq(QcUpdates)
    BY <2>1 DEF o
  <2>4. [r EXCEPT !.out = o] \in QcResolvers /\ KeyOnly([r EXCEPT !.out = o], r) /\ SyncOnly([r EXCEPT !.out = o], r)
        /\ [r EXCEPT !.out = o].err = r.err /\ [r EXCEPT !.out = o].out = o
    BY <2>3 DEF QcResolvers, KeyOnly, SyncOnly
  <2> QED BY <1>2, <2>2, <2>4 DEF o
<1> QED BY <1>1, <1>2

LEMMA UpdateType ==
  ASSUME NEW type \in {"quorum", "restart"}, NEW l \in Cluster, NEW q \in Nat, NEW V \in SUBSET Cluster
  PROVE  /\ IsUpdate(Transition(type, l, q, V)) /\ Transition(type, l, q, V) \in QcUpdates
         /\ ~Refused(Transition(type, l, q, V)) /\ Transition(type, l, q, V).type # "sync"
  BY DEF Transition, IsUpdate, QcUpdates, Refused

LEMMA WriteKeyFacts ==
  ASSUME NEW r \in QcResolvers, r.err = "none", NEW l \in Cluster, NEW q \in Nat, NEW V \in SUBSET Cluster,
         NEW w, w = WriteKey(r, l, q, V)
  PROVE  /\ w \in QcResolvers /\ KeyOnly(w, r)
         /\ w.leader = l /\ w.quorum = q /\ w.voters = V
         /\ w.err \in {"none", "QuorumError"}
         /\ OnlyZeros(r.out) => OnlyZeros(w.out)
         /\ <<l, q, V>> # <<r.leader, r.quorum, r.voters>> /\ w.err # "none" => w.out = r.out /\ ~InvariantsHold(w)
         /\ \A u : /\ LeadsTo(r.out, u) /\ u.sync = r.sync /\ u.numsync = r.numsync
                   /\ u = ViewOf(r) \/ <<l, q, V>> # <<r.leader, r.quorum, r.voters>>
                   /\ w.err = "none" /\ (V = {} => l = primary)
                   => LeadsTo(w.out, ViewOf(w))
<1> DEFINE tq == Transition("quorum", l, q, V)
           tr == Transition("restart", l, q, V)
<1>0. /\ IsUpdate(tq) /\ tq \in QcUpdates /\ ~Refused(tq) /\ tq.type # "sync"
      /\ IsUpdate(tr) /\ tr \in QcUpdates /\ ~Refused(tr) /\ tr.type # "sync"
  BY UpdateType
<1>a. r.out \in Seq(QcUpdates)
  BY ResolverFields
<1>b. \A u : Applied(u, tr) = u /\ Applied(u, tq) = [leader |-> l, quorum |-> q, voters |-> V, numsync |-> u.numsync, sync |-> u.sync]
  BY DEF Applied, Transition
<1>1. CASE <<l, q, V>> = <<r.leader, r.quorum, r.voters>> /\ V # {}
  <2>1. w = r /\ l = r.leader /\ q = r.quorum /\ V = r.voters
    BY <1>1 DEF WriteKey
  <2> QED BY <1>1, <2>1 DEF KeyOnly
<1>2. CASE <<l, q, V>> = <<r.leader, r.quorum, r.voters>> /\ V = {}
  <2> DEFINE a == Yield(r, tr)
             b == CheckInvariants(a)
  <2>1. w = Yield(b, tq) /\ l = r.leader /\ q = r.quorum /\ V = r.voters
    BY <1>2 DEF WriteKey
  <2>2. a \in QcResolvers /\ KeyOnly(a, r) /\ SyncOnly(a, r) /\ a.err = "none" /\ a.out = Append(r.out, tr)
    BY <1>0, YieldFacts
  <2>3. b \in QcResolvers /\ KeyOnly(b, a) /\ SyncOnly(b, a) /\ b.out = a.out /\ b.err \in {"none", "QuorumError"}
    <3> HIDE DEF a
    <3> QED BY <2>2, CheckFacts
  <2> HIDE DEF a, b, tq, tr
  <2>4. w \in QcResolvers /\ KeyOnly(w, b) /\ SyncOnly(w, b) /\ w.err = b.err
        /\ (b.err # "none" => w = b) /\ (b.err = "none" => w.out = Append(b.out, tq))
    BY <1>0, <2>1, <2>3, YieldFacts
  <2>5. KeyOnly(w, r) /\ w.leader = l /\ w.quorum = q /\ w.voters = V
    BY <2>1, <2>2, <2>3, <2>4 DEF KeyOnly, SyncOnly
  <2>6. ASSUME OnlyZeros(r.out) PROVE OnlyZeros(w.out)
    <3>1. OnlyZeros(a.out) /\ a.out \in Seq(QcUpdates)
      BY <1>0, <1>a, <2>2, <2>6, ZerosFurther
    <3>2. OnlyZeros(Append(b.out, tq)) /\ OnlyZeros(b.out)
      BY <1>0, <2>3, <3>1, ZerosFurther
    <3> QED BY <2>3, <2>4, <3>2
  <2>7. ASSUME NEW u, LeadsTo(r.out, u), u = ViewOf(r), w.err = "none" PROVE LeadsTo(w.out, ViewOf(w))
    <3>1. u.voters = {} /\ u.sync = r.sync /\ u.numsync = r.numsync
      BY <1>2, <2>1, <2>7 DEF ViewOf
    <3>2. SafeView(u)
      BY <2>7, LeadsSafely
    <3>3. LeadsTo(a.out, u)
      BY <1>0, <1>b, <2>2, <2>7, <3>2, LeadsFurther
    <3>4. Applied(u, tq) = u
      BY <1>b, <2>1, <2>7 DEF ViewOf
    <3>5. LeadsTo(Append(b.out, tq), u)
      <4>1. LeadsTo(b.out, u)
        BY <2>3, <3>3
      <4>2. LeadsTo(Append(b.out, tq), Applied(u, tq))
        BY <1>0, <3>2, <3>4, <4>1, LeadsFurther
      <4> QED BY <3>4, <4>2
    <3>6. ViewOf(w) = u
      BY <2>1, <2>5, <2>7 DEF ViewOf, KeyOnly
    <3> QED BY <2>4, <2>7, <3>5, <3>6
  <2> QED BY <1>2, <2>3, <2>4, <2>5, <2>6, <2>7
<1>3. CASE <<l, q, V>> # <<r.leader, r.quorum, r.voters>>
  <2> DEFINE a == [r EXCEPT !.leader = l, !.quorum = q, !.voters = V]
             b == CheckInvariants(a)
  <2>1. w = Yield(b, tq)
    BY <1>3 DEF WriteKey
  <2>2. a \in QcResolvers /\ KeyOnly(a, r) /\ a.err = "none" /\ a.out = r.out
        /\ a.leader = l /\ a.quorum = q /\ a.voters = V
    BY DEF QcResolvers, KeyOnly
  <2> HIDE DEF a
  <2>3. b \in QcResolvers /\ KeyOnly(b, a) /\ SyncOnly(b, a) /\ b.out = a.out
        /\ (b.err = "none" => InvariantsHold(a))
        /\ (b.err # "none" => b.err = "QuorumError" /\ ~InvariantsHold(a))
    BY <2>2, CheckFacts
  <2> HIDE DEF b
  <2>4. w \in QcResolvers /\ KeyOnly(w, b) /\ SyncOnly(w, b) /\ w.err = b.err
        /\ (b.err # "none" => w = b) /\ (b.err = "none" => w.out = Append(b.out, tq))
    BY <1>0, <2>1, <2>3, YieldFacts
  <2>5. KeyOnly(w, r) /\ w.leader = l /\ w.quorum = q /\ w.voters = V
    BY <2>2, <2>3, <2>4 DEF KeyOnly, SyncOnly
  <2>6. ASSUME OnlyZeros(r.out) PROVE OnlyZeros(w.out)
    <3>1. OnlyZeros(Append(r.out, tq))
      BY <1>0, <1>a, <2>6, ZerosFurther
    <3> QED BY <2>2, <2>3, <2>4, <2>6, <3>1
  <2>7. InvariantsHold(w) <=> InvariantsHold(a)
    <3>1. w.leaderWanted = a.leaderWanted
      BY <2>2, <2>4, ResolverFields
    <3>2. w.voters = a.voters /\ w.leader = a.leader /\ w.sync = a.sync /\ w.quorum = a.quorum /\ w.numsync = a.numsync
      BY <2>2, <2>5 DEF KeyOnly
    <3> QED BY <3>1, <3>2 DEF InvariantsHold
  <2>8. w.err # "none" => w.out = r.out /\ ~InvariantsHold(w)
    BY <2>2, <2>3, <2>4, <2>7
  <2>9. ASSUME NEW u, LeadsTo(r.out, u), u.sync = r.sync, u.numsync = r.numsync, w.err = "none", V = {} => l = primary
        PROVE  LeadsTo(w.out, ViewOf(w))
    <3>1. Applied(u, tq) = ViewOf(w)
      BY <1>b, <2>5, <2>9 DEF ViewOf, KeyOnly
    <3>2. InvariantsHold(w) /\ w.leaderWanted = primary
      BY <2>3, <2>4, <2>7, <2>9, ResolverFields
    <3>3. SafeView(ViewOf(w))
      BY <2>5, <2>9, <3>2 DEF SafeView, ViewOf, InvariantsHold
    <3>4. LeadsTo(Append(r.out, tq), ViewOf(w))
      BY <1>0, <2>9, <3>1, <3>3, LeadsFurther
    <3> QED BY <2>2, <2>3, <2>4, <2>9, <3>4
  <2> QED BY <2>3, <2>4, <2>5, <2>6, <2>8, <2>9
<1> QED BY <1>1, <1>2, <1>3

\* quorum_update without a new leader: refused, or one of two keys is written.
LEMMA QuorumUpdateWrites ==
  ASSUME setup \in Setups, NEW r \in QcResolvers, r.err = "none", NEW q \in Int, NEW V \in SUBSET Cluster, NEW adjust
  PROVE  \/ QuorumUpdate(r, q, V, NoNode, adjust) = Raise(r, "QuorumError")
         \/ /\ r.voters = {}
            /\ QuorumUpdate(r, q, V, NoNode, adjust) = WriteKey(r, r.leader, 0, {})
         \/ \E k \in Nat : k >= q /\ QuorumUpdate(r, q, V, NoNode, adjust) = WriteKey(r, r.leader, k, V)
<1> DEFINE k == IF adjust THEN q + Higher(r.numsync - r.confirmed, 0) ELSE q
           w == QuorumUpdate(r, q, V, NoNode, adjust)
<1>1. r.numsync - r.confirmed \in Int /\ 0 \in Int
  BY ResolverFields
<1>2. Higher(r.numsync - r.confirmed, 0) \in Int /\ Higher(r.numsync - r.confirmed, 0) >= 0
  <2> DEFINE d == r.numsync - r.confirmed
  <2>1. d \in Int
    BY <1>1
  <2> HIDE DEF d
  <2>2. Higher(d, 0) \in Int /\ Higher(d, 0) >= 0
    BY <2>1, LowerHigher
  <2> QED BY <2>2 DEF d
<1>3. CASE q < 0 \/ (q > 0 /\ q >= Cardinality(V))
  BY <1>3 DEF QuorumUpdate
<1>4. CASE ~(q < 0 \/ (q > 0 /\ q >= Cardinality(V)))
  <2>1. k \in Nat /\ k >= q
    <3> DEFINE h == Higher(r.numsync - r.confirmed, 0)
    <3>1. h \in Int /\ h >= 0
      BY <1>2
    <3> HIDE DEF h
    <3>2. q >= 0
      BY <1>4
    <3>3. (IF adjust THEN q + h ELSE q) \in Nat /\ (IF adjust THEN q + h ELSE q) >= q
      BY <3>1, <3>2
    <3> QED BY <3>3 DEF h
  <2>2. CASE r.confirmed = 0 /\ r.voters = {}
    BY <1>4, <2>2 DEF QuorumUpdate
  <2>3. CASE ~(r.confirmed = 0 /\ r.voters = {})
    <3>1. w = WriteKey(r, r.leader, k, V)
      BY <1>4, <2>3 DEF QuorumUpdate
    <3> HIDE DEF k
    <3> QED BY <2>1, <3>1
  <2> QED BY <2>2, <2>3
<1> QED BY <1>3, <1>4

LEMMA QuorumUpdateFacts ==
  ASSUME setup \in Setups, NEW r \in QcResolvers, NEW q \in Int, NEW V \in SUBSET Cluster, NEW adjust,
         NEW w, w = QuorumUpdate(r, q, V, NoNode, adjust)
  PROVE  /\ w \in QcResolvers /\ KeyOnly(w, r) /\ w.leader = r.leader
         /\ r.err # "none" => w = r
         /\ OnlyZeros(r.out) => OnlyZeros(w.out)
         /\ Consistent(r) /\ (r.err = "none" => r.leader = primary) => Consistent(w)
         /\ w.err = "none" => w.voters = V \/ (w.voters = {} /\ r.voters = {})
<1>1. CASE r.err # "none"
  <2>1. w = r
    BY <1>1 DEF QuorumUpdate
  <2> QED BY <1>1, <2>1 DEF KeyOnly
<1>2. CASE r.err = "none" /\ w = Raise(r, "QuorumError")
  <2>1. w \in QcResolvers /\ KeyOnly(w, r) /\ SyncOnly(w, r) /\ w.out = r.out /\ w.err # "none"
    BY <1>2, RaiseFacts
  <2> QED BY <1>2, <2>1 DEF SyncOnly, Consistent
<1>3. ASSUME r.err = "none", NEW k \in Nat, NEW S \in SUBSET Cluster, w = WriteKey(r, r.leader, k, S)
      PROVE  /\ w \in QcResolvers /\ KeyOnly(w, r) /\ w.leader = r.leader /\ w.voters = S
             /\ OnlyZeros(r.out) => OnlyZeros(w.out)
             /\ Consistent(r) /\ r.leader = primary => Consistent(w)
  <2>1. r.leader \in Cluster
    BY ResolverFields
  <2>2. w \in QcResolvers /\ KeyOnly(w, r) /\ w.leader = r.leader /\ w.voters = S
        /\ (OnlyZeros(r.out) => OnlyZeros(w.out))
    BY <1>3, <2>1, WriteKeyFacts
  <2>3. ASSUME Consistent(r), r.leader = primary, w.err = "none" PROVE LeadsTo(w.out, ViewOf(w))
    <3> DEFINE u == ViewOf(r)
    <3>1. LeadsTo(r.out, u) /\ u.sync = r.sync /\ u.numsync = r.numsync /\ u = ViewOf(r)
      BY <1>3, <2>3 DEF Consistent, ViewOf
    <3> HIDE DEF u
    <3> QED BY <1>3, <2>1, <2>3, <3>1, WriteKeyFacts
  <2> QED BY <2>2, <2>3 DEF Consistent
<1>4. CASE r.err = "none" /\ w # Raise(r, "QuorumError")
  <2>1. r.leader \in Cluster /\ {} \in SUBSET Cluster /\ 0 \in Nat
    BY ResolverFields
  <2>2. (r.voters = {} /\ w = WriteKey(r, r.leader, 0, {})) \/ \E k \in Nat : w = WriteKey(r, r.leader, k, V)
    BY <1>4, QuorumUpdateWrites
  <2> QED BY <1>3, <1>4, <2>1, <2>2
<1> QED BY <1>1, <1>2, <1>4

\* check_invariants does not look at a key without voters.
StaysSafe(r, n, S) ==
    r.err = "none" /\ r.voters = {} /\ r.leader # primary =>
        Cardinality((r.voters \union {r.leader}) \union (S \union {primary})) <= r.quorum + n + 1

LEMMA SyncUpdateFacts ==
  ASSUME setup \in Setups, NEW r \in QcResolvers, NEW n \in Int, NEW S \in SUBSET Standbys,
         NEW w, w = SyncUpdate(r, n, S)
  PROVE  /\ w \in QcResolvers /\ SyncOnly(w, r)
         /\ r.err # "none" => w = r
         /\ w.err \in {r.err, "QuorumError"}
         /\ w.err = "none" => r.err = "none" /\ w.sync = S /\ w.numsync = n
         /\ Consistent(r) /\ (r.err = "none" /\ n = 0 /\ S # {} => OnlyZeros(r.out)) /\ StaysSafe(r, n, S) => Consistent(w)
         /\ r.err = "none" /\ n = 0 /\ OnlyZeros(r.out) => OnlyZeros(w.out)
<1>1. CASE r.err # "none"
  <2>1. w = r
    BY <1>1 DEF SyncUpdate
  <2> QED BY <1>1, <2>1 DEF SyncOnly
<1>2. CASE r.err = "none" /\ (n < 0 \/ n > Cardinality(S))
  <2>0. w = Raise(r, "QuorumError")
    BY <1>2 DEF SyncUpdate
  <2>1. w \in QcResolvers /\ SyncOnly(w, r) /\ w.out = r.out /\ w.err = "QuorumError"
    BY <2>0, RaiseFacts
  <2> QED BY <1>2, <2>1 DEF Consistent
<1>3. CASE r.err = "none" /\ ~(n < 0 \/ n > Cardinality(S))
  <2> DEFINE a == [r EXCEPT !.numsync = n, !.sync = S]
             b == CheckInvariants(a)
             t == Transition("sync", r.leader, n, S)
  <2>0. w = Yield(b, t)
    BY <1>3 DEF SyncUpdate
  <2>1. S \in SUBSET Cluster /\ Cardinality(S) \in Nat
    BY SubsetOfCluster, Counted
  <2>2. n \in Nat /\ n <= Cardinality(S)
    BY <1>3, <2>1
  <2>3. a \in QcResolvers /\ SyncOnly(a, r) /\ a.err = "none" /\ a.out = r.out /\ a.sync = S /\ a.numsync = n
    BY <1>3, <2>2 DEF QcResolvers, SyncOnly
  <2>4. t.type = "sync" /\ t.num = n /\ t.names = S /\ t \in QcUpdates
    <3>1. r.leader \in Cluster
      BY ResolverFields
    <3> QED BY <2>1, <2>2, <3>1 DEF Transition, QcUpdates
  <2>5. IsUpdate(t)
    <3> HIDE DEF t
    <3> QED BY <2>2, <2>4 DEF IsUpdate
  <2> HIDE DEF a, t
  <2>6. b \in QcResolvers /\ KeyOnly(b, a) /\ SyncOnly(b, a) /\ b.out = a.out
        /\ (b.err = "none" => InvariantsHold(a))
        /\ (b.err # "none" => b.err = "QuorumError")
    BY <2>3, CheckFacts
  <2> HIDE DEF b
  <2>7. w \in QcResolvers /\ KeyOnly(w, b) /\ SyncOnly(w, b) /\ w.err = b.err
        /\ (b.err # "none" => w = b) /\ (b.err = "none" => w.out = Append(b.out, t))
    BY <2>0, <2>4, <2>6, YieldFacts
  <2>8. SyncOnly(w, r) /\ w.sync = S /\ w.numsync = n
    BY <2>3, <2>6, <2>7 DEF KeyOnly, SyncOnly
  <2>9. ASSUME Consistent(r), n = 0 /\ S # {} => OnlyZeros(r.out), StaysSafe(r, n, S), w.err = "none"
        PROVE  LeadsTo(w.out, ViewOf(w))
    <3> DEFINE u == ViewOf(r)
    <3>1. LeadsTo(r.out, u)
      BY <1>3, <2>9 DEF Consistent
    <3>2. Applied(u, t) = ViewOf(w)
      BY <2>4, <2>8 DEF Applied, ViewOf, SyncOnly
    <3>3. SafeView(ViewOf(w))
      <4>1. InvariantsHold(a) /\ a.leaderWanted = primary
        BY <2>3, <2>6, <2>7, <2>9, ResolverFields
      <4>2. w.voters = a.voters /\ w.leader = a.leader /\ w.sync = a.sync /\ w.quorum = a.quorum /\ w.numsync = a.numsync
        BY <2>3, <2>8 DEF SyncOnly
      <4>3. CASE w.voters # {}
        BY <4>1, <4>2, <4>3 DEF SafeView, ViewOf, InvariantsHold
      <4>4. CASE w.voters = {}
        BY <1>3, <2>8, <2>9, <4>4 DEF SafeView, ViewOf, SyncOnly, StaysSafe
      <4> QED BY <4>3, <4>4
    <3>4. Refused(t) => OnlyZeros(r.out)
      BY <2>4, <2>9 DEF Refused
    <3> HIDE DEF u
    <3>5. LeadsTo(Append(r.out, t), ViewOf(w))
      BY <2>5, <3>1, <3>2, <3>3, <3>4, LeadsFurther
    <3> QED BY <2>3, <2>6, <2>7, <2>9, <3>5
  <2>10. ASSUME n = 0, OnlyZeros(r.out) PROVE OnlyZeros(w.out)
    <3>1. r.out \in Seq(QcUpdates)
      BY ResolverFields
    <3>2. OnlyZeros(Append(r.out, t))
      BY <2>4, <2>10, <3>1, ZerosFurther
    <3> QED BY <2>3, <2>6, <2>7, <2>10, <3>2
  <2> QED BY <1>3, <2>3, <2>6, <2>7, <2>8, <2>9, <2>10 DEF Consistent
<1> QED BY <1>1, <1>2, <1>3

-----------------------------------------------------------------------------
(***************************************************************************)
(* The stages of _generate_transitions.  Until the two places list the     *)
(* same standbys, a replication factor of 0 means that no other number has *)
(* been written: nothing that PostgreSQL would refuse comes after one it   *)
(* would not.                                                              *)
(***************************************************************************)
Begun(r) == r \in QcResolvers /\ Consistent(r) /\ (r.err = "none" /\ r.numsync = 0 => OnlyZeros(r.out))
Late(r) == r \in QcResolvers /\ Consistent(r) /\ (r.err = "none" => r.leader = primary)
Early(r) == Late(r) /\ (r.err = "none" /\ r.numsync = 0 => OnlyZeros(r.out))

\* A failed record whose transitions still lead to what it lists as synchronous.
Repairable(r) ==
    /\ r \in QcResolvers /\ r.err = "QuorumError" /\ r.leader = primary
    /\ r.numsync = 0 => OnlyZeros(r.out)
    /\ \E u : /\ LeadsTo(r.out, u) /\ u.sync = r.sync /\ u.numsync = r.numsync
              /\ u = ViewOf(r) \/ (r.voters # {} /\ ~InvariantsHold(r))

LEMMA EarlyQuorum ==
  ASSUME setup \in Setups, NEW r, Early(r), NEW q \in Int, NEW V \in SUBSET Cluster, NEW adjust
  PROVE  Early(QuorumUpdate(r, q, V, NoNode, adjust))
<1> DEFINE w == QuorumUpdate(r, q, V, NoNode, adjust)
<1>1. r \in QcResolvers /\ Consistent(r) /\ (r.err = "none" => r.leader = primary)
  BY DEF Early, Late
<1>2. w \in QcResolvers /\ KeyOnly(w, r) /\ (r.err # "none" => w = r) /\ w.leader = r.leader
      /\ (OnlyZeros(r.out) => OnlyZeros(w.out)) /\ Consistent(w)
  BY <1>1, QuorumUpdateFacts
<1> HIDE DEF w
<1>3. w.err = "none" /\ w.numsync = 0 => OnlyZeros(w.out)
  BY <1>2 DEF Early, KeyOnly
<1>4. Early(w)
  BY <1>1, <1>2, <1>3 DEF Early, Late
<1> QED BY <1>4 DEF w

LEMMA LateQuorum ==
  ASSUME setup \in Setups, NEW r, Late(r), NEW q \in Int, NEW V \in SUBSET Cluster, NEW adjust
  PROVE  Late(QuorumUpdate(r, q, V, NoNode, adjust))
<1> DEFINE w == QuorumUpdate(r, q, V, NoNode, adjust)
<1>1. r \in QcResolvers /\ Consistent(r) /\ (r.err = "none" => r.leader = primary)
  BY DEF Late
<1>2. w \in QcResolvers /\ (r.err # "none" => w = r) /\ w.leader = r.leader /\ Consistent(w)
  BY <1>1, QuorumUpdateFacts
<1> HIDE DEF w
<1>3. Late(w)
  BY <1>1, <1>2 DEF Late
<1> QED BY <1>3 DEF w

LEMMA BegunSync ==
  ASSUME setup \in Setups, NEW r, Begun(r), NEW n \in Int, NEW S \in SUBSET Standbys,
         r.err = "none" /\ n = 0 => r.numsync = 0, StaysSafe(r, n, S)
  PROVE  Begun(SyncUpdate(r, n, S))
<1> DEFINE w == SyncUpdate(r, n, S)
<1>1. r \in QcResolvers /\ Consistent(r) /\ (r.err = "none" /\ n = 0 => OnlyZeros(r.out))
  BY DEF Begun
<1>2. w \in QcResolvers /\ Consistent(w) /\ (r.err # "none" => w = r)
      /\ (w.err = "none" => r.err = "none" /\ w.sync = S /\ w.numsync = n)
      /\ (r.err = "none" /\ n = 0 /\ OnlyZeros(r.out) => OnlyZeros(w.out))
  BY <1>1, SyncUpdateFacts
<1> HIDE DEF w
<1>3. w.err = "none" /\ w.numsync = 0 => OnlyZeros(w.out)
  BY <1>1, <1>2
<1>4. Begun(w)
  BY <1>2, <1>3 DEF Begun
<1> QED BY <1>4 DEF w

LEMMA EarlySync ==
  ASSUME setup \in Setups, NEW r, Early(r), NEW n \in Int, NEW S \in SUBSET Standbys,
         r.err = "none" /\ n = 0 => r.numsync = 0
  PROVE  Early(SyncUpdate(r, n, S))
<1> DEFINE w == SyncUpdate(r, n, S)
<1>1. Begun(r) /\ r \in QcResolvers /\ (r.err = "none" => r.leader = primary)
  BY DEF Begun, Early, Late
<1>2. StaysSafe(r, n, S)
  BY <1>1 DEF StaysSafe
<1>3. Begun(w)
  BY <1>1, <1>2, BegunSync
<1>4. SyncOnly(w, r) /\ (w.err = "none" => r.err = "none")
  BY <1>1, SyncUpdateFacts
<1> HIDE DEF w
<1>5. Early(w)
  BY <1>1, <1>3, <1>4 DEF Begun, Early, Late, SyncOnly
<1> QED BY <1>5 DEF w

LEMMA LateSync ==
  ASSUME setup \in Setups, NEW r, Late(r), NEW n \in Int, NEW S \in SUBSET Standbys,
         r.err = "none" /\ n = 0 /\ S # {} => OnlyZeros(r.out)
  PROVE  Late(SyncUpdate(r, n, S))
<1> DEFINE w == SyncUpdate(r, n, S)
<1>1. r \in QcResolvers /\ Consistent(r) /\ (r.err = "none" => r.leader = primary)
  BY DEF Late
<1>2. StaysSafe(r, n, S)
  BY <1>1 DEF StaysSafe
<1>3. w \in QcResolvers /\ SyncOnly(w, r) /\ (w.err = "none" => r.err = "none") /\ Consistent(w)
  BY <1>1, <1>2, SyncUpdateFacts
<1> HIDE DEF w
<1>4. Late(w)
  BY <1>1, <1>3 DEF Late, SyncOnly
<1> QED BY <1>4 DEF w

LEMMA FailoverStage ==
  ASSUME setup \in Setups, primary \in Cluster, NEW r, Begun(r), r.err = "none", r.leader # primary,
         r.sync = {} => r.numsync = 0
  PROVE  LET w == Failover(r)
         IN \/ Early(w) /\ w.err = "none"
            \/ Repairable(w)
            \/ w \in QcResolvers /\ w.err = "QuorumError" /\ w.leader # primary
<1> DEFINE V == (r.voters \ {r.leaderWanted}) \union {r.leader}
           a == IF r.sync = {} THEN SyncUpdate(r, Cardinality(V) - r.quorum, V) ELSE r
           w == QuorumUpdate(a, a.quorum, V, a.leaderWanted, TRUE)
<1>0. r \in QcResolvers
  BY DEF Begun
<1>1. V \in SUBSET Standbys /\ V # {} /\ V \in SUBSET Cluster /\ r.leader \in V /\ primary \notin V
  BY <1>0, ResolverFields DEF Standbys
<1>2. Cardinality(V) - r.quorum \in Int
  BY <1>0, <1>1, Counted, ResolverFields
<1>3. Failover(r) = w
  BY DEF Failover, NewLeader
<1> HIDE DEF V
<1>4. Begun(a) /\ a \in QcResolvers /\ a.leader = r.leader /\ a.err \in {"none", "QuorumError"}
  <2>1. CASE r.sync = {}
    <3>1. a = SyncUpdate(r, Cardinality(V) - r.quorum, V)
      BY <2>1
    <3>2. StaysSafe(r, Cardinality(V) - r.quorum, V)
      <4>1. Cardinality(V \union {primary}) = Cardinality(V) + 1 /\ Cardinality(V) \in Nat
        BY <1>1, Counted, FS_AddElement
      <4>2. r.quorum \in Nat
        BY <1>0, ResolverFields
      <4>3. r.voters = {} => (r.voters \union {r.leader}) \union (V \union {primary}) = V \union {primary}
        BY <1>1
      <4> DEFINE k == Cardinality(V)
      <4>4. k + 1 <= r.quorum + (k - r.quorum) + 1
        <5>1. k \in Nat
          BY <4>1
        <5> HIDE DEF k
        <5> QED BY <4>2, <5>1
      <4> QED BY <4>1, <4>3, <4>4 DEF StaysSafe
    <3>3. Begun(a)
      BY <1>1, <1>2, <2>1, <3>1, <3>2, BegunSync
    <3>4. SyncOnly(a, r) /\ a.err \in {r.err, "QuorumError"}
      BY <1>0, <1>1, <1>2, <3>1, SyncUpdateFacts
    <3> QED BY <3>3, <3>4 DEF Begun, SyncOnly
  <2>2. CASE r.sync # {}
    BY <1>0, <2>2
  <2> QED BY <2>1, <2>2
<1> HIDE DEF a
<1>5. a.leaderWanted = primary /\ primary # NoNode /\ a.quorum \in Nat
  BY <1>4, ResolverFields, ClusterFacts
<1>6. CASE a.err # "none"
  <2>1. w = a
    BY <1>6 DEF QuorumUpdate
  <2> QED BY <1>3, <1>4, <1>6, <2>1
<1>7. CASE a.err = "none" /\ w = Raise(a, "QuorumError")
  <2> HIDE DEF w
  <2>1. w \in QcResolvers /\ SyncOnly(w, a) /\ w.err = "QuorumError"
    BY <1>4, <1>7, RaiseFacts
  <2> QED BY <1>3, <1>4, <2>1 DEF SyncOnly
<1>8. CASE a.err = "none" /\ w # Raise(a, "QuorumError")
  <2>1. w = WriteKey(a, primary, a.quorum, V)
    BY <1>5, <1>8 DEF QuorumUpdate
  <2> HIDE DEF w
  <2>2. <<primary, a.quorum, V>> # <<a.leader, a.quorum, a.voters>>
    BY <1>4
  <2> DEFINE u == ViewOf(a)
  <2>3. LeadsTo(a.out, u) /\ u.sync = a.sync /\ u.numsync = a.numsync
    BY <1>4, <1>8 DEF Begun, Consistent, ViewOf
  <2> HIDE DEF u
  <2>4. /\ w \in QcResolvers /\ KeyOnly(w, a) /\ w.leader = primary /\ w.voters = V
        /\ w.err \in {"none", "QuorumError"}
        /\ OnlyZeros(a.out) => OnlyZeros(w.out)
        /\ w.err # "none" => w.out = a.out /\ ~InvariantsHold(w)
        /\ w.err = "none" => LeadsTo(w.out, ViewOf(w))
    BY <1>1, <1>4, <1>5, <1>8, <2>1, <2>2, <2>3, WriteKeyFacts
  <2>5. w.numsync = 0 => OnlyZeros(w.out)
    BY <1>4, <1>8, <2>4 DEF Begun, KeyOnly
  <2>6. CASE w.err = "none"
    BY <1>3, <2>4, <2>5, <2>6 DEF Early, Late, Consistent
  <2>7. CASE w.err = "QuorumError"
    <3>1. LeadsTo(w.out, u) /\ u.sync = w.sync /\ u.numsync = w.numsync
      BY <2>3, <2>4, <2>7 DEF KeyOnly
    <3>2. Repairable(w)
      BY <1>1, <2>4, <2>5, <2>7, <3>1 DEF Repairable
    <3> QED BY <1>3, <3>2
  <2> QED BY <2>4, <2>6, <2>7
<1> QED BY <1>4, <1>6, <1>7, <1>8

LEMMA ClearedFacts ==
  ASSUME NEW r \in QcResolvers, NEW a, a = [r EXCEPT !.err = "none"]
  PROVE  a \in QcResolvers /\ a.err = "none" /\ KeyOnly(a, r) /\ SyncOnly(a, r) /\ a.out = r.out
  BY DEF QcResolvers, KeyOnly, SyncOnly

\* The recomputed key is not the one that was refused.
LEMMA RepairStage ==
  ASSUME setup \in Setups, primary \in Cluster, NEW r, Repairable(r)
  PROVE  Early(Repair(r))
<1> DEFINE a == [r EXCEPT !.err = "none"]
           q == Cardinality(r.sync) - r.numsync
           w == QuorumUpdate(a, q, r.sync, NoNode, TRUE)
<1>1. Repair(r) = w
  BY DEF Repairable, Repair
<1>2. r \in QcResolvers /\ r.numsync \in Nat /\ r.sync \in SUBSET Standbys /\ r.leaderWanted = primary /\ r.leader = primary /\ r.quorum \in Nat
  BY ResolverFields DEF Repairable
<1>3. a \in QcResolvers /\ a.err = "none" /\ KeyOnly(a, r) /\ SyncOnly(a, r) /\ a.out = r.out
  BY <1>2, ClearedFacts
<1>4. r.sync \in SUBSET Cluster /\ Cardinality(r.sync) \in Nat /\ q \in Int /\ primary \notin r.sync /\ IsFiniteSet(r.sync)
  BY <1>2, Counted, SubsetOfCluster
<1>5. ViewOf(a) = ViewOf(r)
  BY <1>3 DEF ViewOf, KeyOnly, SyncOnly
<1> HIDE DEF a, q
<1>6. PICK u : /\ LeadsTo(r.out, u) /\ u.sync = r.sync /\ u.numsync = r.numsync
               /\ u = ViewOf(r) \/ (r.voters # {} /\ ~InvariantsHold(r))
  BY DEF Repairable
<1>7. ASSUME NEW k \in Nat, NEW V \in SUBSET Cluster, w = WriteKey(a, a.leader, k, V),
             u = ViewOf(a) \/ <<a.leader, k, V>> # <<a.leader, a.quorum, a.voters>>
      PROVE  Early(w)
  <2> HIDE DEF w
  <2>1. a.leader \in Cluster /\ a.leader = primary
    BY <1>2, <1>3, ResolverFields DEF SyncOnly
  <2>2. LeadsTo(a.out, u) /\ u.sync = a.sync /\ u.numsync = a.numsync
    BY <1>3, <1>6 DEF KeyOnly
  <2>3. /\ w \in QcResolvers /\ KeyOnly(w, a) /\ w.leader = a.leader
        /\ OnlyZeros(a.out) => OnlyZeros(w.out)
        /\ w.err = "none" => LeadsTo(w.out, ViewOf(w))
    BY <1>3, <1>7, <2>1, <2>2, WriteKeyFacts
  <2>4. w.numsync = 0 => OnlyZeros(w.out)
    BY <1>3, <2>3 DEF Repairable, KeyOnly
  <2> QED BY <2>1, <2>3, <2>4 DEF Early, Late, Consistent
<1>8. CASE w = Raise(a, "QuorumError")
  <2>1. w \in QcResolvers /\ w.err = "QuorumError"
    BY <1>3, <1>8, RaiseFacts
  <2> QED BY <1>1, <2>1 DEF Early, Late, Consistent
<1>9. CASE a.voters = {} /\ w = WriteKey(a, a.leader, 0, {})
  <2>1. u = ViewOf(a)
    BY <1>3, <1>5, <1>6, <1>9 DEF SyncOnly
  <2>2. 0 \in Nat /\ {} \in SUBSET Cluster
    OBVIOUS
  <2>3. Early(w)
    BY <1>7, <1>9, <2>1, <2>2
  <2> QED BY <1>1, <2>3
<1>10. ASSUME NEW k \in Nat, k >= q, w = WriteKey(a, a.leader, k, r.sync)
       PROVE  Early(w)
  <2>1. ASSUME u # ViewOf(a), <<a.leader, k, r.sync>> = <<a.leader, a.quorum, a.voters>> PROVE FALSE
    <3>1. r.voters = r.sync /\ r.quorum = k /\ r.leader = primary /\ ~InvariantsHold(r)
      BY <1>2, <1>3, <1>5, <1>6, <2>1 DEF SyncOnly
    <3>2. (r.voters \union {r.leader}) \union (r.sync \union {r.leaderWanted}) = r.sync \union {primary}
      BY <1>2, <3>1
    <3>3. Cardinality(r.sync \union {primary}) = Cardinality(r.sync) + 1
      BY <1>4, FS_AddElement
    <3>4. Cardinality(r.sync) + 1 <= r.quorum + r.numsync + 1
      <4>1. k >= Cardinality(r.sync) - r.numsync
        BY <1>10 DEF q
      <4> QED BY <1>2, <1>4, <3>1, <4>1
    <3>5. Cardinality((r.voters \union {r.leader}) \union (r.sync \union {r.leaderWanted})) <= r.quorum + r.numsync + 1
      BY <3>2, <3>3, <3>4
    <3>6. (r.voters \union {r.leader}) \subseteq (r.sync \union {r.leaderWanted})
      BY <1>2, <3>1
    <3> QED BY <3>1, <3>5, <3>6 DEF InvariantsHold
  <2> HIDE DEF w
  <2> QED BY <1>4, <1>7, <1>10, <2>1
<1>11. w = Raise(a, "QuorumError") \/ (a.voters = {} /\ w = WriteKey(a, a.leader, 0, {}))
       \/ \E k \in Nat : k >= q /\ w = WriteKey(a, a.leader, k, r.sync)
  BY <1>3, <1>4, QuorumUpdateWrites
<1> HIDE DEF w
<1> QED BY <1>1, <1>8, <1>9, <1>10, <1>11

LEMMA MustHoldStage ==
  ASSUME NEW r \in QcResolvers, NEW c, NEW w, w = MustHold(r, c)
  PROVE  /\ w \in QcResolvers
         /\ (Early(r) => Early(w)) /\ (Late(r) => Late(w))
         /\ w.err = "none" => w = r /\ c
<1>1. CASE r.err # "none" \/ c
  BY <1>1 DEF MustHold
<1>2. CASE ~(r.err # "none" \/ c)
  <2>1. w = Raise(r, "AssertionError")
    BY <1>2 DEF MustHold
  <2>2. w \in QcResolvers /\ w.err = "AssertionError"
    BY <2>1, RaiseFacts
  <2> QED BY <2>2 DEF Early, Late, Consistent
<1> QED BY <1>1, <1>2

\* Whatever __handle_failover left, the record is consistent once the leader has been compared.
LEMMA LeaderChecked ==
  ASSUME setup \in Setups, primary \in Cluster, NEW r,
         (Early(r) /\ r.err = "none") \/ Repairable(r) \/ (r \in QcResolvers /\ r.err = "QuorumError" /\ r.leader # primary)
  PROVE  Early(LeaderMustMatch(Repair(r)))
<1> DEFINE a == Repair(r)
           w == LeaderMustMatch(a)
<1>1. ASSUME Early(a) PROVE Early(w)
  <2>1. a \in QcResolvers
    BY <1>1 DEF Early, Late
  <2> HIDE DEF a
  <2> QED BY <1>1, <2>1, MustHoldStage DEF LeaderMustMatch
<1>2. CASE Repairable(r)
  BY <1>1, <1>2, RepairStage
<1>3. CASE r \in QcResolvers /\ r.err = "QuorumError" /\ r.leader # primary
  <2> DEFINE b == [r EXCEPT !.err = "none"]
             q == Cardinality(r.sync) - r.numsync
  <2>1. r.numsync \in Nat /\ r.sync \in SUBSET Standbys
    BY <1>3, ResolverFields
  <2>2. b \in QcResolvers /\ b.leader = r.leader
    <3>1. b = [r EXCEPT !.err = "none"] /\ r \in QcResolvers
      BY <1>3
    <3> HIDE DEF b
    <3>2. b \in QcResolvers /\ SyncOnly(b, r)
      BY <3>1, ClearedFacts
    <3> QED BY <3>2 DEF SyncOnly
  <2>3. q \in Int /\ r.sync \in SUBSET Cluster
    <3>1. r.sync \in SUBSET Cluster
      BY <2>1, SubsetOfCluster
    <3>2. Cardinality(r.sync) \in Nat
      BY <3>1, Counted
    <3> QED BY <2>1, <3>1, <3>2
  <2>4. a = QuorumUpdate(b, q, r.sync, NoNode, TRUE)
    BY <1>3 DEF Repair
  <2> HIDE DEF a, b, q
  <2>5. a \in QcResolvers /\ a.leader # primary
    <3>1. a \in QcResolvers /\ a.leader = b.leader
      <4> HIDE DEF w
      <4> DEFINE t == TRUE
      <4>1. a = QuorumUpdate(b, q, r.sync, NoNode, t)
        BY <2>4
      <4> HIDE DEF t
      <4> QED BY <2>2, <2>3, <4>1, QuorumUpdateFacts
    <3> QED BY <1>3, <2>2, <3>1
  <2>6. w \in QcResolvers /\ (w.err = "none" => a.leader = a.leaderWanted)
    <3> DEFINE c == a.leader = a.leaderWanted
    <3>1. w = MustHold(a, c)
      BY DEF LeaderMustMatch
    <3> HIDE DEF w, c
    <3>2. w \in QcResolvers /\ (w.err = "none" => c)
      BY <2>5, <3>1, MustHoldStage
    <3> QED BY <3>2 DEF c
  <2>7. w.err # "none"
    BY <2>5, <2>6, ResolverFields
  <2> HIDE DEF w
  <2>8. Early(w)
    BY <2>6, <2>7 DEF Early, Late, Consistent
  <2> QED BY <2>8 DEF w, a
<1>4. CASE Early(r) /\ r.err = "none"
  <2>1. a = r
    BY <1>4 DEF Repair
  <2> QED BY <1>1, <1>4, <2>1
<1> QED BY <1>2, <1>3, <1>4

LEMMA EarlyFields ==
  ASSUME setup \in Setups, NEW r, Late(r)
  PROVE  /\ r \in QcResolvers /\ r.quorum \in Nat /\ r.numsync \in Nat /\ r.confirmed \in Int
         /\ r.wanted \in Nat /\ r.wanted >= 1
         /\ r.voters \in SUBSET Cluster /\ IsFiniteSet(r.voters) /\ Cardinality(r.voters) \in Nat
         /\ r.sync \in SUBSET Cluster /\ IsFiniteSet(r.sync) /\ Cardinality(r.sync) \in Nat
         /\ r.active \in SUBSET Cluster
         /\ r.sync \in SUBSET Standbys /\ r.active \in SUBSET Standbys
<1>1. r \in QcResolvers
  BY DEF Late
<1>2. r.sync \in SUBSET Cluster /\ r.active \in SUBSET Cluster /\ r.voters \in SUBSET Cluster
  BY <1>1, ResolverFields, SubsetOfCluster
<1> QED BY <1>1, <1>2, ResolverFields, Counted

LEMMA AdoptStage ==
  ASSUME setup \in Setups, NEW r, Early(r)
  PROVE  Early(AdoptConfirmed(r))
<1> DEFINE connected == r.sync \intersect r.active
           n == Lower(Cardinality(connected), Cardinality(r.voters) - r.quorum)
           w == [r EXCEPT !.confirmed = n]
<1>0. Late(r)
  BY DEF Early
<1>1. Cardinality(connected) \in Nat /\ Cardinality(r.voters) \in Nat /\ r.quorum \in Nat /\ r \in QcResolvers
  BY <1>0, EarlyFields, Counted
<1>2. n \in Int
  <2> DEFINE x == Cardinality(connected)
             y == Cardinality(r.voters) - r.quorum
  <2>1. x \in Int /\ y \in Int
    BY <1>1
  <2> HIDE DEF x, y
  <2>2. Lower(x, y) \in Int
    BY <2>1, LowerHigher
  <2> QED BY <2>2 DEF x, y
<1> HIDE DEF n
<1>3. w \in QcResolvers /\ w.err = r.err /\ w.out = r.out /\ w.numsync = r.numsync /\ w.leader = r.leader /\ ViewOf(w) = ViewOf(r)
  BY <1>1, <1>2 DEF QcResolvers, ViewOf
<1>4. Early(w)
  <2> HIDE DEF w
  <2> QED BY <1>3 DEF Early, Late, Consistent
<1>5. AdoptConfirmed(r) = w \/ AdoptConfirmed(r) = r
  BY DEF AdoptConfirmed, n, connected
<1> QED BY <1>4, <1>5

LEMMA VotersAheadStage ==
  ASSUME setup \in Setups, NEW r, Early(r)
  PROVE  Early(VotersAhead(r))
<1>1. ASSUME NEW s, Early(s) PROVE Early(DropGoneVoters(s))
  <2> DEFINE gone == s.voters \ (s.sync \union s.active)
             q == Cardinality(s.voters) - Cardinality(gone) - s.numsync
             V == s.voters \ gone
             adjust == s.sync \subseteq s.active
  <2>0. Late(s)
    BY <1>1 DEF Early
  <2>1. s.numsync \in Nat /\ Cardinality(s.voters) \in Nat /\ Cardinality(gone) \in Nat /\ V \in SUBSET Cluster
    BY <2>0, EarlyFields, Counted
  <2>2. q \in Int
    BY <2>1
  <2>3. DropGoneVoters(s) = s \/ DropGoneVoters(s) = QuorumUpdate(s, q, V, NoNode, adjust)
    BY DEF DropGoneVoters
  <2> HIDE DEF q, V, adjust
  <2> QED BY <1>1, <2>1, <2>2, <2>3, EarlyQuorum
<1>2. ASSUME NEW s, Early(s) PROVE Early(SyncToVoters(s))
  <2> DEFINE add == (s.voters \intersect s.active) \ s.sync
             S == s.sync \union add
  <2>0. Late(s)
    BY <1>2 DEF Early
  <2>1. s.numsync \in Int /\ S \in SUBSET Standbys
    BY <2>0, EarlyFields
  <2>2. SyncToVoters(s) = s \/ SyncToVoters(s) = SyncUpdate(s, s.numsync, S)
    BY DEF SyncToVoters
  <2> HIDE DEF S
  <2> QED BY <1>2, <2>1, <2>2, EarlySync
<1> QED BY <1>1, <1>2 DEF VotersAhead

\* Removing names from synchronous_standby_names.
LEMMA DropFacts ==
  ASSUME setup \in Setups, NEW r, Late(r), NEW N \in SUBSET r.sync
  PROVE  LET n == Lower(r.numsync, Cardinality(r.sync) - Cardinality(N))
         IN n \in Nat /\ (n = 0 /\ r.sync \ N # {} => r.numsync = 0) /\ r.sync \ N \in SUBSET Standbys
<1>1. r.numsync \in Nat /\ r.sync \in SUBSET Cluster /\ r.sync \ N \in SUBSET Cluster /\ r.sync \ N \in SUBSET Standbys
  BY EarlyFields
<1> DEFINE c == Cardinality(r.sync) - Cardinality(N)
<1>2. c = Cardinality(r.sync \ N)
  BY <1>1, Smaller
<1>3. c \in Nat /\ (r.sync \ N # {} => c >= 1)
  BY <1>1, <1>2, Counted
<1> HIDE DEF c
<1>4. Lower(r.numsync, c) \in Nat /\ (Lower(r.numsync, c) = 0 /\ r.sync \ N # {} => r.numsync = 0)
  BY <1>1, <1>3 DEF Lower
<1> QED BY <1>1, <1>4 DEF c

LEMMA SyncAheadStage ==
  ASSUME setup \in Setups, NEW r, Early(r)
  PROVE  Late(SyncAhead(r))
<1>1. ASSUME NEW s, Early(s) PROVE Early(DropDead(s))
  <2> DEFINE alive == s.sync \intersect s.active
             N == s.sync \ alive
             n == Lower(s.numsync, Cardinality(s.sync) - Cardinality(N))
  <2>0. Late(s)
    BY <1>1 DEF Early
  <2>1. CASE DropDead(s) = s
    BY <1>1, <2>1
  <2>2. CASE DropDead(s) # s
    <3>1. alive # {} /\ DropDead(s) = SyncUpdate(s, n, s.sync \ N)
      BY <2>2 DEF DropDead, DropFromSync
    <3>2. s.sync \ N # {}
      BY <3>1
    <3>3. N \in SUBSET s.sync
      OBVIOUS
    <3> HIDE DEF N
    <3>4. n \in Nat /\ (n = 0 /\ s.sync \ N # {} => s.numsync = 0) /\ s.sync \ N \in SUBSET Standbys
      BY <2>0, <3>3, DropFacts
    <3> HIDE DEF n
    <3>5. n \in Int
      BY <3>4
    <3> QED BY <1>1, <3>1, <3>2, <3>4, <3>5, EarlySync
  <2> QED BY <2>1, <2>2
<1>2. ASSUME NEW s, Early(s) PROVE Early(AddSyncedVoters(s))
  <2> DEFINE V == s.voters \union (s.sync \intersect s.active)
             q == Cardinality(V) - s.numsync
  <2>0. Late(s)
    BY <1>2 DEF Early
  <2>1. V \in SUBSET Cluster /\ s.numsync \in Nat
    BY <2>0, EarlyFields
  <2>2. Cardinality(V) \in Nat
    BY <2>1, Counted
  <2>3. q \in Int
    BY <2>1, <2>2
  <2>4. AddSyncedVoters(s) = s \/ AddSyncedVoters(s) = QuorumUpdate(s, q, V, NoNode, TRUE)
    BY DEF AddSyncedVoters
  <2> HIDE DEF V, q
  <2> QED BY <1>2, <2>1, <2>3, <2>4, EarlyQuorum
<1>3. ASSUME NEW s, Early(s) PROVE Late(DropNonVoters(s))
  <2> DEFINE N == s.sync \ s.voters
             n == Lower(s.numsync, Cardinality(s.sync) - Cardinality(N))
  <2>0. Late(s) /\ N \in SUBSET s.sync
    BY <1>3 DEF Early
  <2>1. DropNonVoters(s) = s \/ DropNonVoters(s) = SyncUpdate(s, n, s.sync \ N)
    BY DEF DropNonVoters, DropFromSync
  <2> HIDE DEF N
  <2>2. n \in Nat /\ (n = 0 /\ s.sync \ N # {} => s.numsync = 0) /\ s.sync \ N \in SUBSET Standbys
    BY <2>0, DropFacts
  <2> HIDE DEF n
  <2>3. n \in Int /\ (s.err = "none" /\ n = 0 /\ s.sync \ N # {} => OnlyZeros(s.out))
    BY <1>3, <2>2 DEF Early
  <2> QED BY <2>0, <2>1, <2>2, <2>3, LateSync
<1> QED BY <1>1, <1>2, <1>3 DEF SyncAhead

\* Both places list the same standbys.
Settled(r) == Late(r) /\ (r.err = "none" => r.voters = r.sync)

LEMMA ReduceMarginStage ==
  ASSUME setup \in Setups, NEW r, Settled(r)
  PROVE  Settled(ReduceMargin(r))
<1> DEFINE n == Higher(r.wanted, Cardinality(r.voters) - r.quorum)
           q == Cardinality(r.sync) - r.numsync
           a == SyncUpdate(r, n, r.sync)
           b == QuorumUpdate(r, q, r.voters, NoNode, TRUE)
<1>0. Late(r) /\ r \in QcResolvers
  BY DEF Settled, Late
<1>1. r.wanted \in Nat /\ r.wanted >= 1 /\ r.quorum \in Nat /\ r.numsync \in Nat /\ Cardinality(r.voters) \in Nat
      /\ Cardinality(r.sync) \in Nat /\ r.voters \in SUBSET Cluster /\ r.sync \in SUBSET Standbys
  BY <1>0, EarlyFields
<1>2. n \in Int /\ n >= 1
  <2> DEFINE c == Cardinality(r.voters) - r.quorum
  <2>1. c \in Int
    BY <1>1
  <2> HIDE DEF c
  <2>2. Higher(r.wanted, c) \in Int /\ Higher(r.wanted, c) >= 1
    BY <1>1, <2>1 DEF Higher
  <2> QED BY <2>2 DEF c
<1>3. q \in Int
  BY <1>1
<1>4. ReduceMargin(r) = r \/ (r.err = "none" /\ ReduceMargin(r) = a) \/ (r.err = "none" /\ ReduceMargin(r) = b)
  <2> DEFINE size == Cardinality(r.voters \union r.sync)
             inMiddle == r.quorum + Lower(r.numsync, r.confirmed) > size
             ahead == r.numsync = r.wanted /\ r.quorum + r.numsync > size /\ r.numsync > r.confirmed
             third == IF inMiddle THEN r.numsync <= r.wanted ELSE ahead
  <2>1. ReduceMargin(r) = CASE r.err # "none" -> r
                            [] r.err = "none" /\ inMiddle /\ r.numsync > r.wanted -> a
                            [] r.err = "none" /\ third -> b
                            [] OTHER -> r
    BY DEF ReduceMargin
  <2> HIDE DEF inMiddle, ahead, third, a, b
  <2> QED BY <2>1
<1> HIDE DEF n, q
<1>5. ASSUME r.err = "none" PROVE Settled(a)
  <2>1. Late(a)
    <3>1. n # 0
      BY <1>2
    <3> QED BY <1>0, <1>1, <1>2, <3>1, LateSync
  <2>2. SyncOnly(a, r) /\ (a.err = "none" => a.sync = r.sync)
    BY <1>0, <1>1, <1>2, SyncUpdateFacts
  <2> HIDE DEF a
  <2> QED BY <1>5, <2>1, <2>2 DEF Settled, SyncOnly
<1>6. ASSUME r.err = "none" PROVE Settled(b)
  <2>1. Late(b)
    BY <1>0, <1>1, <1>3, LateQuorum
  <2>2. KeyOnly(b, r) /\ (b.err = "none" => b.voters = r.voters \/ (b.voters = {} /\ r.voters = {}))
    <3> DEFINE t == TRUE
    <3>1. b = QuorumUpdate(r, q, r.voters, NoNode, t)
      OBVIOUS
    <3> DEFINE V == r.voters
    <3>2. b = QuorumUpdate(r, q, V, NoNode, t) /\ V \in SUBSET Cluster
      BY <1>1, <3>1
    <3> HIDE DEF a, b, t, V
    <3>3. /\ KeyOnly(b, r)
          /\ b.err = "none" => b.voters = V \/ (b.voters = {} /\ r.voters = {})
      <4>1. r \in QcResolvers /\ q \in Int /\ V \in SUBSET Cluster
        BY <1>0, <1>3, <3>2
      <4>2. b = QuorumUpdate(r, q, V, NoNode, t)
        BY <3>2
      <4> QED BY <4>1, <4>2, QuorumUpdateFacts
    <3> QED BY <3>3 DEF V
  <2> HIDE DEF b
  <2> QED BY <1>6, <2>1, <2>2 DEF Settled, KeyOnly
<1> HIDE DEF a, b
<1> QED BY <1>4, <1>5, <1>6

LEMMA NonSteadyStage ==
  ASSUME setup \in Setups, NEW r, Early(r)
  PROVE  Settled(NonSteadyCases(r))
<1> DEFINE a == CASE r.sync \subseteq r.voters /\ r.sync # r.voters -> VotersAhead(r)
                  [] r.voters \subseteq r.sync /\ r.sync # r.voters -> SyncAhead(r)
                  [] OTHER -> r
           b == MustMatch(a)
<1>1. a = VotersAhead(r) \/ a = SyncAhead(r) \/ a = r
  <2>1. CASE r.sync \subseteq r.voters /\ r.sync # r.voters
    BY <2>1
  <2>2. CASE ~(r.sync \subseteq r.voters /\ r.sync # r.voters) /\ r.voters \subseteq r.sync /\ r.sync # r.voters
    BY <2>2
  <2>3. CASE ~(r.sync \subseteq r.voters /\ r.sync # r.voters) /\ ~(r.voters \subseteq r.sync /\ r.sync # r.voters)
    BY <2>3
  <2> QED BY <2>1, <2>2, <2>3
<1>2. NonSteadyCases(r) = ReduceMargin(b)
  BY DEF NonSteadyCases
<1> HIDE DEF a
<1>3. Late(a)
  BY <1>1, VotersAheadStage, SyncAheadStage DEF Early
<1>4. Settled(b)
  <2> DEFINE c == a.voters = a.sync
  <2>1. b = MustHold(a, c)
    BY DEF MustMatch
  <2> HIDE DEF b, c
  <2>2. Late(b) /\ (b.err = "none" => b = a /\ c)
    BY <1>3, <2>1, MustHoldStage DEF Late
  <2> QED BY <2>2 DEF Settled, c
<1> HIDE DEF b
<1> QED BY <1>2, <1>4, ReduceMarginStage

LEMMA RemoveUpToQuorumStage ==
  ASSUME setup \in Setups, NEW r, Settled(r), r.err = "none", NEW gone \in SUBSET r.sync, gone # {}
  PROVE  Settled(RemoveUpToQuorum(r, gone))
<1> DEFINE remove == LastNames(gone, r.quorum)
           S == r.sync \ remove
           n == Lower(Higher(r.wanted, r.numsync), Cardinality(S))
           a == SyncUpdate(r, n, S)
           V == a.voters \ remove
           q == Cardinality(V) - a.numsync
           adjust == gone \intersect a.sync = {}
           w == QuorumUpdate(a, q, V, NoNode, adjust)
<1>0. Late(r) /\ r \in QcResolvers /\ r.voters = r.sync /\ r.voters # {}
  BY DEF Settled, Late
<1>1. r.wanted \in Nat /\ r.wanted >= 1 /\ r.numsync \in Nat /\ S \in SUBSET Standbys /\ S \in SUBSET Cluster
  BY <1>0, EarlyFields
<1>2. Cardinality(S) \in Nat /\ (S # {} => Cardinality(S) >= 1)
  BY <1>1, Counted
<1>3. RemoveUpToQuorum(r, gone) = w
  BY DEF RemoveUpToQuorum, RemoveVoters
<1> HIDE DEF remove
<1>4. n \in Int /\ (S # {} => n >= 1)
  <2> DEFINE c == Cardinality(S)
  <2>1. c \in Nat /\ (S # {} => c >= 1)
    BY <1>2
  <2> HIDE DEF c
  <2>2. Higher(r.wanted, r.numsync) \in Int /\ Higher(r.wanted, r.numsync) >= 1
    BY <1>1 DEF Higher
  <2>3. Lower(Higher(r.wanted, r.numsync), c) \in Int /\ (S # {} => Lower(Higher(r.wanted, r.numsync), c) >= 1)
    BY <2>1, <2>2 DEF Lower
  <2> QED BY <2>3 DEF c
<1> HIDE DEF n, S
<1>5. Late(a) /\ SyncOnly(a, r) /\ (a.err = "none" => a.sync = S /\ a.numsync = n)
  <2>1. n = 0 => S = {}
    BY <1>4
  <2>2. Late(a)
    BY <1>0, <1>1, <1>4, <2>1, LateSync
  <2> QED BY <1>0, <1>1, <1>4, <2>2, SyncUpdateFacts
<1> HIDE DEF a
<1>6. V \in SUBSET Cluster /\ Cardinality(V) \in Nat /\ a.numsync \in Nat /\ a \in QcResolvers
  BY <1>5, EarlyFields, Counted
<1>7. q \in Int
  BY <1>6
<1> HIDE DEF q, V, adjust
<1>8. Late(w)
  BY <1>5, <1>6, <1>7, LateQuorum
<1>9. KeyOnly(w, a) /\ (a.err # "none" => w = a) /\ (w.err = "none" => w.voters = V \/ (w.voters = {} /\ a.voters = {}))
  BY <1>6, <1>7, QuorumUpdateFacts
<1> HIDE DEF w
<1>10. ASSUME w.err = "none" PROVE w.voters = w.sync
  <2>1. a.err = "none" /\ a.sync = S
    BY <1>5, <1>9, <1>10
  <2>2. a.voters = r.sync /\ a.voters # {}
    BY <1>0, <1>5 DEF SyncOnly
  <2>3. w.voters = r.sync \ remove
    BY <1>9, <1>10, <2>2 DEF V
  <2> QED BY <1>9, <2>1, <2>3 DEF KeyOnly, S
<1> QED BY <1>3, <1>8, <1>10 DEF Settled

LEMMA RemoveRestStage ==
  ASSUME setup \in Setups, NEW r, Settled(r), NEW gone \in SUBSET r.sync
  PROVE  Late(RemoveRest(r, gone))
<1> DEFINE n == r.numsync - Cardinality(gone)
           S == r.sync \ gone
           V == r.voters \ gone
           d == n - Lower(r.wanted, Cardinality(S))
           q == IF d = 0 THEN 0 ELSE Lower(d, Cardinality(V) - 1)
           c == r.quorum = 0
           a == MustHold(r, c)
           b == QuorumUpdate(a, q, V, NoNode, FALSE)
<1>0. Late(r) /\ r \in QcResolvers /\ gone \in SUBSET Cluster
  BY EarlyFields DEF Settled, Late
<1>1. /\ r.wanted \in Nat /\ r.numsync \in Nat /\ r.sync \in SUBSET Cluster /\ r.voters \in SUBSET Cluster
      /\ S \in SUBSET Standbys /\ S \in SUBSET Cluster /\ V \in SUBSET Cluster
  BY <1>0, EarlyFields
<1>2. Cardinality(gone) \in Nat /\ Cardinality(S) \in Nat /\ Cardinality(V) \in Nat /\ (S # {} => Cardinality(S) >= 1)
      /\ Cardinality(S) = Cardinality(r.sync) - Cardinality(gone) /\ Cardinality(r.sync) \in Nat
  BY <1>0, <1>1, Counted, Smaller
<1>3. n \in Int /\ q \in Int
  <2> DEFINE x == Cardinality(S)
             y == Cardinality(V)
  <2>1. x \in Int /\ y - 1 \in Int /\ n \in Int /\ r.wanted \in Int
    BY <1>1, <1>2
  <2>2. Lower(r.wanted, x) \in Int
    <3> HIDE DEF x
    <3> QED BY <2>1, LowerHigher
  <2>3. d \in Int
    <3> DEFINE z == Lower(r.wanted, x)
    <3>1. z \in Int
      BY <2>2
    <3> HIDE DEF z, n
    <3>2. n - z \in Int
      BY <2>1, <3>1
    <3> QED BY <3>2 DEF z
  <2> HIDE DEF d, n
  <2>4. Lower(d, y - 1) \in Int
    <3> DEFINE z == y - 1
    <3>1. z \in Int
      BY <2>1
    <3> HIDE DEF z
    <3>2. Lower(d, z) \in Int
      BY <2>3, <3>1, LowerHigher
    <3> QED BY <3>2 DEF z
  <2> QED BY <2>1, <2>4
<1>4. RemoveRest(r, gone) = r \/ (gone # {} /\ RemoveRest(r, gone) = SyncUpdate(b, n, S))
  BY DEF RemoveRest
<1> HIDE DEF q, d
<1>5. Late(a) /\ (a.err = "none" => a = r /\ c)
  <2> HIDE DEF c
  <2> QED BY <1>0, MustHoldStage
<1>6. Late(b) /\ (b.err = "none" => a.err = "none")
  <2> DEFINE f == FALSE
  <2>1. b = QuorumUpdate(a, q, V, NoNode, f)
    OBVIOUS
  <2>2. Late(QuorumUpdate(a, q, V, NoNode, f))
    <3> HIDE DEF a, V, f
    <3> QED BY <1>1, <1>3, <1>5, LateQuorum
  <2>3. a.err # "none" => b = a
    BY DEF QuorumUpdate
  <2> HIDE DEF a, b, V, f
  <2> QED BY <2>1, <2>2, <2>3
<1>7. ASSUME b.err = "none", gone # {}, S # {} PROVE n >= 1
  <2>1. r.err = "none" /\ r.quorum = 0 /\ r.voters = r.sync /\ r.sync # {}
    <3> HIDE DEF a, b, S
    <3> QED BY <1>5, <1>6, <1>7 DEF Settled
  <2>2. SafeView(ViewOf(r))
    BY <1>0, <2>1, LeadsSafely DEF Late, Consistent
  <2> DEFINE U == (r.voters \union {r.leader}) \union (r.sync \union {primary})
  <2>3. Cardinality(U) <= r.numsync + 1
    <3>1. Cardinality(U) <= r.quorum + r.numsync + 1
      BY <2>1, <2>2 DEF SafeView, ViewOf
    <3> HIDE DEF U
    <3>2. 0 + r.numsync + 1 = r.numsync + 1
      BY <1>1
    <3> QED BY <2>1, <3>1, <3>2
  <2>4. primary \notin r.sync /\ IsFiniteSet(r.sync) /\ r.leader \in Cluster
    BY <1>0, <1>1, ResolverFields, SubsetOfCluster, Counted
  <2>5. Cardinality(r.sync \union {primary}) = Cardinality(r.sync) + 1
    BY <2>4, FS_AddElement
  <2>6. IsFiniteSet(U) /\ Cardinality(U) \in Nat
    <3>1. IsFiniteSet(r.sync \union {primary}) /\ IsFiniteSet(r.voters \union {r.leader})
      BY <2>1, <2>4, FS_AddElement
    <3>2. IsFiniteSet(U)
      BY <3>1, FS_Union
    <3> QED BY <3>2, FS_CardinalityType
  <2>7. Cardinality(r.sync \union {primary}) <= Cardinality(U)
    <3>1. r.sync \union {primary} \subseteq U
      OBVIOUS
    <3> HIDE DEF U
    <3> QED BY <2>6, <3>1, FS_Subset
  <2> HIDE DEF U, S
  <2>8. Cardinality(S) >= 1
    BY <1>2, <1>7
  <2> QED BY <1>1, <1>2, <2>3, <2>5, <2>6, <2>7, <2>8
<1>8. ASSUME gone # {} PROVE Late(SyncUpdate(b, n, S))
  <2>1. b.err = "none" /\ n = 0 /\ S # {} => OnlyZeros(b.out)
    <3>1. b.err = "none" /\ S # {} => n >= 1
      <4> HIDE DEF b, n, S
      <4> QED BY <1>7, <1>8
    <3> HIDE DEF b, n, S
    <3> QED BY <3>1
  <2> HIDE DEF b, n, S
  <2> QED BY <1>1, <1>3, <1>6, <2>1, LateSync
<1> HIDE DEF b, n, S
<1> QED BY <1>0, <1>4, <1>8

LEMMA RemoveGoneStage ==
  ASSUME setup \in Setups, NEW r, Settled(r)
  PROVE  Late(RemoveGoneNodes(r))
<1> DEFINE gone == r.sync \ r.active
           a == QuorumUpdate(r, 0, {}, NoNode, FALSE)
           x == IF r.quorum = 0 THEN r ELSE RemoveUpToQuorum(r, gone)
<1>0. Late(r)
  BY DEF Settled
<1>1. Late(SyncUpdate(a, 0, {}))
  <2>1. Late(a)
    <3> DEFINE f == FALSE
    <3>1. a = QuorumUpdate(r, 0, {}, NoNode, f)
      OBVIOUS
    <3>2. 0 \in Int /\ {} \in SUBSET Cluster
      OBVIOUS
    <3> HIDE DEF f
    <3>3. Late(QuorumUpdate(r, 0, {}, NoNode, f))
      BY <1>0, <3>2, LateQuorum
    <3> HIDE DEF a
    <3> QED BY <3>1, <3>3
  <2> HIDE DEF a
  <2>2. 0 \in Int /\ {} \in SUBSET Standbys
    OBVIOUS
  <2> QED BY <2>1, <2>2, LateSync
<1>2. ASSUME r.err = "none", gone # {} PROVE Late(RemoveStillListed(x, gone))
  <2>1. Settled(x)
    <3>1. gone \in SUBSET r.sync
      OBVIOUS
    <3> HIDE DEF gone
    <3> QED BY <1>2, <3>1, RemoveUpToQuorumStage
  <2> DEFINE g == gone \intersect x.sync
  <2>2. g \in SUBSET x.sync
    OBVIOUS
  <2>3. RemoveStillListed(x, gone) = RemoveRest(x, g)
    BY DEF RemoveStillListed
  <2> HIDE DEF x, g, gone
  <2> QED BY <2>1, <2>2, <2>3, RemoveRestStage
<1>3. RemoveGoneNodes(r) = r \/ RemoveGoneNodes(r) = SyncUpdate(a, 0, {})
      \/ (r.err = "none" /\ gone # {} /\ RemoveGoneNodes(r) = RemoveStillListed(x, gone))
  <2> HIDE DEF a, x
  <2>1. RemoveGoneNodes(r) = CASE r.err # "none" \/ gone = {} -> r
                               [] r.err = "none" /\ gone # {} /\ gone = r.sync -> SyncUpdate(a, 0, {})
                               [] OTHER -> RemoveStillListed(x, gone)
    BY DEF RemoveGoneNodes, a, x
  <2> HIDE DEF gone
  <2> QED BY <2>1
<1> HIDE DEF a, x, gone
<1> QED BY <1>0, <1>1, <1>2, <1>3

\* The first k of some names are some.
LEMMA FirstNamesSome ==
  ASSUME setup \in Setups, NEW S \in SUBSET Cluster, S # {}, NEW k \in Int, k >= 1
  PROVE  FirstNames(S, k) # {} /\ FirstNames(S, k) \in SUBSET S
<1> DEFINE before(n) == {o \in S : o < n}
           T == {Cardinality(before(n)) : n \in S}
<1>1. \A n \in S : n \in Int
  BY ClusterFacts, NodesAssumption
<1>2. ASSUME NEW n PROVE IsFiniteSet(before(n)) /\ Cardinality(before(n)) \in Nat
  BY Counted, FS_Subset, FS_CardinalityType
<1>3. PICK x \in T : \A y \in T : x <= y
  <2>1. T \in SUBSET Nat /\ T # {}
    BY <1>2
  <2> HIDE DEF T
  <2> QED BY <2>1, LeastNumber
<1>4. PICK n \in S : Cardinality(before(n)) = x
  BY <1>3
<1>5. before(n) = {}
  <2> SUFFICES ASSUME NEW o \in before(n) PROVE FALSE
    OBVIOUS
  <2>1. o \in S /\ o < n /\ o \in Int /\ n \in Int
    BY <1>1
  <2>2. before(o) \subseteq before(n) /\ o \notin before(o)
    <3>1. ASSUME NEW m \in S, m < o PROVE m < n
      <4>1. m \in Int
        BY <1>1
      <4> QED BY <2>1, <3>1, <4>1
    <3>2. ~(o < o)
      BY <2>1
    <3> QED BY <3>1, <3>2
  <2>3. before(o) # before(n) /\ before(o) \in SUBSET before(n)
    BY <2>2
  <2>4. Cardinality(before(o)) <= Cardinality(before(n)) /\ Cardinality(before(o)) # Cardinality(before(n))
    <3> DEFINE A == before(o)
               B == before(n)
    <3>1. IsFiniteSet(B) /\ A \in SUBSET B /\ A # B
      BY <1>2, <2>3
    <3> HIDE DEF A, B
    <3>2. Cardinality(A) <= Cardinality(B) /\ (Cardinality(B) = Cardinality(A) => B = A)
      BY <3>1, FS_Subset
    <3>3. Cardinality(A) <= Cardinality(B) /\ Cardinality(A) # Cardinality(B)
      BY <3>1, <3>2
    <3> QED BY <3>3 DEF A, B
  <2>5. x <= Cardinality(before(o))
    BY <1>3, <2>1
  <2>6. Cardinality(before(o)) \in Nat /\ x \in Nat
    BY <1>2, <1>4
  <2> HIDE DEF before
  <2> QED BY <1>4, <2>4, <2>5, <2>6
<1>6. Cardinality(before(n)) = 0
  BY <1>5, FS_EmptySet
<1>7. Cardinality(before(n)) < k
  <2> HIDE DEF before
  <2> QED BY <1>6
<1> QED BY <1>4, <1>7 DEF FirstNames

LEMMA AddVotersStage ==
  ASSUME setup \in Setups, NEW r, Late(r), NEW add \in SUBSET Cluster, NEW wanted \in Int, NEW adjust
  PROVE  Late(AddVoters(r, add, wanted, adjust))
<1> DEFINE V == r.voters \union add
           q == Cardinality(V) - wanted
<1>1. V \in SUBSET Cluster
  BY EarlyFields
<1>2. Cardinality(V) \in Nat
  BY <1>1, Counted
<1>3. q \in Int
  BY <1>2
<1>4. AddVoters(r, add, wanted, adjust) = QuorumUpdate(r, q, V, NoNode, adjust)
  BY DEF AddVoters
<1> HIDE DEF V, q
<1> QED BY <1>1, <1>3, <1>4, LateQuorum

LEMMA AddNewStage ==
  ASSUME setup \in Setups, NEW r, Late(r)
  PROVE  Late(AddNewNodes(r))
<1> DEFINE new == r.active \ r.sync
           wanted == Lower(r.wanted, Cardinality(r.sync \union new))
<1>1. r.wanted \in Nat /\ r.wanted >= 1 /\ r.numsync \in Nat /\ r.sync \in SUBSET Standbys
      /\ new \in SUBSET Standbys /\ r.sync \union new \in SUBSET Cluster /\ new \in SUBSET Cluster
  BY EarlyFields
<1>2. Cardinality(r.sync \union new) \in Nat /\ (new # {} => Cardinality(r.sync \union new) >= 1)
  BY <1>1, Counted
<1>3. wanted \in Int /\ (new # {} => wanted >= 1)
  <2> DEFINE c == Cardinality(r.sync \union new)
  <2>1. c \in Nat /\ (new # {} => c >= 1)
    BY <1>2
  <2> HIDE DEF c, new
  <2>2. Lower(r.wanted, c) \in Int /\ (new # {} => Lower(r.wanted, c) >= 1)
    BY <1>1, <2>1 DEF Lower
  <2> QED BY <2>2 DEF c
<1>4. AddNewNodes(r) = r \/ (new # {} /\ AddNewNodes(r) = AddNotListed(IncreaseFactor(r, new, wanted), new, wanted))
  BY DEF AddNewNodes
<1> HIDE DEF new, wanted
<1>5. ASSUME new # {} PROVE Late(IncreaseFactor(r, new, wanted))
  <2> DEFINE add == IF r.sync = {} THEN new ELSE FirstNames(new, wanted - r.numsync)
             by == IF r.sync = {} THEN wanted - r.numsync ELSE Cardinality(add)
             a == SyncUpdate(r, r.numsync + by, r.sync \union add)
  <2>1. CASE wanted <= r.numsync
    <3>1. IncreaseFactor(r, new, wanted) = r
      BY <2>1 DEF IncreaseFactor
    <3> QED BY <3>1
  <2>2. CASE ~(wanted <= r.numsync)
    <3>1. wanted - r.numsync \in Int /\ wanted - r.numsync >= 1
      BY <1>1, <1>3, <2>2
    <3>2. add # {} /\ add \in SUBSET new
      <4> DEFINE k == wanted - r.numsync
      <4>1. k \in Int /\ k >= 1
        BY <3>1
      <4> HIDE DEF k
      <4>2. FirstNames(new, k) # {} /\ FirstNames(new, k) \in SUBSET new
        BY <1>1, <1>5, <4>1, FirstNamesSome
      <4> QED BY <1>5, <4>2 DEF k
    <3>3. add \in SUBSET Cluster /\ r.sync \union add \in SUBSET Standbys
      BY <1>1, <3>2
    <3>4. by \in Int /\ by >= 1
      <4>1. Cardinality(add) \in Nat /\ Cardinality(add) >= 1
        <5> HIDE DEF add
        <5> QED BY <3>2, <3>3, Counted
      <4> HIDE DEF add
      <4> QED BY <3>1, <4>1
    <3> HIDE DEF add, by
    <3>5. IncreaseFactor(r, new, wanted) = AddVoters(a, add, wanted, TRUE)
      BY <2>2 DEF IncreaseFactor, add, by
    <3>6. r.numsync + by \in Int /\ r.numsync + by # 0
      BY <1>1, <3>4
    <3>7. Late(a)
      <4> DEFINE n == r.numsync + by
                 S == r.sync \union add
      <4>1. n \in Int /\ n # 0 /\ S \in SUBSET Standbys
        BY <3>3, <3>6
      <4> HIDE DEF n, S
      <4>2. Late(SyncUpdate(r, n, S))
        BY <4>1, LateSync
      <4> QED BY <4>2 DEF n, S
    <3> HIDE DEF a
    <3> DEFINE t == TRUE
    <3>8. IncreaseFactor(r, new, wanted) = AddVoters(a, add, wanted, t)
      BY <3>5
    <3> HIDE DEF t
    <3> QED BY <1>3, <3>3, <3>7, <3>8, AddVotersStage
  <2> QED BY <2>1, <2>2
<1>6. ASSUME new # {}, NEW s, Late(s) PROVE Late(AddNotListed(s, new, wanted))
  <2> DEFINE rest == new \ s.sync
             adjust == wanted > s.confirmed
             a == AddVoters(s, rest, wanted, adjust)
             S == s.sync \union rest
  <2>1. s.sync \in SUBSET Standbys
    BY <1>6, EarlyFields
  <2>2. rest \in SUBSET Cluster /\ S \in SUBSET Standbys
    BY <1>1, <2>1
  <2>3. AddNotListed(s, new, wanted) = s \/ AddNotListed(s, new, wanted) = SyncUpdate(a, wanted, S)
    BY DEF AddNotListed, AddRemaining
  <2>4. Late(a)
    <3> HIDE DEF rest, adjust
    <3> QED BY <1>3, <1>6, <2>2, AddVotersStage
  <2>5. wanted # 0
    BY <1>3, <1>6
  <2> HIDE DEF a, S
  <2>6. Late(SyncUpdate(a, wanted, S))
    BY <1>3, <2>2, <2>4, <2>5, LateSync
  <2> QED BY <1>6, <2>3, <2>6
<1> QED BY <1>4, <1>5, <1>6

LEMMA FactorStage ==
  ASSUME setup \in Setups, NEW r, Late(r)
  PROVE  Late(ReplicationFactorChange(r))
<1> DEFINE increase == Lower(r.wanted, Cardinality(r.sync)) - r.numsync
           n == r.numsync + increase
           a == SyncUpdate(r, n, r.sync)
           q == Cardinality(r.voters) - n
           adjust == r.wanted > r.confirmed
           b == IF r.quorum - increase >= Cardinality(r.voters) THEN r ELSE QuorumUpdate(r, q, r.voters, NoNode, adjust)
<1>1. r.wanted \in Nat /\ r.wanted >= 1 /\ r.numsync \in Nat /\ r.sync \in SUBSET Standbys /\ r.voters \in SUBSET Cluster
      /\ Cardinality(r.sync) \in Nat /\ Cardinality(r.voters) \in Nat /\ r.sync \in SUBSET Cluster
  BY EarlyFields
<1>2. n \in Int /\ (n = 0 => r.sync = {})
  <2> DEFINE c == Cardinality(r.sync)
  <2>1. c \in Nat /\ (r.sync # {} => c >= 1)
    BY <1>1, Counted
  <2> HIDE DEF c
  <2> DEFINE l == Lower(r.wanted, c)
  <2>2. l \in Int /\ (l = 0 => r.sync = {})
    BY <1>1, <2>1 DEF Lower
  <2>3. l = Lower(r.wanted, Cardinality(r.sync))
    BY DEF c
  <2> HIDE DEF l
  <2>4. r.numsync + (l - r.numsync) = l
    BY <1>1, <2>2
  <2>5. n = l
    BY <2>3, <2>4
  <2> QED BY <2>2, <2>5
<1>3. ReplicationFactorChange(r) = r \/ ReplicationFactorChange(r) = LowerQuorum(a)
      \/ ReplicationFactorChange(r) = SyncUpdate(b, n, r.sync)
  <2> HIDE DEF increase, n, a, b
  <2>1. ReplicationFactorChange(r) = CASE r.err # "none" \/ increase = 0 -> r
                                       [] r.err = "none" /\ increase > 0 -> LowerQuorum(a)
                                       [] OTHER -> SyncUpdate(b, n, r.sync)
    BY DEF ReplicationFactorChange, increase, n, a, b, q, adjust
  <2> QED BY <2>1
<1> HIDE DEF n, increase
<1>4. Late(a)
  BY <1>1, <1>2, LateSync
<1> HIDE DEF a
<1>5. Late(LowerQuorum(a))
  <2> DEFINE k == Cardinality(a.voters) - a.numsync
             t == TRUE
  <2>1. a.voters \in SUBSET Cluster /\ Cardinality(a.voters) \in Nat /\ a.numsync \in Nat
    BY <1>4, EarlyFields
  <2>2. k \in Int
    BY <2>1
  <2>3. LowerQuorum(a) = QuorumUpdate(a, k, a.voters, NoNode, t)
    BY DEF LowerQuorum
  <2> HIDE DEF k, t
  <2> QED BY <1>4, <2>1, <2>2, <2>3, LateQuorum
<1>6. Late(b)
  <2>1. q \in Int
    BY <1>1, <1>2
  <2> HIDE DEF q, adjust
  <2>2. Late(QuorumUpdate(r, q, r.voters, NoNode, adjust))
    BY <1>1, <2>1, LateQuorum
  <2> QED BY <2>2
<1> HIDE DEF b
<1>7. Late(SyncUpdate(b, n, r.sync))
  BY <1>1, <1>2, <1>6, LateSync
<1> QED BY <1>3, <1>5, <1>7

(***************************************************************************)
(* The whole computation: from a record that describes what there is, the  *)
(* resolver ends with an exception or with transitions that are safe one   *)
(* by one.                                                                 *)
(***************************************************************************)
LEMMA GenerateStage ==
  ASSUME setup \in Setups, primary \in Cluster, NEW r, Begun(r), r.err = "none", r.sync = {} => r.numsync = 0
  PROVE  Late(GenerateTransitions(r))
<1>0. r \in QcResolvers /\ r.leaderWanted = primary
  BY ResolverFields DEF Begun
<1>1. ASSUME NEW s, Early(s) PROVE Late(Proceed(AdoptConfirmed(s)))
  <2> DEFINE a == AdoptConfirmed(s)
  <2>1. Early(a)
    BY <1>1, AdoptStage
  <2> HIDE DEF a
  <2>2. Late(a) /\ Late(ReplicationFactorChange(AddNewNodes(RemoveGoneNodes(NonSteadyCases(a)))))
    BY <2>1, NonSteadyStage, RemoveGoneStage, AddNewStage, FactorStage DEF Early
  <2>3. Late(Proceed(a))
    BY <2>2 DEF Proceed
  <2> QED BY <2>3 DEF a
<1>2. ASSUME NEW s, NEW f,
             (Early(s) /\ s.err = "none") \/ Repairable(s) \/ (s \in QcResolvers /\ s.err = "QuorumError" /\ s.leader # primary)
      PROVE  Late(AfterLeaderCheck(s, f))
  <2>1. Late(Proceed(AdoptConfirmed(LeaderMustMatch(Repair(s)))))
    BY <1>1, <1>2, LeaderChecked
  <2>2. CASE f /\ s.err = "none" /\ s.sync \intersect s.active = {}
    <3>1. AfterLeaderCheck(s, f) = s
      BY <2>2 DEF AfterLeaderCheck
    <3>2. Late(s)
      BY <1>2, <2>2 DEF Early, Repairable
    <3> QED BY <3>1, <3>2
  <2>3. CASE ~(f /\ s.err = "none" /\ s.sync \intersect s.active = {})
    <3>1. AfterLeaderCheck(s, f) = Proceed(AdoptConfirmed(LeaderMustMatch(Repair(s))))
      BY <2>3 DEF AfterLeaderCheck
    <3> QED BY <2>1, <3>1
  <2> QED BY <2>2, <2>3
<1>3. CASE r.leader # primary
  <2> DEFINE f == TRUE
  <2>1. GenerateTransitions(r) = AfterLeaderCheck(Failover(r), f)
    BY <1>0, <1>3 DEF GenerateTransitions
  <2> HIDE DEF f
  <2> QED BY <1>2, <1>3, <2>1, FailoverStage
<1>4. CASE r.leader = primary
  <2> DEFINE f == FALSE
             a == CheckInvariants(r)
  <2>1. GenerateTransitions(r) = AfterLeaderCheck(a, f)
    BY <1>0, <1>4 DEF GenerateTransitions
  <2> HIDE DEF f, a
  <2>2. a \in QcResolvers /\ KeyOnly(a, r) /\ SyncOnly(a, r) /\ a.out = r.out
        /\ (a.err = "none" => a = r) /\ (a.err # "none" => a.err = "QuorumError")
    BY <1>0, CheckFacts DEF a
  <2>3. CASE a.err = "none"
    BY <1>2, <1>4, <2>1, <2>2, <2>3 DEF Begun, Early, Late
  <2>4. CASE a.err = "QuorumError"
    <3> DEFINE u == ViewOf(r)
    <3>1. LeadsTo(a.out, u) /\ u.sync = a.sync /\ u.numsync = a.numsync /\ u = ViewOf(a)
      BY <2>2 DEF Begun, Consistent, ViewOf, KeyOnly, SyncOnly
    <3> HIDE DEF u
    <3>2. a.numsync = 0 => OnlyZeros(a.out)
      BY <2>2 DEF Begun, KeyOnly
    <3>3. Repairable(a)
      BY <1>4, <2>2, <2>4, <3>1, <3>2 DEF Repairable, SyncOnly
    <3> QED BY <1>2, <2>1, <3>3
  <2> QED BY <2>2, <2>3, <2>4
<1> QED BY <1>3, <1>4

-----------------------------------------------------------------------------
(***************************************************************************)
(* The inductive invariant of quorum commit: what there is is safe, and so *)
(* is every view the transitions still to be applied lead through.  The    *)
(* first of these views may ask for less than PostgreSQL was given, which  *)
(* raises the number to the minimum or refuses it.                         *)
(***************************************************************************)
QcTypes ==
    /\ setup \in Setups
    /\ primary \in Cluster
    /\ key.leader \in Cluster \union {NoNode} /\ key.quorum \in Nat /\ key.voters \in SUBSET Cluster
    /\ key.leader = NoNode => key.voters = {}
    /\ guc.num \in Nat /\ guc.names \in SUBSET Standbys
    /\ guc.names # {} => guc.num >= 1
    /\ calm \in Nat
    /\ calm > 0 => target.active \in SUBSET Standbys /\ target.wanted \in SyncCounts

CoversView(v) ==
    /\ v.leader = key.leader /\ v.quorum = key.quorum /\ v.voters = key.voters
    /\ guc.names \subseteq v.sync
    /\ v.numsync <= Lower(guc.num, Cardinality(guc.names))

\* Transitions that can be applied to what there is.
Pending(out) ==
    /\ out \in Seq(QcUpdates)
    /\ \A i \in 1..Len(out) : IsUpdate(out[i])
    /\ Strict \/ RefusedFirst(out)
    /\ \E p : SafePath(p, out) /\ CoversView(p[0])

SafeTodo == todo # <<>> => key.leader # NoNode /\ Pending(todo)

SafeNow == key.leader # NoNode => SafeView(ActualView)

QcInv == QcTypes /\ SafeNow /\ SafeTodo

LEMMA ActualType ==
  ASSUME QcTypes
  PROVE  /\ Cardinality(guc.names) \in Nat /\ Lower(guc.num, Cardinality(guc.names)) \in Nat
         /\ Lower(guc.num, Cardinality(guc.names)) = 0 => guc.names = {}
         /\ guc.names = {} => Lower(guc.num, Cardinality(guc.names)) = 0
         /\ key.leader # NoNode => ActualView \in QcViews
<1>1. guc.names \in SUBSET Cluster /\ guc.num \in Nat /\ (guc.names # {} => guc.num >= 1)
  BY SubsetOfCluster DEF QcTypes
<1>2. Cardinality(guc.names) \in Nat /\ (guc.names # {} => Cardinality(guc.names) >= 1) /\ (guc.names = {} => Cardinality(guc.names) = 0)
  BY <1>1, Counted DEF QcTypes
<1> DEFINE c == Cardinality(guc.names)
           l == Lower(guc.num, c)
<1>3. c \in Nat /\ (guc.names # {} => c >= 1) /\ (guc.names = {} => c = 0)
  BY <1>2
<1> HIDE DEF c
<1>4. l \in Nat /\ (l = 0 => guc.names = {}) /\ (guc.names = {} => l = 0)
  BY <1>1, <1>3 DEF Lower
<1>5. l = Lower(guc.num, Cardinality(guc.names))
  BY DEF c
<1> HIDE DEF l
<1>6. ASSUME key.leader # NoNode PROVE ActualView \in QcViews
  <2>1. key.leader \in Cluster /\ key.quorum \in Nat /\ key.voters \in SUBSET Cluster /\ guc.names \in SUBSET Standbys
    BY <1>6 DEF QcTypes
  <2>2. ActualView = [leader |-> key.leader, quorum |-> key.quorum, voters |-> key.voters, numsync |-> l, sync |-> guc.names]
    BY <1>5 DEF ActualView
  <2> QED BY <1>4, <2>1, <2>2 DEF QcViews
<1> QED BY <1>2, <1>4, <1>5, <1>6

LEMMA ShiftedPath ==
  ASSUME NEW out \in Seq(QcUpdates), out # <<>>, NEW p, SafePath(p, out)
  PROVE  \E q : SafePath(q, Tail(out)) /\ q[0] = Applied(p[0], Head(out)) /\ q[0] \in QcViews /\ SafeView(q[0])
<1> DEFINE n == Len(out)
           t == Tail(out)
<1>1. n \in Nat /\ n >= 1 /\ t \in Seq(QcUpdates) /\ Len(t) = n - 1 /\ Head(out) = out[1]
      /\ \A i \in 1..(n - 1) : t[i] = out[i + 1]
  OBVIOUS
<1> HIDE DEF n, t
<1> DEFINE q == [i \in 0..(n - 1) |-> p[i + 1]]
<1>2. p \in [0..n -> QcViews] /\ (\A i \in 1..n : p[i] = Applied(p[i - 1], out[i])) /\ (\A i \in 0..n : SafeView(p[i]))
  BY DEF SafePath, n
<1>3. \A i \in 0..(n - 1) : i + 1 \in 0..n /\ i + 1 \in 1..n /\ (i + 1) - 1 = i
  BY <1>1
<1>4. \A i \in 1..(n - 1) : i - 1 \in 0..(n - 1) /\ i \in 0..(n - 1) /\ (i - 1) + 1 = i
  BY <1>1
<1>5. q \in [0..(n - 1) -> QcViews]
  BY <1>2, <1>3
<1>6. \A i \in 0..(n - 1) : q[i] = p[i + 1]
  OBVIOUS
<1> HIDE DEF q
<1>7. ASSUME NEW i \in 1..(n - 1) PROVE q[i] = Applied(q[i - 1], t[i])
  <2>1. q[i] = p[i + 1] /\ q[i - 1] = p[i]
    BY <1>4, <1>6
  <2>2. p[i + 1] = Applied(p[(i + 1) - 1], out[i + 1]) /\ (i + 1) - 1 = i
    BY <1>2, <1>3, <1>4
  <2> QED BY <1>1, <2>1, <2>2
<1>8. \A i \in 0..(n - 1) : SafeView(q[i])
  BY <1>2, <1>3, <1>6
<1>9. SafePath(q, t)
  BY <1>1, <1>5, <1>7, <1>8 DEF SafePath
<1>10. q[0] = Applied(p[0], Head(out)) /\ q[0] \in QcViews /\ SafeView(q[0])
  <2>1. 0 \in 0..(n - 1) /\ 1 \in 1..n /\ 0 + 1 = 1 /\ 1 - 1 = 0
    BY <1>1
  <2>2. q[0] = p[1] /\ p[1] = Applied(p[0], out[1])
    BY <1>2, <1>6, <2>1
  <2> QED BY <1>1, <1>5, <1>8, <2>1, <2>2
<1> QED BY <1>9, <1>10 DEF t

\* What covers a safe view is safe.
LEMMA CoveredSafe ==
  ASSUME NEW C, IsFiniteSet(C), NEW pr \in C, NEW l \in C, NEW V \in SUBSET C, NEW S \in SUBSET C, NEW N \in SUBSET S,
         NEW q \in Nat, NEW s \in Nat, NEW n \in Nat, s <= n,
         Cardinality((V \union {l}) \union (S \union {pr})) <= q + s + 1
  PROVE  Cardinality((V \union {l}) \union (N \union {pr})) <= q + n + 1
<1> DEFINE U == (V \union {l}) \union (S \union {pr})
           W == (V \union {l}) \union (N \union {pr})
<1>1. W \subseteq U /\ U \subseteq C
  OBVIOUS
<1> HIDE DEF U, W
<1>2. IsFiniteSet(U)
  BY <1>1, FS_Subset
<1>3. Cardinality(W) <= Cardinality(U) /\ Cardinality(W) \in Nat /\ Cardinality(U) \in Nat
  BY <1>1, <1>2, FS_Subset, FS_CardinalityType
<1>4. Cardinality(U) <= q + s + 1
  BY DEF U
<1>5. Cardinality(W) <= q + n + 1
  BY <1>3, <1>4
<1> QED BY <1>5 DEF W

\* The record the resolver starts from describes what there is.
LEMMA ResolverStart ==
  ASSUME QcInv, key.leader # NoNode, NEW confirmed \in Int, NEW active \in SUBSET Standbys, NEW wanted \in SyncCounts,
         NEW r, r = Resolver(key, guc.num, guc.names, confirmed, active, wanted, primary)
  PROVE  Begun(r) /\ r.err = "none" /\ (r.sync = {} => r.numsync = 0)
<1> DEFINE l == Lower(guc.num, Cardinality(guc.names))
<1>1. /\ l \in Nat /\ (l = 0 => guc.names = {}) /\ (guc.names = {} => l = 0)
      /\ ActualView \in QcViews
  BY ActualType DEF QcInv
<1>2. r = [leader |-> key.leader, quorum |-> key.quorum, voters |-> key.voters, numsync |-> l, sync |-> guc.names,
           confirmed |-> confirmed, active |-> active, wanted |-> wanted, leaderWanted |-> primary,
           out |-> <<>>, err |-> "none"]
  BY DEF Resolver
<1>3. ViewOf(r) = ActualView
  BY <1>2 DEF ViewOf, ActualView
<1> HIDE DEF l
<1>4. r \in QcResolvers
  <2>1. key.leader \in Cluster /\ key.quorum \in Nat /\ key.voters \in SUBSET Cluster /\ guc.names \in SUBSET Standbys
    BY DEF QcInv, QcTypes
  <2>2. wanted \in Nat \ {0}
    BY ClusterFacts DEF QcInv, QcTypes
  <2>3. <<>> \in Seq(QcUpdates)
    OBVIOUS
  <2> QED BY <1>1, <1>2, <2>1, <2>2, <2>3 DEF QcResolvers
<1>5. LeadsTo(<<>>, ActualView)
  <2> DEFINE p == [i \in 0..0 |-> ActualView]
  <2>1. Len(<<>>) = 0 /\ <<>> \in Seq(QcUpdates) /\ 1..0 = {} /\ 0..0 = {0}
    OBVIOUS
  <2>2. p \in [0..0 -> QcViews] /\ p[0] = ActualView
    BY <1>1, <2>1
  <2> HIDE DEF p
  <2>3. SafePath(p, <<>>)
    BY <2>1, <2>2 DEF SafePath, QcInv, SafeNow
  <2>4. RefusedFirst(<<>>)
    BY <2>1 DEF RefusedFirst
  <2> QED BY <2>1, <2>2, <2>3, <2>4 DEF LeadsTo
<1>6. r.numsync = 0 => OnlyZeros(r.out)
  <2>1. Len(<<>>) = 0 /\ 1..0 = {}
    OBVIOUS
  <2> QED BY <1>1, <1>2, <2>1 DEF OnlyZeros
<1> QED BY <1>1, <1>2, <1>3, <1>4, <1>5, <1>6 DEF Begun, Consistent

(***************************************************************************)
(* What the resolver returns: nothing, or transitions that are safe one by *)
(* one.                                                                    *)
(***************************************************************************)
LEMMA ResolvedSafely ==
  ASSUME QcInv, key.leader # NoNode, NEW confirmed \in Int, NEW active \in SUBSET Standbys, NEW wanted \in SyncCounts,
         NEW s, s = Resolve(Resolver(key, guc.num, guc.names, confirmed, active, wanted, primary)).transitions
  PROVE  s = <<>> \/ \E v : LeadsTo(s, v)
<1> DEFINE r == Resolver(key, guc.num, guc.names, confirmed, active, wanted, primary)
           g == GenerateTransitions(r)
<1>1. Begun(r) /\ r.err = "none" /\ (r.sync = {} => r.numsync = 0)
  BY ResolverStart
<1> HIDE DEF r
<1>2. Late(g)
  BY <1>1, GenerateStage DEF QcInv, QcTypes
<1>3. s = (IF g.err = "none" THEN Merged(g.out) ELSE <<>>)
  BY DEF Resolve, Outcome, r
<1> HIDE DEF g
<1>4. CASE g.err = "none"
  BY <1>2, <1>3, <1>4, MergedLeads DEF Late, Consistent
<1>5. CASE g.err # "none"
  BY <1>3, <1>5
<1> QED BY <1>4, <1>5

LEMMA LeadsPending ==
  ASSUME QcTypes, NEW out, NEW v, LeadsTo(out, v)
  PROVE  Pending(out)
<1>1. PICK p : SafePath(p, out) /\ p[0] = ActualView
  BY DEF LeadsTo
<1>2. Lower(guc.num, Cardinality(guc.names)) \in Nat
  BY ActualType
<1> DEFINE l == Lower(guc.num, Cardinality(guc.names))
<1>3. l <= l
  <2> HIDE DEF l
  <2> QED BY <1>2 DEF l
<1>4. CoversView(ActualView)
  BY <1>3 DEF CoversView, ActualView
<1> QED BY <1>1, <1>4 DEF LeadsTo, Pending

\* The definitions do not change with anything but the cluster, its primary, the key and the setting.
LEMMA SamePending ==
  ASSUME NEW out, Pending(out), setup' = setup, primary' = primary, key' = key, guc' = guc, todo' = out
  PROVE  Pending(todo)'
  BY DEF Pending, IsUpdate, QcUpdates, RefusedFirst, Refused, SafePath, QcViews, SafeView, CoversView, Standbys, Cluster, Strict

LEMMA SameTypes ==
  ASSUME QcTypes, setup' = setup, primary' = primary, key' = key, guc' = guc, calm' = calm, target' = target
  PROVE  QcTypes'
  BY DEF QcTypes, Standbys, Cluster, SyncCounts

LEMMA SameSafe ==
  ASSUME SafeNow, primary' = primary, key' = key, guc' = guc
  PROVE  SafeNow'
  BY DEF SafeNow, SafeView, ActualView

LEMMA SameInv ==
  ASSUME QcInv, setup' = setup, primary' = primary, key' = key, guc' = guc, todo' = todo \/ todo' = <<>>,
         calm' = calm, target' = target
  PROVE  QcInv'
<1>1. QcTypes'
  BY SameTypes DEF QcInv
<1>2. SafeNow'
  BY SameSafe DEF QcInv
<1>3. SafeTodo'
  <2>1. CASE todo' = <<>>
    BY <2>1 DEF SafeTodo
  <2>2. CASE todo' = todo /\ todo # <<>>
    <3>1. Pending(todo) /\ key.leader # NoNode
      BY <2>2 DEF QcInv, SafeTodo
    <3>2. Pending(todo)'
      BY <2>2, <3>1, SamePending
    <3> QED BY <3>1, <3>2 DEF SafeTodo
  <2> QED BY <2>1, <2>2
<1> QED BY <1>1, <1>2, <1>3 DEF QcInv

LEMMA QcStart == Init => QcInv
<1> SUFFICES ASSUME Init PROVE QcInv
  OBVIOUS
<1>1. setup \in Setups /\ primary = FirstPrimary /\ key = [leader |-> NoNode, quorum |-> 0, voters |-> {}]
      /\ guc.names = {} /\ guc.num \in {0, 1} /\ todo = <<>> /\ calm = 0
  BY DEF Init, Star, Unset
<1>2. primary \in Cluster
  BY <1>1, ClusterFacts
<1>3. QcTypes
  BY <1>1, <1>2 DEF QcTypes
<1>4. SafeNow /\ SafeTodo
  BY <1>1 DEF SafeNow, SafeTodo
<1> QED BY <1>3, <1>4 DEF QcInv

LEMMA QcStartRun == ASSUME QcInv, StartRun PROVE QcInv'
<1>1. ASSUME NEW active \in SUBSET Standbys, NEW reported, NEW wanted \in SyncCounts, StartRunWith(active, reported, wanted)
      PROVE  QcInv'
  <2> DEFINE known == StillListed(primary, guc) \union reported
             confirmed == Cardinality(known \intersect active)
             res == Resolve(Resolver(key, guc.num, guc.names, confirmed, active, wanted, primary))
  <2>1. Started(res, known)
    BY <1>1 DEF StartRunWith
  <2> HIDE DEF known
  <2>2. confirmed \in Int
    <3>1. known \intersect active \in SUBSET Cluster
      BY DEF Standbys
    <3> QED BY <3>1, Counted DEF QcInv, QcTypes
  <2>3. key.leader # NoNode /\ todo' = res.transitions
        /\ setup' = setup /\ primary' = primary /\ key' = key /\ guc' = guc /\ target' = target
        /\ (calm' = calm \/ (calm > 0 /\ calm' = calm + 1))
    <3> HIDE DEF res
    <3>1. calm \in 1..CalmRuns => calm > 0
      BY DEF QcInv, QcTypes
    <3> QED BY <2>1, <3>1 DEF Started
  <2>4. todo' = <<>> \/ \E v : LeadsTo(todo', v)
    <3> HIDE DEF confirmed
    <3> QED BY <2>2, <2>3, ResolvedSafely
  <2> HIDE DEF res
  <2>5. SafeTodo'
    <3>1. ASSUME NEW s, s = todo', NEW v, LeadsTo(s, v) PROVE Pending(todo)'
      <4>1. Pending(s)
        BY <3>1, LeadsPending DEF QcInv
      <4> QED BY <2>3, <3>1, <4>1, SamePending
    <3> QED BY <2>3, <2>4, <3>1 DEF SafeTodo
  <2>6. QcTypes'
    <3>1. calm' \in Nat /\ (calm' > 0 => calm > 0)
      BY <2>3 DEF QcInv, QcTypes
    <3> QED BY <2>3, <3>1 DEF QcInv, QcTypes, Standbys, Cluster, SyncCounts
  <2>7. SafeNow'
    BY <2>3, SameSafe DEF QcInv
  <2> QED BY <2>5, <2>6, <2>7 DEF QcInv
<1>2. CASE calm > 0
  BY <1>1, <1>2 DEF StartRun, QcInv, QcTypes
<1>3. CASE ~(calm > 0)
  BY <1>1, <1>3 DEF StartRun, Standbys
<1> QED BY <1>2, <1>3

\* The transitions that are left when the first one is applied.
LEMMA TailFacts ==
  ASSUME NEW out \in Seq(QcUpdates), out # <<>>, \A i \in 1..Len(out) : IsUpdate(out[i])
  PROVE  /\ IsUpdate(Head(out)) /\ Head(out) = out[1] /\ Len(out) \in Nat /\ Len(out) >= 1
         /\ Tail(out) \in Seq(QcUpdates) /\ Len(Tail(out)) = Len(out) - 1
         /\ \A i \in 1..Len(Tail(out)) : IsUpdate(Tail(out)[i])
         /\ \A i \in 1..Len(Tail(out)) : i + 1 \in 1..Len(out) /\ Tail(out)[i] = out[i + 1]
<1>1. Head(out) = out[1] /\ Len(out) \in Nat /\ Len(out) >= 1 /\ Tail(out) \in Seq(QcUpdates) /\ Len(Tail(out)) = Len(out) - 1
  OBVIOUS
<1>2. \A i \in 1..Len(Tail(out)) : i + 1 \in 1..Len(out) /\ Tail(out)[i] = out[i + 1]
  BY <1>1
<1>3. 1 \in 1..Len(out)
  BY <1>1
<1> QED BY <1>1, <1>2, <1>3

LEMMA RefusedRest ==
  ASSUME NEW out \in Seq(QcUpdates), out # <<>>, \A i \in 1..Len(out) : IsUpdate(out[i]), RefusedFirst(out),
         NEW i \in 1..Len(Tail(out)), Refused(Tail(out)[i])
  PROVE  /\ guc.names = {} /\ \A j \in 1..i : Tail(out)[j].type = "sync" => Tail(out)[j].num = 0
         /\ Head(out).type = "sync" => Head(out).num = 0
<1>1. Head(out) = out[1] /\ Len(out) \in Nat /\ Len(Tail(out)) = Len(out) - 1
      /\ \A j \in 1..Len(Tail(out)) : j + 1 \in 1..Len(out) /\ Tail(out)[j] = out[j + 1]
  BY TailFacts
<1>2. guc.names = {} /\ \A j \in 1..(i + 1) : out[j].type = "sync" => out[j].num = 0
  BY <1>1 DEF RefusedFirst
<1>3. \A j \in 1..i : j \in 1..Len(Tail(out)) /\ j + 1 \in 1..(i + 1)
  BY <1>1
<1>4. 1 \in 1..(i + 1)
  BY <1>1
<1> QED BY <1>1, <1>2, <1>3, <1>4

\* What asks no fewer of no more standbys is as safe as the view it covers.
LEMMA CoverGivesSafe ==
  ASSUME setup \in Setups, primary \in Cluster, NEW v \in QcViews, SafeView(v), v.voters # {} \/ v.leader # primary,
         NEW N \in SUBSET v.sync, NEW n \in Nat, v.numsync <= n
  PROVE  Cardinality((v.voters \union {v.leader}) \union (N \union {primary})) <= v.quorum + n + 1
<1> DEFINE V == v.voters
           S == v.sync
           l == v.leader
           k == v.quorum
           s == v.numsync
<1>1. l \in Cluster /\ k \in Nat /\ V \in SUBSET Cluster /\ s \in Nat /\ S \in SUBSET Cluster
  BY SubsetOfCluster DEF QcViews
<1>2. Cardinality((V \union {l}) \union (S \union {primary})) <= k + s + 1
  BY DEF SafeView
<1>3. IsFiniteSet(Cluster)
  <2>1. Cluster \in SUBSET Cluster
    OBVIOUS
  <2> QED BY <2>1, Counted
<1>4. N \in SUBSET S /\ s <= n
  OBVIOUS
<1> HIDE DEF V, S, l, k, s
<1>5. Cardinality((V \union {l}) \union (N \union {primary})) <= k + n + 1
  BY <1>1, <1>2, <1>3, <1>4, CoveredSafe
<1> QED BY <1>5 DEF V, l, k

LEMMA QcUpdateKey == ASSUME QcInv, UpdateKey PROVE QcInv'
<1> DEFINE t == Head(todo)
<1>1. /\ todo # <<>> /\ t.type = "quorum" /\ todo' = Tail(todo)
      /\ key' = [leader |-> t.leader, quorum |-> t.num, voters |-> t.names]
      /\ setup' = setup /\ primary' = primary /\ guc' = guc /\ calm' = calm /\ target' = target
  BY DEF UpdateKey
<1>2. todo \in Seq(QcUpdates) /\ (\A i \in 1..Len(todo) : IsUpdate(todo[i])) /\ (Strict \/ RefusedFirst(todo))
  BY <1>1 DEF QcInv, SafeTodo, Pending
<1>3. PICK p : SafePath(p, todo) /\ CoversView(p[0])
  BY <1>1 DEF QcInv, SafeTodo, Pending
<1>4. PICK q : SafePath(q, Tail(todo)) /\ q[0] = Applied(p[0], t) /\ q[0] \in QcViews /\ SafeView(q[0])
  BY <1>1, <1>2, <1>3, ShiftedPath
<1>5. IsUpdate(t) /\ t \in QcUpdates
  BY <1>1, <1>2, TailFacts DEF IsUpdate
<1>6. t.leader \in Cluster /\ t.num \in Nat /\ t.names \in SUBSET Cluster
  BY <1>5 DEF QcUpdates
<1> HIDE DEF t
<1>7. QcTypes'
  <2>1. t.leader # NoNode
    BY <1>6, ClusterFacts DEF QcInv, QcTypes
  <2> QED BY <1>1, <1>6, <2>1 DEF QcInv, QcTypes, Standbys, Cluster, SyncCounts
<1>8. CoversView(q[0])'
  <2>1. guc.names \subseteq p[0].sync /\ p[0].numsync <= Lower(guc.num, Cardinality(guc.names))
    BY <1>3 DEF CoversView
  <2>2. q[0].leader = t.leader /\ q[0].quorum = t.num /\ q[0].voters = t.names
        /\ q[0].sync = p[0].sync /\ q[0].numsync = p[0].numsync
    BY <1>1, <1>4 DEF Applied
  <2> QED BY <1>1, <2>1, <2>2 DEF CoversView
<1>9. Pending(todo)'
  <2>1. \A i \in 1..Len(Tail(todo)) : IsUpdate(Tail(todo)[i])
    BY <1>1, <1>2, TailFacts
  <2>2. Tail(todo) \in Seq(QcUpdates)
    BY <1>1, <1>2, TailFacts
  <2>3. Strict \/ RefusedFirst(Tail(todo))
    BY <1>1, <1>2, RefusedRest DEF RefusedFirst
  <2>4. (todo \in Seq(QcUpdates))' /\ (\A i \in 1..Len(todo) : IsUpdate(todo[i]))'
    BY <1>1, <2>1, <2>2 DEF IsUpdate, QcUpdates, Standbys, Cluster
  <2>5. (Strict \/ RefusedFirst(todo))'
    BY <1>1, <2>3 DEF RefusedFirst, Refused, Strict
  <2>6. SafePath(q, todo)'
    BY <1>1, <1>4 DEF SafePath, QcViews, SafeView, Standbys, Cluster
  <2> QED BY <1>8, <2>4, <2>5, <2>6 DEF Pending
<1>10. SafeNow'
  <2> DEFINE n == Lower(guc.num, Cardinality(guc.names))
             v == q[0]
  <2>1. n \in Nat
    BY ActualType DEF QcInv
  <2>2. v.leader = key'.leader /\ v.quorum = key'.quorum /\ v.voters = key'.voters /\ guc.names \in SUBSET v.sync /\ v.numsync <= n
    BY <1>1, <1>8 DEF CoversView
  <2> HIDE DEF n, v
  <2>3. v \in QcViews /\ SafeView(v)
    BY <1>4 DEF v
  <2>4. v.voters # {} \/ v.leader # primary =>
          Cardinality((v.voters \union {v.leader}) \union (guc.names \union {primary})) <= v.quorum + n + 1
    BY <2>1, <2>2, <2>3, CoverGivesSafe DEF QcInv, QcTypes
  <2> QED BY <1>1, <2>2, <2>4 DEF SafeNow, SafeView, ActualView, n
<1>11. SafeTodo'
  <2>1. key'.leader # NoNode
    BY <1>1, <1>6, ClusterFacts DEF QcInv, QcTypes
  <2> QED BY <1>9, <2>1 DEF SafeTodo
<1> QED BY <1>7, <1>10, <1>11 DEF QcInv

\* The number written is no lower than the one the resolver chose.
LEMMA RaisedNumber ==
  ASSUME NEW num \in Nat, NEW min \in {0, 1}
  PROVE  /\ Higher(num, min) \in Nat /\ Higher(num, min) >= num
         /\ Higher(Higher(num, min), 0) = Higher(num, min)
         /\ Higher(num, min) <= 0 => num = 0 /\ min = 0
  BY DEF Higher

LEMMA QcUpdateSettings == ASSUME QcInv, UpdateSettings PROVE QcInv'
<1> DEFINE t == Head(todo)
           k == Higher(t.num, MinSync)
<1>1. /\ todo # <<>> /\ t.type = "sync" /\ todo' = Tail(todo)
      /\ guc' = Setting(guc, k, t.names)
      /\ setup' = setup /\ primary' = primary /\ key' = key /\ calm' = calm /\ target' = target
  BY DEF UpdateSettings
<1>2. todo \in Seq(QcUpdates) /\ (\A i \in 1..Len(todo) : IsUpdate(todo[i])) /\ (Strict \/ RefusedFirst(todo))
      /\ key.leader # NoNode
  BY <1>1 DEF QcInv, SafeTodo, Pending
<1>3. PICK p : SafePath(p, todo) /\ CoversView(p[0])
  BY <1>1 DEF QcInv, SafeTodo, Pending
<1>4. PICK q : SafePath(q, Tail(todo)) /\ q[0] = Applied(p[0], t) /\ q[0] \in QcViews /\ SafeView(q[0])
  BY <1>1, <1>2, <1>3, ShiftedPath
<1>5. IsUpdate(t) /\ t \in QcUpdates /\ t = todo[1] /\ 1 \in 1..Len(todo)
  <2>1. IsUpdate(t) /\ t = todo[1] /\ Len(todo) \in Nat /\ Len(todo) >= 1
    BY <1>1, <1>2, TailFacts
  <2> QED BY <2>1 DEF IsUpdate
<1>6. t.num \in Nat /\ t.names \in SUBSET Standbys /\ t.num <= Cardinality(t.names)
  BY <1>1, <1>5 DEF QcUpdates, IsUpdate
<1>7. MinSync \in {0, 1} /\ (MinSync = 0 => ~Strict)
  BY DEF MinSync
<1>8. k \in Nat /\ k >= t.num /\ Higher(k, 0) = k /\ (k <= 0 => t.num = 0 /\ ~Strict)
  BY <1>6, <1>7, RaisedNumber
<1>9. Cardinality(t.names) \in Nat /\ (t.names # {} => Cardinality(t.names) >= 1) /\ (t.names = {} => Cardinality(t.names) = 0)
  <2>1. t.names \in SUBSET Cluster
    BY <1>6, SubsetOfCluster
  <2> QED BY <2>1, Counted DEF QcInv, QcTypes
<1> HIDE DEF t, k
<1> DEFINE g == guc'
           l == Lower(g.num, Cardinality(g.names))
<1>10. /\ g.num \in Nat /\ g.names \in SUBSET Standbys /\ (g.names # {} => g.num >= 1)
       /\ g.names \subseteq t.names /\ l \in Nat /\ t.num <= l
       /\ (t.num = 0 /\ ~Strict /\ guc.names = {} => g.names = {})
  <2>1. CASE k <= 0 /\ t.names # {}
    <3>1. g = guc
      BY <1>1, <2>1 DEF Setting
    <3>2. t.num = 0 /\ ~Strict
      BY <1>8, <2>1
    <3>3. Refused(t)
      BY <1>1, <2>1, <3>2 DEF Refused
    <3>4. guc.names = {}
      BY <1>2, <1>5, <3>2, <3>3 DEF RefusedFirst
    <3>5. guc.num \in Nat /\ guc.names \in SUBSET Standbys /\ Lower(guc.num, Cardinality(guc.names)) \in Nat
      BY ActualType DEF QcInv, QcTypes
    <3>6. l \in Nat /\ l >= 0
      BY <3>1, <3>5
    <3> HIDE DEF l
    <3> QED BY <3>1, <3>2, <3>4, <3>5, <3>6
  <2>2. CASE ~(k <= 0 /\ t.names # {})
    <3>1. g.num = k /\ g.names = t.names
      BY <1>1, <1>8, <2>2 DEF Setting
    <3>2. t.names # {} => k >= 1
      BY <1>8, <2>2
    <3>3. l \in Nat /\ t.num <= l
      <4> DEFINE c == Cardinality(t.names)
      <4>1. c \in Nat /\ t.num <= c
        BY <1>6, <1>9
      <4>2. l = Lower(k, c)
        BY <3>1
      <4> HIDE DEF c, l
      <4> QED BY <1>6, <1>8, <4>1, <4>2 DEF Lower
    <3>4. t.num = 0 /\ ~Strict => t.names = {}
      <4>1. ~Strict => MinSync = 0
        BY DEF MinSync
      <4>2. t.num = 0 /\ MinSync = 0 => k = 0
        BY DEF k, Higher
      <4> QED BY <3>2, <4>1, <4>2
    <3> HIDE DEF l
    <3> QED BY <1>6, <1>8, <3>1, <3>2, <3>3, <3>4
  <2> QED BY <2>1, <2>2
<1>11. g = guc' /\ l = Lower(g.num, Cardinality(g.names))
  OBVIOUS
<1> HIDE DEF g, l
<1>12. QcTypes'
  BY <1>1, <1>10, <1>11 DEF QcInv, QcTypes, Standbys, Cluster, SyncCounts
<1>13. q[0].leader = key.leader /\ q[0].quorum = key.quorum /\ q[0].voters = key.voters
       /\ q[0].sync = t.names /\ q[0].numsync = t.num
  BY <1>1, <1>3, <1>4 DEF Applied, CoversView
<1>14. CoversView(q[0])'
  BY <1>1, <1>10, <1>11, <1>13 DEF CoversView
<1>15. Pending(todo)'
  <2>1. \A i \in 1..Len(Tail(todo)) : IsUpdate(Tail(todo)[i])
    BY <1>1, <1>2, TailFacts
  <2>2. Tail(todo) \in Seq(QcUpdates)
    BY <1>1, <1>2, TailFacts
  <2>3. ASSUME ~Strict, NEW i \in 1..Len(Tail(todo)), Refused(Tail(todo)[i])
        PROVE  g.names = {} /\ \A j \in 1..i : Tail(todo)[j].type = "sync" => Tail(todo)[j].num = 0
    <3>1. guc.names = {} /\ (\A j \in 1..i : Tail(todo)[j].type = "sync" => Tail(todo)[j].num = 0) /\ (t.type = "sync" => t.num = 0)
      BY <1>1, <1>2, <2>3, RefusedRest DEF t
    <3> QED BY <1>1, <1>10, <2>3, <3>1
  <2>4. (todo \in Seq(QcUpdates))' /\ (\A i \in 1..Len(todo) : IsUpdate(todo[i]))'
    BY <1>1, <2>1, <2>2 DEF IsUpdate, QcUpdates, Standbys, Cluster
  <2>5. (Strict \/ RefusedFirst(todo))'
    BY <1>1, <1>11, <2>3 DEF RefusedFirst, Refused, Strict
  <2>6. SafePath(q, todo)'
    BY <1>1, <1>4 DEF SafePath, QcViews, SafeView, Standbys, Cluster
  <2> QED BY <1>14, <2>4, <2>5, <2>6 DEF Pending
<1>16. SafeNow'
  <2> DEFINE v == q[0]
  <2>1. v \in QcViews /\ SafeView(v) /\ g.names \in SUBSET v.sync /\ v.numsync <= l
        /\ v.leader = key.leader /\ v.quorum = key.quorum /\ v.voters = key.voters
    BY <1>4, <1>10, <1>13
  <2> HIDE DEF v
  <2>2. v.voters # {} \/ v.leader # primary =>
          Cardinality((v.voters \union {v.leader}) \union (g.names \union {primary})) <= v.quorum + l + 1
    BY <1>10, <2>1, CoverGivesSafe DEF QcInv, QcTypes
  <2> QED BY <1>1, <1>11, <2>1, <2>2 DEF SafeNow, SafeView, ActualView
<1>17. SafeTodo'
  BY <1>1, <1>2, <1>15 DEF SafeTodo
<1> QED BY <1>12, <1>16, <1>17 DEF QcInv

(***************************************************************************)
(* A promotion: as many of the members of the key are asked as the quorum  *)
(* leaves necessary.                                                       *)
(***************************************************************************)
LEMMA QcPromote == ASSUME QcInv, NEW c \in Cluster, Promote(c) PROVE QcInv'
<1> DEFINE M == Members
           m == Cardinality(M)
           x == IF c \in M THEN 1 ELSE 0
           N == M \ {c}
           n == m - key.quorum - x
           g == guc'
<1>1. /\ calm = 0 /\ calm' = calm /\ target' = target
      /\ primary' = c /\ todo' = <<>> /\ setup' = setup /\ key' = key
      /\ guc' = PrePromoteSetting(c)
  BY DEF Promote
<1>2. key.leader \in Cluster \union {NoNode} /\ key.voters \in SUBSET Cluster /\ key.quorum \in Nat /\ setup \in Setups
  BY DEF QcInv, QcTypes
<1>3. M \in SUBSET Cluster
  BY <1>2 DEF Members
<1>4. m \in Nat /\ IsFiniteSet(M) /\ (M = {} => m = 0)
  BY <1>2, <1>3, Counted
<1>5. SafeTodo'
  BY <1>1 DEF SafeTodo
<1>6. CASE M = {}
  <2>1. g.names = {} /\ g.num \in Nat
    <3>1. MinSync \in {0, 1} /\ Higher(MinSync, 0) \in Nat
      BY DEF MinSync, Higher
    <3> QED BY <1>1, <1>6, <3>1 DEF PrePromoteSetting, Setting
  <2>2. key.voters = {}
    BY <1>6 DEF Members, QcInv, QcTypes
  <2> HIDE DEF g
  <2>3. QcTypes'
    BY <1>1, <1>2, <2>1, <2>2 DEF QcInv, QcTypes, Standbys, Cluster, SyncCounts, g
  <2>4. SafeNow'
    <3>1. key.leader = NoNode
      BY <1>6 DEF Members
    <3> QED BY <1>1, <3>1 DEF SafeNow
  <2> QED BY <1>5, <2>3, <2>4 DEF QcInv
<1>7. CASE M # {}
  <2>1. g = Setting(Unset, n, N)
    BY <1>1, <1>7 DEF PrePromoteSetting
  <2>2. N \in SUBSET (Cluster \ {c}) /\ N \in SUBSET Cluster
    BY <1>3
  <2>3. Cardinality(N) \in Nat /\ (N = {} => Cardinality(N) = 0) /\ Cardinality(N) = m - x /\ Cardinality(M \union {c}) = m + 1 - x
    <3>1. Cardinality(N) \in Nat /\ (N = {} => Cardinality(N) = 0)
      BY <1>2, <2>2, Counted
    <3>2. CASE c \in M
      <4>1. Cardinality(N) = m - 1
        <5>1. IsFiniteSet(M) /\ c \in M
          BY <1>4, <3>2
        <5> HIDE DEF M
        <5> QED BY <5>1, FS_RemoveElement
      <4>2. M \union {c} = M
        BY <3>2
      <4>3. x = 1 /\ m + 1 - 1 = m
        BY <1>4, <3>2
      <4> HIDE DEF N, m, x
      <4> QED BY <3>1, <4>1, <4>2, <4>3 DEF m
    <3>3. CASE c \notin M
      <4>1. N = M /\ Cardinality(M \union {c}) = m + 1
        <5>1. IsFiniteSet(M) /\ c \notin M
          BY <1>4, <3>3
        <5>2. N = M
          BY <5>1
        <5> HIDE DEF M, N
        <5>3. Cardinality(M \union {c}) = Cardinality(M) + 1
          BY <5>1, FS_AddElement
        <5> QED BY <5>2, <5>3
      <4>2. x = 0 /\ m - 0 = m /\ m + 1 - 0 = m + 1
        BY <1>4, <3>3
      <4> HIDE DEF N, x
      <4> QED BY <3>1, <4>1, <4>2
    <3> QED BY <3>2, <3>3
  <2>4. x \in {0, 1} /\ n = m - key.quorum - x /\ n \in Int
    BY <1>2, <1>4
  <2> DEFINE y == Cardinality(N)
             z == Cardinality(M \union {c})
             l == Lower(g.num, Cardinality(g.names))
  <2>5. y \in Nat /\ (N = {} => y = 0) /\ y = m - x /\ z = m + 1 - x
    BY <2>3
  <2> HIDE DEF m, n, x, z
  <2>6. /\ g.num \in Nat /\ g.names \in SUBSET N /\ (g.names # {} => g.num >= 1)
        /\ l \in Int /\ z <= key.quorum + l + 1
    <3>1. CASE n <= 0 /\ N # {}
      <4>1. g.num = 0 /\ g.names = {}
        BY <2>1, <3>1 DEF Setting, Unset
      <4>2. l = 0
        BY <4>1, FS_EmptySet DEF Lower
      <4>3. z <= key.quorum + 0 + 1
        BY <1>2, <1>4, <2>4, <2>5, <3>1
      <4> HIDE DEF l, g
      <4> QED BY <4>1, <4>2, <4>3
    <3>2. CASE ~(n <= 0 /\ N # {})
      <4>1. g.num = Higher(n, 0) /\ g.names = N
        BY <2>1, <3>2 DEF Setting
      <4>2. Higher(n, 0) \in Nat /\ (N # {} => Higher(n, 0) >= 1 /\ Higher(n, 0) = n)
        BY <2>4, <3>2 DEF Higher
      <4>3. l = Lower(Higher(n, 0), y)
        BY <4>1
      <4> HIDE DEF l, g, y
      <4> DEFINE h == Higher(n, 0)
      <4>4. h \in Nat /\ (N # {} => h >= 1 /\ h = n)
        BY <4>2
      <4> HIDE DEF h
      <4>5. l = Lower(h, y)
        BY <4>3 DEF h
      <4>6. l \in Int /\ z <= key.quorum + l + 1
        <5>1. CASE N = {}
          <6>1. l = 0 /\ m = x
            BY <1>4, <2>4, <2>5, <4>4, <4>5, <5>1 DEF Lower
          <6>2. z = 1
            BY <2>4, <2>5, <6>1
          <6> QED BY <1>2, <6>1, <6>2
        <5>2. CASE N # {}
          <6>1. n <= y
            BY <1>2, <1>4, <2>4, <2>5
          <6>2. l = n
            BY <2>4, <2>5, <4>4, <4>5, <5>2, <6>1 DEF Lower
          <6>3. z = key.quorum + n + 1
            BY <1>2, <1>4, <2>4, <2>5
          <6> QED BY <1>2, <2>4, <6>2, <6>3
        <5> QED BY <5>1, <5>2
      <4> QED BY <4>1, <4>4, <4>6 DEF h
    <3> QED BY <3>1, <3>2
  <2>7. l = Lower(g.num, Cardinality(g.names)) /\ g = guc'
    OBVIOUS
  <2> HIDE DEF l, g, N
  <2>8. QcTypes'
    <3>1. g.names \in SUBSET (Cluster \ {c})
      BY <2>2, <2>6
    <3> QED BY <1>1, <2>6, <2>7, <3>1 DEF QcInv, QcTypes, Standbys, Cluster, SyncCounts
  <2>9. (key.voters \union {key.leader}) \union (g.names \union {c}) = M \union {c}
    <3>1. key.leader # NoNode => M = {key.leader} \union key.voters
      BY DEF Members
    <3>2. key.leader # NoNode
      BY <1>7 DEF Members
    <3>3. g.names \subseteq M
      BY <2>6 DEF N
    <3> HIDE DEF M
    <3> QED BY <3>1, <3>2, <3>3
  <2>10. SafeNow'
    BY <1>1, <2>6, <2>7, <2>9 DEF SafeNow, SafeView, ActualView, z
  <2> QED BY <1>5, <2>8, <2>10 DEF QcInv
<1> QED BY <1>6, <1>7

LEMMA QcEnable == ASSUME QcInv, EnableSynchronousMode PROVE QcInv'
<1>1. /\ key.leader = NoNode /\ key' = [leader |-> primary, quorum |-> 0, voters |-> {}]
      /\ setup' = setup /\ primary' = primary /\ guc' = guc /\ todo' = todo /\ calm' = calm /\ target' = target
  BY DEF EnableSynchronousMode
<1>2. todo = <<>>
  BY <1>1 DEF QcInv, SafeTodo
<1>3. QcTypes'
  BY <1>1 DEF QcInv, QcTypes, Standbys, Cluster, SyncCounts
<1>4. SafeNow' /\ SafeTodo'
  BY <1>1, <1>2 DEF SafeNow, SafeView, ActualView, SafeTodo
<1> QED BY <1>3, <1>4 DEF QcInv

LEMMA QcCalm == ASSUME QcInv, CalmDown PROVE QcInv'
<1>1. /\ calm' = 1 /\ target' \in [active : SUBSET (Cluster \ {primary}), wanted : SyncCounts]
      /\ setup' = setup /\ primary' = primary /\ key' = key /\ guc' = guc /\ todo' = todo
  BY DEF CalmDown
<1>2. target'.active \in SUBSET (Cluster \ {primary}) /\ target'.wanted \in SyncCounts
  BY <1>1
<1>3. QcTypes'
  BY <1>1, <1>2 DEF QcInv, QcTypes, Standbys, Cluster, SyncCounts
<1>4. SafeNow'
  BY <1>1, SameSafe DEF QcInv
<1>5. SafeTodo'
  <2>1. CASE todo = <<>>
    BY <1>1, <2>1 DEF SafeTodo
  <2>2. CASE todo # <<>>
    <3>1. Pending(todo) /\ key.leader # NoNode
      BY <2>2 DEF QcInv, SafeTodo
    <3>2. Pending(todo)'
      BY <1>1, <3>1, SamePending
    <3> QED BY <1>1, <3>1, <3>2 DEF SafeTodo
  <2> QED BY <2>1, <2>2
<1> QED BY <1>3, <1>4, <1>5 DEF QcInv

LEMMA QcStep == QcInv /\ [Next]_vars => QcInv'
<1> SUFFICES ASSUME QcInv, [Next]_vars PROVE QcInv'
  OBVIOUS
<1>1. CASE Restart
  BY <1>1, SameInv DEF Restart
<1>2. CASE Interrupt
  BY <1>2, SameInv DEF Interrupt
<1>3. CASE Write
  BY <1>3, SameInv DEF Write
<1>4. CASE Acknowledge
  BY <1>4, SameInv DEF Acknowledge
<1>5. ASSUME NEW n \in Cluster, RestartPatroni(n) PROVE QcInv'
  BY <1>5, SameInv DEF RestartPatroni
<1>6. ASSUME NEW n \in Cluster, Replicate(n) PROVE QcInv'
  BY <1>6, SameInv DEF Replicate
<1>7. CASE UNCHANGED vars
  BY <1>7, SameInv DEF vars
<1> QED BY <1>1, <1>2, <1>3, <1>4, <1>5, <1>6, <1>7, QcEnable, QcStartRun, QcUpdateKey, QcUpdateSettings, QcCalm,
           QcPromote DEF Next, Run

\* In a safe view those who may elect and those who may acknowledge have a node in common.
LEMMA SafeOverlaps == QcInv => QuorumsOverlap
<1> SUFFICES ASSUME QcInv, NEW E \in Electorates, NEW A \in AckSets
             PROVE  (A \union {primary}) \intersect E # {}
  BY DEF QuorumsOverlap
<1>a. E \in SUBSET Members /\ E # {}
  <2>1. Cardinality(E) = key.quorum + 1 /\ key.quorum \in Nat
    BY DEF Electorates, QcInv, QcTypes
  <2>2. Cardinality(E) # 0
    BY <2>1
  <2> QED BY <2>2, FS_EmptySet DEF Electorates
<1>b. CASE key.voters = {} /\ key.leader = primary
  BY <1>a, <1>b DEF Members
<1>c. key.leader # NoNode
  BY <1>a DEF Members
<1> SUFFICES ASSUME key.voters # {} \/ key.leader # primary
             PROVE  (A \union {primary}) \intersect E # {}
  BY <1>b
<1> DEFINE U == (key.voters \union {key.leader}) \union (guc.names \union {primary})
           B == A \union {primary}
           l == Lower(guc.num, Cardinality(guc.names))
<1>1. key.leader \in Cluster /\ key.voters \in SUBSET Cluster /\ guc.names \in SUBSET Cluster /\ primary \in Cluster
      /\ key.quorum \in Nat /\ guc.num \in Nat /\ primary \notin guc.names /\ setup \in Setups
  BY <1>c, SubsetOfCluster DEF QcInv, QcTypes
<1>2. E \in SUBSET U /\ Cardinality(E) = key.quorum + 1
  BY <1>1, ClusterFacts DEF Electorates, Members
<1>3. A \in SUBSET guc.names /\ Cardinality(A) = guc.num /\ primary \notin A
  BY DEF AckSets
<1>4. B \in SUBSET U
  BY <1>3
<1>5. U \in SUBSET Cluster
  BY <1>1
<1> HIDE DEF U, B
<1>6. IsFiniteSet(U) /\ Cardinality(U) \in Nat
  BY <1>1, <1>5, Counted
<1>7. IsFiniteSet(A) /\ Cardinality(A) <= Cardinality(guc.names) /\ Cardinality(guc.names) \in Nat
  <2>1. IsFiniteSet(guc.names) /\ Cardinality(guc.names) \in Nat
    BY <1>1, Counted
  <2> QED BY <1>3, <2>1, FS_Subset
<1>8. Cardinality(B) = guc.num + 1
  BY <1>3, <1>7, FS_AddElement DEF B
<1>9. l = guc.num
  <2> DEFINE c == Cardinality(guc.names)
  <2>1. c \in Nat /\ guc.num <= c
    BY <1>3, <1>7
  <2>2. l = Lower(guc.num, c)
    OBVIOUS
  <2> HIDE DEF c, l
  <2> QED BY <1>1, <2>1, <2>2 DEF Lower
<1>10. Cardinality(U) <= key.quorum + guc.num + 1
  BY <1>1, <1>9, ClusterFacts DEF QcInv, SafeNow, SafeView, ActualView, U
<1>11. Cardinality(U) < Cardinality(E) + Cardinality(B)
  BY <1>1, <1>2, <1>6, <1>8, <1>10
<1>12. E \intersect B # {}
  BY <1>2, <1>4, <1>6, <1>11, Pigeonhole
<1> QED BY <1>12 DEF B

(***************************************************************************)
(* Quorum commit, for any number of nodes, any sequence of interrupted     *)
(* runs of the resolver, changes of the standbys and of                    *)
(* synchronous_node_count, restarts and promotions: at every moment each   *)
(* group that may acknowledge a commit has a node in common with each      *)
(* group that may elect a leader.                                          *)
(***************************************************************************)
THEOREM QuorumsOverlapCorrect == Spec => []QuorumsOverlap
<1>1. Init => QcInv
  BY QcStart
<1>2. QcInv /\ [Next]_vars => QcInv'
  BY QcStep
<1>3. QcInv => QuorumsOverlap
  BY SafeOverlaps
<1> QED BY <1>1, <1>2, <1>3, PTL DEF Spec

-----------------------------------------------------------------------------
(***************************************************************************)
(* Commits.  WAL positions are numbers, and '*' is written only instead of *)
(* names.                                                                  *)
(***************************************************************************)
QcData == wal \in [Cluster -> Nat] /\ (guc.star => guc.names = {})

LEMMA SettingStar ==
  ASSUME NEW old, old.star => old.names = {}, NEW num, NEW names
  PROVE  Setting(old, num, names).star => Setting(old, num, names).names = {}
<1>1. CASE num <= 0 /\ names # {}
  BY <1>1 DEF Setting
<1>2. CASE ~(num <= 0 /\ names # {})
  <2> DEFINE h == Higher(num, 0)
             b == num >= 1 /\ names = {}
  <2>1. Setting(old, num, names) = [num |-> h, names |-> names, star |-> b]
    BY <1>2 DEF Setting
  <2>2. b => names = {}
    OBVIOUS
  <2> HIDE DEF h, b
  <2> QED BY <2>1, <2>2
<1> QED BY <1>1, <1>2

LEMMA QcDataStart == Init => QcData
  BY DEF Init, QcData, Star, Unset

LEMMA QcDataStep == QcInv /\ QcData /\ [Next]_vars => QcData'
<1> SUFFICES ASSUME QcInv, QcData, [Next]_vars PROVE QcData'
  OBVIOUS
<1>0. Unset.star => Unset.names = {}
  BY DEF Unset
<1>1. CASE Write
  <2>1. primary \in Cluster
    BY DEF QcInv, QcTypes
  <2>2. wal[primary] + 1 \in Nat
    BY <2>1 DEF QcData
  <2> QED BY <1>1, <2>1, <2>2 DEF Write, QcData, Cluster
<1>2. ASSUME NEW n \in Cluster, Replicate(n) PROVE QcData'
  BY <1>2 DEF Replicate, QcData, Cluster
<1>3. CASE UpdateSettings
  <2> DEFINE k == Higher(Head(todo).num, MinSync)
             N == Head(todo).names
  <2>1. guc' = Setting(guc, k, N) /\ wal' = wal /\ setup' = setup
    BY <1>3 DEF UpdateSettings, data
  <2> HIDE DEF k, N
  <2>2. guc'.star => guc'.names = {}
    BY <2>1, SettingStar DEF QcData
  <2> QED BY <2>1, <2>2 DEF QcData, Cluster
<1>4. ASSUME NEW c \in Cluster, Promote(c) PROVE QcData'
  <2>1. guc' = PrePromoteSetting(c) /\ setup' = setup /\ wal' = [n \in Cluster |-> Lower(wal[n], wal[c])]
    BY <1>4 DEF Promote
  <2>2. wal' \in [Cluster -> Nat]
    BY <2>1 DEF QcData, Lower
  <2> DEFINE k == Cardinality(Members) - key.quorum - (IF c \in Members THEN 1 ELSE 0)
             N == Members \ {c}
  <2>3. guc' = Setting(Unset, MinSync, {}) \/ guc' = Setting(Unset, k, N)
    BY <2>1 DEF PrePromoteSetting
  <2> HIDE DEF k, N
  <2>4. guc'.star => guc'.names = {}
    BY <1>0, <2>3, SettingStar
  <2> QED BY <2>1, <2>2, <2>4 DEF QcData, Cluster
<1>5. ASSUME wal' = wal, guc' = guc, setup' = setup PROVE QcData'
  BY <1>5 DEF QcData, Cluster
<1>6. CASE EnableSynchronousMode \/ UpdateKey \/ Restart \/ Interrupt \/ Acknowledge \/ CalmDown
  BY <1>5, <1>6 DEF EnableSynchronousMode, UpdateKey, Restart, Interrupt, Acknowledge, CalmDown, data
<1>7. CASE StartRun
  <2>1. ASSUME NEW active, NEW reported, NEW wanted, StartRunWith(active, reported, wanted)
        PROVE  wal' = wal /\ guc' = guc /\ setup' = setup
    BY <2>1 DEF StartRunWith, Started, data
  <2> QED BY <1>5, <1>7, <2>1 DEF StartRun
<1>8. ASSUME NEW n \in Cluster, RestartPatroni(n) PROVE QcData'
  BY <1>5, <1>8 DEF RestartPatroni, data
<1>9. CASE UNCHANGED vars
  BY <1>5, <1>9 DEF vars
<1> QED BY <1>1, <1>2, <1>3, <1>4, <1>6, <1>7, <1>8, <1>9 DEF Next, Run

\* A winner has the votes of more than quorum members, itself included, that are not ahead of it.
LEMMA WinnersCount ==
  ASSUME QcInv, QcData, key.leader # NoNode, NEW c \in Cluster, c # key.leader, CanWin(c)
  PROVE  \E L \in SUBSET Members : Cardinality(L) >= key.quorum + 1 /\ \A m \in L : wal[m] <= wal[c]
<1>1. key.leader \in Cluster /\ key.voters \in SUBSET Cluster /\ key.quorum \in Nat /\ setup \in Setups
  BY DEF QcInv, QcTypes
<1>2. Members \in SUBSET Cluster /\ Members # {}
  BY <1>1 DEF Members
<1>3. PICK reachable \in SUBSET (Cluster \ {c}) : IsHealthiest(c, reachable)
  BY DEF CanWin
<1> DEFINE A == {m \in Asked(c, reachable) \intersect Members : wal[m] <= wal[c]}
<1>4. Votes(c, reachable) >= key.quorum
  BY <1>2, <1>3 DEF IsHealthiest
<1>5. A \in SUBSET Members /\ A \in SUBSET Cluster /\ c \notin A /\ \A m \in A : wal[m] <= wal[c]
  BY <1>2 DEF Asked
<1>6. Votes(c, reachable) = Cardinality(A) - (IF c \in Members THEN 0 ELSE 1)
  BY DEF Votes
<1> HIDE DEF A
<1>7. IsFiniteSet(A) /\ Cardinality(A) \in Nat
  BY <1>1, <1>5, Counted
<1>8. CASE c \in Members
  <2>1. Cardinality(A \union {c}) = Cardinality(A) + 1
    BY <1>5, <1>7, FS_AddElement
  <2>2. Cardinality(A) >= key.quorum
    BY <1>4, <1>6, <1>7, <1>8
  <2>3. wal[c] <= wal[c]
    BY DEF QcData
  <2>4. A \union {c} \in SUBSET Members /\ \A m \in A \union {c} : wal[m] <= wal[c]
    BY <1>5, <1>8, <2>3
  <2>5. Cardinality(A \union {c}) >= key.quorum + 1
    BY <1>1, <1>7, <2>1, <2>2
  <2> QED BY <2>4, <2>5
<1>9. CASE c \notin Members
  <2>1. Cardinality(A) >= key.quorum + 1
    BY <1>1, <1>4, <1>6, <1>7, <1>9
  <2> QED BY <1>5, <2>1
<1> QED BY <1>8, <1>9

\* The primary and the standbys that satisfy synchronous_standby_names leave too few others to elect anybody.
LEMMA SafeSurvives == QcInv /\ QcData => CommitSurvives
<1> SUFFICES ASSUME QcInv, QcData, key.leader # NoNode, NEW p \in 1..wal[primary], Cardinality(Holders(p)) >= guc.num,
                    NEW c \in Cluster \ {key.leader}, CanWin(c)
             PROVE  wal[c] >= p
  BY DEF CommitSurvives
<1>1. key.leader \in Cluster /\ key.voters \in SUBSET Cluster /\ guc.names \in SUBSET Cluster /\ primary \in Cluster
      /\ key.quorum \in Nat /\ guc.num \in Nat /\ primary \notin guc.names /\ setup \in Setups
  BY SubsetOfCluster DEF QcInv, QcTypes
<1>2. \A n \in Cluster : wal[n] \in Nat
  BY DEF QcData
<1>3. p \in Nat /\ p <= wal[primary]
  BY <1>1, <1>2
<1> SUFFICES ASSUME wal[c] < p PROVE FALSE
  BY <1>2, <1>3
<1>4. PICK L \in SUBSET Members : Cardinality(L) >= key.quorum + 1 /\ \A m \in L : wal[m] <= wal[c]
  BY WinnersCount
<1>5. Members = {key.leader} \union key.voters
  BY DEF Members
<1>6. L \in SUBSET Cluster /\ \A m \in L : wal[m] < p
  BY <1>1, <1>2, <1>3, <1>4, <1>5
<1>7. IsFiniteSet(L) /\ Cardinality(L) \in Nat /\ (L = {} => Cardinality(L) = 0)
  BY <1>1, <1>6, Counted
<1>8. primary \notin L
  BY <1>1, <1>2, <1>3, <1>6
<1>9. CASE key.voters = {} /\ key.leader = primary
  <2>1. L = {}
    BY <1>4, <1>5, <1>8, <1>9
  <2> QED BY <1>1, <1>4, <1>7, <2>1
<1>10. CASE key.voters # {} \/ key.leader # primary
  <2> DEFINE U == (key.voters \union {key.leader}) \union (guc.names \union {primary})
             H == Holders(p) \intersect guc.names
             K == H \union {primary}
             n == Cardinality(guc.names)
             l == Lower(guc.num, n)
  <2>1. U \in SUBSET Cluster /\ L \in SUBSET U /\ K \in SUBSET U /\ H \in SUBSET Cluster /\ primary \notin H
    BY <1>1, <1>4, <1>5
  <2>2. \A m \in H : m \in Cluster /\ wal[m] >= p
    BY DEF Holders
  <2>3. L \intersect K = {}
    <3>1. L \intersect H = {}
      BY <1>2, <1>3, <1>6, <2>2
    <3> QED BY <1>8, <3>1
  <2>4. n \in Nat /\ (guc.names = {} => n = 0)
    BY <1>1, Counted
  <2>5. IsFiniteSet(H) /\ Cardinality(H) \in Nat
    BY <1>1, <2>1, Counted
  <2>6. Cardinality(U) <= key.quorum + l + 1
    BY <1>10 DEF QcInv, SafeNow, SafeView, ActualView
  <2>7. Cardinality(H) >= guc.num \/ n = 0
    <3>1. CASE guc.star
      BY <2>4, <3>1 DEF QcData
    <3>2. CASE ~guc.star
      <4>1. Holders(p) = H
        BY <3>2 DEF Holders
      <4> HIDE DEF H
      <4> QED BY <4>1
    <3> QED BY <3>1, <3>2
  <2> HIDE DEF H, n, U
  <2>8. l \in Nat /\ l <= Cardinality(H)
    BY <1>1, <2>4, <2>5, <2>7 DEF Lower
  <2>9. Cardinality(K) = Cardinality(H) + 1
    BY <2>1, <2>5, FS_AddElement
  <2>10. IsFiniteSet(U) /\ Cardinality(U) \in Nat
    BY <1>1, <2>1, Counted
  <2> HIDE DEF K, l
  <2>11. Cardinality(U) < Cardinality(L) + Cardinality(K)
    BY <1>1, <1>4, <1>7, <2>5, <2>6, <2>8, <2>9, <2>10
  <2>12. L \intersect K # {}
    BY <2>1, <2>10, <2>11, Pigeonhole
  <2> QED BY <2>3, <2>12
<1> QED BY <1>9, <1>10

(***************************************************************************)
(* What PostgreSQL acknowledges, every possible winner of the next leader  *)
(* race has, for any number of nodes and any sequence of runs,             *)
(* interruptions, restarts and promotions; only the former leader the key  *)
(* still names is not asked for votes.                                     *)
(***************************************************************************)
THEOREM CommitSurvivesCorrect == Spec => []CommitSurvives
<1>1. Init => QcInv /\ QcData
  BY QcStart, QcDataStart
<1>2. QcInv /\ QcData /\ [Next]_vars => QcInv' /\ QcData'
  BY QcStep, QcDataStep
<1>3. QcInv /\ QcData => CommitSurvives
  BY SafeSurvives
<1> QED BY <1>1, <1>2, <1>3, PTL DEF Spec
====
