-------------------------- MODULE ReplicationProofs --------------------------
(***************************************************************************)
(* How nodes come to replicate, and what a failover may rely on.           *)
(*                                                                         *)
(* The promise of synchronous mode, for every number of nodes, standbys    *)
(* asked for, transactions and failovers: whoever the /sync key allows to  *)
(* be promoted holds all acknowledged transactions.                        *)
(*                                                                         *)
(* Logical slots: one that is declared ready can be used after a failover, *)
(* for every length of the WAL.                                            *)
(*                                                                         *)
(* The slot of a member: no node drops it before its time or moves it past *)
(* the member, through any number of failovers.                            *)
(*                                                                         *)
(* Bootstrap: one system, for every number of nodes that race.             *)
(***************************************************************************)
EXTENDS MultiSync, LogicalSlots, MemberSlots, Bootstrap, TLAPS

-----------------------------------------------------------------------------
(***************************************************************************)
(* Synchronous mode.                                                       *)
(***************************************************************************)
BeforeAssign == {"picked", "owned", "corrected", "withdrawn"}
AfterPick == BeforeAssign \union {"assigned", "publish"}
Working == AfterPick \union {"loaded"}

HaveAcked(S) == \A m \in S : wal[m] >= acked

(***************************************************************************)
(* Who may write the key.  It belongs to the primary from the first write  *)
(* on; of the nodes in the middle of the procedure the primary knows the   *)
(* version and the suspended former ones do not; whoever knows it has read *)
(* the key as it is.                                                       *)
(***************************************************************************)
KeyOfPrimary ==
    /\ key.leader \in {NoNode, primary}
    /\ key.leader = NoNode => key.voters = {}

FreshIsPrimary == \A n \in Nodes : proc[n].pc \in Working => (fresh[n] <=> n = primary)

FreshKnowsKey == \A n \in Nodes : fresh[n] /\ proc[n].pc # "idle" => proc[n].sync = key

CandidateInTime == \A n \in Nodes : fresh[n] /\ proc[n].pc = "candidate" => failovers < MaxFailovers

CandidateWasNamed == \A n \in Nodes : proc[n].pc = "candidate" => n \in Candidates(proc[n].sync)

Authority == KeyOfPrimary /\ FreshIsPrimary /\ FreshKnowsKey /\ CandidateInTime /\ CandidateWasNamed

(***************************************************************************)
(* What is listed.  Voters are on the primary's list, and so are the       *)
(* standbys that the primary has loaded or is about to publish; the key is *)
(* narrowed to what the primary keeps before the list changes.             *)
(***************************************************************************)
VotersListed == key.voters \subseteq guc.names

LoadedListed ==
    proc[primary].pc \in BeforeAssign \union {"loaded"} => proc[primary].loaded \subseteq guc.names

AllowListed == proc[primary].pc \in AfterPick => proc[primary].allow \subseteq guc.names

PickHandled ==
    proc[primary].pc \in BeforeAssign =>
        proc[primary].allow \subseteq proc[primary].picked /\ seen[primary] = guc

KeyNarrowed == proc[primary].pc = "withdrawn" => key.voters \subseteq proc[primary].allow

ReadyWasSeen == \A n \in Nodes : ready[n] \subseteq seen[n].names

(***************************************************************************)
(* Who holds what was acknowledged.  A listed standby that is ready, was   *)
(* loaded from the key or reached the position of the change of the list   *)
(* does: the commits acknowledged since then have waited for it.           *)
(***************************************************************************)
KeyHolds == HaveAcked(key.voters) /\ wal[primary] >= acked

AllowHolds == proc[primary].pc \in AfterPick => HaveAcked(proc[primary].allow)

LoadedHolds == proc[primary].pc \in Working => HaveAcked(proc[primary].loaded \intersect guc.names)

ReadyHolds == HaveAcked(ready[primary] \intersect guc.names)

FlushCovers == seen[primary] = guc => acked <= flush[primary] \/ HaveAcked(guc.names)

Covered ==
    /\ VotersListed /\ LoadedListed /\ AllowListed /\ PickHandled /\ KeyNarrowed /\ ReadyWasSeen
    /\ KeyHolds /\ AllowHolds /\ LoadedHolds /\ ReadyHolds /\ FlushCovers

\* The inductive invariant.
Inv == TypeOK /\ Authority /\ Covered

-----------------------------------------------------------------------------
Pcs == Working \union {"idle", "candidate"}
Locals == [pc : Pcs, sync : Keys, loaded : SUBSET Nodes, picked : SUBSET Nodes, allow : SUBSET Nodes]

\* What a node holds in local variables after a conditional write of the key.
LEMMA WriteType ==
    ASSUME TypeOK, NEW n \in Nodes, NEW leader \in Nodes, NEW voters \in SUBSET Nodes, NEW next \in Locals,
           WriteSyncState(n, leader, voters, next)
    PROVE  key' \in Keys /\ fresh' \in [Nodes -> BOOLEAN] /\ proc' \in [Nodes -> Locals]
<1>1. proc \in [Nodes -> Locals]
  BY DEF TypeOK, Locals, Pcs, Working, AfterPick, BeforeAssign
<1>2. Idle \in Locals
  BY DEF Idle, Locals, Pcs, Keys
<1>3. CASE fresh[n]
  <2>1. key' \in Keys
    BY <1>3 DEF WriteSyncState, Keys
  <2>2. [next EXCEPT !.sync = key'] \in Locals
    BY <2>1 DEF Locals
  <2>3. QED
    BY <1>1, <1>3, <2>1, <2>2 DEF WriteSyncState
<1>4. CASE ~fresh[n]
  BY <1>1, <1>2, <1>4 DEF WriteSyncState, TypeOK
<1>5. QED
  BY <1>3, <1>4
\* The local variables after Pick and after Recheck.
LEMMA PickedType ==
    ASSUME NEW p \in Locals, NEW active \in SUBSET Nodes, NEW allow \in SUBSET Nodes
    PROVE  /\ [p EXCEPT !.pc = "picked", !.picked = active, !.allow = allow] \in Locals
           /\ [p EXCEPT !.pc = "publish", !.allow = allow] \in Locals
BY DEF Locals, Pcs, Working, AfterPick, BeforeAssign

\* Pick and Recheck: current_state is evaluated and handled.
LEMMA HandleType ==
    ASSUME TypeOK, NEW n \in Nodes, NEW active \in Picks, NEW shown \in SUBSET (active \intersect guc.names),
           HandleCurrentState(n, active, shown)
    PROVE  /\ seen' \in [Nodes -> Lists] /\ flush' \in [Nodes -> 0..MaxWal] /\ ready' \in [Nodes -> SUBSET Nodes]
           /\ Confirmed(n, active, shown) \in SUBSET Nodes /\ active \in SUBSET Nodes
<1>1. active \in SUBSET Nodes
  BY DEF Picks
<1>2. StillListed(n) \in SUBSET Nodes /\ NewlyReady(n, active, shown) \in SUBSET Nodes
  BY <1>1 DEF TypeOK, StillListed, NewlyReady, Lists
<1>3. FlushLsn(n) \in 0..MaxWal
  BY DEF TypeOK, FlushLsn
<1>4. QED
  BY <1>1, <1>2, <1>3 DEF TypeOK, HandleCurrentState, Confirmed

\* Every step keeps the types.
LEMMA TypeStep == TypeOK /\ CandidateInTime /\ [Next]_vars => TypeOK'
<1> SUFFICES ASSUME TypeOK, CandidateInTime, [Next]_vars PROVE TypeOK'
  OBVIOUS
<1> USE MultiSyncAssumption
<1>1. proc \in [Nodes -> Locals] /\ (proc' \in [Nodes -> Locals] => proc' \in [Nodes -> [pc : {"idle", "loaded", "picked", "owned", "corrected", "withdrawn", "assigned",
                                 "publish", "candidate"},
                           sync : Keys, loaded : SUBSET Nodes, picked : SUBSET Nodes, allow : SUBSET Nodes]])
  BY DEF TypeOK, Locals, Pcs, Working, AfterPick, BeforeAssign
<1>2. Idle \in Locals /\ Star \in Lists /\ NoNames \in Lists
  BY DEF Idle, Locals, Pcs, Keys, Star, NoNames, Lists
<1>3. CASE Write
  BY <1>1, <1>3 DEF TypeOK, Write, handler
<1>4. CASE Acknowledge
  BY <1>1, <1>4 DEF TypeOK, Acknowledge, handler
<1>5. ASSUME NEW n \in Nodes, Load(n) PROVE TypeOK'
  <2>1. [Idle EXCEPT !.pc = "loaded", !.sync = key, !.loaded = key.voters] \in Locals
    BY <1>2 DEF TypeOK, Keys, Locals, Pcs, Working
  <2>2. proc' \in [Nodes -> Locals] /\ fresh' \in [Nodes -> BOOLEAN]
    BY <1>1, <1>5, <2>1 DEF TypeOK, Load
  <2>3. QED
    BY <1>1, <1>5, <2>2 DEF TypeOK, Load, handler, data
<1>6. ASSUME NEW n \in Nodes, Enable(n) PROVE TypeOK'
  <2>1. WriteSyncState(n, n, {}, proc[n])
    BY <1>6 DEF Enable
  <2>2. key' \in Keys /\ fresh' \in [Nodes -> BOOLEAN] /\ proc' \in [Nodes -> Locals]
    BY <1>1, <2>1, WriteType
  <2>3. QED
    BY <1>1, <1>6, <2>2 DEF TypeOK, Enable, handler, data
<1>7. ASSUME NEW n \in Nodes, Pick(n) PROVE TypeOK'
  <2>1. PICK active \in Picks : \E shown \in SUBSET (active \intersect guc.names) :
          /\ HandleCurrentState(n, active, shown)
          /\ Continue(n, [proc[n] EXCEPT !.pc = "picked", !.picked = active, !.allow = Confirmed(n, active, shown)])
    BY <1>7 DEF Pick
  <2>2. PICK shown \in SUBSET (active \intersect guc.names) :
          /\ HandleCurrentState(n, active, shown)
          /\ Continue(n, [proc[n] EXCEPT !.pc = "picked", !.picked = active, !.allow = Confirmed(n, active, shown)])
    BY <2>1
  <2>3. /\ seen' \in [Nodes -> Lists] /\ flush' \in [Nodes -> 0..MaxWal] /\ ready' \in [Nodes -> SUBSET Nodes]
        /\ Confirmed(n, active, shown) \in SUBSET Nodes /\ active \in SUBSET Nodes
    BY <2>2, HandleType
  <2>4. [proc[n] EXCEPT !.pc = "picked", !.picked = active, !.allow = Confirmed(n, active, shown)] \in Locals
    BY <1>1, <2>3, PickedType
  <2>5. proc' \in [Nodes -> Locals]
    BY <1>1, <2>2, <2>4 DEF Continue
  <2>6. QED
    BY <1>1, <1>7, <2>2, <2>3, <2>5 DEF TypeOK, Pick, Continue, data
<1>8. ASSUME NEW n \in Nodes, TakeOver(n) PROVE TypeOK'
  <2> DEFINE next == [proc[n] EXCEPT !.pc = "owned"]
  <2>1. next \in Locals
    BY <1>1 DEF Locals, Pcs, Working, AfterPick, BeforeAssign
  <2>2. WriteSyncState(n, n, {}, next) \/ Continue(n, next)
    BY <1>8 DEF TakeOver
  <2> HIDE DEF next
  <2>3. key' \in Keys /\ fresh' \in [Nodes -> BOOLEAN] /\ proc' \in [Nodes -> Locals]
    <3>1. CASE WriteSyncState(n, n, {}, next)
      BY <2>1, <3>1, WriteType
    <3>2. CASE Continue(n, next)
      BY <1>1, <2>1, <3>2 DEF Continue, TypeOK
    <3>3. QED
      BY <2>2, <3>1, <3>2
  <2>4. QED
    BY <1>1, <1>8, <2>3 DEF TypeOK, TakeOver, handler, data
<1>9. ASSUME NEW n \in Nodes, Correct(n) PROVE TypeOK'
  <2> DEFINE next == [proc[n] EXCEPT !.pc = "corrected"]
  <2>1. next \in Locals /\ proc[n].allow \in SUBSET Nodes
    BY <1>1 DEF Locals, Pcs, Working, AfterPick, BeforeAssign
  <2>2. WriteSyncState(n, n, proc[n].allow, next) \/ Continue(n, next)
    BY <1>9 DEF Correct
  <2> HIDE DEF next
  <2>3. key' \in Keys /\ fresh' \in [Nodes -> BOOLEAN] /\ proc' \in [Nodes -> Locals]
    <3>1. CASE WriteSyncState(n, n, proc[n].allow, next)
      BY <2>1, <3>1, WriteType
    <3>2. CASE Continue(n, next)
      BY <1>1, <2>1, <3>2 DEF Continue, TypeOK
    <3>3. QED
      BY <2>2, <3>1, <3>2
  <2>4. QED
    BY <1>1, <1>9, <2>3 DEF TypeOK, Correct, handler, data
<1>10. ASSUME NEW n \in Nodes, Withdraw(n) PROVE TypeOK'
  <2> DEFINE next == [proc[n] EXCEPT !.pc = "withdrawn"]
             common == proc[n].sync.voters \intersect proc[n].allow
  <2>1. next \in Locals /\ common \in SUBSET Nodes
    BY <1>1 DEF Locals, Pcs, Working, AfterPick, BeforeAssign
  <2>2. WriteSyncState(n, n, common, next) \/ Continue(n, next) \/ Continue(n, Idle)
    BY <1>10 DEF Withdraw
  <2> HIDE DEF next, common
  <2>3. key' \in Keys /\ fresh' \in [Nodes -> BOOLEAN] /\ proc' \in [Nodes -> Locals]
    <3>1. CASE WriteSyncState(n, n, common, next)
      BY <2>1, <3>1, WriteType
    <3>2. CASE Continue(n, next)
      BY <1>1, <2>1, <3>2 DEF Continue, TypeOK
    <3>3. CASE Continue(n, Idle)
      BY <1>1, <1>2, <3>3 DEF Continue, TypeOK
    <3>4. QED
      BY <2>2, <3>1, <3>2, <3>3
  <2>4. QED
    BY <1>1, <1>10, <2>3 DEF TypeOK, Withdraw, handler, data
<1>11. ASSUME NEW n \in Nodes, Assign(n) PROVE TypeOK'
  <2> DEFINE p == proc[n]
             new == IF p.picked = {} THEN (IF Strict THEN Star ELSE NoNames) ELSE [names |-> p.picked, star |-> FALSE]
             next == [p EXCEPT !.pc = IF p.picked # {} /\ p.allow # p.picked THEN "assigned" ELSE "publish"]
  <2>1. next \in Locals
    BY <1>1 DEF Locals, Pcs, Working, AfterPick, BeforeAssign
  <2>2. new \in Lists
    BY <1>1, <1>2 DEF Locals, Lists
  <2>3. /\ guc' = IF n = primary THEN new ELSE guc
        /\ Continue(n, next)
        /\ IF n = primary /\ new # guc /\ ~new.star
           THEN /\ seen' = [seen EXCEPT ![n] = new]
                /\ flush' = [flush EXCEPT ![n] = IF new = seen[n] THEN @ ELSE wal[n]]
                /\ ready' = [ready EXCEPT ![n] = IF new = seen[n] THEN @ ELSE @ \intersect new.names]
           ELSE UNCHANGED handler
    BY <1>11 DEF Assign
  <2> HIDE DEF p, new, next
  <2>4. guc' \in Lists
    BY <2>2, <2>3 DEF TypeOK
  <2>5. proc' \in [Nodes -> Locals]
    BY <1>1, <2>1, <2>3 DEF Continue
  <2>6. seen' \in [Nodes -> Lists]
    BY <2>2, <2>3 DEF TypeOK, handler
  <2>7. flush' \in [Nodes -> 0..MaxWal]
    BY <2>3 DEF TypeOK, handler
  <2>8. ready' \in [Nodes -> SUBSET Nodes]
    BY <2>3 DEF TypeOK, handler
  <2>9. UNCHANGED <<primary, key, fresh, wal, acked, failovers>>
    BY <1>11, <2>3 DEF Assign, Continue, data
  <2>10. QED
    BY <1>1, <2>4, <2>5, <2>6, <2>7, <2>8, <2>9 DEF TypeOK
<1>12. ASSUME NEW n \in Nodes, Recheck(n) PROVE TypeOK'
  <2>1. PICK active \in Picks : \E shown \in SUBSET (active \intersect guc.names) :
          /\ HandleCurrentState(n, active, shown)
          /\ Continue(n, [proc[n] EXCEPT !.pc = "publish", !.allow = Confirmed(n, active, shown)])
    BY <1>12 DEF Recheck
  <2>2. PICK shown \in SUBSET (active \intersect guc.names) :
          /\ HandleCurrentState(n, active, shown)
          /\ Continue(n, [proc[n] EXCEPT !.pc = "publish", !.allow = Confirmed(n, active, shown)])
    BY <2>1
  <2>3. /\ seen' \in [Nodes -> Lists] /\ flush' \in [Nodes -> 0..MaxWal] /\ ready' \in [Nodes -> SUBSET Nodes]
        /\ Confirmed(n, active, shown) \in SUBSET Nodes
    BY <2>2, HandleType
  <2>4. [proc[n] EXCEPT !.pc = "publish", !.allow = Confirmed(n, active, shown)] \in Locals
    BY <1>1, <2>3, PickedType
  <2>5. proc' \in [Nodes -> Locals]
    BY <1>1, <2>2, <2>4 DEF Continue
  <2>6. QED
    BY <1>1, <1>12, <2>2, <2>3, <2>5 DEF TypeOK, Recheck, Continue, data
<1>13. ASSUME NEW n \in Nodes, Publish(n) PROVE TypeOK'
  <2>1. proc[n].allow \in SUBSET Nodes
    BY <1>1 DEF Locals
  <2>2. WriteSyncState(n, n, proc[n].allow, Idle) \/ Continue(n, Idle)
    BY <1>13 DEF Publish
  <2>3. key' \in Keys /\ fresh' \in [Nodes -> BOOLEAN] /\ proc' \in [Nodes -> Locals]
    <3>1. CASE WriteSyncState(n, n, proc[n].allow, Idle)
      BY <1>2, <2>1, <3>1, WriteType
    <3>2. CASE Continue(n, Idle)
      BY <1>1, <1>2, <3>2 DEF Continue, TypeOK
    <3>3. QED
      BY <2>2, <3>1, <3>2
  <2>4. QED
    BY <1>1, <1>13, <2>3 DEF TypeOK, Publish, handler, data
<1>14. ASSUME NEW n \in Nodes, Restart(n) PROVE TypeOK'
  BY <1>1, <1>2, <1>14 DEF TypeOK, Restart, data
<1>15. ASSUME NEW n \in Nodes, Campaign(n) PROVE TypeOK'
  <2>1. [Idle EXCEPT !.pc = "candidate", !.sync = key] \in Locals
    BY <1>2 DEF TypeOK, Locals, Pcs
  <2>2. proc' \in [Nodes -> Locals] /\ fresh' \in [Nodes -> BOOLEAN]
    BY <1>1, <1>15, <2>1 DEF TypeOK, Campaign
  <2>3. QED
    BY <1>1, <1>15, <2>2 DEF TypeOK, Campaign, handler, data
<1>16. ASSUME NEW n \in Nodes, Promote(n) PROVE TypeOK'
  <2>1. key' \in Keys /\ fresh' \in [Nodes -> BOOLEAN] /\ proc' \in [Nodes -> Locals]
    <3>1. WriteSyncState(n, n, {}, Idle)
      BY <1>16 DEF Promote
    <3>2. QED
      BY <1>2, <3>1, WriteType
  <2>2. primary' \in Nodes /\ guc' \in Lists
    BY <1>2, <1>16 DEF TypeOK, Promote
  <2>3. wal' \in [Nodes -> 0..MaxWal] /\ acked' \in 0..MaxWal
    BY <1>16 DEF TypeOK, Promote, data
  <2>4. failovers' \in 0..MaxFailovers
    BY <1>16 DEF TypeOK, Promote, CandidateInTime
  <2>5. QED
    BY <1>1, <1>16, <2>1, <2>2, <2>3, <2>4 DEF TypeOK, Promote, handler
<1>17. ASSUME NEW n \in Nodes, Replicate(n) PROVE TypeOK'
  BY <1>1, <1>17 DEF TypeOK, Replicate, handler
<1>18. CASE UNCHANGED vars
  BY <1>1, <1>18 DEF TypeOK, vars
<1>19. QED
  BY <1>3, <1>4, <1>5, <1>6, <1>7, <1>8, <1>9, <1>10, <1>11, <1>12, <1>13, <1>14, <1>15, <1>16, <1>17, <1>18
     DEF Next, Procedure
-----------------------------------------------------------------------------
LEMMA ProcType == TypeOK => proc \in [Nodes -> Locals]
BY DEF TypeOK, Locals, Pcs, Working, AfterPick, BeforeAssign

\* A step of the procedure that may write the key leaves it to the primary.
LEMMA WriteAuthority ==
    ASSUME TypeOK, Authority, UNCHANGED <<primary, failovers>>,
           NEW n \in Nodes, NEW voters \in SUBSET Nodes, NEW next \in Locals,
           proc[n].pc \in Working, next.pc \in Working \union {"idle"}, WriteSyncState(n, n, voters, next)
    PROVE  /\ Authority'
           /\ fresh[n] <=> n = primary
<1> USE MultiSyncAssumption
<1>1. proc \in [Nodes -> Locals] /\ primary \in Nodes /\ fresh \in [Nodes -> BOOLEAN]
  BY ProcType DEF TypeOK
<1>2. fresh[n] <=> n = primary
  BY DEF Authority, FreshIsPrimary
<1>3. CASE fresh[n]
  <2>1. /\ key' = [leader |-> n, voters |-> voters] /\ n = primary
        /\ \A o \in Nodes : fresh'[o] <=> o = n
        /\ \A o \in Nodes : o # n => proc'[o] = proc[o]
        /\ proc'[n] = [next EXCEPT !.sync = key']
    BY <1>1, <1>2, <1>3 DEF WriteSyncState
  <2>2. proc'[n].sync = key' /\ proc'[n].pc = next.pc
    BY <2>1 DEF Locals
  <2>3. KeyOfPrimary'
    BY <2>1 DEF KeyOfPrimary
  <2>4. FreshIsPrimary'
    BY <1>1, <1>2, <2>1, <2>2 DEF Authority, FreshIsPrimary
  <2>5. FreshKnowsKey'
    BY <2>1, <2>2 DEF FreshKnowsKey
  <2>6. CandidateInTime'
    BY <2>1, <2>2 DEF Authority, CandidateInTime, Working, AfterPick, BeforeAssign
  <2>7. CandidateWasNamed'
    BY <2>1, <2>2 DEF Authority, CandidateWasNamed, Candidates, Working, AfterPick, BeforeAssign
  <2>8. QED
    BY <1>2, <2>3, <2>4, <2>5, <2>6, <2>7 DEF Authority
<1>4. CASE ~fresh[n]
  <2>1. /\ key' = key /\ fresh' = fresh
        /\ \A o \in Nodes : o # n => proc'[o] = proc[o]
        /\ proc'[n].pc = "idle"
    BY <1>1, <1>4 DEF WriteSyncState, Idle
  <2>2. QED
    BY <1>2, <2>1 DEF Authority, KeyOfPrimary, FreshIsPrimary, FreshKnowsKey, CandidateInTime, CandidateWasNamed,
                      Candidates, Working, AfterPick, BeforeAssign
<1>5. QED
  BY <1>3, <1>4

\* So does one that only goes on.
LEMMA ContinueAuthority ==
    ASSUME TypeOK, Authority, UNCHANGED <<primary, failovers>>,
           NEW n \in Nodes, NEW next \in Locals,
           proc[n].pc \in Working, next.pc \in Working \union {"idle"},
           next.pc # "idle" => next.sync = proc[n].sync, Continue(n, next)
    PROVE  Authority'
<1>1. proc \in [Nodes -> Locals]
  BY ProcType
<1>2. /\ key' = key /\ fresh' = fresh
      /\ \A o \in Nodes : o # n => proc'[o] = proc[o]
      /\ proc'[n] = next
  BY <1>1 DEF Continue
<1>3. KeyOfPrimary' /\ FreshIsPrimary'
  BY <1>2 DEF Authority, KeyOfPrimary, FreshIsPrimary, Working, AfterPick, BeforeAssign
<1>4. FreshKnowsKey'
  BY <1>2 DEF Authority, FreshKnowsKey, Working, AfterPick, BeforeAssign
<1>5. CandidateInTime' /\ CandidateWasNamed'
  BY <1>2 DEF Authority, CandidateInTime, CandidateWasNamed, Candidates, Working, AfterPick, BeforeAssign
<1>6. QED
  BY <1>3, <1>4, <1>5 DEF Authority
-----------------------------------------------------------------------------
(***************************************************************************)
(* A step of the procedure that touches neither the list nor the handler:  *)
(* what it leaves in the key must be listed and hold the commits.          *)
(***************************************************************************)
LEMMA LocalCovered ==
    ASSUME Inv, UNCHANGED <<primary, guc, seen, flush, ready, wal, acked>>,
           \/ proc'[primary].pc = "idle"
           \/ /\ proc'[primary].pc = proc[primary].pc \/ {proc[primary].pc, proc'[primary].pc} \subseteq BeforeAssign
              /\ proc'[primary].loaded = proc[primary].loaded
              /\ proc'[primary].allow = proc[primary].allow
              /\ proc'[primary].picked = proc[primary].picked,
           key'.voters \subseteq guc.names, HaveAcked(key'.voters),
           proc'[primary].pc = "withdrawn" => key'.voters \subseteq proc'[primary].allow
    PROVE  Covered'
<1> USE DEF Inv, Covered
<1>1. VotersListed' /\ KeyNarrowed' /\ ReadyWasSeen'
  BY DEF VotersListed, KeyNarrowed, ReadyWasSeen
<1>2. LoadedListed' /\ AllowListed' /\ PickHandled'
  BY DEF LoadedListed, AllowListed, PickHandled, AfterPick, BeforeAssign
<1>3. KeyHolds' /\ ReadyHolds' /\ FlushCovers'
  BY DEF KeyHolds, ReadyHolds, FlushCovers, HaveAcked
<1>4. AllowHolds' /\ LoadedHolds'
  BY DEF AllowHolds, LoadedHolds, HaveAcked, Working, AfterPick, BeforeAssign
<1>5. QED
  BY <1>1, <1>2, <1>3, <1>4

\* What the listed standbys that current_state reports as ready hold.
LEMMA HandleCovered ==
    ASSUME Inv, NEW active \in Picks, NEW shown \in SUBSET (active \intersect guc.names),
           proc[primary].pc \in Working, HandleCurrentState(primary, active, shown)
    PROVE  /\ ReadyWasSeen' /\ seen'[primary] = guc
           /\ ready'[primary] \subseteq guc.names /\ HaveAcked(ready'[primary])
           /\ acked <= flush'[primary] \/ HaveAcked(guc.names)
           /\ LET allow == Confirmed(primary, active, shown)
              IN allow \subseteq active /\ allow \subseteq guc.names /\ HaveAcked(allow)
<1> DEFINE still == StillListed(primary)
           newly == NewlyReady(primary, active, shown)
<1>1. primary \in Nodes /\ proc \in [Nodes -> Locals] /\ acked \in Nat /\ wal \in [Nodes -> Nat] /\ guc.names \subseteq Nodes
      /\ flush \in [Nodes -> Nat] /\ seen \in [Nodes -> Lists] /\ ready \in [Nodes -> SUBSET Nodes]
  BY ProcType DEF Inv, TypeOK, Lists
<1>2. still \subseteq guc.names /\ HaveAcked(still)
  BY <1>1 DEF Inv, Covered, StillListed, ReadyWasSeen, ReadyHolds, HaveAcked
<1>3. acked <= FlushLsn(primary) \/ HaveAcked(guc.names)
  BY <1>1 DEF Inv, Covered, FlushLsn, FlushCovers, KeyHolds
<1>4. newly \subseteq guc.names
  BY DEF NewlyReady
<1>5. HaveAcked(newly)
  <2> SUFFICES ASSUME NEW m \in newly PROVE wal[m] >= acked
    BY DEF HaveAcked
  <2>1. m \in guc.names /\ m \in Nodes
    BY <1>1, <1>4
  <2>2. CASE m \in proc[primary].loaded
    BY <2>1, <2>2 DEF Inv, Covered, LoadedHolds, HaveAcked
  <2>3. CASE wal[m] >= FlushLsn(primary)
    <3>1. FlushLsn(primary) \in Nat /\ wal[m] \in Nat
      BY <1>1, <2>1 DEF FlushLsn
    <3>2. QED
      BY <1>1, <1>3, <2>1, <2>3, <3>1 DEF HaveAcked
  <2>4. QED
    BY <2>2, <2>3 DEF NewlyReady
<1>6. /\ seen' = [seen EXCEPT ![primary] = guc]
      /\ flush' = [flush EXCEPT ![primary] = FlushLsn(primary)]
      /\ ready' = [ready EXCEPT ![primary] = still \union newly]
      /\ Confirmed(primary, active, shown) = active \intersect shown \intersect (still \union newly)
  BY DEF HandleCurrentState, Confirmed
<1> HIDE DEF still, newly
<1>7. seen'[primary] = guc /\ flush'[primary] = FlushLsn(primary) /\ ready'[primary] = still \union newly
  BY <1>1, <1>6
<1>8. ReadyWasSeen'
  BY <1>1, <1>2, <1>4, <1>6 DEF Inv, Covered, ReadyWasSeen
<1>9. HaveAcked(still \union newly)
  BY <1>2, <1>5 DEF HaveAcked
<1>10. QED
  BY <1>2, <1>3, <1>4, <1>6, <1>7, <1>8, <1>9 DEF HaveAcked
\* A step of the procedure that writes what is listed and holds the commits, if n is the primary.
LEMMA WriteCovered ==
    ASSUME Inv, UNCHANGED <<primary, guc, seen, flush, ready, wal, acked, failovers>>,
           NEW n \in Nodes, NEW voters \in SUBSET Nodes, NEW next \in Locals,
           proc[n].pc \in Working,
           \/ next.pc = "idle"
           \/ /\ next.pc = proc[n].pc \/ {proc[n].pc, next.pc} \subseteq BeforeAssign
              /\ next.loaded = proc[n].loaded /\ next.allow = proc[n].allow /\ next.picked = proc[n].picked,
           n = primary => /\ voters \subseteq guc.names /\ HaveAcked(voters)
                          /\ next.pc = "withdrawn" => voters \subseteq next.allow,
           WriteSyncState(n, n, voters, next)
    PROVE  Authority' /\ Covered'
<1>1. TypeOK /\ Authority /\ proc \in [Nodes -> Locals] /\ primary \in Nodes /\ fresh \in [Nodes -> BOOLEAN]
  BY ProcType DEF Inv, TypeOK
<1>2. next.pc \in Working \union {"idle"}
  BY DEF Working, AfterPick
<1>3. Authority' /\ (fresh[n] <=> n = primary)
  BY <1>1, <1>2, WriteAuthority
<1>4. CASE n = primary
  <2>1. key' = [leader |-> n, voters |-> voters] /\ proc'[n] = [next EXCEPT !.sync = key']
    BY <1>1, <1>3, <1>4 DEF WriteSyncState
  <2>2. /\ proc'[n].pc = next.pc /\ proc'[n].loaded = next.loaded
        /\ proc'[n].allow = next.allow /\ proc'[n].picked = next.picked
    BY <2>1 DEF Locals
  <2>3. key'.voters = voters
    BY <2>1
  <2>4. Covered'
    BY <1>4, <2>2, <2>3, LocalCovered
  <2>5. QED
    BY <1>3, <2>4
<1>5. CASE n # primary
  <2>1. key' = key /\ proc'[primary] = proc[primary]
    BY <1>1, <1>3, <1>5 DEF WriteSyncState
  <2>2. key.voters \subseteq guc.names /\ HaveAcked(key.voters)
        /\ (proc[primary].pc = "withdrawn" => key.voters \subseteq proc[primary].allow)
    BY DEF Inv, Covered, VotersListed, KeyHolds, KeyNarrowed
  <2>3. Covered'
    BY <2>1, <2>2, LocalCovered
  <2>4. QED
    BY <1>3, <2>3
<1>6. QED
  BY <1>4, <1>5

\* A step of the procedure that goes on without writing.
LEMMA ContinueCovered ==
    ASSUME Inv, UNCHANGED <<primary, guc, seen, flush, ready, wal, acked, failovers>>,
           NEW n \in Nodes, NEW next \in Locals,
           proc[n].pc \in Working,
           \/ next.pc = "idle"
           \/ /\ next.pc = proc[n].pc \/ {proc[n].pc, next.pc} \subseteq BeforeAssign
              /\ next.loaded = proc[n].loaded /\ next.allow = proc[n].allow /\ next.picked = proc[n].picked
              /\ next.sync = proc[n].sync,
           n = primary /\ next.pc = "withdrawn" => key.voters \subseteq next.allow,
           Continue(n, next)
    PROVE  Authority' /\ Covered'
<1>1. TypeOK /\ Authority /\ proc \in [Nodes -> Locals] /\ primary \in Nodes
  BY ProcType DEF Inv, TypeOK
<1>2. next.pc \in Working \union {"idle"}
  BY DEF Working, AfterPick
<1>3. Authority'
  BY <1>1, <1>2, ContinueAuthority
<1>4. key' = key /\ proc'[n] = next /\ (n # primary => proc'[primary] = proc[primary])
  BY <1>1 DEF Continue
<1>5. key.voters \subseteq guc.names /\ HaveAcked(key.voters)
      /\ (proc[primary].pc = "withdrawn" => key.voters \subseteq proc[primary].allow)
  BY DEF Inv, Covered, VotersListed, KeyHolds, KeyNarrowed
<1>6. Covered'
  <2>1. CASE n = primary
    BY <1>4, <1>5, <2>1, LocalCovered
  <2>2. CASE n # primary
    BY <1>4, <1>5, <2>2, LocalCovered
  <2>3. QED
    BY <2>1, <2>2
<1>7. QED
  BY <1>3, <1>6
-----------------------------------------------------------------------------
\* A transaction is written, replicated or acknowledged: all that is promised is promised of listed nodes.
LEMMA DataCovered ==
    ASSUME Inv, UNCHANGED <<primary, key, fresh, proc, guc, seen, flush, ready, failovers>>,
           \A m \in guc.names \union {primary} : wal[m] >= acked => wal'[m] >= acked',
           acked' > acked => HaveAcked(guc.names)', acked' \in Nat, acked' >= acked
    PROVE  Authority' /\ Covered'
<1>1. Authority'
  BY DEF Inv, Authority, KeyOfPrimary, FreshIsPrimary, FreshKnowsKey, CandidateInTime, CandidateWasNamed, Candidates
<1>2. VotersListed' /\ LoadedListed' /\ AllowListed' /\ PickHandled' /\ KeyNarrowed' /\ ReadyWasSeen'
  BY DEF Inv, Covered, VotersListed, LoadedListed, AllowListed, PickHandled, KeyNarrowed, ReadyWasSeen
<1>3. KeyHolds' /\ ReadyHolds'
  BY DEF Inv, Covered, KeyHolds, ReadyHolds, VotersListed, HaveAcked
<1>4. AllowHolds'
  BY DEF Inv, Covered, AllowHolds, AllowListed, HaveAcked
<1>5. LoadedHolds'
  BY DEF Inv, Covered, LoadedHolds, HaveAcked
<1>6. FlushCovers'
  <2>1. CASE acked' > acked
    BY <2>1 DEF FlushCovers
  <2>2. CASE ~(acked' > acked)
    <3>1. acked' = acked
      BY <2>2 DEF Inv, TypeOK
    <3>2. QED
      BY <3>1 DEF Inv, Covered, FlushCovers, HaveAcked
  <2>3. QED
    BY <2>1, <2>2
<1>7. QED
  BY <1>1, <1>2, <1>3, <1>4, <1>5, <1>6 DEF Covered

\* Every step keeps the invariant.
LEMMA InvStep == Inv /\ [Next]_vars => Inv'
<1> SUFFICES ASSUME Inv, [Next]_vars PROVE Inv'
  OBVIOUS
<1> USE MultiSyncAssumption
<1>0. TypeOK /\ Authority /\ Covered /\ proc \in [Nodes -> Locals] /\ primary \in Nodes
      /\ fresh \in [Nodes -> BOOLEAN] /\ acked \in Nat /\ wal \in [Nodes -> Nat] /\ key \in Keys /\ guc.names \subseteq Nodes
  BY ProcType DEF Inv, TypeOK, Lists
<1>1. TypeOK'
  BY <1>0, TypeStep DEF Authority
<1>2. Idle \in Locals /\ Idle.pc = "idle" /\ Idle.loaded = {} /\ Idle.allow = {}
  BY DEF Idle, Locals, Pcs, Keys
<1>3. CASE Write
  <2>1. /\ UNCHANGED <<primary, key, fresh, proc, guc, seen, flush, ready, acked, failovers>>
        /\ \A m \in guc.names \union {primary} : wal[m] >= acked => wal'[m] >= acked'
    BY <1>0, <1>3 DEF Write, handler
  <2>2. ~(acked' > acked) /\ acked' >= acked /\ acked' \in Nat
    BY <1>0, <2>1
  <2>3. QED
    BY <1>1, <2>1, <2>2, DataCovered DEF Inv
<1>4. CASE Acknowledge
  <2>1. /\ UNCHANGED <<primary, key, fresh, proc, guc, seen, flush, ready, wal, failovers>>
        /\ acked' = acked + 1 /\ \A m \in guc.names \union {primary} : wal[m] > acked
    BY <1>0, <1>4 DEF Acknowledge, handler
  <2>2. \A m \in guc.names \union {primary} : wal'[m] >= acked'
    BY <1>0, <2>1
  <2>3. HaveAcked(guc.names)' /\ acked' \in Nat /\ acked' >= acked
    BY <1>0, <2>1, <2>2 DEF HaveAcked
  <2>4. QED
    BY <1>1, <2>1, <2>2, <2>3, DataCovered DEF Inv
<1>5. ASSUME NEW n \in Nodes, Load(n) PROVE Inv'
  <2>1. /\ n = primary /\ UNCHANGED <<primary, key, guc, seen, flush, ready, wal, acked, failovers>>
        /\ proc' = [proc EXCEPT ![n] = [Idle EXCEPT !.pc = "loaded", !.sync = key, !.loaded = key.voters]]
        /\ fresh' = [fresh EXCEPT ![n] = TRUE]
    BY <1>5 DEF Load, handler, data
  <2>2. /\ proc'[primary].pc = "loaded" /\ proc'[primary].sync = key /\ proc'[primary].loaded = key.voters
        /\ \A o \in Nodes : o # primary => proc'[o] = proc[o]
    BY <1>0, <2>1 DEF Idle
  <2>3. fresh'[primary] /\ \A o \in Nodes : o # primary => (fresh'[o] <=> fresh[o])
    BY <1>0, <2>1
  <2>4. Authority'
    <3>1. KeyOfPrimary'
      BY <1>0, <2>1 DEF Authority, KeyOfPrimary
    <3>2. FreshIsPrimary'
      BY <1>0, <2>1, <2>2, <2>3 DEF Authority, FreshIsPrimary
    <3>3. FreshKnowsKey'
      BY <1>0, <2>1, <2>2, <2>3 DEF Authority, FreshKnowsKey
    <3>4. CandidateInTime' /\ CandidateWasNamed'
      BY <1>0, <2>1, <2>2, <2>3 DEF Authority, CandidateInTime, CandidateWasNamed, Candidates
    <3>5. QED
      BY <3>1, <3>2, <3>3, <3>4 DEF Authority
  <2>5. Covered'
    <3>1. VotersListed' /\ LoadedListed' /\ AllowListed' /\ PickHandled' /\ KeyNarrowed' /\ ReadyWasSeen'
      BY <1>0, <2>1, <2>2 DEF Covered, VotersListed, LoadedListed, AllowListed, PickHandled, KeyNarrowed, ReadyWasSeen,
                              AfterPick, BeforeAssign
    <3>2. KeyHolds' /\ ReadyHolds' /\ FlushCovers'
      BY <1>0, <2>1 DEF Covered, KeyHolds, ReadyHolds, FlushCovers, HaveAcked
    <3>3. AllowHolds' /\ LoadedHolds'
      BY <1>0, <2>1, <2>2 DEF Covered, AllowHolds, LoadedHolds, KeyHolds, HaveAcked, AfterPick, BeforeAssign
    <3>4. QED
      BY <3>1, <3>2, <3>3 DEF Covered
  <2>6. QED
    BY <1>1, <2>4, <2>5 DEF Inv
<1>6. ASSUME NEW n \in Nodes, Enable(n) PROVE Inv'
  <2>1. /\ proc[n].pc \in Working /\ WriteSyncState(n, n, {}, proc[n]) /\ proc[n].pc # "withdrawn"
        /\ UNCHANGED <<primary, guc, seen, flush, ready, wal, acked, failovers>>
    BY <1>6 DEF Enable, handler, data, Working
  <2>2. HaveAcked({})
    BY DEF HaveAcked
  <2>3. Authority' /\ Covered'
    BY <1>0, <2>1, <2>2, WriteCovered
  <2>4. QED
    BY <1>1, <2>3 DEF Inv
<1>7. ASSUME NEW n \in Nodes, Pick(n) PROVE Inv'
  <2>1. n = primary /\ proc[n].pc = "loaded" /\ UNCHANGED <<primary, guc, wal, acked, failovers>>
    BY <1>7 DEF Pick, data
  <2>2. PICK active \in Picks : \E shown \in SUBSET (active \intersect guc.names) :
          /\ HandleCurrentState(n, active, shown)
          /\ Continue(n, [proc[n] EXCEPT !.pc = "picked", !.picked = active, !.allow = Confirmed(n, active, shown)])
    BY <1>7 DEF Pick
  <2>3. PICK shown \in SUBSET (active \intersect guc.names) :
          /\ HandleCurrentState(n, active, shown)
          /\ Continue(n, [proc[n] EXCEPT !.pc = "picked", !.picked = active, !.allow = Confirmed(n, active, shown)])
    BY <2>2
  <2> DEFINE allow == Confirmed(n, active, shown)
             next == [proc[n] EXCEPT !.pc = "picked", !.picked = active, !.allow = allow]
  <2>4. proc[n].pc \in Working
    BY <2>1 DEF Working
  <2>5. /\ ReadyWasSeen' /\ seen'[primary] = guc
        /\ ready'[primary] \subseteq guc.names /\ HaveAcked(ready'[primary])
        /\ acked <= flush'[primary] \/ HaveAcked(guc.names)
        /\ allow \subseteq active /\ allow \subseteq guc.names /\ HaveAcked(allow)
    BY <2>1, <2>3, <2>4, HandleCovered
  <2>6. active \in SUBSET Nodes /\ Continue(n, next)
    BY <2>3 DEF Picks
  <2> HIDE DEF allow
  <2>7. next \in Locals
    BY <1>0, <2>5, <2>6, PickedType
  <2>8. next.pc = "picked" /\ next.picked = active /\ next.allow = allow /\ next.loaded = proc[n].loaded /\ next.sync = proc[n].sync
    BY <1>0 DEF Locals
  <2> HIDE DEF next
  <2>9. next.pc \in Working
    BY <2>8 DEF Working, AfterPick, BeforeAssign
  <2>10. Authority'
    BY <1>0, <2>1, <2>4, <2>6, <2>7, <2>8, <2>9, ContinueAuthority
  <2>11. key' = key /\ proc'[primary] = next
    BY <1>0, <2>1, <2>6 DEF Continue
  <2>12. VotersListed' /\ LoadedListed' /\ AllowListed' /\ PickHandled' /\ KeyNarrowed'
    BY <1>0, <2>1, <2>5, <2>8, <2>11 DEF Covered, VotersListed, LoadedListed, AllowListed, PickHandled, KeyNarrowed
  <2>13. KeyHolds' /\ ReadyHolds' /\ FlushCovers'
    BY <1>0, <2>1, <2>5, <2>11 DEF Covered, KeyHolds, ReadyHolds, FlushCovers, HaveAcked
  <2>14. AllowHolds' /\ LoadedHolds'
    BY <1>0, <2>1, <2>4, <2>5, <2>8, <2>11 DEF Covered, AllowHolds, LoadedHolds, HaveAcked
  <2>15. QED
    BY <1>1, <2>5, <2>10, <2>12, <2>13, <2>14 DEF Inv, Covered
<1>8. ASSUME NEW n \in Nodes, TakeOver(n) PROVE Inv'
  <2> DEFINE next == [proc[n] EXCEPT !.pc = "owned"]
  <2>1. /\ next \in Locals /\ next.pc = "owned" /\ next.loaded = proc[n].loaded /\ next.allow = proc[n].allow
        /\ next.picked = proc[n].picked /\ next.sync = proc[n].sync
    BY <1>0 DEF Locals, Pcs, Working, AfterPick, BeforeAssign
  <2>2. /\ proc[n].pc = "picked"
        /\ WriteSyncState(n, n, {}, next) \/ Continue(n, next)
        /\ UNCHANGED <<primary, guc, seen, flush, ready, wal, acked, failovers>>
    BY <1>8 DEF TakeOver, handler, data
  <2>3. HaveAcked({}) /\ proc[n].pc \in Working /\ {proc[n].pc, next.pc} \subseteq BeforeAssign
    BY <2>1, <2>2 DEF HaveAcked, Working, AfterPick, BeforeAssign
  <2> HIDE DEF next
  <2>4. Authority' /\ Covered'
    <3>1. CASE WriteSyncState(n, n, {}, next)
      BY <2>1, <2>2, <2>3, <3>1, WriteCovered
    <3>2. CASE Continue(n, next)
      BY <2>1, <2>2, <2>3, <3>2, ContinueCovered
    <3>3. QED
      BY <2>2, <3>1, <3>2
  <2>5. QED
    BY <1>1, <2>4 DEF Inv
<1>9. ASSUME NEW n \in Nodes, Correct(n) PROVE Inv'
  <2> DEFINE next == [proc[n] EXCEPT !.pc = "corrected"]
  <2>1. /\ next \in Locals /\ next.pc = "corrected" /\ next.loaded = proc[n].loaded /\ next.allow = proc[n].allow
        /\ next.picked = proc[n].picked /\ next.sync = proc[n].sync /\ proc[n].allow \in SUBSET Nodes
    BY <1>0 DEF Locals, Pcs, Working, AfterPick, BeforeAssign
  <2>2. /\ proc[n].pc = "owned"
        /\ WriteSyncState(n, n, proc[n].allow, next) \/ Continue(n, next)
        /\ UNCHANGED <<primary, guc, seen, flush, ready, wal, acked, failovers>>
    BY <1>9 DEF Correct, handler, data
  <2>3. proc[n].pc \in AfterPick /\ proc[n].pc \in Working /\ {proc[n].pc, next.pc} \subseteq BeforeAssign
    BY <2>1, <2>2 DEF Working, AfterPick, BeforeAssign
  <2> HIDE DEF next
  <2>4. n = primary => proc[n].allow \subseteq guc.names /\ HaveAcked(proc[n].allow)
    BY <1>0, <2>3 DEF Covered, AllowListed, AllowHolds
  <2>5. Authority' /\ Covered'
    <3>1. CASE WriteSyncState(n, n, proc[n].allow, next)
      BY <2>1, <2>2, <2>3, <2>4, <3>1, WriteCovered
    <3>2. CASE Continue(n, next)
      BY <2>1, <2>2, <2>3, <3>2, ContinueCovered
    <3>3. QED
      BY <2>2, <3>1, <3>2
  <2>6. QED
    BY <1>1, <2>5 DEF Inv
<1>10. ASSUME NEW n \in Nodes, Withdraw(n) PROVE Inv'
  <2> DEFINE next == [proc[n] EXCEPT !.pc = "withdrawn"]
             common == proc[n].sync.voters \intersect proc[n].allow
  <2>1. /\ next \in Locals /\ next.pc = "withdrawn" /\ next.loaded = proc[n].loaded /\ next.allow = proc[n].allow
        /\ next.picked = proc[n].picked /\ next.sync = proc[n].sync /\ common \in SUBSET Nodes
    BY <1>0 DEF Locals, Pcs, Working, AfterPick, BeforeAssign
  <2>2. /\ proc[n].pc = "corrected"
        /\ \/ WriteSyncState(n, n, common, next)
           \/ Continue(n, next) /\ common = proc[n].sync.voters
           \/ Continue(n, Idle)
        /\ UNCHANGED <<primary, guc, seen, flush, ready, wal, acked, failovers>>
    BY <1>10 DEF Withdraw, handler, data
  <2>3. proc[n].pc \in AfterPick /\ proc[n].pc \in Working /\ {proc[n].pc, next.pc} \subseteq BeforeAssign
        /\ proc[n].pc # "idle"
    BY <2>1, <2>2 DEF Working, AfterPick, BeforeAssign
  <2>4. n = primary => common \subseteq guc.names /\ HaveAcked(common) /\ common \subseteq next.allow
    BY <1>0, <2>1, <2>3 DEF Covered, AllowListed, AllowHolds, HaveAcked
  <2>5. n = primary /\ common = proc[n].sync.voters => key.voters \subseteq next.allow
    <3>1. n = primary => proc[n].sync = key
      BY <1>0, <2>3 DEF Authority, FreshIsPrimary, FreshKnowsKey
    <3>2. QED
      BY <2>1, <3>1
  <2> HIDE DEF next, common
  <2>6. Authority' /\ Covered'
    <3>1. CASE WriteSyncState(n, n, common, next)
      BY <2>1, <2>2, <2>3, <2>4, <3>1, WriteCovered
    <3>2. CASE Continue(n, next) /\ common = proc[n].sync.voters
      BY <2>1, <2>2, <2>3, <2>5, <3>2, ContinueCovered
    <3>3. CASE Continue(n, Idle)
      BY <1>2, <2>2, <2>3, <3>3, ContinueCovered
    <3>4. QED
      BY <2>2, <3>1, <3>2, <3>3
  <2>7. QED
    BY <1>1, <2>6 DEF Inv
<1>11. ASSUME NEW n \in Nodes, Assign(n) PROVE Inv'
  <2> DEFINE p == proc[n]
             new == IF p.picked = {} THEN (IF Strict THEN Star ELSE NoNames) ELSE [names |-> p.picked, star |-> FALSE]
             next == [p EXCEPT !.pc = IF p.picked # {} /\ p.allow # p.picked THEN "assigned" ELSE "publish"]
  <2>1. /\ p.pc = "withdrawn" /\ Continue(n, next)
        /\ UNCHANGED <<primary, wal, acked, failovers>>
    BY <1>11 DEF Assign, data
  <2>2. /\ next \in Locals /\ next.pc \in {"assigned", "publish"} /\ next.loaded = p.loaded /\ next.allow = p.allow
        /\ next.sync = p.sync
    BY <1>0 DEF Locals, Pcs, Working, AfterPick, BeforeAssign
  <2>3. new.names = p.picked /\ new \in Lists
    BY <1>0 DEF Star, NoNames, Lists, Locals
  <2>4. /\ guc' = IF n = primary THEN new ELSE guc
        /\ IF n = primary /\ new # guc /\ ~new.star
           THEN /\ seen' = [seen EXCEPT ![n] = new]
                /\ flush' = [flush EXCEPT ![n] = IF new = seen[n] THEN @ ELSE wal[n]]
                /\ ready' = [ready EXCEPT ![n] = IF new = seen[n] THEN @ ELSE @ \intersect new.names]
           ELSE UNCHANGED handler
    BY <1>11 DEF Assign
  <2> HIDE DEF new, next
  <2>5. p.pc \in Working /\ p.pc \in BeforeAssign /\ p.pc \in AfterPick /\ next.pc \in Working
    BY <2>1, <2>2 DEF Working, AfterPick, BeforeAssign
  <2>6. Authority'
    BY <1>0, <2>1, <2>2, <2>5, ContinueAuthority
  <2>7. key' = key /\ proc'[n] = next /\ (n # primary => proc'[primary] = proc[primary])
    BY <1>0, <2>1 DEF Continue
  <2>8. CASE n # primary
    <3>1. UNCHANGED <<guc, seen, flush, ready>>
      BY <2>4, <2>8 DEF handler
    <3>2. key.voters \subseteq guc.names /\ HaveAcked(key.voters)
          /\ (proc[primary].pc = "withdrawn" => key.voters \subseteq proc[primary].allow)
      BY <1>0 DEF Covered, VotersListed, KeyHolds, KeyNarrowed
    <3>3. Covered'
      BY <2>1, <2>7, <2>8, <3>1, <3>2, LocalCovered
    <3>4. QED
      BY <1>1, <2>6, <3>3 DEF Inv
  <2>9. CASE n = primary
    <3>1. /\ guc' = new /\ proc'[primary] = next
          /\ p.allow \subseteq p.picked /\ seen[primary] = guc /\ key.voters \subseteq p.allow
          /\ p.loaded \subseteq guc.names
      BY <1>0, <2>1, <2>4, <2>5, <2>7, <2>9 DEF Covered, PickHandled, KeyNarrowed, LoadedListed
    <3>2. seen \in [Nodes -> Lists] /\ flush \in [Nodes -> Nat] /\ ready \in [Nodes -> SUBSET Nodes]
      BY <1>0 DEF TypeOK
    <3>3. ready[primary] \subseteq guc.names /\ HaveAcked(ready[primary])
      BY <1>0, <3>1 DEF Covered, ReadyWasSeen, ReadyHolds, HaveAcked
    <3>4. /\ ready'[primary] \subseteq ready[primary]
          /\ ReadyWasSeen'
      <4>1. CASE new # guc /\ ~new.star
        BY <1>0, <2>4, <2>9, <3>1, <3>2, <4>1 DEF Covered, ReadyWasSeen
      <4>2. CASE ~(new # guc /\ ~new.star)
        BY <1>0, <2>4, <4>2 DEF Covered, ReadyWasSeen, handler
      <4>3. QED
        BY <4>1, <4>2
    <3>5. FlushCovers'
      <4>1. CASE new # guc /\ ~new.star
        <5>1. flush'[primary] = wal[primary]
          BY <1>0, <2>4, <2>9, <3>1, <3>2, <4>1
        <5>2. QED
          BY <1>0, <2>1, <5>1 DEF Covered, FlushCovers, KeyHolds
      <4>2. CASE new = guc
        BY <1>0, <2>1, <2>4, <3>1, <4>2 DEF Covered, FlushCovers, HaveAcked, handler
      <4>3. CASE new # guc /\ new.star
        <5>1. new.names = {}
          BY <4>3 DEF new, Star, NoNames
        <5>2. QED
          BY <3>1, <5>1 DEF FlushCovers, HaveAcked
      <4>4. QED
        BY <4>1, <4>2, <4>3
    <3>6. VotersListed' /\ LoadedListed' /\ AllowListed' /\ PickHandled' /\ KeyNarrowed'
      BY <2>1, <2>2, <2>3, <2>7, <2>9, <3>1 DEF VotersListed, LoadedListed, AllowListed, PickHandled, KeyNarrowed, BeforeAssign
    <3>7. KeyHolds' /\ ReadyHolds'
      BY <1>0, <2>1, <2>7, <3>3, <3>4 DEF Covered, KeyHolds, ReadyHolds, HaveAcked
    <3>8. AllowHolds' /\ LoadedHolds'
      BY <1>0, <2>1, <2>2, <2>5, <2>9, <3>1 DEF Covered, AllowHolds, LoadedHolds, HaveAcked
    <3>9. QED
      BY <1>1, <2>6, <3>4, <3>5, <3>6, <3>7, <3>8 DEF Inv, Covered
  <2>10. QED
    BY <2>8, <2>9
<1>12. ASSUME NEW n \in Nodes, Recheck(n) PROVE Inv'
  <2>1. n = primary /\ proc[n].pc = "assigned" /\ UNCHANGED <<primary, guc, wal, acked, failovers>>
    BY <1>12 DEF Recheck, data
  <2>2. PICK active \in Picks : \E shown \in SUBSET (active \intersect guc.names) :
          /\ HandleCurrentState(n, active, shown)
          /\ Continue(n, [proc[n] EXCEPT !.pc = "publish", !.allow = Confirmed(n, active, shown)])
    BY <1>12 DEF Recheck
  <2>3. PICK shown \in SUBSET (active \intersect guc.names) :
          /\ HandleCurrentState(n, active, shown)
          /\ Continue(n, [proc[n] EXCEPT !.pc = "publish", !.allow = Confirmed(n, active, shown)])
    BY <2>2
  <2> DEFINE allow == Confirmed(n, active, shown)
             next == [proc[n] EXCEPT !.pc = "publish", !.allow = allow]
  <2>4. proc[n].pc \in Working
    BY <2>1 DEF Working, AfterPick
  <2>5. /\ ReadyWasSeen' /\ seen'[primary] = guc
        /\ ready'[primary] \subseteq guc.names /\ HaveAcked(ready'[primary])
        /\ acked <= flush'[primary] \/ HaveAcked(guc.names)
        /\ allow \subseteq active /\ allow \subseteq guc.names /\ HaveAcked(allow)
    BY <2>1, <2>3, <2>4, HandleCovered
  <2>6. active \in SUBSET Nodes /\ Continue(n, next)
    BY <2>3 DEF Picks
  <2> HIDE DEF allow
  <2>7. next \in Locals
    BY <1>0, <2>5, <2>6, PickedType
  <2>8. next.pc = "publish" /\ next.allow = allow /\ next.loaded = proc[n].loaded /\ next.sync = proc[n].sync
    BY <1>0 DEF Locals
  <2> HIDE DEF next
  <2>9. next.pc \in Working
    BY <2>8 DEF Working, AfterPick, BeforeAssign
  <2>10. Authority'
    BY <1>0, <2>1, <2>4, <2>6, <2>7, <2>8, <2>9, ContinueAuthority
  <2>11. key' = key /\ proc'[primary] = next
    BY <1>0, <2>1, <2>6 DEF Continue
  <2>12. VotersListed' /\ LoadedListed' /\ AllowListed' /\ PickHandled' /\ KeyNarrowed'
    BY <1>0, <2>1, <2>5, <2>8, <2>11
       DEF Covered, VotersListed, LoadedListed, AllowListed, PickHandled, KeyNarrowed, BeforeAssign
  <2>13. KeyHolds' /\ ReadyHolds' /\ FlushCovers'
    BY <1>0, <2>1, <2>5, <2>11 DEF Covered, KeyHolds, ReadyHolds, FlushCovers, HaveAcked
  <2>14. AllowHolds' /\ LoadedHolds'
    BY <1>0, <2>1, <2>4, <2>5, <2>8, <2>11 DEF Covered, AllowHolds, LoadedHolds, HaveAcked
  <2>15. QED
    BY <1>1, <2>5, <2>10, <2>12, <2>13, <2>14 DEF Inv, Covered
<1>13. ASSUME NEW n \in Nodes, Publish(n) PROVE Inv'
  <2>1. /\ proc[n].pc = "publish"
        /\ WriteSyncState(n, n, proc[n].allow, Idle) \/ Continue(n, Idle)
        /\ UNCHANGED <<primary, guc, seen, flush, ready, wal, acked, failovers>>
    BY <1>13 DEF Publish, handler, data
  <2>2. proc[n].pc \in AfterPick /\ proc[n].pc \in Working /\ proc[n].allow \in SUBSET Nodes
    BY <1>0, <2>1 DEF Working, AfterPick, BeforeAssign, Locals
  <2>3. n = primary => proc[n].allow \subseteq guc.names /\ HaveAcked(proc[n].allow)
    BY <1>0, <2>2 DEF Covered, AllowListed, AllowHolds
  <2>4. Authority' /\ Covered'
    <3>1. CASE WriteSyncState(n, n, proc[n].allow, Idle)
      BY <1>2, <2>1, <2>2, <2>3, <3>1, WriteCovered
    <3>2. CASE Continue(n, Idle)
      BY <1>2, <2>1, <2>2, <3>2, ContinueCovered
    <3>3. QED
      BY <2>1, <3>1, <3>2
  <2>5. QED
    BY <1>1, <2>4 DEF Inv
<1>14. ASSUME NEW n \in Nodes, Restart(n) PROVE Inv'
  <2>1. /\ UNCHANGED <<primary, key, fresh, guc, wal, acked, failovers>>
        /\ proc' = [proc EXCEPT ![n] = Idle] /\ seen' = [seen EXCEPT ![n] = NoNames]
        /\ flush' = [flush EXCEPT ![n] = 0] /\ ready' = [ready EXCEPT ![n] = {}]
    BY <1>14 DEF Restart, data
  <2>2. seen \in [Nodes -> Lists] /\ flush \in [Nodes -> Nat] /\ ready \in [Nodes -> SUBSET Nodes]
    BY <1>0 DEF TypeOK
  <2>3. /\ proc'[n].pc = "idle" /\ \A o \in Nodes : o # n => proc'[o] = proc[o]
    BY <1>0, <1>2, <2>1
  <2>4. Authority'
    BY <1>0, <2>1, <2>3 DEF Authority, KeyOfPrimary, FreshIsPrimary, FreshKnowsKey, CandidateInTime, CandidateWasNamed,
                            Candidates, Working, AfterPick, BeforeAssign
  <2>5. ReadyWasSeen' /\ VotersListed'
    BY <1>0, <2>1, <2>2 DEF Covered, ReadyWasSeen, VotersListed
  <2>6. LoadedListed' /\ AllowListed' /\ KeyNarrowed'
    BY <1>0, <2>1, <2>3 DEF Covered, LoadedListed, AllowListed, KeyNarrowed, AfterPick, BeforeAssign
  <2>7. PickHandled'
    BY <1>0, <2>1, <2>2, <2>3 DEF Covered, PickHandled, BeforeAssign
  <2>8. KeyHolds' /\ AllowHolds' /\ LoadedHolds'
    BY <1>0, <2>1, <2>3 DEF Covered, KeyHolds, AllowHolds, LoadedHolds, HaveAcked, Working, AfterPick, BeforeAssign
  <2>9. ReadyHolds'
    BY <1>0, <2>1, <2>2 DEF Covered, ReadyHolds, HaveAcked
  <2>10. FlushCovers'
    <3>1. CASE n = primary
      BY <1>0, <2>1, <2>2, <3>1 DEF FlushCovers, HaveAcked, NoNames
    <3>2. CASE n # primary
      BY <1>0, <2>1, <2>2, <3>2 DEF Covered, FlushCovers, HaveAcked
    <3>3. QED
      BY <3>1, <3>2
  <2>11. QED
    BY <1>1, <2>4, <2>5, <2>6, <2>7, <2>8, <2>9, <2>10 DEF Inv, Covered
<1>15. ASSUME NEW n \in Nodes, Campaign(n) PROVE Inv'
  <2>1. /\ n # primary /\ failovers < MaxFailovers /\ n \in Candidates(key)
        /\ proc' = [proc EXCEPT ![n] = [Idle EXCEPT !.pc = "candidate", !.sync = key]]
        /\ fresh' = [fresh EXCEPT ![n] = TRUE]
        /\ UNCHANGED <<primary, key, guc, seen, flush, ready, wal, acked, failovers>>
    BY <1>15 DEF Campaign, handler, data
  <2>2. /\ proc'[n].pc = "candidate" /\ proc'[n].sync = key
        /\ \A o \in Nodes : o # n => proc'[o] = proc[o]
    BY <1>0, <2>1 DEF Idle
  <2>3. fresh'[n] /\ \A o \in Nodes : o # n => (fresh'[o] <=> fresh[o])
    BY <1>0, <2>1
  <2>4. Authority'
    <3>1. KeyOfPrimary'
      BY <1>0, <2>1 DEF Authority, KeyOfPrimary
    <3>2. FreshIsPrimary'
      BY <1>0, <2>1, <2>2, <2>3 DEF Authority, FreshIsPrimary, Working, AfterPick, BeforeAssign
    <3>3. FreshKnowsKey'
      BY <1>0, <2>1, <2>2, <2>3 DEF Authority, FreshKnowsKey
    <3>4. CandidateInTime' /\ CandidateWasNamed'
      BY <1>0, <2>1, <2>2, <2>3 DEF Authority, CandidateInTime, CandidateWasNamed, Candidates
    <3>5. QED
      BY <3>1, <3>2, <3>3, <3>4 DEF Authority
  <2>5. key.voters \subseteq guc.names /\ HaveAcked(key.voters)
        /\ (proc[primary].pc = "withdrawn" => key.voters \subseteq proc[primary].allow)
    BY <1>0 DEF Covered, VotersListed, KeyHolds, KeyNarrowed
  <2>6. Covered'
    BY <1>0, <2>1, <2>2, <2>5, LocalCovered
  <2>7. QED
    BY <1>1, <2>4, <2>6 DEF Inv
<1>16. ASSUME NEW n \in Nodes, Promote(n) PROVE Inv'
  <2>1. CASE ~fresh[n]
    <3>1. /\ n # primary /\ proc' = [proc EXCEPT ![n] = Idle]
          /\ UNCHANGED <<primary, key, fresh, guc, seen, flush, ready, wal, acked, failovers>>
      BY <1>16, <2>1 DEF Promote, WriteSyncState, handler, data
    <3>2. proc'[n].pc = "idle" /\ \A o \in Nodes : o # n => proc'[o] = proc[o]
      BY <1>0, <1>2, <3>1
    <3>3. Authority'
      BY <1>0, <3>1, <3>2 DEF Authority, KeyOfPrimary, FreshIsPrimary, FreshKnowsKey, CandidateInTime, CandidateWasNamed,
                              Candidates, Working, AfterPick, BeforeAssign
    <3>4. key.voters \subseteq guc.names /\ HaveAcked(key.voters)
          /\ (proc[primary].pc = "withdrawn" => key.voters \subseteq proc[primary].allow)
      BY <1>0 DEF Covered, VotersListed, KeyHolds, KeyNarrowed
    <3>5. Covered'
      BY <1>0, <3>1, <3>2, <3>4, LocalCovered
    <3>6. QED
      BY <1>1, <3>3, <3>5 DEF Inv
  <2>2. CASE fresh[n]
    <3>1. /\ primary' = n /\ key' = [leader |-> n, voters |-> {}]
          /\ fresh' = [o \in Nodes |-> o = n]
          /\ proc' = [proc EXCEPT ![n] = [Idle EXCEPT !.sync = key']]
          /\ guc' = IF Strict THEN Star ELSE NoNames
          /\ UNCHANGED <<seen, flush, ready>>
      BY <1>16, <2>2 DEF Promote, WriteSyncState, handler
    <3>2. wal'[n] >= acked'
      BY <1>0, <1>16, <2>2 DEF Promote
    <3>3. proc'[n].pc = "idle" /\ \A o \in Nodes : o # n => proc'[o] = proc[o]
      BY <1>0, <3>1 DEF Idle
    <3>4. guc'.names = {} /\ key'.voters = {} /\ key'.leader = n
      BY <3>1 DEF Star, NoNames
    <3>5. \A o \in Nodes : fresh'[o] <=> o = n
      BY <3>1
    <3>6. Authority'
      <4>1. KeyOfPrimary' /\ FreshIsPrimary'
        BY <3>1, <3>3, <3>4, <3>5 DEF KeyOfPrimary, FreshIsPrimary, Working, AfterPick, BeforeAssign
      <4>2. FreshKnowsKey' /\ CandidateInTime'
        BY <3>3, <3>5 DEF FreshKnowsKey, CandidateInTime
      <4>3. CandidateWasNamed'
        BY <1>0, <3>3 DEF Authority, CandidateWasNamed, Candidates
      <4>4. QED
        BY <4>1, <4>2, <4>3 DEF Authority
    <3>7. VotersListed' /\ LoadedListed' /\ AllowListed' /\ PickHandled' /\ KeyNarrowed'
      BY <3>1, <3>3, <3>4 DEF VotersListed, LoadedListed, AllowListed, PickHandled, KeyNarrowed, AfterPick, BeforeAssign
    <3>8. ReadyWasSeen'
      BY <1>0, <3>1 DEF Covered, ReadyWasSeen
    <3>9. KeyHolds' /\ ReadyHolds' /\ FlushCovers'
      BY <3>1, <3>2, <3>4 DEF KeyHolds, ReadyHolds, FlushCovers, HaveAcked
    <3>10. AllowHolds' /\ LoadedHolds'
      BY <3>1, <3>3 DEF AllowHolds, LoadedHolds, Working, AfterPick, BeforeAssign
    <3>11. QED
      BY <1>1, <3>6, <3>7, <3>8, <3>9, <3>10 DEF Inv, Covered
  <2>3. QED
    BY <2>1, <2>2
<1>17. ASSUME NEW n \in Nodes, Replicate(n) PROVE Inv'
  <2>1. /\ UNCHANGED <<primary, key, fresh, proc, guc, seen, flush, ready, acked, failovers>>
        /\ \A m \in guc.names \union {primary} : wal[m] >= acked => wal'[m] >= acked'
    BY <1>0, <1>17 DEF Replicate, handler
  <2>2. ~(acked' > acked) /\ acked' >= acked /\ acked' \in Nat
    BY <1>0, <2>1
  <2>3. QED
    BY <1>1, <2>1, <2>2, DataCovered DEF Inv
<1>18. CASE UNCHANGED vars
  <2>1. /\ UNCHANGED <<primary, key, fresh, proc, guc, seen, flush, ready, acked, failovers>>
        /\ \A m \in guc.names \union {primary} : wal[m] >= acked => wal'[m] >= acked'
    BY <1>18 DEF vars
  <2>2. ~(acked' > acked) /\ acked' >= acked /\ acked' \in Nat
    BY <1>0, <2>1
  <2>3. QED
    BY <1>1, <2>1, <2>2, DataCovered DEF Inv
<1>19. QED
  BY <1>3, <1>4, <1>5, <1>6, <1>7, <1>8, <1>9, <1>10, <1>11, <1>12, <1>13, <1>14, <1>15, <1>16, <1>17, <1>18
     DEF Next, Procedure

\* Nothing is acknowledged, listed or named when the cluster starts.
LEMMA InvInit == Init => Inv
<1> SUFFICES ASSUME Init PROVE Inv
  OBVIOUS
<1> USE MultiSyncAssumption
<1>1. TypeOK
  <2>1. Idle \in Locals /\ Star \in Lists /\ NoNames \in Lists
    BY DEF Idle, Locals, Pcs, Keys, Star, NoNames, Lists
  <2>2. proc \in [Nodes -> Locals]
    BY <2>1 DEF Init
  <2>3. guc \in Lists /\ seen \in [Nodes -> Lists] /\ key \in Keys
    BY <2>1 DEF Init, Keys
  <2>4. QED
    BY <2>2, <2>3 DEF Init, TypeOK, Locals, Pcs, Working, AfterPick, BeforeAssign
<1>2. \A n \in Nodes : proc[n].pc = "idle"
  BY DEF Init, Idle
<1>3. Authority
  BY <1>2 DEF Init, Authority, KeyOfPrimary, FreshIsPrimary, FreshKnowsKey, CandidateInTime, CandidateWasNamed,
              Working, AfterPick, BeforeAssign
<1>4. VotersListed /\ LoadedListed /\ AllowListed /\ PickHandled /\ KeyNarrowed /\ ReadyWasSeen
  BY <1>2 DEF Init, VotersListed, LoadedListed, AllowListed, PickHandled, KeyNarrowed, ReadyWasSeen, AfterPick, BeforeAssign
<1>5. KeyHolds /\ AllowHolds /\ LoadedHolds /\ ReadyHolds /\ FlushCovers
  BY <1>2 DEF Init, KeyHolds, AllowHolds, LoadedHolds, ReadyHolds, FlushCovers, HaveAcked, Working, AfterPick, BeforeAssign
<1>6. QED
  BY <1>1, <1>3, <1>4, <1>5 DEF Inv, Covered

-----------------------------------------------------------------------------
\* The invariant holds in every reachable state.
THEOREM InvCorrect == Spec => []Inv
<1>1. Inv /\ [Next]_vars => Inv'
  BY InvStep
<1>2. QED
  BY <1>1, InvInit, PTL DEF Spec

(***************************************************************************)
(* Ha._process_multisync_replication: at every point of the procedure,     *)
(* whoever was suspended in the middle of it or restarted, each node that  *)
(* the /sync key allows to be promoted holds all acknowledged              *)
(* transactions.                                                           *)
(***************************************************************************)
THEOREM CandidatesHoldCommitsCorrect == Spec => []CandidatesHoldCommits
<1>1. Inv => CandidatesHoldCommits
  BY DEF Inv, Authority, KeyOfPrimary, Covered, KeyHolds, HaveAcked, CandidatesHoldCommits, Candidates
<1>2. QED
  BY <1>1, InvCorrect, PTL

(***************************************************************************)
(* A standby that the /sync key names is on the list of the primary that   *)
(* the key belongs to, so every further commit waits for it.               *)
(***************************************************************************)
THEOREM VotersAreListedCorrect == Spec => []VotersAreListed
<1>1. Inv => VotersAreListed
  BY DEF Inv, Covered, VotersListed, VotersAreListed
<1>2. QED
  BY <1>1, InvCorrect, PTL

(***************************************************************************)
(* No failover loses an acknowledged transaction once synchronous mode is  *)
(* on (the /sync key has a leader): the promotion of a candidate, which    *)
(* cuts the history at its own position, cuts nothing acknowledged, even   *)
(* though the candidate decided on the key as it read it in an earlier     *)
(* step.                                                                   *)
(***************************************************************************)
THEOREM NoAcknowledgedLost == Spec => [][key.leader # NoNode => acked' >= acked]_vars
<1>1. Inv /\ [Next]_vars => [key.leader # NoNode => acked' >= acked]_vars
  <2> SUFFICES ASSUME Inv, Next, key.leader # NoNode PROVE acked' >= acked
    OBVIOUS
  <2>1. acked \in Nat /\ wal \in [Nodes -> Nat] /\ primary \in Nodes
    BY DEF Inv, TypeOK
  <2>2. CASE Acknowledge
    BY <2>1, <2>2 DEF Acknowledge
  <2>3. CASE \E n \in Nodes : Promote(n)
    <3>1. PICK n \in Nodes : Promote(n)
      BY <2>3
    <3>2. CASE fresh[n]
      <4>1. proc[n].sync = key /\ n \in Candidates(proc[n].sync)
        BY <3>1, <3>2 DEF Promote, Inv, Authority, FreshKnowsKey, CandidateWasNamed
      <4>2. wal[n] >= acked
        BY <4>1 DEF Inv, Authority, KeyOfPrimary, Covered, KeyHolds, HaveAcked, Candidates
      <4>3. QED
        BY <2>1, <3>1, <3>2, <4>2 DEF Promote
    <3>3. CASE ~fresh[n]
      BY <2>1, <3>1, <3>3 DEF Promote, data
    <3>4. QED
      BY <3>2, <3>3
  <2>4. CASE ~Acknowledge /\ ~(\E n \in Nodes : Promote(n))
    <3>1. acked' = acked
      BY <2>4 DEF Next, Procedure, Write, Load, Enable, Pick, TakeOver, Correct, Withdraw, Assign, Recheck, Publish,
                  Restart, Campaign, Replicate, data
    <3>2. QED
      BY <2>1, <3>1
  <2>5. QED
    BY <2>2, <2>3, <2>4
<1>2. QED
  BY <1>1, InvCorrect, PTL DEF Spec

-----------------------------------------------------------------------------
(***************************************************************************)
(* Logical replication slots.                                              *)
(***************************************************************************)
Slots == {NoSlot} \union [plugin : 1..2, pos : Nat \ {0}]
Believable == Slots \union [plugin : 1..2, pos : {-1}]
Advances == [scheduled : Nat, taken : Nat, outcome : {"none", "done", "failed", "invalid"},
             failed : BOOLEAN, copy : BOOLEAN]

LsTypes ==
    /\ lsConf \in 0..2
    /\ lsPrim \in [wal : Nat \ {0}, slot : Slots, phys : Nat, vac : Nat]
    /\ lsStatus \in Nat /\ lsReplay \in Nat \ {0}
    /\ lsRole \in {"replica", "primary"}
    /\ lsSlot \in Slots /\ lsRead \in Slots /\ lsCache \in Believable
    /\ lsFlags \in [load : BOOLEAN, force : BOOLEAN]
    /\ lsQueue \in Nat \union {Out, Unchecked}
    /\ lsAdv \in Advances
    /\ lsOp \in {"idle", "queried", "copy"}

\* A forced check of readiness comes with a new load of the slots.
ForcedLoads == lsFlags.force => lsFlags.load

\* Unless it is about to look again, Patroni knows the slot that is there, at a position that is not ahead of it.
CacheBehind ==
    lsRole = "replica" /\ lsSlot # NoSlot /\ ~lsFlags.load
        => lsCache.plugin = lsSlot.plugin /\ lsCache.pos \in 1..lsSlot.pos

\* Vacuum of the primary keeps behind its own slot.
VacuumBehind ==
    lsRole = "replica" =>
        /\ lsPrim.vac <= lsPrim.wal
        /\ lsPrim.slot # NoSlot => lsPrim.vac <= lsPrim.slot.pos /\ lsPrim.slot.pos <= lsPrim.wal

\* Since a slot waits for a position, the physical slot has held vacuum back.
WaitsForPosition ==
    lsRole = "replica" /\ lsSlot # NoSlot /\ lsQueue \in Nat /\ ~lsFlags.force
        => lsPrim.phys > 0 /\ (lsPrim.vac <= lsQueue \/ lsPrim.vac <= lsPrim.phys)

\* It still does once the slot is declared safe.
DeclaredSafe ==
    lsRole = "replica" /\ lsSlot # NoSlot /\ lsQueue = Out /\ ~lsFlags.force
        => lsPrim.phys \in 1..lsSlot.pos /\ lsPrim.vac <= lsSlot.pos

LsSafe == ForcedLoads /\ CacheBehind /\ VacuumBehind /\ WaitsForPosition /\ DeclaredSafe
LsInv == LsTypes /\ LsSafe

-----------------------------------------------------------------------------
LEMMA LsInitial == LsInit => LsInv
<1> SUFFICES ASSUME LsInit PROVE LsInv
  OBVIOUS
<1> USE LogicalSlotsAssumption DEF LsInit, NoSlot, Slot, Out, Unchecked, Scheduled, LsIdle
<1>1. LsTypes
  BY DEF LsTypes, Slots, Believable, Advances
<1>2. LsSafe
  BY DEF LsSafe, ForcedLoads, CacheBehind, VacuumBehind, WaitsForPosition, DeclaredSafe
<1> QED BY <1>1, <1>2 DEF LsInv

\* What a cycle starts from has its type.
LEMMA LoadedTypes ==
    ASSUME LsTypes
    PROVE  /\ LoadedCache \in Believable /\ LoadedQueue \in Nat \union {Out, Unchecked}
           /\ LoadedForce \in BOOLEAN
           /\ (lsSlot = NoSlot \/ lsSlot.pos > 0)
  BY DEF LsTypes, LoadedCache, LoadedQueue, LoadedForce, Slots, Believable, Out, Unchecked

LEMMA PendingType ==
    ASSUME LsTypes, NEW q \in Nat \union {Out, Unchecked}
    PROVE  Pending(q) \in Nat \union {Out, Unchecked}
  BY DEF LsTypes, Pending, Slots, Out, Unchecked

LEMMA CheckedType ==
    ASSUME LsTypes, NEW q \in Nat \union {Out, Unchecked}, NEW cache, NEW answers \in BOOLEAN
    PROVE  Checked(q, cache, answers) \in Nat \union {Out, Unchecked}
  BY PendingType DEF Checked, Ready, Out, Unchecked

LEMMA EnsureTypes ==
    ASSUME LsTypes, NEW cache \in Believable, cache = NoSlot \/ cache.pos # -1, EnsureReplica(cache)
    PROVE  /\ lsAdv' \in Advances /\ lsCache' \in Believable
           /\ lsFlags' \in [load : BOOLEAN, force : BOOLEAN] /\ lsOp' \in {"idle", "queried", "copy"}
<1>1. AdvanceValue(cache) \in Nat
  BY DEF LsTypes, AdvanceValue, Least
<1>2. lsAdv' \in Advances
  <2>1. \E v \in Nat : lsAdv' = [lsAdv EXCEPT !.scheduled = v, !.failed = FALSE, !.copy = FALSE]
    <3>1. lsAdv.scheduled \in Nat
      BY DEF LsTypes, Advances
    <3>2. (IF (IF cache # NoSlot THEN AdvanceValue(cache) ELSE 0) > 0 /\ ~lsAdv.copy
            THEN (IF cache # NoSlot THEN AdvanceValue(cache) ELSE 0) ELSE lsAdv.scheduled) \in Nat
      BY <1>1, <3>1
    <3> QED BY <3>2 DEF EnsureReplica
  <2> QED BY <2>1 DEF LsTypes, Advances
<1>3. lsFlags' \in [load : BOOLEAN, force : BOOLEAN]
  BY DEF LsTypes, EnsureReplica, Advances, LoadedForce
<1>4. lsCache' \in Believable
  <2>1. NoSlot \in Believable
    BY DEF Believable, Slots
  <2>2. lsConf # 0 => Slot(lsConf, -1) \in Believable
    BY DEF LsTypes, Believable, Slot
  <2> QED BY <2>1, <2>2 DEF EnsureReplica
<1>5. lsOp' \in {"idle", "queried", "copy"}
  BY DEF EnsureReplica
<1> QED BY <1>2, <1>3, <1>4, <1>5
LEMMA LsTypesStep == LsInv /\ [LsNext]_lsVars => LsTypes'
<1> SUFFICES ASSUME LsInv, [LsNext]_lsVars PROVE LsTypes'
  OBVIOUS
<1>0. LsTypes
  BY DEF LsInv
<1> USE LogicalSlotsAssumption
<1>1. CASE LsQuery
  <2>1. lsCache' \in Believable /\ lsFlags' \in [load : BOOLEAN, force : BOOLEAN]
    BY <1>0, <1>1 DEF LsQuery, LsTypes, Believable
  <2> QED BY <1>0, <1>1, <2>1 DEF LsQuery, LsTypes, lsWorld, lsEnv
<1>2. ASSUME NEW answers \in BOOLEAN, SyncReplica(answers) PROVE LsTypes'
  <2> DEFINE cache == IF Incorrect(LoadedCache) THEN NoSlot ELSE LoadedCache
  <2>1. cache \in Believable
    BY <1>0, LoadedTypes DEF Believable, Slots
  <2>2. UNCHANGED lsEnv /\ lsRead' = NoSlot /\ lsSlot' \in Slots
    BY <1>0, <1>2 DEF SyncReplica, DropIncorrect, LsTypes, Slots
  <2>3. CASE CannotCompare(LoadedQueue, cache, answers) \/ (cache # NoSlot /\ cache.pos = -1)
    <3>1. LsRaises /\ lsQueue' = Pending(LoadedQueue)
      BY <1>2, <2>3 DEF SyncReplica
    <3>2. lsQueue' \in Nat \union {Out, Unchecked}
      BY <1>0, <3>1, LoadedTypes, PendingType
    <3> QED BY <1>0, <2>2, <3>1, <3>2, LoadedTypes DEF LsRaises, LsTypes, lsEnv, Slots
  <2>4. CASE ~(CannotCompare(LoadedQueue, cache, answers) \/ (cache # NoSlot /\ cache.pos = -1))
    <3>1. EnsureReplica(cache) /\ lsQueue' = Checked(LoadedQueue, cache, answers)
      BY <1>2, <2>4 DEF SyncReplica
    <3>2. lsQueue' \in Nat \union {Out, Unchecked}
      BY <1>0, <3>1, LoadedTypes, CheckedType
    <3>3. /\ lsAdv' \in Advances /\ lsCache' \in Believable
          /\ lsFlags' \in [load : BOOLEAN, force : BOOLEAN] /\ lsOp' \in {"idle", "queried", "copy"}
      <4> HIDE DEF cache
      <4> QED BY <1>0, <2>1, <2>4, <3>1, EnsureTypes
    <3> QED BY <1>0, <2>2, <3>2, <3>3 DEF LsTypes, lsEnv, Slots
  <2> QED BY <2>3, <2>4
<1>3. CASE SyncFails
  BY <1>0, <1>3, LoadedTypes DEF SyncFails, LsRaises, LsTypes, lsEnv
<1>4. CASE SyncPrimary
  <2> DEFINE cache == IF Incorrect(LoadedCache) THEN NoSlot ELSE LoadedCache
             new == lsConf # 0 /\ cache.pos <= 0
  <2>1. cache \in Believable /\ NoSlot \in Slots /\ NoSlot \in Believable
    BY <1>0, LoadedTypes DEF Believable, Slots
  <2>2. lsConf # 0 => Slot(lsConf, -1) \in Believable /\ Slot(lsConf, lsReplay) \in Slots
    BY <1>0 DEF LsTypes, Believable, Slots, Slot
  <2>3. lsSlot' \in Slots
    BY <1>0, <1>4, <2>1, <2>2 DEF SyncPrimary, LsTypes
  <2>4. lsCache' \in Believable
    BY <1>4, <2>1, <2>2 DEF SyncPrimary
  <2>5. lsFlags' \in [load : BOOLEAN, force : BOOLEAN]
    BY <1>0, <1>4, LoadedTypes DEF SyncPrimary
  <2>6. lsQueue' = Out /\ lsOp' = "idle" /\ UNCHANGED <<lsAdv, lsRead, lsWorld>>
    BY <1>4 DEF SyncPrimary
  <2> QED BY <1>0, <2>3, <2>4, <2>5, <2>6 DEF LsTypes, lsWorld, lsEnv
<1>5. CASE CopyRead
  BY <1>0, <1>5 DEF CopyRead, LsTypes, lsEnv
<1>6. CASE CopyWrite
  BY <1>0, <1>6 DEF CopyWrite, LsTypes, lsWorld, lsEnv, Scheduled, Advances, Slots
<1>7. CASE AdvanceTake
  <2>1. lsAdv' \in Advances
    <3>1. lsAdv.taken + lsAdv.scheduled \in Nat
      BY <1>0 DEF LsTypes, Advances
    <3>2. lsAdv' = [lsAdv EXCEPT !.taken = lsAdv.taken + lsAdv.scheduled, !.outcome = "none"]
      BY <1>7 DEF AdvanceTake
    <3> QED BY <1>0, <3>1, <3>2 DEF LsTypes, Advances
  <2> QED BY <1>0, <1>7, <2>1 DEF AdvanceTake, LsTypes, lsWorld, lsEnv
<1>8. CASE AdvanceExecute
  <2>1. lsSlot' \in Slots
    BY <1>0, <1>8 DEF AdvanceExecute, LsTypes, Slots, Advances
  <2>2. lsAdv' \in Advances
    BY <1>0, <1>8 DEF AdvanceExecute, LsTypes, Advances
  <2> QED BY <1>0, <1>8, <2>1, <2>2 DEF AdvanceExecute, LsTypes, lsEnv
<1>9. CASE AdvanceRecord
  <2>1. lsAdv' \in Advances
    BY <1>0, <1>9 DEF AdvanceRecord, LsTypes, Advances
  <2> QED BY <1>0, <1>9, <2>1 DEF AdvanceRecord, LsTypes, lsWorld, lsEnv
<1>10. CASE LsPromote
  BY <1>0, <1>10 DEF LsPromote, LsTypes, Advances
<1>11. CASE PgRestarts
  BY <1>0, <1>11 DEF PgRestarts, LsTypes, Scheduled
<1>12. CASE PatroniRestarts
  BY <1>0, <1>12 DEF PatroniRestarts, LsTypes, Scheduled, LsIdle, Advances, Slots, Believable
<1>13. CASE SlotVanishes
  BY <1>0, <1>13 DEF SlotVanishes, LsTypes, lsMind, Slots
<1>14. ASSUME NEW p \in 0..2, Configure(p) PROVE LsTypes'
  BY <1>0, <1>14 DEF Configure, LsTypes, lsMind
<1>15. CASE PrimaryCycle
  <2>1. lsStatus' \in Nat
    BY <1>0, <1>15 DEF PrimaryCycle, LsTypes, Slots
  <2>2. lsPrim' \in [wal : Nat \ {0}, slot : Slots, phys : Nat, vac : Nat]
    <3>1. \E slot \in Slots : lsPrim' = [lsPrim EXCEPT !.slot = slot]
      <4>1. NoSlot \in Slots /\ lsPrim.slot \in Slots
        BY <1>0 DEF LsTypes, Slots
      <4>2. lsConf # 0 => Slot(lsConf, lsPrim.wal) \in Slots
        BY <1>0 DEF LsTypes, Slots, Slot
      <4> QED BY <1>15, <4>1, <4>2 DEF PrimaryCycle
    <3> QED BY <1>0, <3>1 DEF LsTypes
  <2> QED BY <1>0, <1>15, <2>1, <2>2 DEF PrimaryCycle, LsTypes, lsMind
<1>16. CASE PrimaryWorks
  <2>1. lsPrim' \in [wal : Nat \ {0}, slot : Slots, phys : Nat, vac : Nat]
    <3>1. CASE lsPrim' = [lsPrim EXCEPT !.wal = @ + 1]
      BY <1>0, <3>1 DEF LsTypes
    <3>2. CASE lsPrim.slot # NoSlot /\ lsPrim' = [lsPrim EXCEPT !.slot.pos = @ + 1]
      <4>1. [lsPrim.slot EXCEPT !.pos = @ + 1] \in Slots
        BY <1>0, <3>2 DEF LsTypes, Slots
      <4> QED BY <1>0, <3>2, <4>1 DEF LsTypes
    <3>3. CASE \E v \in Nat : lsPrim' = [lsPrim EXCEPT !.vac = v]
      BY <1>0, <3>3 DEF LsTypes
    <3>4. Least(IF lsPrim.slot = NoSlot THEN lsPrim.wal ELSE lsPrim.slot.pos, lsPrim.phys) \in Nat
          /\ (IF lsPrim.slot = NoSlot THEN lsPrim.wal ELSE lsPrim.slot.pos) \in Nat
      BY <1>0 DEF LsTypes, Slots, Least
    <3> QED BY <1>16, <3>1, <3>2, <3>3, <3>4 DEF PrimaryWorks
  <2> QED BY <1>0, <1>16, <2>1 DEF PrimaryWorks, LsTypes, lsMind
<1>17. CASE Stream
  <2>1. lsPrim' \in [wal : Nat \ {0}, slot : Slots, phys : Nat, vac : Nat]
    BY <1>0, <1>17 DEF Stream, LsTypes, Slots
  <2> QED BY <1>0, <1>17, <2>1 DEF Stream, LsTypes, lsMind
<1>18. CASE UNCHANGED lsVars
  BY <1>0, <1>18 DEF lsVars, LsTypes
<1> QED BY <1>1, <1>2, <1>3, <1>4, <1>5, <1>6, <1>7, <1>8, <1>9, <1>10, <1>11, <1>12, <1>13, <1>14, <1>15, <1>16,
           <1>17, <1>18 DEF LsNext, LsHa, LsAdvance
\* Only slots that are there, and what is known of them, matter to the invariant.
LEMMA LsQuiet ==
    ASSUME LsInv, lsRole' = lsRole \/ lsRole' = "primary", UNCHANGED <<lsPrim, lsCache, lsQueue, lsFlags>>,
           UNCHANGED lsSlot \/ lsSlot' = NoSlot
    PROVE  LsSafe'
  BY DEF LsInv, LsSafe, ForcedLoads, CacheBehind, VacuumBehind, WaitsForPosition, DeclaredSafe

LEMMA LsSafeStep == LsInv /\ LsTypes' /\ [LsNext]_lsVars => LsSafe'
<1> SUFFICES ASSUME LsInv, LsTypes', [LsNext]_lsVars PROVE LsSafe'
  OBVIOUS
<1>0. LsTypes /\ LsSafe
  BY DEF LsInv
<1> USE LogicalSlotsAssumption
<1>1. CASE LsQuery
  <2>1. UNCHANGED <<lsRole, lsPrim, lsSlot, lsQueue>> /\ lsFlags'.force = lsFlags.force
    BY <1>0, <1>1 DEF LsQuery, LsTypes, lsWorld, lsEnv
  <2>2. (lsFlags.load => lsFlags'.load) /\ (~lsFlags'.load => ~lsFlags.load)
    BY <1>0, <1>1 DEF LsQuery, LsTypes
  <2>3. CacheBehind'
    BY <1>0, <1>1, <2>1, <2>2 DEF LsQuery, LsTypes, LsSafe, CacheBehind, Slots, Believable, NoSlot
  <2> QED BY <1>0, <2>1, <2>2, <2>3 DEF LsSafe, ForcedLoads, VacuumBehind, WaitsForPosition, DeclaredSafe
<1>2. ASSUME NEW answers \in BOOLEAN, SyncReplica(answers) PROVE LsSafe'
  <2> DEFINE cache == IF Incorrect(LoadedCache) THEN NoSlot ELSE LoadedCache
  <2>1. UNCHANGED <<lsPrim, lsRole>> /\ lsRole = "replica"
    BY <1>2 DEF SyncReplica, lsEnv
  <2>2. lsSlot' = lsSlot \/ lsSlot' = NoSlot
    BY <1>2 DEF SyncReplica, DropIncorrect
  <2>3. ~LoadedForce
    BY <1>0 DEF LsSafe, ForcedLoads, LoadedForce
  <2>4. VacuumBehind'
    BY <1>0, <2>1 DEF LsSafe, VacuumBehind
  \* A slot that is kept is known.
  <2>5. ASSUME lsSlot' # NoSlot PROVE /\ lsSlot' = lsSlot /\ cache = LoadedCache
                                      /\ cache # NoSlot /\ cache.plugin = lsSlot.plugin /\ cache.pos \in 1..lsSlot.pos
    <3>1. lsSlot' = lsSlot /\ ~Incorrect(LoadedCache)
      BY <1>2, <2>5 DEF SyncReplica, DropIncorrect
    <3>2. LoadedCache.plugin = lsSlot.plugin /\ LoadedCache.pos \in 1..lsSlot.pos
      BY <1>0, <2>1, <2>5, <3>1 DEF LoadedCache, LsSafe, CacheBehind, LsTypes, Slots
    <3> QED BY <3>1, <3>2 DEF NoSlot
  \* It was checked, or is checked now, unless it is known to be safe.
  <2>6. ASSUME lsSlot' # NoSlot
        PROVE  /\ LoadedQueue \in Nat => lsPrim.phys > 0 /\ (lsPrim.vac <= LoadedQueue \/ lsPrim.vac <= lsPrim.phys)
               /\ LoadedQueue = Out => lsPrim.phys \in 1..lsSlot.pos /\ lsPrim.vac <= lsSlot.pos
    BY <1>0, <2>1, <2>5, <2>6 DEF LoadedQueue, LsSafe, WaitsForPosition, DeclaredSafe, ForcedLoads, LsTypes, Out, Unchecked
  <2>7. CASE CannotCompare(LoadedQueue, cache, answers) \/ (cache # NoSlot /\ cache.pos = -1)
    <3>1. LsRaises /\ lsQueue' = Pending(LoadedQueue)
      BY <1>2, <2>7 DEF SyncReplica
    <3>2. lsFlags'.load /\ ~lsFlags'.force
      BY <2>3, <3>1 DEF LsRaises
    <3>3. ASSUME lsSlot' # NoSlot PROVE lsQueue' = Unchecked
      <4>1. ~(cache.pos = -1)
        BY <1>0, <2>5, <3>3 DEF LsTypes, Slots
      <4>2. CannotCompare(LoadedQueue, cache, answers)
        BY <2>7, <4>1
      <4> QED BY <3>1, <4>2 DEF CannotCompare
    <3>4. WaitsForPosition' /\ DeclaredSafe'
      BY <3>3 DEF WaitsForPosition, DeclaredSafe, Out, Unchecked
    <3> QED BY <2>4, <3>2, <3>4 DEF LsSafe, ForcedLoads, CacheBehind
  <2>8. CASE ~(CannotCompare(LoadedQueue, cache, answers) \/ (cache # NoSlot /\ cache.pos = -1))
    <3>1. EnsureReplica(cache) /\ lsQueue' = Checked(LoadedQueue, cache, answers)
      BY <1>2, <2>8 DEF SyncReplica
    <3>2. ~lsFlags'.force
      BY <2>3, <3>1 DEF EnsureReplica
    <3>3. CacheBehind'
      <4>1. SUFFICES ASSUME lsSlot' # NoSlot PROVE lsCache' = cache
        BY <2>5 DEF CacheBehind
      <4>2. lsConf # 0
        BY <1>0, <2>5, <4>1 DEF Incorrect, LsTypes, Slots
      <4> QED BY <2>5, <3>1, <4>1, <4>2 DEF EnsureReplica
    <3>4. ASSUME lsSlot' # NoSlot
          PROVE  /\ lsQueue' \in Nat => lsPrim.phys > 0 /\ (lsPrim.vac <= lsQueue' \/ lsPrim.vac <= lsPrim.phys)
                 /\ lsQueue' = Out => lsPrim.phys \in 1..lsSlot.pos /\ lsPrim.vac <= lsSlot.pos
      <4>1. CASE LoadedQueue = Out \/ ~(answers /\ lsPrim.phys > 0)
        <5>1. lsQueue' = LoadedQueue
          BY <3>1, <4>1 DEF Checked
        <5> QED BY <2>6, <3>4, <5>1
      <4>2. CASE LoadedQueue # Out /\ answers /\ lsPrim.phys > 0
        <5>1. lsQueue' = Ready(Pending(LoadedQueue), cache)
          BY <3>1, <4>2 DEF Checked
        <5>2. Pending(LoadedQueue) \in Nat
              /\ (lsPrim.vac <= Pending(LoadedQueue) \/ lsPrim.vac <= lsPrim.phys)
          <6>1. CASE LoadedQueue = Unchecked
            <7>1. Pending(LoadedQueue) # Unchecked
              BY <2>5, <2>8, <3>4, <4>2 DEF CannotCompare
            <7>2. lsPrim.slot # NoSlot /\ Pending(LoadedQueue) = lsPrim.slot.pos
              BY <6>1, <7>1 DEF Pending
            <7> QED BY <1>0, <2>1, <7>2 DEF LsSafe, VacuumBehind, LsTypes, Slots
          <6>2. CASE LoadedQueue # Unchecked
            <7>1. Pending(LoadedQueue) = LoadedQueue /\ LoadedQueue \in Nat
              BY <1>0, <4>2, <6>2, LoadedTypes DEF Pending
            <7> QED BY <2>6, <3>4, <7>1
          <6> QED BY <6>1, <6>2
        <5>3. lsPrim.vac \in Nat /\ lsPrim.phys \in Nat /\ cache.pos \in Int /\ lsSlot.pos \in Int
          BY <1>0, <2>5, <3>4 DEF LsTypes, Slots, NoSlot
        <5>4. CASE Pending(LoadedQueue) <= lsPrim.phys /\ lsPrim.phys <= cache.pos
          <6>1. lsQueue' = Out
            BY <5>1, <5>4 DEF Ready
          <6>2. lsPrim.phys \in 1..lsSlot.pos /\ lsPrim.vac <= lsSlot.pos
            BY <2>5, <3>4, <4>2, <5>2, <5>3, <5>4
          <6> QED BY <6>1, <6>2 DEF Out
        <5>5. CASE ~(Pending(LoadedQueue) <= lsPrim.phys /\ lsPrim.phys <= cache.pos)
          <6>1. lsQueue' = Pending(LoadedQueue)
            BY <2>5, <3>4, <5>1, <5>5 DEF Ready
          <6> QED BY <4>2, <5>2, <6>1 DEF Out
        <5> QED BY <5>4, <5>5
      <4> QED BY <4>1, <4>2
    <3>5. WaitsForPosition' /\ DeclaredSafe'
      BY <2>1, <2>2, <3>4 DEF WaitsForPosition, DeclaredSafe
    <3> QED BY <2>4, <3>2, <3>3, <3>5 DEF LsSafe, ForcedLoads
  <2> QED BY <2>7, <2>8
<1>3. CASE SyncFails
  <2>1. UNCHANGED <<lsPrim, lsRole, lsSlot>> /\ lsQueue' = LoadedQueue /\ lsFlags' = [load |-> TRUE, force |-> LoadedForce]
    BY <1>3 DEF SyncFails, LsRaises, lsEnv
  <2>2. ~LoadedForce
    BY <1>0 DEF LsSafe, ForcedLoads, LoadedForce
  <2>3. lsSlot # NoSlot /\ lsFlags.force => LoadedQueue = Unchecked
    BY <1>0 DEF LsSafe, ForcedLoads, LoadedQueue
  <2>4. ~lsFlags.force => LoadedQueue = lsQueue
    BY DEF LoadedQueue
  <2> QED BY <1>0, <2>1, <2>2, <2>3, <2>4 DEF LsSafe, ForcedLoads, CacheBehind, VacuumBehind, WaitsForPosition,
             DeclaredSafe, Out, Unchecked
<1>4. CASE SyncPrimary
  <2>1. lsRole' = "primary" /\ lsFlags'.force = LoadedForce
    BY <1>4 DEF SyncPrimary, lsWorld, lsEnv
  <2>2. ~LoadedForce
    BY <1>0 DEF LsSafe, ForcedLoads, LoadedForce
  <2> QED BY <2>1, <2>2 DEF LsSafe, ForcedLoads, CacheBehind, VacuumBehind, WaitsForPosition, DeclaredSafe
<1>5. CASE CopyRead
  BY <1>5, LsQuiet DEF CopyRead, lsEnv
<1>6. CASE CopyWrite
  BY <1>0, <1>6 DEF CopyWrite, lsWorld, lsEnv, Scheduled, Unchecked, Out, LsSafe, ForcedLoads, CacheBehind, VacuumBehind,
       WaitsForPosition, DeclaredSafe
<1>7. CASE AdvanceTake \/ AdvanceRecord
  BY <1>7, LsQuiet DEF AdvanceTake, AdvanceRecord, lsWorld, lsEnv
<1>8. CASE AdvanceExecute
  <2>1. UNCHANGED <<lsPrim, lsRole, lsCache, lsFlags, lsQueue>>
    BY <1>8 DEF AdvanceExecute, lsEnv
  <2>2. CASE lsSlot' = lsSlot
    BY <2>1, <2>2, LsQuiet
  <2>3. CASE lsSlot # NoSlot /\ lsSlot' = [lsSlot EXCEPT !.pos = IF @ < lsAdv.taken THEN lsAdv.taken ELSE @]
    <3>1. lsSlot'.plugin = lsSlot.plugin /\ lsSlot.pos \in Nat /\ lsSlot'.pos \in Nat /\ lsSlot.pos <= lsSlot'.pos
      BY <1>0, <2>3 DEF LsTypes, Slots, Advances
    <3>2. lsPrim.vac \in Nat /\ lsPrim.phys \in Nat /\ lsCache.pos \in Int
      BY <1>0 DEF LsTypes, Believable, Slots, NoSlot
    <3>3. CacheBehind'
      BY <1>0, <2>1, <2>3, <3>1, <3>2 DEF LsSafe, CacheBehind
    <3>4. DeclaredSafe'
      BY <1>0, <2>1, <2>3, <3>1, <3>2 DEF LsSafe, DeclaredSafe
    <3> QED BY <1>0, <2>1, <2>3, <3>3, <3>4 DEF LsSafe, ForcedLoads, VacuumBehind, WaitsForPosition
  <2> QED BY <1>8, <2>2, <2>3 DEF AdvanceExecute
<1>9. CASE LsPromote
  BY <1>9, LsQuiet DEF LsPromote
<1>10. CASE PgRestarts \/ PatroniRestarts
  BY <1>0, <1>10 DEF PgRestarts, PatroniRestarts, Scheduled, LsSafe, ForcedLoads, CacheBehind, VacuumBehind,
       WaitsForPosition, DeclaredSafe
<1>11. CASE SlotVanishes
  BY <1>11, LsQuiet DEF SlotVanishes, lsMind
<1>12. ASSUME NEW p \in 0..2, Configure(p) PROVE LsSafe'
  BY <1>12, LsQuiet DEF Configure, lsMind
<1>13. CASE PrimaryCycle
  <2>1. /\ UNCHANGED <<lsRole, lsSlot, lsCache, lsFlags, lsQueue>>
        /\ lsPrim'.vac = lsPrim.vac /\ lsPrim'.phys = lsPrim.phys /\ lsPrim'.wal = lsPrim.wal
        /\ lsPrim'.slot \in {NoSlot, lsPrim.slot, Slot(lsConf, lsPrim.wal)}
    BY <1>0, <1>13 DEF PrimaryCycle, lsMind, LsTypes
  <2>2. VacuumBehind'
    BY <1>0, <2>1 DEF LsSafe, VacuumBehind, LsTypes, Slot
  <2> QED BY <1>0, <2>1, <2>2 DEF LsSafe, ForcedLoads, CacheBehind, WaitsForPosition, DeclaredSafe
<1>14. CASE PrimaryWorks
  <2>1. UNCHANGED <<lsRole, lsSlot, lsCache, lsFlags, lsQueue>> /\ lsPrim'.phys = lsPrim.phys /\ lsRole = "replica"
    BY <1>0, <1>14 DEF PrimaryWorks, lsMind, LsTypes
  <2>2. lsPrim.vac \in Nat /\ lsPrim.phys \in Nat /\ lsPrim.wal \in Nat /\ (lsPrim.slot # NoSlot => lsPrim.slot.pos \in Nat)
    BY <1>0 DEF LsTypes, Slots
  <2>3. VacuumBehind' /\ (lsPrim'.vac = lsPrim.vac \/ (lsPrim.phys > 0 => lsPrim'.vac <= lsPrim.phys)) /\ lsPrim'.vac \in Nat
    <3>1. CASE lsPrim' = [lsPrim EXCEPT !.wal = @ + 1]
      BY <1>0, <2>1, <2>2, <3>1 DEF LsSafe, VacuumBehind, LsTypes
    <3>2. CASE lsPrim.slot # NoSlot /\ lsPrim.slot.pos < lsPrim.wal /\ lsPrim' = [lsPrim EXCEPT !.slot.pos = @ + 1]
      <4>1. lsPrim'.slot.pos = lsPrim.slot.pos + 1 /\ lsPrim'.vac = lsPrim.vac /\ lsPrim'.wal = lsPrim.wal
        BY <1>0, <3>2 DEF LsTypes, Slots
      <4> QED BY <1>0, <2>1, <2>2, <3>2, <4>1 DEF LsSafe, VacuumBehind
    <3>3. CASE LET end == IF lsPrim.slot = NoSlot THEN lsPrim.wal ELSE lsPrim.slot.pos
                   least == IF lsPrim.phys = 0 THEN end ELSE Least(end, lsPrim.phys)
               IN lsPrim.vac < least /\ lsPrim' = [lsPrim EXCEPT !.vac = least]
      <4>1. /\ lsPrim'.wal = lsPrim.wal /\ lsPrim'.slot = lsPrim.slot
            /\ lsPrim'.vac \in Nat
            /\ lsPrim'.vac <= (IF lsPrim.slot = NoSlot THEN lsPrim.wal ELSE lsPrim.slot.pos)
            /\ lsPrim.phys > 0 => lsPrim'.vac <= lsPrim.phys
        BY <1>0, <2>2, <3>3 DEF LsTypes, Least
      <4> QED BY <1>0, <2>1, <2>2, <4>1 DEF LsSafe, VacuumBehind
    <3> QED BY <1>14, <3>1, <3>2, <3>3 DEF PrimaryWorks
  <2>4. WaitsForPosition'
    BY <1>0, <2>1, <2>2, <2>3 DEF LsSafe, WaitsForPosition, LsTypes
  <2>5. DeclaredSafe'
    BY <1>0, <2>1, <2>2, <2>3 DEF LsSafe, DeclaredSafe, LsTypes, Slots
  <2> QED BY <1>0, <2>1, <2>3, <2>4, <2>5 DEF LsSafe, ForcedLoads, CacheBehind
<1>15. CASE Stream
  <2>1. /\ UNCHANGED <<lsRole, lsSlot, lsCache, lsFlags, lsQueue>>
        /\ lsPrim'.vac = lsPrim.vac /\ lsPrim'.wal = lsPrim.wal /\ lsPrim'.slot = lsPrim.slot
        /\ lsSlot # NoSlot => lsPrim'.phys = IF lsPrim.phys < lsSlot.pos THEN lsSlot.pos ELSE lsPrim.phys
    BY <1>0, <1>15 DEF Stream, lsMind, LsTypes
  <2>2. lsPrim.vac \in Nat /\ lsPrim.phys \in Nat /\ (lsSlot # NoSlot => lsSlot.pos \in Nat \ {0})
    BY <1>0 DEF LsTypes, Slots
  <2>3. WaitsForPosition' /\ DeclaredSafe'
    BY <1>0, <2>1, <2>2 DEF LsSafe, WaitsForPosition, DeclaredSafe, LsTypes
  <2> QED BY <1>0, <2>1, <2>3 DEF LsSafe, ForcedLoads, CacheBehind, VacuumBehind
<1>16. CASE UNCHANGED lsVars
  BY <1>16, LsQuiet DEF lsVars
<1> QED BY <1>1, <1>2, <1>3, <1>4, <1>5, <1>6, <1>7, <1>8, <1>9, <1>10, <1>11, <1>12, <1>13, <1>14, <1>15, <1>16
           DEF LsNext, LsHa, LsAdvance

(***************************************************************************)
(* A slot that check_logical_slots_readiness has declared ready can be     *)
(* used after a failover, for every length of the WAL and every sequence   *)
(* of failures, restarts, dropped slots and changes of the configuration:  *)
(* vacuum of the primary has left the catalog rows it needs.               *)
(***************************************************************************)
THEOREM SlotSafeCorrect == LsSpec => []SlotSafe
<1>1. LsInit => LsInv
  BY LsInitial
<1>2. LsInv /\ [LsNext]_lsVars => LsInv'
  BY LsTypesStep, LsSafeStep DEF LsInv
<1>3. LsInv => SlotSafe
  BY DEF LsInv, LsSafe, DeclaredSafe, SlotSafe
<1> QED BY <1>1, <1>2, <1>3, PTL DEF LsSpec

-----------------------------------------------------------------------------
(***************************************************************************)
(* The bootstrap of a cluster.                                             *)
(***************************************************************************)

\* A node whose bootstrap is not over; one that only has to move its data away is past it.
InBoot(n) == bsAt[n] # "clean" /\ (bsBoot[n] \/ bsAt[n] \in {"cancel", "name"})

\* A node with a system that is there to stay.
Counts(n) == Valid(bsData[n]) /\ bsAt[n] # "clean"

\* What the tasks and the cycle of one node have in common.
BsNode(n) ==
    /\ bsJob[n] # "none" => bsAt[n] \in {"idle", "loaded"}
    /\ bsJob[n] \in {"bootstrap", "post_bootstrap"} => bsBoot[n]
    /\ bsJob[n] \in {"bootstrap", "clone", "basebackup", "again"} => ~Valid(bsData[n])
    /\ bsJob[n] = "follow" => Valid(bsData[n])
    /\ bsAt[n] = "post" => bsBoot[n]
    /\ bsAt[n] \in {"new", "name", "lead", "joins", "runs"} => ~bsBoot[n]
    /\ bsAt[n] = "new" => bsData[n] = Missing
    /\ bsAt[n] \in {"name", "lead", "joins", "runs"} => Valid(bsData[n])
    /\ bsPg[n] # "down" => Valid(bsData[n])
    /\ InBoot(n) => ~Holds(n)

\* There is one system, the one that /initialize names.
OneData == \A m, n \in BsNodes : Counts(m) /\ Counts(n) => bsData[m] = bsData[n]
KeyNames == Valid(bsKey) => \A n \in BsNodes : Counts(n) => bsData[n] = bsKey

\* A bootstrap has the key for itself, and there is no system and no leader yet.
BootAlone ==
    \A n \in BsNodes : InBoot(n) =>
        bsKey = Unnamed /\ bsLeader = BsNobody /\ \A m \in BsNodes \ {n} : ~InBoot(m) /\ ~Counts(m)

\* Without the key there is no system, or an old one on all nodes.
KeyMissing ==
    bsKey = Missing => \/ \A n \in BsNodes : ~Counts(n)
                       \/ \A n \in BsNodes : Counts(n) /\ bsJob[n] = "none" /\ ~bsBoot[n]

LeaderCounts == bsLeader # BsNobody => Counts(bsLeader) /\ ~InBoot(bsLeader)

OneCluster == OneData /\ KeyNames /\ BootAlone /\ KeyMissing /\ LeaderCounts

BsTypes ==
    /\ BsTypeOK
    /\ bsSystems \in 0..MaxSystems
    /\ bsView \in [BsNodes -> [key : -1..MaxSystems, leader : BsNodes \union {BsNobody}]]

BsInv == BsTypes /\ (~bsUnsafe => OneCluster /\ \A n \in BsNodes : BsNode(n))

-----------------------------------------------------------------------------
LEMMA BsInitial == BsInit => BsInv
<1> SUFFICES ASSUME BsInit PROVE BsInv
  OBVIOUS
<1> USE BootstrapAssumption DEF BsInit, Missing, Unnamed, Valid, BsNoView
<1>1. BsTypes
  <2>1. PICK id \in {Missing, 1} : bsData = [n \in BsNodes |-> id] /\ bsSystems = IF Valid(id) THEN id ELSE 0
    OBVIOUS
  <2>2. bsData \in [BsNodes -> -1..MaxSystems] /\ bsSystems \in 0..MaxSystems
    BY <2>1
  <2>3. bsView \in [BsNodes -> [key : -1..MaxSystems, leader : BsNodes \union {BsNobody}]]
    OBVIOUS
  <2>4. bsKey \in -1..MaxSystems /\ bsEvents \in 0..MaxBsEvents
    OBVIOUS
  <2>5. /\ bsPg \in [BsNodes -> {"down", "primary", "replica", "recovering"}]
        /\ bsUp \in [BsNodes -> BOOLEAN] /\ bsBoot \in [BsNodes -> BOOLEAN] /\ bsSeen \in [BsNodes -> BOOLEAN]
    OBVIOUS
  <2>6. /\ bsResult \in [BsNodes -> {"none", "true", "false"}]
        /\ bsJob \in [BsNodes -> {"none", "bootstrap", "post_bootstrap", "clone", "basebackup", "again", "follow"}]
        /\ bsAt \in [BsNodes -> {"idle", "loaded", "new", "post", "name", "lead", "cancel", "clean", "joins", "runs"}]
    OBVIOUS
  <2>7. bsUnsafe \in BOOLEAN /\ bsLeader \in BsNodes \union {BsNobody}
    OBVIOUS
  <2> QED BY <2>2, <2>3, <2>4, <2>5, <2>6, <2>7 DEF BsTypes, BsTypeOK
<1>2. ASSUME NEW n \in BsNodes PROVE BsNode(n) /\ ~InBoot(n)
  BY DEF BsNode, InBoot
<1>3. OneData /\ KeyMissing
  BY DEF OneData, KeyMissing, Counts
<1>4. KeyNames /\ BootAlone /\ LeaderCounts
  BY <1>2 DEF KeyNames, BootAlone, LeaderCounts
<1> QED BY <1>1, <1>2, <1>3, <1>4 DEF BsInv, OneCluster

LEMMA InitializedType ==
    ASSUME BsTypes, NEW create \in BOOLEAN, NEW id \in -1..MaxSystems
    PROVE  Initialized(create, id) \in -1..MaxSystems /\ Initialized(create, id) \in {bsKey, id}
  BY DEF BsTypes, BsTypeOK, Initialized

LEMMA BsTypesStep == BsInv /\ [BsNext]_bsVars => BsTypes'
<1> SUFFICES ASSUME BsTypes, [BsNext]_bsVars PROVE BsTypes'
  BY DEF BsInv
<1> USE BootstrapAssumption DEF BsTypes, BsTypeOK, bsStore, bsLocal, bsCount, BsGoes
<1>0. /\ BsNoView \in [key : -1..MaxSystems, leader : BsNodes \union {BsNobody}]
      /\ Missing \in -1..MaxSystems /\ Unnamed \in -1..MaxSystems
  BY DEF BsNoView, Missing, Unnamed
<1>e. ASSUME NEW n \in BsNodes, BsEndCycle(n)
      PROVE  /\ bsView' \in [BsNodes -> [key : -1..MaxSystems, leader : BsNodes \union {BsNobody}]]
             /\ bsAt' \in [BsNodes -> {"idle", "loaded", "new", "post", "name", "lead", "cancel", "clean", "joins", "runs"}]
  BY <1>0, <1>e DEF BsEndCycle
<1>v. ASSUME BsEvent \/ UNCHANGED bsEvents PROVE bsEvents' \in 0..MaxBsEvents
  BY <1>v DEF BsEvent
<1>w. ASSUME NEW n \in BsNodes, BsWriteKey(Initialized(bsView[n].key = Missing, bsData[n]))
      PROVE  bsKey' \in -1..MaxSystems /\ bsEvents' \in 0..MaxBsEvents
  <2>1. Initialized(bsView[n].key = Missing, bsData[n]) \in -1..MaxSystems
    BY InitializedType
  <2> QED BY <1>w, <1>v, <2>1 DEF BsWriteKey
<1>n. ASSUME NEW n \in BsNodes, NewSystem(n)
      PROVE  bsData' \in [BsNodes -> -1..MaxSystems] /\ bsSystems' \in 0..MaxSystems
  BY <1>n DEF NewSystem
<1>s. ASSUME NEW n \in BsNodes, Ends(n)
      PROVE  /\ bsPg' \in [BsNodes -> {"down", "primary", "replica", "recovering"}]
             /\ bsUp' \in [BsNodes -> BOOLEAN] /\ bsBoot' \in [BsNodes -> BOOLEAN] /\ bsSeen' \in [BsNodes -> BOOLEAN]
             /\ bsResult' \in [BsNodes -> {"none", "true", "false"}]
             /\ bsJob' \in [BsNodes -> {"none", "bootstrap", "post_bootstrap", "clone", "basebackup", "again", "follow"}]
             /\ bsView' \in [BsNodes -> [key : -1..MaxSystems, leader : BsNodes \union {BsNobody}]]
             /\ bsAt' \in [BsNodes -> {"idle", "loaded", "new", "post", "name", "lead", "cancel", "clean", "joins", "runs"}]
             /\ UNCHANGED bsSystems
  <2>1. BsEndCycle(n)
    BY <1>s DEF Ends
  <2> QED BY <1>e, <1>s, <2>1 DEF Ends
<1>1. ASSUME NEW n \in BsNodes, BsLoad(n) PROVE BsTypes'
  BY <1>1 DEF BsLoad
<1>2. ASSUME NEW n \in BsNodes, BsCheckKey(n) PROVE BsTypes'
  <2>1. bsKey' \in -1..MaxSystems /\ bsEvents' \in 0..MaxBsEvents
    BY <1>2, <1>w DEF BsCheckKey
  <2>2. /\ bsView' \in [BsNodes -> [key : -1..MaxSystems, leader : BsNodes \union {BsNobody}]]
        /\ bsAt' \in [BsNodes -> {"idle", "loaded", "new", "post", "name", "lead", "cancel", "clean", "joins", "runs"}]
    BY <1>2, <1>e DEF BsCheckKey
  <2> QED BY <1>2, <2>1, <2>2 DEF BsCheckKey
<1>3. ASSUME NEW n \in BsNodes, BsRace(n) PROVE BsTypes'
  <2>1. bsKey' \in -1..MaxSystems
    <3>1. Initialized(TRUE, Unnamed) \in -1..MaxSystems
      BY <1>0, InitializedType
    <3> QED BY <1>0, <1>3, <3>1 DEF BsRace
  <2>2. bsEvents' \in 0..MaxBsEvents
    BY <1>3, <1>v DEF BsRace
  <2>3. BsEndCycle(n)
    BY <1>3 DEF BsRace
  <2>4. /\ bsBoot' \in [BsNodes -> BOOLEAN] /\ bsResult' \in [BsNodes -> {"none", "true", "false"}]
        /\ bsJob' \in [BsNodes -> {"none", "bootstrap", "post_bootstrap", "clone", "basebackup", "again", "follow"}]
    BY <1>3 DEF BsRace
  <2> QED BY <1>3, <1>e, <2>1, <2>2, <2>3, <2>4 DEF BsRace
<1>4. ASSUME NEW n \in BsNodes, BsPost(n) PROVE BsTypes'
  <2>1. bsEvents' \in 0..MaxBsEvents
    BY <1>4, <1>v DEF BsPost
  <2>2. /\ bsView' \in [BsNodes -> [key : -1..MaxSystems, leader : BsNodes \union {BsNobody}]]
        /\ bsAt' \in [BsNodes -> {"idle", "loaded", "new", "post", "name", "lead", "cancel", "clean", "joins", "runs"}]
    BY <1>4, <1>e DEF BsPost
  <2>3. /\ bsBoot' \in [BsNodes -> BOOLEAN]
        /\ bsJob' \in [BsNodes -> {"none", "bootstrap", "post_bootstrap", "clone", "basebackup", "again", "follow"}]
    BY <1>4 DEF BsPost
  <2>4. UNCHANGED <<bsKey, bsLeader, bsUnsafe, bsData, bsPg, bsUp, bsResult, bsSeen, bsSystems>>
    BY <1>4 DEF BsPost
  <2> QED BY <2>1, <2>2, <2>3, <2>4
<1>5. ASSUME NEW n \in BsNodes, BsName(n) PROVE BsTypes'
  BY <1>5, <1>w DEF BsName
<1>6. ASSUME NEW n \in BsNodes, BsTakeLeader(n) PROVE BsTypes'
  BY <1>6, <1>e, <1>v DEF BsTakeLeader
<1>7. ASSUME NEW n \in BsNodes, BsCancel(n) PROVE BsTypes'
  BY <1>7, <1>0, <1>v DEF BsCancel
<1>8. ASSUME NEW n \in BsNodes, BsClean(n) PROVE BsTypes'
  BY <1>8, <1>0, <1>s DEF BsClean, Cleaned
<1>9. ASSUME NEW n \in BsNodes, BsNewNode(n) PROVE BsTypes'
  <2>1. bsLeader' \in BsNodes \union {BsNobody}
    BY <1>9 DEF BsNewNode
  <2>2. bsData' \in [BsNodes -> -1..MaxSystems]
    BY <1>0, <1>9 DEF BsNewNode
  <2>3. bsJob' \in [BsNodes -> {"none", "bootstrap", "post_bootstrap", "clone", "basebackup", "again", "follow"}]
    BY <1>9 DEF BsNewNode
  <2> QED BY <1>9, <1>e, <2>1, <2>2, <2>3 DEF BsNewNode
<1>10. ASSUME NEW n \in BsNodes, BsJoin(n) PROVE BsTypes'
  <2>1. CASE Ends(n) /\ UNCHANGED <<bsKey, bsEvents, bsData>>
    BY <1>10, <1>s, <2>1 DEF BsJoin
  <2>2. CASE BsWriteKey(Initialized(bsView[n].key = Missing, bsData[n])) /\ BsGoes(n, "runs") /\ UNCHANGED <<bsLocal, bsView>>
    BY <1>10, <1>w, <2>2 DEF BsJoin
  <2>3. CASE BsGoes(n, "runs") /\ UNCHANGED <<bsKey, bsEvents, bsLocal, bsView>>
    BY <1>10, <2>3 DEF BsJoin
  <2> QED BY <1>10, <2>1, <2>2, <2>3 DEF BsJoin
<1>11. ASSUME NEW n \in BsNodes, BsRun(n) PROVE BsTypes'
  <2>1. /\ bsPg' \in [BsNodes -> {"down", "primary", "replica", "recovering"}]
        /\ bsLeader' \in BsNodes \union {BsNobody} /\ bsSeen' \in [BsNodes -> BOOLEAN]
    BY <1>11 DEF BsRun
  <2> QED BY <1>11, <1>e, <2>1 DEF BsRun
<1>12. ASSUME NEW n \in BsNodes, BsStart(n) PROVE BsTypes'
  BY <1>12 DEF BsStart
<1>13. ASSUME NEW n \in BsNodes, BsBootstrap(n) PROVE BsTypes'
  <2>1. bsData' \in [BsNodes -> -1..MaxSystems] /\ bsSystems' \in 0..MaxSystems
    BY <1>0, <1>13, <1>n DEF BsBootstrap, Initdb, CustomBootstrap
  <2>2. bsPg' \in [BsNodes -> {"down", "primary", "replica", "recovering"}]
    BY <1>13 DEF BsBootstrap, Initdb, CustomBootstrap
  <2>3. bsEvents' \in 0..MaxBsEvents
    BY <1>13, <1>v DEF BsBootstrap, Initdb, CustomBootstrap
  <2> QED BY <1>13, <2>1, <2>2, <2>3 DEF BsBootstrap
<1>14. ASSUME NEW n \in BsNodes, RecoveryEnds(n) PROVE BsTypes'
  BY <1>14 DEF RecoveryEnds
<1>15. ASSUME NEW n \in BsNodes, BsPostJob(n) PROVE BsTypes'
  BY <1>15, <1>v DEF BsPostJob
<1>16. ASSUME NEW n \in BsNodes, BsScript(n) PROVE BsTypes'
  BY <1>0, <1>16 DEF BsScript, Copied, BsEmptied, BsJobGoes, bsBesides
<1>17. ASSUME NEW n \in BsNodes, BsBasebackup(n) PROVE BsTypes'
  <2>1. /\ bsData' \in [BsNodes -> -1..MaxSystems]
        /\ bsJob' \in [BsNodes -> {"none", "bootstrap", "post_bootstrap", "clone", "basebackup", "again", "follow"}]
    BY <1>0, <1>17 DEF BsBasebackup, Copied, BsEmptied, BsFilled, BsJobGoes
  <2>2. bsEvents' \in 0..MaxBsEvents
    BY <1>17, <1>v DEF BsBasebackup
  <2> QED BY <1>17, <2>1, <2>2 DEF BsBasebackup, bsBesides
<1>18. ASSUME NEW n \in BsNodes, BsFollow(n) PROVE BsTypes'
  BY <1>18 DEF BsFollow, BsJobGoes, bsBesides
<1>19. ASSUME NEW n \in BsNodes, BsCrash(n) PROVE BsTypes'
  <2>1. bsData' \in [BsNodes -> -1..MaxSystems] /\ bsUnsafe' \in BOOLEAN
    BY <1>0, <1>19 DEF BsCrash
  <2> QED BY <1>19, <1>s, <1>v, <2>1 DEF BsCrash
<1>20. CASE BsLeaderExpires
  BY <1>20 DEF BsLeaderExpires
<1>21. CASE UNCHANGED bsVars
  BY <1>21 DEF bsVars
<1> QED BY <1>1, <1>2, <1>3, <1>4, <1>5, <1>6, <1>7, <1>8, <1>9, <1>10, <1>11, <1>12, <1>13, <1>14, <1>15, <1>16,
           <1>17, <1>18, <1>19, <1>20, <1>21 DEF BsNext, BsCycle, BsJobs
-----------------------------------------------------------------------------
\* A step of another node.
BsSame(m) ==
    /\ bsJob'[m] = bsJob[m] /\ bsAt'[m] = bsAt[m] /\ bsData'[m] = bsData[m]
    /\ bsBoot'[m] = bsBoot[m] /\ bsPg'[m] = bsPg[m] /\ bsView'[m] = bsView[m]

BsOnly(n) == \A m \in BsNodes \ {n} : BsSame(m)

LEMMA BsFrame ==
    ASSUME NEW m \in BsNodes, BsSame(m)
    PROVE  (Counts(m)' <=> Counts(m)) /\ (InBoot(m)' <=> InBoot(m)) /\ (BsNode(m) => BsNode(m)')
  BY DEF BsSame, Counts, InBoot, BsNode, Holds

LEMMA BsOthers ==
    ASSUME NEW n \in BsNodes, BsOnly(n), \A m \in BsNodes : BsNode(m), BsNode(n)'
    PROVE  \A m \in BsNodes : BsNode(m)'
  BY BsFrame DEF BsOnly

(***************************************************************************)
(* A step that makes no system, ends none and starts no bootstrap keeps    *)
(* the cluster one, if the key is written with the identifier of a system  *)
(* that counts, and the leader key is taken by a node that has one.        *)
(***************************************************************************)
LEMMA BsKeeps ==
    ASSUME BsTypes, OneCluster, NEW n \in BsNodes, BsOnly(n),
           Counts(n)' <=> Counts(n), Counts(n) => bsData'[n] = bsData[n], InBoot(n)' => InBoot(n),
           Counts(n) /\ bsJob[n] = "none" /\ ~bsBoot[n] => bsJob'[n] = "none" /\ ~bsBoot'[n],
           \/ bsKey' = bsKey
           \/ bsKey = Missing /\ bsKey' = Unnamed
           \/ Counts(n) /\ ~InBoot(n)' /\ bsKey' = bsData[n],
           \/ bsLeader' \in {bsLeader, BsNobody}
           \/ bsLeader' = n /\ Counts(n) /\ ~InBoot(n)'
    PROVE  OneCluster'
<1> USE BootstrapAssumption
<1>1. \A m \in BsNodes : (Counts(m)' <=> Counts(m)) /\ (InBoot(m)' => InBoot(m))
  BY BsFrame DEF BsOnly
<1>2. \A m \in BsNodes : Counts(m) => bsData'[m] = bsData[m]
  BY DEF BsOnly, BsSame
<1>3. OneData'
  BY <1>1, <1>2 DEF OneCluster, OneData
<1>4. KeyNames'
  <2> SUFFICES ASSUME Valid(bsKey'), NEW m \in BsNodes, Counts(m)' PROVE bsData'[m] = bsKey'
    BY DEF KeyNames
  <2>1. Counts(m) /\ bsData'[m] = bsData[m]
    BY <1>1, <1>2
  <2>2. CASE bsKey' = bsKey
    BY <2>1, <2>2 DEF OneCluster, KeyNames
  <2>3. CASE bsKey' = Unnamed
    BY <2>3 DEF Valid, Unnamed
  <2>4. CASE Counts(n) /\ bsKey' = bsData[n]
    BY <2>1, <2>4 DEF OneCluster, OneData
  <2> QED BY <2>2, <2>3, <2>4
<1>5. BootAlone'
  <2> SUFFICES ASSUME NEW m \in BsNodes, InBoot(m)'
               PROVE  /\ bsKey' = Unnamed /\ bsLeader' = BsNobody
                      /\ \A o \in BsNodes \ {m} : ~InBoot(o)' /\ ~Counts(o)'
    BY DEF BootAlone
  <2>1. bsKey = Unnamed /\ bsLeader = BsNobody /\ \A o \in BsNodes \ {m} : ~InBoot(o) /\ ~Counts(o)
    BY <1>1 DEF OneCluster, BootAlone
  <2>2. ~(Counts(n) /\ ~InBoot(n)')
    BY <2>1
  <2>3. bsKey' = Unnamed /\ bsLeader' = BsNobody
    BY <2>1, <2>2 DEF Missing, Unnamed
  <2> QED BY <1>1, <2>1, <2>3
<1>6. KeyMissing'
  <2> SUFFICES ASSUME bsKey' = Missing
               PROVE  \/ \A m \in BsNodes : ~Counts(m)'
                      \/ \A m \in BsNodes : Counts(m)' /\ bsJob'[m] = "none" /\ ~bsBoot'[m]
    BY DEF KeyMissing
  <2>1. bsKey = Missing
    BY DEF Missing, Unnamed, Counts, Valid
  <2>2. CASE \A m \in BsNodes : ~Counts(m)
    BY <1>1, <2>2
  <2>3. CASE \A m \in BsNodes : Counts(m) /\ bsJob[m] = "none" /\ ~bsBoot[m]
    BY <1>1, <2>3 DEF BsOnly, BsSame
  <2> QED BY <2>1, <2>2, <2>3 DEF OneCluster, KeyMissing
<1>7. LeaderCounts'
  <2>1. CASE bsLeader' \in {bsLeader, BsNobody}
    <3>1. bsLeader' # BsNobody => bsLeader' = bsLeader /\ bsLeader \in BsNodes
      BY <2>1 DEF BsTypes, BsTypeOK
    <3>2. bsLeader' # BsNobody => Counts(bsLeader) /\ ~InBoot(bsLeader)
      BY <3>1 DEF OneCluster, LeaderCounts
    <3>3. \A l \in BsNodes : bsLeader' = l => Counts(l)' /\ ~InBoot(l)'
      BY <1>1, <3>1, <3>2
    <3> QED BY <3>1, <3>3 DEF LeaderCounts, Counts, InBoot, Valid
  <2>2. CASE bsLeader' = n /\ Counts(n) /\ ~InBoot(n)'
    BY <1>1, <2>2 DEF LeaderCounts, Counts, InBoot, Valid
  <2> QED BY <2>1, <2>2
<1> QED BY <1>3, <1>4, <1>5, <1>6, <1>7 DEF OneCluster
\* The cases in which nothing but the cycle of the node goes on, or the key is written.
LEMMA BsCycleStep ==
    ASSUME BsTypes, OneCluster, \A m \in BsNodes : BsNode(m), NEW n \in BsNodes,
           BsLoad(n) \/ BsCheckKey(n) \/ BsPost(n) \/ BsName(n) \/ BsTakeLeader(n) \/ BsNewNode(n) \/ BsJoin(n) \/ BsRun(n)
    PROVE  OneCluster' /\ \A m \in BsNodes : BsNode(m)'
<1> SUFFICES BsOnly(n) /\ BsNode(n)' /\ OneCluster'
  BY BsOthers
<1> USE BootstrapAssumption DEF bsStore, bsLocal, bsCount, BsGoes
<1>0. BsNode(n)
  OBVIOUS
<1>t. BsTypeOK /\ bsView \in [BsNodes -> [key : -1..MaxSystems, leader : BsNodes \union {BsNobody}]]
  BY DEF BsTypes
<1>w. ASSUME BsWriteKey(Initialized(bsView[n].key = Missing, bsData[n])) PROVE bsKey' \in {bsKey, bsData[n]}
  <2>1. bsData[n] \in -1..MaxSystems
    BY <1>t DEF BsTypeOK
  <2> QED BY <1>w, <2>1, InitializedType DEF BsWriteKey
<1>1. CASE BsLoad(n)
  <2>1. BsOnly(n)
    BY <1>1, <1>t DEF BsLoad, BsOnly, BsSame, BsTypeOK
  <2>2. /\ bsAt[n] = "idle" /\ bsAt'[n] = "loaded" /\ UNCHANGED <<bsKey, bsLeader, bsJob, bsData, bsBoot, bsPg>>
        /\ bsView'[n].leader = bsLeader
    BY <1>1, <1>t DEF BsLoad, BsTypeOK
  <2>3. (InBoot(n)' <=> InBoot(n)) /\ (Counts(n)' <=> Counts(n))
    BY <2>2 DEF InBoot, Counts
  <2>4. InBoot(n)' => ~Holds(n)'
    <3>1. InBoot(n) => bsLeader = BsNobody
      BY DEF OneCluster, BootAlone
    <3> QED BY <2>2, <2>3, <3>1 DEF Holds
  <2>5. BsNode(n)'
    BY <1>0, <2>2, <2>4 DEF BsNode
  <2>6. OneCluster'
    BY <2>1, <2>2, <2>3, BsKeeps
  <2> QED BY <2>1, <2>5, <2>6
<1>2. CASE BsCheckKey(n)
  <2>1. BsOnly(n)
    BY <1>2, <1>t DEF BsCheckKey, BsOnly, BsSame, BsTypeOK, BsEndCycle
  <2>2. bsAt[n] = "loaded" /\ UNCHANGED <<bsLeader, bsJob, bsData, bsBoot, bsPg>>
    BY <1>2 DEF BsCheckKey
  <2>3. \/ bsAt'[n] = "idle" /\ bsView'[n] = BsNoView
        \/ bsJob[n] = "none" /\ bsBoot[n] /\ bsAt'[n] = "post" /\ UNCHANGED bsView
        \/ bsJob[n] = "none" /\ ~bsBoot[n] /\ bsData[n] = Missing /\ bsAt'[n] = "new" /\ UNCHANGED bsView
        \/ bsJob[n] = "none" /\ ~bsBoot[n] /\ Valid(bsData[n]) /\ bsAt'[n] = "joins" /\ UNCHANGED bsView
    BY <1>2, <1>t DEF BsCheckKey, BsTypeOK, BsEndCycle
  <2>4. (InBoot(n)' <=> InBoot(n)) /\ (Counts(n)' <=> Counts(n))
    BY <2>2, <2>3 DEF InBoot, Counts
  <2>5. Holds(n)' => Holds(n)
    BY <2>3 DEF Holds, BsNoView
  <2>6. BsNode(n)'
    BY <1>0, <2>2, <2>3, <2>4, <2>5 DEF BsNode
  <2>7. bsKey' = bsKey \/ (Counts(n) /\ ~InBoot(n)' /\ bsKey' = bsData[n])
    <3>1. CASE bsKey' = bsKey
      BY <3>1
    <3>2. CASE bsKey' # bsKey
      <4>1. Holds(n) /\ Valid(bsData[n]) /\ bsKey' = bsData[n]
        BY <1>2, <1>w, <3>2 DEF BsCheckKey
      <4>2. ~InBoot(n)
        BY <1>0, <4>1 DEF BsNode
      <4> QED BY <2>2, <2>4, <4>1, <4>2 DEF Counts
    <3> QED BY <3>1, <3>2
  <2>8. OneCluster'
    BY <2>1, <2>2, <2>4, <2>7, BsKeeps
  <2> QED BY <2>1, <2>6, <2>8
<1>3. CASE BsPost(n)
  <2>1. BsOnly(n)
    BY <1>3, <1>t DEF BsPost, BsOnly, BsSame, BsTypeOK, BsEndCycle
  <2>2. bsAt[n] = "post" /\ UNCHANGED <<bsKey, bsLeader, bsData, bsPg>> /\ bsBoot[n] /\ bsJob[n] = "none"
    BY <1>0, <1>3 DEF BsPost, BsNode
  <2>3. \/ bsAt'[n] = "cancel" /\ UNCHANGED <<bsJob, bsBoot, bsView>>
        \/ bsAt'[n] = "idle" /\ bsView'[n] = BsNoView /\ UNCHANGED <<bsJob, bsBoot>>
        \/ bsAt'[n] = "idle" /\ bsView'[n] = BsNoView /\ bsJob'[n] = "post_bootstrap" /\ UNCHANGED bsBoot
        \/ bsAt'[n] \in {"name", "cancel"} /\ bsPg[n] # "down" /\ ~bsBoot'[n] /\ UNCHANGED <<bsJob, bsView>>
    BY <1>3, <1>t DEF BsPost, BsTypeOK, BsEndCycle
  <2>4. InBoot(n) /\ InBoot(n)' /\ (Counts(n)' <=> Counts(n))
    BY <2>2, <2>3 DEF InBoot, Counts
  <2>5. Holds(n)' => Holds(n)
    BY <2>3 DEF Holds, BsNoView
  <2>6. BsNode(n)'
    BY <1>0, <2>2, <2>3, <2>4, <2>5 DEF BsNode
  <2>7. OneCluster'
    BY <2>1, <2>2, <2>4, BsKeeps
  <2> QED BY <2>1, <2>6, <2>7
<1>4. CASE BsName(n)
  <2>1. BsOnly(n)
    BY <1>4, <1>t DEF BsName, BsOnly, BsSame, BsTypeOK
  <2>2. /\ bsAt[n] = "name" /\ bsAt'[n] = "lead" /\ UNCHANGED <<bsLeader, bsJob, bsData, bsBoot, bsPg, bsView>>
        /\ bsKey' \in {bsKey, bsData[n]}
    BY <1>4, <1>t, <1>w DEF BsName, BsTypeOK
  <2>3. Counts(n) /\ Counts(n)' /\ ~InBoot(n)'
    BY <1>0, <2>2 DEF InBoot, Counts, BsNode
  <2>4. BsNode(n)'
    BY <1>0, <2>2, <2>3 DEF BsNode
  <2>5. OneCluster'
    BY <2>1, <2>2, <2>3, BsKeeps
  <2> QED BY <2>1, <2>4, <2>5
<1>5. CASE BsTakeLeader(n)
  <2>1. BsOnly(n)
    BY <1>5, <1>t DEF BsTakeLeader, BsOnly, BsSame, BsTypeOK, BsEndCycle
  <2>2. /\ bsAt[n] = "lead" /\ bsAt'[n] = "idle" /\ UNCHANGED <<bsKey, bsJob, bsData, bsBoot, bsPg>>
        /\ bsLeader' \in {bsLeader, n}
    BY <1>5, <1>t DEF BsTakeLeader, BsTypeOK, BsEndCycle
  <2>3. Counts(n) /\ Counts(n)' /\ ~InBoot(n)'
    BY <1>0, <2>2 DEF InBoot, Counts, BsNode
  <2>4. BsNode(n)'
    BY <1>0, <2>2, <2>3 DEF BsNode
  <2>5. OneCluster'
    BY <2>1, <2>2, <2>3, BsKeeps
  <2> QED BY <2>1, <2>4, <2>5
<1>6. CASE BsNewNode(n)
  <2>1. BsOnly(n)
    BY <1>6, <1>t DEF BsNewNode, BsOnly, BsSame, BsTypeOK, BsEndCycle
  <2>2. /\ bsAt[n] = "new" /\ bsAt'[n] = "idle" /\ UNCHANGED <<bsKey, bsBoot, bsPg>>
        /\ bsLeader' \in {bsLeader, BsNobody}
        /\ (UNCHANGED <<bsJob, bsData>> \/ (bsJob'[n] = "clone" /\ bsData'[n] = Unnamed))
    BY <1>6, <1>t DEF BsNewNode, BsTypeOK, BsEndCycle
  <2>3. bsData[n] = Missing /\ ~bsBoot[n] /\ bsPg[n] = "down" /\ bsJob[n] = "none"
    BY <1>0, <2>2 DEF BsNode, Valid, Missing
  <2>4. ~Counts(n) /\ ~Counts(n)' /\ ~InBoot(n)'
    BY <2>2, <2>3 DEF InBoot, Counts, Valid, Missing, Unnamed
  <2>5. BsNode(n)'
    BY <2>2, <2>3, <2>4 DEF BsNode, Valid, Unnamed
  <2>6. OneCluster'
    BY <2>1, <2>2, <2>4, BsKeeps
  <2> QED BY <2>1, <2>5, <2>6
<1>7. CASE BsJoin(n)
  <2>1. BsOnly(n)
    BY <1>7, <1>t DEF BsJoin, BsOnly, BsSame, BsTypeOK, BsEndCycle, Ends
  <2>2. bsAt[n] = "joins" /\ UNCHANGED <<bsLeader, bsData>> /\ bsKey' \in {bsKey, bsData[n]}
    BY <1>7, <1>w DEF BsJoin
  <2>3. \/ bsAt'[n] = "idle" /\ bsJob'[n] = "none" /\ ~bsBoot'[n] /\ bsPg'[n] = "down"
        \/ bsAt'[n] = "runs" /\ UNCHANGED <<bsJob, bsBoot, bsPg, bsView>>
    BY <1>7, <1>t DEF BsJoin, BsTypeOK, BsEndCycle, Ends
  <2>4. Counts(n) /\ Counts(n)' /\ ~InBoot(n)' /\ (bsJob[n] = "none" => bsJob'[n] = "none") /\ ~bsBoot'[n]
    BY <1>0, <2>2, <2>3 DEF InBoot, Counts, BsNode
  <2>5. BsNode(n)'
    BY <1>0, <2>2, <2>3, <2>4 DEF BsNode
  <2>6. OneCluster'
    BY <2>1, <2>2, <2>4, BsKeeps
  <2> QED BY <2>1, <2>5, <2>6
<1>8. CASE BsRun(n)
  <2>1. BsOnly(n)
    BY <1>8, <1>t DEF BsRun, BsOnly, BsSame, BsTypeOK, BsEndCycle
  <2>2. /\ bsAt[n] = "runs" /\ bsAt'[n] = "idle" /\ UNCHANGED <<bsKey, bsJob, bsData, bsBoot>>
        /\ bsLeader' \in {bsLeader, n}
    BY <1>8, <1>t DEF BsRun, BsTypeOK, BsEndCycle
  <2>3. Counts(n) /\ Counts(n)' /\ ~InBoot(n)'
    BY <1>0, <2>2 DEF InBoot, Counts, BsNode
  <2>4. BsNode(n)'
    BY <1>0, <2>2, <2>3 DEF BsNode
  <2>5. OneCluster'
    BY <2>1, <2>2, <2>3, BsKeeps
  <2> QED BY <2>1, <2>4, <2>5
<1> QED BY <1>1, <1>2, <1>3, <1>4, <1>5, <1>6, <1>7, <1>8

\* The race, the bootstrap and its end.
LEMMA BsBootStep ==
    ASSUME BsTypes, OneCluster, \A m \in BsNodes : BsNode(m), ~bsUnsafe', NEW n \in BsNodes,
           BsRace(n) \/ BsBootstrap(n) \/ BsCancel(n) \/ BsClean(n) \/ BsCrash(n)
    PROVE  OneCluster' /\ \A m \in BsNodes : BsNode(m)'
<1> SUFFICES BsOnly(n) /\ BsNode(n)' /\ OneCluster'
  BY BsOthers
<1> USE BootstrapAssumption DEF bsStore, bsLocal, bsCount, BsGoes
<1>0. BsNode(n)
  OBVIOUS
<1>t. BsTypeOK /\ bsView \in [BsNodes -> [key : -1..MaxSystems, leader : BsNodes \union {BsNobody}]]
      /\ bsSystems \in 0..MaxSystems
  BY DEF BsTypes
<1>o. ASSUME BsOnly(n) PROVE \A m \in BsNodes \ {n} : (Counts(m)' <=> Counts(m)) /\ (InBoot(m)' <=> InBoot(m))
                                                      /\ bsData'[m] = bsData[m]
  BY <1>o, BsFrame DEF BsOnly, BsSame
<1>1. CASE BsRace(n)
  <2>1. BsOnly(n)
    BY <1>1, <1>t DEF BsRace, BsOnly, BsSame, BsTypeOK, BsEndCycle
  <2>2. /\ bsAt[n] = "new" /\ bsAt'[n] = "idle" /\ UNCHANGED <<bsLeader, bsData, bsPg>>
        /\ bsView'[n] = BsNoView
    BY <1>1, <1>t DEF BsRace, BsTypeOK, BsEndCycle
  <2>3. bsData[n] = Missing /\ ~bsBoot[n] /\ bsPg[n] = "down" /\ bsJob[n] = "none" /\ ~Counts(n) /\ ~Counts(n)'
    BY <1>0, <2>2 DEF BsNode, Counts, Valid, Missing
  <2>4. CASE UNCHANGED <<bsBoot, bsJob>>
    <3>1. bsKey' = bsKey \/ (bsKey = Missing /\ bsKey' = Unnamed)
      BY <1>1, <2>4 DEF BsRace, Creates, Initialized
    <3>2. ~InBoot(n)'
      BY <2>2, <2>3, <2>4 DEF InBoot
    <3>3. BsNode(n)'
      BY <1>0, <2>2, <2>3, <2>4, <3>2 DEF BsNode
    <3>4. OneCluster'
      BY <2>1, <2>2, <2>3, <2>4, <3>1, <3>2, BsKeeps
    <3> QED BY <2>1, <3>3, <3>4
  <2>5. CASE bsKey = Missing /\ bsKey' = Unnamed /\ bsBoot' = [bsBoot EXCEPT ![n] = TRUE]
             /\ bsJob' = [bsJob EXCEPT ![n] = "bootstrap"]
    <3>1. bsBoot'[n] /\ bsJob'[n] = "bootstrap"
      BY <1>t, <2>5 DEF BsTypeOK
    <3>2. BsNode(n)'
      <4>1. ~Holds(n)'
        BY <2>2 DEF Holds, BsNoView
      <4> QED BY <2>2, <2>3, <3>1, <4>1 DEF BsNode, Valid, Missing
    <3>3. \A m \in BsNodes : ~Counts(m) /\ ~InBoot(m)
      BY <2>3, <2>5 DEF OneCluster, KeyMissing, BootAlone, Missing, Unnamed
    <3>4. bsLeader = BsNobody
      BY <1>t, <3>3 DEF OneCluster, LeaderCounts, BsTypeOK
    <3>5. \A m \in BsNodes : ~Counts(m)'
      BY <1>o, <2>1, <2>3, <3>3
    <3>6. \A m \in BsNodes \ {n} : ~InBoot(m)'
      BY <1>o, <2>1, <3>3
    <3>7. BootAlone'
      BY <2>2, <2>5, <3>4, <3>5, <3>6 DEF BootAlone
    <3>8. OneData' /\ KeyNames' /\ KeyMissing' /\ LeaderCounts'
      BY <2>2, <2>5, <3>4, <3>5 DEF OneData, KeyNames, KeyMissing, LeaderCounts, Missing, Unnamed
    <3> QED BY <2>1, <3>2, <3>7, <3>8 DEF OneCluster
  <2> QED BY <1>1, <2>4, <2>5 DEF BsRace, Creates
<1>2. CASE BsBootstrap(n)
  <2>1. BsOnly(n)
    BY <1>2, <1>t DEF BsBootstrap, Initdb, CustomBootstrap, NewSystem, BsOnly, BsSame, BsTypeOK
  <2>2. /\ bsJob[n] = "bootstrap" /\ bsJob'[n] = "none" /\ UNCHANGED <<bsKey, bsLeader, bsBoot, bsView, bsAt>>
        /\ (Valid(bsData'[n]) \/ (bsData'[n] = Unnamed /\ UNCHANGED bsPg))
    <3>1. bsJob[n] = "bootstrap" /\ bsJob'[n] = "none" /\ UNCHANGED <<bsKey, bsLeader, bsBoot, bsView, bsAt>>
      BY <1>2, <1>t DEF BsBootstrap, BsTypeOK
    <3>2. NewSystem(n) \/ (bsData' = [bsData EXCEPT ![n] = Unnamed] /\ UNCHANGED bsPg)
      BY <1>2 DEF BsBootstrap, Initdb, CustomBootstrap
    <3>3. NewSystem(n) => Valid(bsData'[n])
      BY <1>t DEF NewSystem, Valid, BsTypeOK
    <3> QED BY <1>t, <3>1, <3>2, <3>3 DEF BsTypeOK
  <2>3. bsBoot[n] /\ bsAt[n] \in {"idle", "loaded"} /\ ~Valid(bsData[n]) /\ bsPg[n] = "down"
    BY <1>0, <2>2 DEF BsNode
  <2>4. InBoot(n) /\ InBoot(n)'
    BY <2>2, <2>3 DEF InBoot
  <2>5. BsNode(n)'
    BY <1>0, <2>2, <2>3, <2>4 DEF BsNode, Holds
  <2>6. bsKey = Unnamed /\ bsLeader = BsNobody /\ \A m \in BsNodes \ {n} : ~InBoot(m) /\ ~Counts(m)
    BY <2>4 DEF OneCluster, BootAlone
  <2>7. \A m \in BsNodes \ {n} : ~InBoot(m)' /\ ~Counts(m)'
    BY <1>o, <2>1, <2>6
  <2>8. OneData' /\ BootAlone'
    BY <2>2, <2>6, <2>7 DEF OneData, BootAlone
  <2>9. KeyNames' /\ KeyMissing' /\ LeaderCounts'
    BY <2>2, <2>6 DEF KeyNames, KeyMissing, LeaderCounts, Valid, Missing, Unnamed
  <2> QED BY <2>1, <2>5, <2>8, <2>9 DEF OneCluster
<1>3. CASE BsCancel(n)
  <2>1. BsOnly(n)
    BY <1>3, <1>t DEF BsCancel, BsOnly, BsSame, BsTypeOK
  <2>2. /\ bsAt[n] = "cancel" /\ bsAt'[n] = "clean" /\ UNCHANGED <<bsLeader, bsJob, bsData, bsBoot, bsPg, bsView>>
        /\ bsKey' \in {bsKey, Missing}
    BY <1>3, <1>t DEF BsCancel, BsTypeOK
  <2>3. InBoot(n) /\ ~InBoot(n)' /\ ~Counts(n)'
    BY <2>2 DEF InBoot, Counts
  <2>4. BsNode(n)'
    BY <1>0, <2>2, <2>3 DEF BsNode
  <2>5. bsKey = Unnamed /\ bsLeader = BsNobody /\ \A m \in BsNodes \ {n} : ~InBoot(m) /\ ~Counts(m)
    BY <2>3 DEF OneCluster, BootAlone
  <2>6. \A m \in BsNodes : ~InBoot(m)' /\ ~Counts(m)'
    BY <1>o, <2>1, <2>3, <2>5
  <2>7. OneCluster'
    BY <2>2, <2>5, <2>6 DEF OneCluster, OneData, KeyNames, BootAlone, KeyMissing, LeaderCounts
  <2> QED BY <2>1, <2>4, <2>7
<1>4. CASE BsClean(n)
  <2>1. BsOnly(n)
    BY <1>4, <1>t DEF BsClean, Cleaned, Ends, BsOnly, BsSame, BsTypeOK, BsEndCycle
  <2>2. /\ bsAt[n] = "clean" /\ bsAt'[n] = "idle" /\ UNCHANGED <<bsKey, bsLeader>>
        /\ bsData'[n] = Missing /\ bsJob'[n] = "none" /\ ~bsBoot'[n] /\ bsPg'[n] = "down"
    BY <1>4, <1>t DEF BsClean, Cleaned, Ends, BsTypeOK, BsEndCycle
  <2>3. ~Counts(n) /\ ~Counts(n)' /\ ~InBoot(n)'
    BY <2>2 DEF Counts, InBoot, Valid, Missing
  <2>4. BsNode(n)'
    BY <2>2, <2>3 DEF BsNode
  <2>5. OneCluster'
    BY <2>1, <2>2, <2>3, BsKeeps
  <2> QED BY <2>1, <2>4, <2>5
<1>5. CASE BsCrash(n)
  <2>1. BsOnly(n)
    BY <1>5, <1>t DEF BsCrash, Ends, BsOnly, BsSame, BsTypeOK, BsEndCycle
  <2>2. /\ bsAt[n] # "clean" /\ bsAt'[n] = "idle" /\ UNCHANGED <<bsKey, bsLeader>>
        /\ bsJob'[n] = "none" /\ ~bsBoot'[n] /\ bsPg'[n] = "down"
        /\ bsData'[n] = IF bsJob[n] \in {"bootstrap", "clone", "basebackup", "again"} THEN Unnamed ELSE bsData[n]
    BY <1>5, <1>t DEF BsCrash, Ends, BsTypeOK, BsEndCycle
  <2>3. /\ Counts(n)' <=> Counts(n)
        /\ Counts(n) => bsData'[n] = bsData[n]
        /\ ~InBoot(n)'
    BY <1>0, <2>2 DEF Counts, InBoot, BsNode, Valid, Unnamed
  <2>4. BsNode(n)'
    BY <2>2, <2>3 DEF BsNode
  <2>5. OneCluster'
    BY <2>1, <2>2, <2>3, BsKeeps
  <2> QED BY <2>1, <2>4, <2>5
<1> QED BY <1>1, <1>2, <1>3, <1>4, <1>5

\* The other tasks, and the start of a node.
LEMMA BsJobStep ==
    ASSUME BsTypes, OneCluster, \A m \in BsNodes : BsNode(m), NEW n \in BsNodes,
           RecoveryEnds(n) \/ BsPostJob(n) \/ BsScript(n) \/ BsBasebackup(n) \/ BsFollow(n) \/ BsStart(n)
    PROVE  OneCluster' /\ \A m \in BsNodes : BsNode(m)'
<1> SUFFICES BsOnly(n) /\ BsNode(n)' /\ OneCluster'
  BY BsOthers
<1> USE BootstrapAssumption DEF bsStore, bsCount, bsBesides, BsJobGoes
<1>0. BsNode(n)
  OBVIOUS
<1>t. BsTypeOK
  BY DEF BsTypes
<1>1. CASE RecoveryEnds(n) \/ BsPostJob(n) \/ BsFollow(n) \/ BsStart(n)
  <2>1. BsOnly(n)
    BY <1>1, <1>t DEF RecoveryEnds, BsPostJob, BsFollow, BsStart, BsOnly, BsSame, BsTypeOK
  <2>2. /\ UNCHANGED <<bsKey, bsLeader, bsData, bsBoot, bsView, bsAt>>
        /\ bsJob'[n] \in {bsJob[n], "none"}
        /\ UNCHANGED bsPg \/ bsJob[n] = "follow" \/ bsPg[n] = "recovering"
    BY <1>1, <1>t DEF RecoveryEnds, BsPostJob, BsFollow, BsStart, BsTypeOK
  <2>3. (Counts(n)' <=> Counts(n)) /\ (InBoot(n)' <=> InBoot(n))
    BY <2>2 DEF Counts, InBoot
  <2>4. BsNode(n)'
    BY <1>0, <2>2, <2>3 DEF BsNode, Holds
  <2>5. OneCluster'
    BY <2>1, <2>2, <2>3, BsKeeps
  <2> QED BY <2>1, <2>4, <2>5
<1>2. CASE BsScript(n) \/ BsBasebackup(n)
  <2>1. BsOnly(n)
    BY <1>2, <1>t DEF BsScript, BsBasebackup, Copied, BsEmptied, BsFilled, BsOnly, BsSame, BsTypeOK
  <2>2. /\ bsJob[n] \in {"clone", "basebackup", "again"} /\ UNCHANGED <<bsKey, bsLeader, bsBoot, bsView, bsAt, bsPg>>
        /\ \/ bsData'[n] \in {Missing, Unnamed} /\ bsJob'[n] \in {"basebackup", "again", "none"}
           \/ bsLeader # BsNobody /\ bsData'[n] = bsData[bsLeader] /\ bsJob'[n] = "follow"
    BY <1>2, <1>t DEF BsScript, BsBasebackup, Copied, BsEmptied, BsFilled, BsTypeOK
  <2>3. bsAt[n] \in {"idle", "loaded"} /\ ~Valid(bsData[n]) /\ bsPg[n] = "down" /\ ~Counts(n)
    BY <1>0, <2>2 DEF BsNode, Counts
  <2>4. InBoot(n)' <=> InBoot(n)
    BY <2>2 DEF InBoot
  <2>5. CASE bsData'[n] \in {Missing, Unnamed} /\ bsJob'[n] \in {"basebackup", "again", "none"}
    <3>1. ~Valid(bsData'[n]) /\ ~Counts(n)'
      BY <2>5 DEF Counts, Valid, Missing, Unnamed
    <3>2. BsNode(n)'
      BY <1>0, <2>2, <2>3, <2>4, <2>5, <3>1 DEF BsNode, Holds
    <3>3. OneCluster'
      BY <2>1, <2>2, <2>3, <2>4, <3>1, BsKeeps
    <3> QED BY <2>1, <3>2, <3>3
  <2>6. CASE bsLeader # BsNobody /\ bsData'[n] = bsData[bsLeader] /\ bsJob'[n] = "follow"
    <3>1. bsLeader \in BsNodes /\ Counts(bsLeader) /\ bsLeader # n
      BY <1>t, <2>3, <2>6 DEF OneCluster, LeaderCounts, BsTypeOK
    <3>2. Valid(bsData'[n]) /\ Counts(n)'
      BY <2>2, <2>3, <2>6, <3>1 DEF Counts
    <3>3. BsNode(n)'
      BY <1>0, <2>2, <2>3, <2>4, <2>6, <3>2 DEF BsNode, Holds
    <3>4. \A m \in BsNodes : ~InBoot(m) /\ ~InBoot(m)'
      <4>1. \A m \in BsNodes : ~InBoot(m)
        BY <2>6 DEF OneCluster, BootAlone
      <4> QED BY <2>1, <2>4, <4>1, BsFrame DEF BsOnly
    <3>5. bsKey # Missing
      BY <2>2, <2>3, <3>1 DEF OneCluster, KeyMissing
    <3>6. \A m \in BsNodes : Counts(m)' => bsData'[m] = bsData[bsLeader]
      <4>1. \A m \in BsNodes \ {n} : (Counts(m)' <=> Counts(m)) /\ bsData'[m] = bsData[m]
        BY <2>1, BsFrame DEF BsOnly, BsSame
      <4>2. \A m \in BsNodes : Counts(m) => bsData[m] = bsData[bsLeader]
        BY <3>1 DEF OneCluster, OneData
      <4> QED BY <2>6, <4>1, <4>2
    <3>7. OneData' /\ BootAlone' /\ KeyMissing'
      BY <2>2, <3>4, <3>5, <3>6 DEF OneData, BootAlone, KeyMissing
    <3>8. KeyNames'
      <4>1. Valid(bsKey) => bsData[bsLeader] = bsKey
        BY <3>1 DEF OneCluster, KeyNames
      <4> QED BY <2>2, <3>6, <4>1 DEF KeyNames
    <3>9. LeaderCounts'
      <4>1. Counts(bsLeader)' /\ ~InBoot(bsLeader)'
        <5>1. BsSame(bsLeader) /\ bsLeader' = bsLeader
          BY <2>1, <2>2, <3>1 DEF BsOnly
        <5>2. bsAt'[bsLeader] # "clean" /\ Valid(bsData'[bsLeader])
          BY <3>1, <5>1 DEF BsSame, Counts
        <5> QED BY <3>1, <3>4, <5>1, <5>2 DEF Counts, InBoot
      <4> QED BY <4>1 DEF LeaderCounts
    <3> QED BY <2>1, <3>3, <3>7, <3>8, <3>9 DEF OneCluster
  <2> QED BY <2>2, <2>5, <2>6
<1> QED BY <1>1, <1>2

LEMMA BsLeaderStep ==
    ASSUME BsTypes, OneCluster, \A m \in BsNodes : BsNode(m), BsLeaderExpires \/ UNCHANGED bsVars
    PROVE  OneCluster' /\ \A m \in BsNodes : BsNode(m)'
<1>1. UNCHANGED <<bsKey, bsJob, bsAt, bsData, bsBoot, bsPg, bsView>> /\ bsLeader' \in {bsLeader, BsNobody}
  BY DEF BsLeaderExpires, bsLocal, bsCount, bsVars
<1>2. \A m \in BsNodes : (Counts(m)' <=> Counts(m)) /\ (InBoot(m)' <=> InBoot(m)) /\ BsNode(m)'
  BY <1>1 DEF Counts, InBoot, BsNode, Holds
<1>3. OneData' /\ KeyNames' /\ KeyMissing' /\ BootAlone'
  BY <1>1, <1>2 DEF OneCluster, OneData, KeyNames, KeyMissing, BootAlone
<1>4. LeaderCounts'
  BY <1>1 DEF OneCluster, LeaderCounts, Counts, InBoot
<1> QED BY <1>2, <1>3, <1>4 DEF OneCluster

LEMMA BsStep == BsInv /\ [BsNext]_bsVars => BsInv'
<1> SUFFICES ASSUME BsInv, [BsNext]_bsVars PROVE BsInv'
  OBVIOUS
<1>1. BsTypes /\ BsTypes'
  BY BsTypesStep DEF BsInv
<1>2. ASSUME ~bsUnsafe' PROVE OneCluster' /\ \A m \in BsNodes : BsNode(m)'
  <2>1. ~bsUnsafe
    BY <1>2 DEF BsNext, BsCycle, BsJobs, bsVars, bsCount, bsBesides, BsLoad, BsCheckKey, BsRace, BsPost, BsName, BsTakeLeader,
         BsCancel, BsClean, BsNewNode, BsJoin, BsRun, BsStart, BsBootstrap, RecoveryEnds, BsPostJob, BsScript,
         BsBasebackup, BsFollow, BsCrash, BsLeaderExpires
  <2>2. OneCluster /\ \A m \in BsNodes : BsNode(m)
    BY <2>1 DEF BsInv
  <2> QED BY <1>1, <1>2, <2>2, BsCycleStep, BsBootStep, BsJobStep, BsLeaderStep DEF BsNext, BsCycle, BsJobs
<1> QED BY <1>1, <1>2 DEF BsInv

(***************************************************************************)
(* However many nodes race for /initialize, crash, or lose requests and    *)
(* answers, those that run outside of a bootstrap run one system, unless   *)
(* the key was deleted twice or its deleter died before it moved its data. *)
(***************************************************************************)
THEOREM OneSystemCorrect == BsSpec => []OneSystem
<1>1. BsInit => BsInv
  BY BsInitial
<1>2. BsInv /\ [BsNext]_bsVars => BsInv'
  BY BsStep
<1>3. BsInv => OneSystem
  <2> SUFFICES ASSUME BsInv, ~bsUnsafe, NEW m \in BsNodes, NEW n \in BsNodes,
                      bsPg[m] # "down", bsPg[n] # "down", bsAt[m] # "clean", bsAt[n] # "clean"
               PROVE  bsData[m] = bsData[n]
    BY DEF OneSystem
  <2>1. Counts(m) /\ Counts(n)
    BY DEF BsInv, BsNode, Counts
  <2> QED BY <2>1 DEF BsInv, OneCluster, OneData
<1> QED BY <1>1, <1>2, <1>3, PTL DEF BsSpec

(***************************************************************************)
(* The identifier in /initialize is for ever, with the same exceptions: no *)
(* bootstrap that goes on or fails elsewhere replaces or removes it.       *)
(***************************************************************************)
THEOREM IdentityKeptCorrect == BsSpec => IdentityKept
<1>1. BsInv /\ [BsNext]_bsVars => [Valid(bsKey) => bsKey' = bsKey \/ bsUnsafe]_bsVars
  <2> SUFFICES ASSUME BsInv, [BsNext]_bsVars, Valid(bsKey), ~bsUnsafe, bsKey' # bsKey PROVE FALSE
    OBVIOUS
  <2>0. BsTypes /\ OneCluster /\ (\A m \in BsNodes : BsNode(m)) /\ bsKey \notin {Missing, Unnamed}
    BY DEF BsInv, Valid, Missing, Unnamed
  <2>1. PICK n \in BsNodes : BsCheckKey(n) \/ BsRace(n) \/ BsName(n) \/ BsCancel(n) \/ BsJoin(n)
    BY DEF BsNext, BsCycle, BsJobs, bsVars, bsStore, bsLocal, bsCount, bsBesides, BsLoad, BsPost, BsTakeLeader,
         BsClean, BsNewNode, BsRun, BsStart, BsBootstrap, RecoveryEnds, BsPostJob, BsScript,
         BsBasebackup, BsFollow, BsCrash, BsLeaderExpires
  <2>2. ~InBoot(n)
    BY <2>0 DEF OneCluster, BootAlone
  <2>3. CASE BsRace(n)
    BY <2>0, <2>3 DEF BsRace, Creates, Initialized
  <2>4. CASE BsName(n) \/ BsCancel(n)
    BY <2>2, <2>4 DEF BsName, BsCancel, InBoot
  <2>5. CASE BsCheckKey(n) \/ BsJoin(n)
    <3>1. BsWriteKey(Initialized(bsView[n].key = Missing, bsData[n])) /\ Valid(bsData[n]) /\ bsAt[n] # "clean"
      BY <2>0, <2>5 DEF BsCheckKey, BsJoin, BsNode
    <3>2. bsData[n] = bsKey
      BY <2>0, <3>1 DEF OneCluster, KeyNames, Counts
    <3> QED BY <3>1, <3>2 DEF BsWriteKey, Initialized
  <2> QED BY <2>1, <2>3, <2>4, <2>5
<1> QED BY <1>1, BsInitial, BsStep, PTL DEF BsSpec, IdentityKept

-----------------------------------------------------------------------------
(***************************************************************************)
(* Slots of absent members.  A member that may leave now was there during  *)
(* the whole of the last tick, in which every leader has run a cycle: it   *)
(* has seen the member, or took the time when it found the slot in         *)
(* /status.  What it retains is in /status until the time is over, so      *)
(* nobody who loads the cluster meanwhile drops the slot.                  *)
(***************************************************************************)
MemberStates == [here : BOOLEAN, since : Int, lsn : Nat, left : Nat, retained : BOOLEAN]
SlotStates == [there : BOOLEAN, lsn : Nat, xmin : BOOLEAN, late : BOOLEAN]

MsType ==
    /\ msLeader \in MsNodes \union {MsNone}
    /\ msMember \in MemberStates
    /\ msStatus \in [lsn : Nat, retain : BOOLEAN, late : BOOLEAN]
    /\ msWal \in Nat /\ msNow \in Nat /\ msDone \subseteq MsNodes /\ msForgot \in BOOLEAN
    /\ msRetain \in [MsNodes -> Int]
    /\ msSlot \in [MsNodes -> SlotStates]
    /\ msKnown \in [MsNodes -> BOOLEAN]
    /\ msView \in [MsNodes -> [leader : MsNodes \union {MsNone}, member : BOOLEAN, status : [lsn : Nat, retain : BOOLEAN, late : BOOLEAN]]]
    /\ msAt \in [MsNodes -> {"idle", "loaded", "sync"}]
    /\ msMember.since <= msNow /\ msMember.left <= msNow

\* The node has done its part of the cycle in this tick.
Acted(n) == n \in msDone \/ msAt[n] = "sync"
RetentionOver == msNow + 1 >= msMember.left + SlotTtl
Absent == ~msMember.here /\ msMember.retained /\ ~msForgot

\* Nobody runs two cycles in a tick.
OneCycle == msNow < MaxTicks => \A n \in msDone : msAt[n] = "idle"

\* A leader knows that it is the leader.
KnowsItself == \A n \in MsNodes : msAt[n] = "loaded" /\ msLeader = n => msView[n].leader = n \/ msForgot

\* Who runs a cycle sees a member that was there before the tick.
SeesMember == msMember.here /\ msNow > msMember.since => \A n \in MsNodes : msAt[n] # "idle" => msView[n].member

\* The leader saw the member in its last cycle, or the slot is not retained at all.
LeaderSaw ==
    msMember.here /\ ~msForgot /\ msLeader # MsNone =>
        LET t == IF Acted(msLeader) THEN msNow ELSE msNow - 1
        IN  t > msMember.since => IF msRetain[msLeader] = Never THEN ~msStatus.retain ELSE msRetain[msLeader] >= t

\* The leader, /status and those that read it keep the slot of an absent member for its time.
LeaderKeeps == Absent /\ msLeader # MsNone => RetentionOver \/ (msRetain[msLeader] # Never /\ msRetain[msLeader] + 1 >= msMember.left)
StatusKeeps == Absent => RetentionOver \/ msStatus.retain
ViewKeeps == Absent => \A n \in MsNodes : msAt[n] # "idle" /\ ~msView[n].member => RetentionOver \/ msView[n].status.retain

\* Who found no leader has /status as it is, since a new leader writes it in the next tick at the earliest.
RaceFresh ==
    ~msForgot => \A n \in MsNodes : msAt[n] = "loaded" /\ msView[n].leader = MsNone =>
        IF msLeader = MsNone THEN msView[n].status = msStatus ELSE msNow < MaxTicks => msView[n].status = msStatus /\ Acted(msLeader)

MsInv == /\ MsType /\ OneCycle /\ KnowsItself /\ SeesMember /\ LeaderSaw
         /\ LeaderKeeps /\ StatusKeeps /\ ViewKeeps /\ RaceFresh

LEMMA SlotUpdate ==
    ASSUME NEW s \in SlotStates, NEW l \in Nat, NEW b \in BOOLEAN
    PROVE  [s EXCEPT !.lsn = l, !.late = b] \in SlotStates /\ [s EXCEPT !.lsn = l, !.late = b].there = s.there
BY DEF SlotStates

LEMMA MemberGone ==
    ASSUME msMember \in MemberStates, msNow \in Nat, msStatus.retain \in BOOLEAN,
           msMember' = [msMember EXCEPT !.here = FALSE, !.left = msNow, !.retained = msStatus.retain]
    PROVE  msMember' \in MemberStates /\ msMember'.since = msMember.since /\ msMember'.left = msNow
BY DEF MemberStates

LEMMA MemberBack ==
    ASSUME msMember \in MemberStates, msNow \in Int, msMember' = [msMember EXCEPT !.here = TRUE, !.since = msNow]
    PROVE  msMember' \in MemberStates /\ msMember'.since = msNow /\ msMember'.left = msMember.left
BY DEF MemberStates

LEMMA MsInitInv == MsInit => MsInv
<1> SUFFICES ASSUME MsInit PROVE MsInv
  OBVIOUS
<1>1. msLeader \in MsNodes
  BY MemberSlotsAssumption DEF MsInit
<1>2. msMember = [here |-> TRUE, since |-> -2, lsn |-> 1, left |-> 0, retained |-> FALSE] /\ msNow = 0 /\ msWal = 1 /\ msDone = {} /\ msForgot = FALSE
  BY DEF MsInit, KeyTtl
<1>3. msStatus = [lsn |-> 1, retain |-> TRUE, late |-> FALSE] /\ msKnown = [k \in MsNodes |-> TRUE]
  BY DEF MsInit
<1>4. msRetain = [k \in MsNodes |-> IF k = msLeader THEN 0 ELSE -1]
  BY DEF MsInit, Never
<1>5. msSlot = [k \in MsNodes |-> [there |-> TRUE, lsn |-> 1, xmin |-> k = msLeader, late |-> FALSE]]
  BY DEF MsInit
<1>6. msView = [k \in MsNodes |-> [leader |-> msLeader, member |-> TRUE, status |-> msStatus]]
  BY DEF MsInit
<1>7. msAt = [k \in MsNodes |-> "idle"]
  BY DEF MsInit
<1>8. MsType
  <2>1. msStatus \in [lsn : Nat, retain : BOOLEAN, late : BOOLEAN] /\ msKnown \in [MsNodes -> BOOLEAN]
    BY <1>3
  <2>2. msMember \in MemberStates /\ msMember.since <= msNow /\ msMember.left <= msNow
    BY <1>2 DEF MemberStates
  <2>3. msRetain \in [MsNodes -> Int]
    BY <1>4
  <2>4. msSlot \in [MsNodes -> SlotStates]
    BY <1>5 DEF SlotStates
  <2> QED BY <1>1, <1>2, <1>6, <1>7, <2>1, <2>2, <2>3, <2>4 DEF MsType
<1> QED
  BY <1>1, <1>2, <1>3, <1>4, <1>7, <1>8 DEF MsInv, OneCycle, KnowsItself, SeesMember, LeaderSaw, LeaderKeeps, StatusKeeps, ViewKeeps, RaceFresh, Absent, Acted, Never

LEMMA MsGetInv == ASSUME MsInv, NEW n \in MsNodes, MsGet(n) PROVE MsInv'
<1> USE MemberSlotsAssumption DEF MsInv
<1>1. MsType'
  BY DEF MsType, MemberStates, MsGet, At, msOutside
<1>2. OneCycle'
  BY DEF OneCycle, MsGet, At, msOutside
<1>3. KnowsItself'
  BY DEF KnowsItself, MsType, MsGet, At, msOutside
<1>4. SeesMember'
  BY DEF SeesMember, MsType, MsGet, At, msOutside
<1>5. LeaderSaw'
  BY DEF LeaderSaw, Acted, MsGet, At, msOutside
<1>6. LeaderKeeps'
  BY DEF LeaderKeeps, Absent, RetentionOver, MsGet, msOutside
<1>7. StatusKeeps'
  BY DEF StatusKeeps, Absent, RetentionOver, MsGet, msOutside
<1>8. ViewKeeps'
  BY DEF ViewKeeps, StatusKeeps, Absent, RetentionOver, MsType, MsGet, At, msOutside
<1>9. RaceFresh'
  BY DEF RaceFresh, Acted, MsType, MsGet, At, msOutside
<1> QED BY <1>1, <1>2, <1>3, <1>4, <1>5, <1>6, <1>7, <1>8, <1>9

LEMMA MsUpdateInv == ASSUME MsInv, NEW n \in MsNodes, MsUpdate(n) PROVE MsInv'
<1> USE MemberSlotsAssumption DEF MsInv
<1>1. MsType'
  <2>1. \A known : BuildRetain(n, known) \in Int
    BY DEF BuildRetain, MsType, Never
  <2>2. msRetain' \in [MsNodes -> Int]
    BY <2>1 DEF MsUpdate, MsType
  <2>3. msSlot[n] \in SlotStates
    BY Zenon DEF MsType
  <2>4. msSlot[n].lsn \in Nat
    BY <2>3 DEF SlotStates
  <2>5. msSlot[n].late \in BOOLEAN
    BY <2>3, Zenon DEF SlotStates
  <2>6. (IF msKnown[n] /\ msSlot[n].there THEN msSlot[n].lsn ELSE 0) \in Nat
    BY <2>4
  <2>7. msStatus' \in [lsn : Nat, retain : BOOLEAN, late : BOOLEAN]
    <3>1. msStatus' = [lsn |-> IF msKnown[n] /\ msSlot[n].there THEN msSlot[n].lsn ELSE 0, retain |-> msRetain'[n] # Never, late |-> msSlot[n].late]
      BY Zenon DEF MsUpdate
    <3>2. (msRetain'[n] # Never) \in BOOLEAN
      OBVIOUS
    <3> QED BY <3>1, <3>2, <2>5, <2>6, Zenon
  <2>8. msForgot' \in BOOLEAN
    BY DEF MsUpdate, Forgets, MsType
  <2> QED BY <2>2, <2>7, <2>8 DEF MsUpdate, MsType, At, msPg
<1>2. OneCycle'
  BY DEF OneCycle, MsUpdate, At
<1>3. KnowsItself'
  BY DEF KnowsItself, MsUpdate
<1>4. SeesMember'
  BY DEF SeesMember, MsUpdate, At
<1>5. LeaderSaw'
  BY DEF LeaderSaw, SeesMember, MsType, MemberStates, MsUpdate, At, BuildRetain, Forgets
<1>6. LeaderKeeps'
  BY DEF LeaderKeeps, Absent, RetentionOver, MsType, MemberStates, Never, MsUpdate, BuildRetain, Forgets
<1>7. StatusKeeps'
  BY DEF StatusKeeps, LeaderKeeps, Absent, RetentionOver, MsType, MemberStates, Never, MsUpdate, BuildRetain, Forgets
<1>8. ViewKeeps'
  BY DEF ViewKeeps, Absent, RetentionOver, MsType, MsUpdate, At, Forgets
<1>9. RaceFresh'
  BY DEF RaceFresh, Acted, OneCycle, MsType, MsUpdate, At, Forgets
<1> QED BY <1>1, <1>2, <1>3, <1>4, <1>5, <1>6, <1>7, <1>8, <1>9

LEMMA MsUpdateFailsInv == ASSUME MsInv, NEW n \in MsNodes, MsUpdateFails(n) PROVE MsInv'
<1> USE MemberSlotsAssumption DEF MsInv
<1>1. MsType'
  BY DEF MsType, Never, MsUpdateFails, At, msPg, BuildRetain, Forgets
<1>2. OneCycle'
  BY DEF OneCycle, MsUpdateFails, At
<1>3. KnowsItself'
  BY DEF KnowsItself, MsUpdateFails
<1>4. SeesMember'
  BY DEF SeesMember, MsUpdateFails, At
<1>5. LeaderSaw'
  BY DEF LeaderSaw, SeesMember, MsType, MemberStates, Never, MsUpdateFails, At, BuildRetain, Forgets
<1>6. LeaderKeeps'
  BY DEF LeaderKeeps, Absent, RetentionOver, MsType, MemberStates, Never, MsUpdateFails, BuildRetain, Forgets
<1>7. StatusKeeps'
  BY DEF StatusKeeps, Absent, RetentionOver, MsType, MsUpdateFails, Forgets
<1>8. ViewKeeps'
  BY DEF ViewKeeps, Absent, RetentionOver, MsType, MsUpdateFails, At, Forgets
<1>9. RaceFresh'
  BY DEF RaceFresh, Acted, MsType, MsUpdateFails, At, Forgets
<1> QED BY <1>1, <1>2, <1>3, <1>4, <1>5, <1>6, <1>7, <1>8, <1>9

LEMMA MsDemoteInv == ASSUME MsInv, NEW n \in MsNodes, MsDemote(n) PROVE MsInv'
<1> USE MemberSlotsAssumption DEF MsInv
<1>1. MsType'
  BY DEF MsType, MsDemote, At, msPg, msOutside
<1>2. OneCycle'
  BY DEF OneCycle, MsType, MsDemote, At, msOutside
<1>3. KnowsItself'
  BY DEF KnowsItself, MsDemote, At, msOutside
<1>4. SeesMember'
  BY DEF SeesMember, MsDemote, At, msOutside
<1>5. LeaderSaw'
  BY DEF LeaderSaw, Acted, MsDemote, At, msOutside
<1>6. LeaderKeeps'
  BY DEF LeaderKeeps, Absent, RetentionOver, MsDemote, msOutside
<1>7. StatusKeeps'
  BY DEF StatusKeeps, Absent, RetentionOver, MsDemote, msOutside
<1>8. ViewKeeps'
  BY DEF ViewKeeps, Absent, RetentionOver, MsDemote, At, msOutside
<1>9. RaceFresh'
  BY DEF RaceFresh, Acted, MsDemote, At, msOutside
<1> QED BY <1>1, <1>2, <1>3, <1>4, <1>5, <1>6, <1>7, <1>8, <1>9

LEMMA MsAcquireInv == ASSUME MsInv, NEW n \in MsNodes, MsAcquire(n) PROVE MsInv'
<1> USE MemberSlotsAssumption DEF MsInv
<1>1. MsType'
  BY DEF MsType, Never, MsAcquire, At, msPg, msOutside
<1>2. OneCycle'
  BY DEF OneCycle, MsAcquire, At, msOutside
<1>3. KnowsItself'
  BY DEF KnowsItself, MsType, MsAcquire, At, msOutside
<1>4. SeesMember'
  BY DEF SeesMember, MsAcquire, At, msOutside
<1>5. LeaderSaw'
  BY DEF LeaderSaw, Acted, KnowsItself, RaceFresh, MsType, Never, MsAcquire, At, msOutside
<1>6. LeaderKeeps'
  BY DEF LeaderKeeps, Absent, RetentionOver, StatusKeeps, RaceFresh, MsType, MemberStates, Never, MsAcquire, At, msOutside
<1>7. StatusKeeps'
  BY DEF StatusKeeps, Absent, RetentionOver, MsAcquire, msOutside
<1>8. ViewKeeps'
  BY DEF ViewKeeps, Absent, RetentionOver, MsAcquire, At, msOutside
<1>9. RaceFresh'
  BY DEF RaceFresh, Acted, MsType, MsAcquire, At, msOutside
<1> QED BY <1>1, <1>2, <1>3, <1>4, <1>5, <1>6, <1>7, <1>8, <1>9

LEMMA MsFollowInv == ASSUME MsInv, NEW n \in MsNodes, MsFollow(n) PROVE MsInv'
<1> USE MemberSlotsAssumption DEF MsInv
<1>1. MsType'
  BY DEF MsType, MsFollow, At, msPg, msOutside
<1>2. OneCycle'
  BY DEF OneCycle, MsFollow, At, msOutside
<1>3. KnowsItself'
  BY DEF KnowsItself, MsFollow, At, msOutside
<1>4. SeesMember'
  BY DEF SeesMember, MsFollow, At, msOutside
<1>5. LeaderSaw'
  BY DEF LeaderSaw, Acted, KnowsItself, MsFollow, At, msOutside
<1>6. LeaderKeeps'
  BY DEF LeaderKeeps, Absent, RetentionOver, MsFollow, msOutside
<1>7. StatusKeeps'
  BY DEF StatusKeeps, Absent, RetentionOver, MsFollow, msOutside
<1>8. ViewKeeps'
  BY DEF ViewKeeps, Absent, RetentionOver, MsFollow, At, msOutside
<1>9. RaceFresh'
  BY DEF RaceFresh, Acted, MsFollow, At, msOutside
<1> QED BY <1>1, <1>2, <1>3, <1>4, <1>5, <1>6, <1>7, <1>8, <1>9

LEMMA MsSyncInv == ASSUME MsInv, NEW n \in MsNodes, MsSync(n) PROVE MsInv'
<1> USE MemberSlotsAssumption DEF MsInv
<1>1. MsType'
  <2>1. NewSlot \in SlotStates /\ NoSlotHere \in SlotStates
    BY DEF NewSlot, NoSlotHere, SlotStates, MsType
  <2>2. Advanced(n) \in SlotStates /\ msSlot[n] \in SlotStates
    <3>1. msSlot[n] \in SlotStates /\ msView[n].status.lsn \in Nat
      BY DEF MsType
    <3>2. (msSlot[n].late \/ msView[n].status.late) \in BOOLEAN
      OBVIOUS
    <3> QED BY <3>1, <3>2, SlotUpdate DEF Advanced
  <2>3. \A known : EnsurePhysical(n, known) \in SlotStates
    BY <2>1, <2>2 DEF EnsurePhysical
  <2>4. msSlot' \in [MsNodes -> SlotStates]
    BY <2>1, <2>2, <2>3 DEF MsSync, MsType
  <2>5. Wanted(n) \in BOOLEAN
    BY DEF Wanted, MsType
  <2> QED BY <2>4, <2>5 DEF MsSync, MsType, At, msOutside
<1>2. OneCycle'
  BY DEF OneCycle, MsType, MsSync, At, msOutside
<1>3. KnowsItself'
  BY DEF KnowsItself, MsSync, At, msOutside
<1>4. SeesMember'
  BY DEF SeesMember, MsSync, At, msOutside
<1>5. LeaderSaw'
  BY DEF LeaderSaw, Acted, MsSync, At, msOutside
<1>6. LeaderKeeps'
  BY DEF LeaderKeeps, Absent, RetentionOver, MsSync, msOutside
<1>7. StatusKeeps'
  BY DEF StatusKeeps, Absent, RetentionOver, MsSync, msOutside
<1>8. ViewKeeps'
  BY DEF ViewKeeps, Absent, RetentionOver, MsSync, At, msOutside
<1>9. RaceFresh'
  BY DEF RaceFresh, Acted, MsSync, At, msOutside
<1> QED BY <1>1, <1>2, <1>3, <1>4, <1>5, <1>6, <1>7, <1>8, <1>9

LEMMA MsSyncFailsInv == ASSUME MsInv, NEW n \in MsNodes, MsSyncFails(n) PROVE MsInv'
<1> USE MemberSlotsAssumption DEF MsInv
<1>1. MsType'
  BY DEF MsType, MsSyncFails, At
<1>2. OneCycle'
  BY DEF OneCycle, MsType, MsSyncFails, At
<1>3. KnowsItself'
  BY DEF KnowsItself, MsSyncFails, At
<1>4. SeesMember'
  BY DEF SeesMember, MsSyncFails, At
<1>5. LeaderSaw'
  BY DEF LeaderSaw, Acted, MsSyncFails, At
<1>6. LeaderKeeps'
  BY DEF LeaderKeeps, Absent, RetentionOver, MsSyncFails
<1>7. StatusKeeps'
  BY DEF StatusKeeps, Absent, RetentionOver, MsSyncFails
<1>8. ViewKeeps'
  BY DEF ViewKeeps, Absent, RetentionOver, MsSyncFails, At
<1>9. RaceFresh'
  BY DEF RaceFresh, Acted, MsSyncFails, At
<1> QED BY <1>1, <1>2, <1>3, <1>4, <1>5, <1>6, <1>7, <1>8, <1>9

LEMMA MsRestartInv == ASSUME MsInv, NEW n \in MsNodes, MsRestart(n) PROVE MsInv'
<1> USE MemberSlotsAssumption DEF MsInv
<1>1. MsType'
  BY DEF MsType, Never, MsRestart
<1>2. OneCycle'
  BY DEF OneCycle, MsRestart
<1>3. KnowsItself'
  BY DEF KnowsItself, MsType, MsRestart
<1>4. SeesMember'
  BY DEF SeesMember, MsRestart
<1>5. LeaderSaw'
  BY DEF LeaderSaw, Acted, MsType, MsRestart
<1>6. LeaderKeeps'
  BY DEF LeaderKeeps, Absent, RetentionOver, MsType, MemberStates, MsRestart
<1>7. StatusKeeps'
  BY DEF StatusKeeps, Absent, RetentionOver, MsType, MsRestart
<1>8. ViewKeeps'
  BY DEF ViewKeeps, Absent, RetentionOver, MsType, MsRestart
<1>9. RaceFresh'
  BY DEF RaceFresh, Acted, OneCycle, KnowsItself, MsType, MsRestart, At, msPg, msOutside
<1> QED BY <1>1, <1>2, <1>3, <1>4, <1>5, <1>6, <1>7, <1>8, <1>9

LEMMA LeaderLostInv == ASSUME MsInv, LeaderLost PROVE MsInv'
<1> USE MemberSlotsAssumption DEF MsInv
<1>1. MsType'
  BY DEF MsType, LeaderLost, msPg
<1>2. OneCycle'
  BY DEF OneCycle, LeaderLost
<1>3. KnowsItself'
  BY DEF KnowsItself, LeaderLost
<1>4. SeesMember'
  BY DEF SeesMember, LeaderLost
<1>5. LeaderSaw'
  BY DEF LeaderSaw, LeaderLost
<1>6. LeaderKeeps'
  BY DEF LeaderKeeps, LeaderLost
<1>7. StatusKeeps'
  BY DEF StatusKeeps, Absent, RetentionOver, LeaderLost
<1>8. ViewKeeps'
  BY DEF ViewKeeps, Absent, RetentionOver, LeaderLost
<1>9. RaceFresh'
  BY DEF RaceFresh, MsType, LeaderLost, Early
<1> QED BY <1>1, <1>2, <1>3, <1>4, <1>5, <1>6, <1>7, <1>8, <1>9

LEMMA MemberLeavesInv == ASSUME MsInv, MemberLeaves PROVE MsInv'
<1> USE MemberSlotsAssumption DEF MsInv
<1>1. MsType'
  <2>1. msMember \in MemberStates /\ msNow \in Nat
    BY Zenon DEF MsType
  <2>2. msNow \in Int /\ msNow <= msNow /\ msMember.since <= msNow /\ msMember.left <= msNow
    BY <2>1 DEF MsType
  <2>3. msStatus.retain \in BOOLEAN
    BY Zenon DEF MsType
  <2>4. msMember' = [msMember EXCEPT !.here = FALSE, !.left = msNow, !.retained = msStatus.retain]
    BY Zenon DEF MemberLeaves
  <2>5. msMember' \in MemberStates /\ msMember'.since = msMember.since /\ msMember'.left = msNow
    BY <2>1, <2>2, <2>3, <2>4, MemberGone, Zenon
  <2>6. msMember'.since <= msNow /\ msMember'.left <= msNow
    BY <2>2, <2>5, Zenon
  <2> QED BY <2>5, <2>6 DEF MsType, MemberLeaves, msPg
<1>2. OneCycle'
  BY DEF OneCycle, MemberLeaves
<1>3. KnowsItself'
  BY DEF KnowsItself, MemberLeaves
<1>4. SeesMember'
  BY DEF SeesMember, MemberLeaves
<1>5. LeaderSaw'
  BY DEF LeaderSaw, MemberLeaves
<1>6. LeaderKeeps'
  BY DEF LeaderKeeps, Absent, LeaderSaw, MsType, MemberStates, MemberLeaves, KeyTtl
<1>7. StatusKeeps'
  BY DEF StatusKeeps, Absent, MemberLeaves
<1>8. ViewKeeps'
  BY DEF ViewKeeps, SeesMember, MsType, MemberStates, MemberLeaves, KeyTtl
<1>9. RaceFresh'
  BY DEF RaceFresh, Acted, MemberLeaves
<1> QED BY <1>1, <1>2, <1>3, <1>4, <1>5, <1>6, <1>7, <1>8, <1>9

LEMMA MemberJoinsInv == ASSUME MsInv, MemberJoins PROVE MsInv'
<1> USE MemberSlotsAssumption DEF MsInv
<1>1. MsType'
  <2>1. msMember \in MemberStates /\ msNow \in Nat
    BY Zenon DEF MsType
  <2>2. msNow \in Int /\ msNow <= msNow /\ msMember.since <= msNow /\ msMember.left <= msNow
    BY <2>1 DEF MsType
  <2>3. msStatus.retain \in BOOLEAN
    BY Zenon DEF MsType
  <2>4. msMember' = [msMember EXCEPT !.here = TRUE, !.since = msNow]
    BY Zenon DEF MemberJoins
  <2>5. msMember' \in MemberStates /\ msMember'.since = msNow /\ msMember'.left = msMember.left
    BY <2>1, <2>2, <2>3, <2>4, MemberBack, Zenon
  <2>6. msMember'.since <= msNow /\ msMember'.left <= msNow
    BY <2>2, <2>5, Zenon
  <2> QED BY <2>5, <2>6 DEF MsType, MemberJoins, msPg
<1>2. OneCycle'
  BY DEF OneCycle, MemberJoins
<1>3. KnowsItself'
  BY DEF KnowsItself, MemberJoins
<1>4. SeesMember'
  BY DEF SeesMember, MsType, MemberJoins
<1>5. LeaderSaw'
  BY DEF LeaderSaw, MsType, MemberJoins
<1>6. LeaderKeeps'
  BY DEF LeaderKeeps, Absent, MemberJoins
<1>7. StatusKeeps'
  BY DEF StatusKeeps, Absent, MemberJoins
<1>8. ViewKeeps'
  BY DEF ViewKeeps, Absent, MemberJoins
<1>9. RaceFresh'
  BY DEF RaceFresh, Acted, MemberJoins
<1> QED BY <1>1, <1>2, <1>3, <1>4, <1>5, <1>6, <1>7, <1>8, <1>9

LEMMA MsStreamInv == ASSUME MsInv, MsStream PROVE MsInv'
<1> USE MemberSlotsAssumption DEF MsInv
<1>1. MsType'
  <2>1. msMember' \in MemberStates /\ msMember'.since <= msNow /\ msMember'.left <= msNow /\ msWal' \in Nat
    BY DEF MsType, MsStream, MemberStates
  <2>2. [there |-> TRUE, lsn |-> msWal, xmin |-> TRUE, late |-> FALSE] \in SlotStates
    BY DEF MsType, SlotStates
  <2>3. msSlot' \in [MsNodes -> SlotStates]
    BY <2>2 DEF MsType, MsStream
  <2> QED BY <2>1, <2>3 DEF MsType, MsStream
<1>2. OneCycle'
  BY DEF OneCycle, MsStream
<1>3. KnowsItself'
  BY DEF KnowsItself, MsStream
<1>4. SeesMember'
  BY DEF SeesMember, MsType, MemberStates, MsStream
<1>5. LeaderSaw'
  BY DEF LeaderSaw, Acted, SeesMember, RaceFresh, MsType, MemberStates, Never, MsStream
<1>6. LeaderKeeps'
  BY DEF LeaderKeeps, Absent, RetentionOver, StatusKeeps, LeaderSaw, MsType, MemberStates, MsStream
<1>7. StatusKeeps'
  BY DEF StatusKeeps, Absent, RetentionOver, MsType, MemberStates, MsStream
<1>8. ViewKeeps'
  BY DEF ViewKeeps, Absent, RetentionOver, MsType, MemberStates, MsStream
<1>9. RaceFresh'
  BY DEF RaceFresh, Acted, MsStream
<1> QED BY <1>1, <1>2, <1>3, <1>4, <1>5, <1>6, <1>7, <1>8, <1>9

LEMMA MsTickInv == ASSUME MsInv, MsTick PROVE MsInv'
<1> USE MemberSlotsAssumption DEF MsInv
<1>1. MsType'
  BY DEF MsType, MemberStates, MsTick, msPg
<1>2. OneCycle'
  BY DEF OneCycle, MsTick
<1>3. KnowsItself'
  BY DEF KnowsItself, MsTick
<1>4. SeesMember'
  BY DEF SeesMember, MsTick
<1>5. LeaderSaw'
  BY DEF LeaderSaw, Acted, MsType, MsTick
<1>6. LeaderKeeps'
  BY DEF LeaderKeeps, Absent, RetentionOver, MsType, MemberStates, MsTick
<1>7. StatusKeeps'
  BY DEF StatusKeeps, Absent, RetentionOver, MsType, MemberStates, MsTick
<1>8. ViewKeeps'
  BY DEF ViewKeeps, MsTick
<1>9. RaceFresh'
  BY DEF RaceFresh, MsTick
<1> QED BY <1>1, <1>2, <1>3, <1>4, <1>5, <1>6, <1>7, <1>8, <1>9

LEMMA MsStutterInv == ASSUME MsInv, UNCHANGED msVars PROVE MsInv'
BY DEF msVars, MsInv, MsType, OneCycle, KnowsItself, SeesMember, LeaderSaw, LeaderKeeps, StatusKeeps, ViewKeeps, RaceFresh, Absent, RetentionOver, Acted

LEMMA MsInvCorrect == MsSpec => []MsInv
<1>1. MsInv /\ [MsNext]_msVars => MsInv'
  BY MsGetInv, MsUpdateInv, MsUpdateFailsInv, MsDemoteInv, MsAcquireInv, MsFollowInv, MsSyncInv, MsSyncFailsInv, MsRestartInv,
     LeaderLostInv, MemberLeavesInv, MemberJoinsInv, MsStreamInv, MsTickInv, MsStutterInv DEF MsNext, MsCycle
<1> QED BY <1>1, MsInitInv, PTL DEF MsSpec

(***************************************************************************)
(* No node drops the slot of a member that is absent for less than         *)
(* member_slots_ttl, through any number of failovers, failed writes,       *)
(* restarts of those that do not lead, comings and goings.                 *)
(***************************************************************************)
THEOREM RetainedThroughFailoverCorrect == MsSpec => RetainedThroughFailover
<1>1. MsInv /\ [MsNext]_msVars =>
        [\A n \in MsNodes :
           msSlot[n].there /\ ~msSlot'[n].there /\ ~msMember.here /\ msMember.retained
               => msForgot \/ msNow + 1 >= msMember.left + SlotTtl]_msVars
  <2> SUFFICES ASSUME MsInv, MsNext, NEW n \in MsNodes, msSlot[n].there, ~msSlot'[n].there, Absent PROVE RetentionOver
    BY DEF Absent, RetentionOver
  <2>1. MsSync(n) /\ ~Wanted(n)
    <3>1. ASSUME NEW m \in MsNodes, MsSync(m) PROVE MsSync(n) /\ ~Wanted(n)
      <4>1. m = n
        BY <3>1 DEF MsSync, MsInv, MsType
      <4>2. \A known : EnsurePhysical(n, known).there
        <5>1. msSlot[n] \in SlotStates /\ msView[n].status.lsn \in Nat
          BY DEF MsInv, MsType
        <5>2. (msSlot[n].late \/ msView[n].status.late) \in BOOLEAN
          OBVIOUS
        <5>3. Advanced(n).there
          BY <5>1, <5>2, SlotUpdate DEF Advanced
        <5>4. \A known : EnsurePhysical(n, known) \in {NewSlot, Advanced(n), msSlot[n]}
          BY DEF EnsurePhysical
        <5>5. NewSlot.there
          BY DEF NewSlot
        <5> QED BY <5>3, <5>4, <5>5, Zenon
      <4>3. CASE Wanted(n)
        <5>1. PICK known : msSlot' = [msSlot EXCEPT ![n] = EnsurePhysical(n, known)]
          BY <3>1, <4>1, <4>3 DEF MsSync
        <5>2. msSlot'[n] = EnsurePhysical(n, known)
          BY <5>1 DEF MsInv, MsType
        <5> QED BY <4>2, <5>2, Zenon
      <4> QED BY <3>1, <4>1, <4>3
    <3>2. ASSUME MsStream PROVE FALSE
      BY <3>2 DEF MsStream, MsInv, MsType
    <3>3. msSlot' # msSlot
      OBVIOUS
    <3> QED BY <3>1, <3>2, <3>3 DEF MsNext, MsCycle, MsGet, MsUpdate, MsUpdateFails, MsDemote, MsAcquire, MsFollow, MsSyncFails, MsRestart,
                           LeaderLost, MemberLeaves, MemberJoins, MsTick, msPg
  <2>2. msAt[n] # "idle" /\ ~msView[n].member /\ ~msView[n].status.retain
    BY <2>1 DEF MsSync, At, Wanted
  <2> QED BY <2>2 DEF MsInv, ViewKeeps
<1> QED BY <1>1, MsInvCorrect, PTL DEF MsSpec, RetainedThroughFailover

(***************************************************************************)
(* The position of a slot is that of the member, or an earlier one, on     *)
(* every node, in /status and in what the nodes have read of it, as long   *)
(* as none of the slots it was taken from was created too late.            *)
(***************************************************************************)
NotAhead(s) == ~s.late => s.lsn <= msMember.lsn

WalInv ==
    /\ msMember.lsn <= msWal
    /\ \A n \in MsNodes : msSlot[n].there => NotAhead(msSlot[n])
    /\ NotAhead(msStatus)
    /\ \A n \in MsNodes : NotAhead(msView[n].status)

LEMMA MemberLsn ==
    ASSUME MsType, MsNext
    PROVE  msMember'.lsn = msMember.lsn \/ (msMember'.lsn = msWal /\ msWal' = msWal)
<1>1. ASSUME MsStream PROVE msMember'.lsn = msMember.lsn \/ (msMember'.lsn = msWal /\ msWal' = msWal)
  BY <1>1 DEF MsStream, MsType, MemberStates
<1>2. ASSUME MemberLeaves \/ MemberJoins PROVE msMember'.lsn = msMember.lsn
  BY <1>2 DEF MemberLeaves, MemberJoins, MsType, MemberStates
<1>3. ASSUME ~MsStream, ~MemberLeaves, ~MemberJoins PROVE msMember' = msMember
  BY <1>3 DEF MsNext, MsCycle, MsGet, MsUpdate, MsUpdateFails, MsDemote, MsAcquire, MsFollow, MsSync, MsSyncFails, MsRestart, LeaderLost, MsTick, msOutside
<1> QED BY <1>1, <1>2, <1>3

\* What the members' position was, and what is not ahead of it, stays so.
LEMMA NotAheadStays ==
    ASSUME MsType, MsNext, msMember.lsn <= msWal
    PROVE  /\ msMember.lsn <= msMember'.lsn /\ msMember'.lsn <= msWal'
           /\ \A s : s.lsn \in Nat /\ NotAhead(s) => NotAhead(s)'
<1>1. msMember.lsn \in Nat /\ msWal \in Nat
  BY DEF MsType, MemberStates
<1>2. msWal' \in {msWal, msWal + 1}
  BY DEF MsNext, MsCycle, MsGet, MsUpdate, MsUpdateFails, MsDemote, MsAcquire, MsFollow, MsSync, MsSyncFails, MsRestart,
         LeaderLost, MemberLeaves, MemberJoins, MsStream, MsTick, msOutside
<1>3. msMember.lsn <= msMember'.lsn /\ msMember'.lsn <= msWal' /\ msMember'.lsn \in Nat
  BY <1>1, <1>2, MemberLsn
<1> QED BY <1>1, <1>3 DEF NotAhead

LEMMA WalStep == ASSUME MsType, WalInv, MsNext PROVE WalInv'
<1>0. msMember.lsn <= msMember'.lsn /\ msMember'.lsn <= msWal' /\ \A s : s.lsn \in Nat /\ NotAhead(s) => NotAhead(s)'
  BY NotAheadStays DEF WalInv
<1>1. /\ \A n \in MsNodes : msSlot[n].lsn \in Nat /\ msView[n].status.lsn \in Nat
      /\ msStatus.lsn \in Nat /\ msMember.lsn \in Nat /\ msWal \in Nat
  BY DEF MsType, MemberStates, SlotStates
<1>2. ASSUME NEW n \in MsNodes, msSlot'[n].there PROVE NotAhead(msSlot[n])'
  <2>1. CASE msSlot'[n] = msSlot[n]
    BY <1>0, <1>1, <1>2, <2>1 DEF WalInv
  <2>2. ASSUME MsSync(n), msSlot'[n] # msSlot[n] PROVE NotAhead(msSlot[n])'
    <3>1. msSlot'[n] \in {NewSlot, Advanced(n), NoSlotHere} /\ msMember' = msMember
      BY <2>2 DEF MsSync, EnsurePhysical, MsType, msOutside
    <3>2. CASE msSlot'[n] = NewSlot
      <4>1. NewSlot.lsn = msWal
        BY DEF NewSlot
      <4>2. NewSlot.late <=> msMember.lsn < msWal
        BY Zenon DEF NewSlot
      <4> QED BY <1>1, <3>1, <3>2, <4>1, <4>2 DEF NotAhead
    <3>3. CASE msSlot'[n] = NoSlotHere
      BY <1>2, <3>3 DEF NoSlotHere
    <3>4. CASE msSlot'[n] = Advanced(n)
      <4>1. msSlot'[n].lsn = msView[n].status.lsn /\ (msView[n].status.late => msSlot'[n].late)
        BY <2>2, <3>4 DEF Advanced, MsType, SlotStates
      <4> QED BY <3>1, <4>1 DEF WalInv, NotAhead
    <3> QED BY <3>1, <3>2, <3>3, <3>4
  <2>3. ASSUME MsStream, msSlot'[n] # msSlot[n] PROVE NotAhead(msSlot[n])'
    <3>1. msSlot'[n].lsn = msWal /\ msMember'.lsn = msWal
      BY <2>3 DEF MsStream, MsType, MemberStates
    <3> QED BY <1>1, <3>1 DEF NotAhead
  <2>4. ASSUME NEW m \in MsNodes, MsSync(m), m # n PROVE msSlot'[n] = msSlot[n]
    BY <2>4 DEF MsSync, MsType
  <2>5. ASSUME ~MsStream, \A m \in MsNodes : ~MsSync(m) PROVE msSlot' = msSlot
    BY <2>5 DEF MsNext, MsCycle, MsGet, MsUpdate, MsUpdateFails, MsDemote, MsAcquire, MsFollow, MsSyncFails, MsRestart,
                LeaderLost, MemberLeaves, MemberJoins, MsTick, msPg
  <2> QED BY <2>1, <2>2, <2>3, <2>4, <2>5
<1>3. NotAhead(msStatus)'
  <2>1. CASE msStatus' = msStatus
    BY <1>0, <1>1, <2>1 DEF WalInv
  <2>2. ASSUME NEW n \in MsNodes, MsUpdate(n) PROVE NotAhead(msStatus)'
    <3>1. /\ msStatus'.lsn = IF msKnown[n] /\ msSlot[n].there THEN msSlot[n].lsn ELSE 0
          /\ msStatus'.late = msSlot[n].late /\ msMember' = msMember
      BY <2>2 DEF MsUpdate
    <3> QED BY <1>1, <3>1 DEF WalInv, NotAhead
  <2>3. ASSUME \A n \in MsNodes : ~MsUpdate(n) PROVE msStatus' = msStatus
    BY <2>3 DEF MsNext, MsCycle, MsGet, MsUpdateFails, MsDemote, MsAcquire, MsFollow, MsSync, MsSyncFails, MsRestart,
                LeaderLost, MemberLeaves, MemberJoins, MsStream, MsTick
  <2> QED BY <2>1, <2>2, <2>3
<1>4. ASSUME NEW n \in MsNodes PROVE NotAhead(msView[n].status)'
  <2>1. msView'[n].status \in {msView[n].status, msStatus}
    <3>1. ASSUME NEW m \in MsNodes, MsGet(m) PROVE msView'[n].status \in {msView[n].status, msStatus}
      BY <3>1 DEF MsGet, MsType
    <3>2. ASSUME \A m \in MsNodes : ~MsGet(m) PROVE msView' = msView
      BY <3>2 DEF MsNext, MsCycle, MsUpdate, MsUpdateFails, MsDemote, MsAcquire, MsFollow, MsSync, MsSyncFails, MsRestart,
                  LeaderLost, MemberLeaves, MemberJoins, MsStream, MsTick
    <3> QED BY <3>1, <3>2
  <2>2. \A s : s = msView[n].status \/ s = msStatus => s.lsn \in Nat /\ NotAhead(s)
    BY <1>1 DEF WalInv
  <2> QED BY <1>0, <2>1, <2>2 DEF NotAhead
<1> QED BY <1>0, <1>2, <1>3, <1>4 DEF WalInv

(***************************************************************************)
(* Whoever becomes the leader has the WAL the member needs, unless a slot  *)
(* was created when that WAL was gone, for every length of the WAL and     *)
(* number of failovers.                                                    *)
(***************************************************************************)
THEOREM SlotKeepsWalCorrect == MsSpec => []SlotKeepsWal
<1>1. MsInit => WalInv
  BY MemberSlotsAssumption DEF MsInit, WalInv, NotAhead
<1>2. MsType /\ WalInv /\ [MsNext]_msVars => WalInv'
  <2>1. ASSUME WalInv, UNCHANGED msVars PROVE WalInv'
    BY <2>1 DEF msVars, WalInv, NotAhead
  <2> QED BY <2>1, WalStep
<1>3. MsInv => MsType
  BY DEF MsInv
<1>4. WalInv => SlotKeepsWal
  BY DEF WalInv, NotAhead, SlotKeepsWal
<1> QED BY <1>1, <1>2, <1>3, <1>4, MsInvCorrect, PTL DEF MsSpec
==============================================================================
