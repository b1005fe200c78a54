---------------------------- MODULE MemberSlots -----------------------------
(***************************************************************************)
(* The physical replication slot that the nodes of a cluster keep for one  *)
(* more member: every node that may become the leader has it, at a         *)
(* position taken from /status, so that the member finds its WAL after a   *)
(* failover, and for member_slots_ttl after the member went away           *)
(* (patroni/dcs/__init__.py: Cluster and AbstractDCS,                      *)
(* patroni/postgresql/slots.py).                                           *)
(*                                                                         *)
(* A tick of the clock is the time of a cycle.                             *)
(***************************************************************************)
EXTENDS Integers, FiniteSets

CONSTANTS MsNodes,  \* nodes that may become the leader
          MsNone,   \* nobody has the leader key
          SlotTtl,  \* member_slots_ttl
          MaxTicks, \* bound: ticks
          MaxLsn,   \* bound: end of WAL
          MaxMsEvents \* bound: leaders lost, comings and goings, failed writes, restarts

ASSUME MemberSlotsAssumption == /\ MsNodes # {} /\ MsNone \notin MsNodes /\ SlotTtl \in Nat \ {0}
                                /\ {MaxTicks, MaxLsn, MaxMsEvents} \subseteq Nat

NoSlotHere == [there |-> FALSE, lsn |-> 0, xmin |-> FALSE, late |-> FALSE]
Never == -1  \* a slot that is not in _last_retain_slots
KeyTtl == 2   \* cycles that a member key outlives its last update, at least (loop_wait + 2 * retry_timeout <= ttl)

VARIABLES msLeader, \* holder of the leader key
          msMember, \* the member: registered or not, since when, its position, since when it is away, and retained at that time
          msWal,    \* end of WAL
          msStatus, \* /status: position of the slot (0: none) and whether it is one of retain_slots
          msNow,
          msDone,   \* nodes that have completed a cycle in this tick
          msRetain, \* _last_retain_slots of each node
          msSlot,   \* the slot in PostgreSQL; late: it, or the one it follows, was created past the member's position
          msKnown,  \* it is in _replication_slots
          msLoad,   \* _schedule_load_slots
          msView,   \* cluster object of the cycle
          msAt,     \* where the HA cycle is
          msForgot, \* auxiliary: a leader ran a cycle without having loaded its slots
          msEvents

msVars == <<msLeader, msMember, msWal, msStatus, msNow, msDone, msRetain, msSlot, msKnown, msLoad, msView, msAt, msForgot, msEvents>>
msPg == <<msSlot, msKnown, msLoad>>
msOutside == <<msMember, msWal, msNow, msForgot, msEvents>>

MsInit ==
    LET n == CHOOSE k \in MsNodes : TRUE
    IN  /\ msLeader = n
        /\ msMember = [here |-> TRUE, since |-> -KeyTtl, lsn |-> 1, left |-> 0, retained |-> FALSE]
        /\ msWal = 1
        /\ msStatus = [lsn |-> 1, retain |-> TRUE, late |-> FALSE]
        /\ msNow = 0
        /\ msDone = {}
        /\ msRetain = [k \in MsNodes |-> IF k = n THEN 0 ELSE Never]
        /\ msSlot = [k \in MsNodes |-> [there |-> TRUE, lsn |-> 1, xmin |-> k = n, late |-> FALSE]]
        /\ msKnown = [k \in MsNodes |-> TRUE]
        /\ msLoad = [k \in MsNodes |-> FALSE]
        /\ msView = [k \in MsNodes |-> [leader |-> n, member |-> TRUE, status |-> msStatus]]
        /\ msAt = [k \in MsNodes |-> "idle"]
        /\ msForgot = FALSE
        /\ msEvents = 0

MsEvent == msEvents < MaxMsEvents /\ msEvents' = msEvents + 1
At(n, here, there) == msAt[n] = here /\ msAt' = [msAt EXCEPT ![n] = there]

-----------------------------------------------------------------------------
\* get_cluster, then the query of the cycle: process_permanent_slots finds out that a known slot is gone.
MsGet(n) ==
    /\ At(n, "idle", "loaded") /\ (n \in msDone => msNow = MaxTicks)
    /\ msView' = [msView EXCEPT ![n] = [leader |-> msLeader, member |-> msMember.here, status |-> msStatus]]
    /\ msLoad' = [msLoad EXCEPT ![n] = @ \/ (msKnown[n] /\ ~msSlot[n].there)]
    /\ UNCHANGED <<msLeader, msStatus, msDone, msRetain, msSlot, msKnown, msOutside>>

\* _build_retain_slots: the slots of registered members get the time, those last seen too long ago go.
BuildRetain(n, known) ==
    LET seen == IF known /\ msView[n].member THEN msNow ELSE msRetain[n]
    IN IF seen # Never /\ seen + SlotTtl <= msNow THEN Never ELSE seen

\* After a restart, or a failure to synchronize the slots, the leader does not see that the member is there.
Forgets(n) == msForgot' = (msForgot \/ (msView[n].member /\ ~(msKnown[n] /\ msSlot[n].there)))

\* update_leader: with the leader key, /status is written, which may fail.
MsUpdate(n) ==
    /\ At(n, "loaded", "sync") /\ msView[n].leader = n /\ msLeader = n
    /\ LET known == msKnown[n] /\ msSlot[n].there
       IN /\ msRetain' = [msRetain EXCEPT ![n] = BuildRetain(n, known)]
          /\ msStatus' = [lsn |-> IF known THEN msSlot[n].lsn ELSE 0, retain |-> msRetain'[n] # Never, late |-> msSlot[n].late]
    /\ Forgets(n)
    /\ UNCHANGED <<msLeader, msDone, msPg, msView, msMember, msWal, msNow, msEvents>>

MsUpdateFails(n) ==
    /\ At(n, "loaded", "sync") /\ msView[n].leader = n /\ msLeader = n /\ MsEvent
    /\ msRetain' = [msRetain EXCEPT ![n] = BuildRetain(n, msKnown[n] /\ msSlot[n].there)]
    /\ Forgets(n)
    /\ UNCHANGED <<msLeader, msStatus, msDone, msPg, msView, msMember, msWal, msNow>>

\* The key was lost: the node is demoted.
MsDemote(n) ==
    /\ At(n, "loaded", "idle") /\ msView[n].leader = n /\ msLeader # n
    /\ msDone' = msDone \union {n}
    /\ UNCHANGED <<msLeader, msStatus, msRetain, msPg, msView, msOutside>>

\* Altered form: the retention starts with what the node remembers itself.
AcquirePlainly(n) ==
    /\ At(n, "loaded", "sync") /\ msView[n].leader = MsNone
    /\ IF msLeader = MsNone THEN msLeader' = n ELSE UNCHANGED msLeader
    /\ UNCHANGED <<msStatus, msDone, msRetain, msPg, msView, msOutside>>

\* acquire_leader_lock: the retention of the slots found in /status starts anew.
MsAcquire(n) ==
    /\ At(n, "loaded", "sync") /\ msView[n].leader = MsNone
    /\ IF msLeader = MsNone
       THEN /\ msLeader' = n
            /\ msRetain' = [msRetain EXCEPT ![n] = IF msView[n].status.retain THEN msNow ELSE Never]
       ELSE UNCHANGED <<msLeader, msRetain>>
    /\ UNCHANGED <<msStatus, msDone, msPg, msView, msOutside>>

MsFollow(n) ==
    /\ At(n, "loaded", "sync") /\ msView[n].leader \notin {n, MsNone}
    /\ UNCHANGED <<msLeader, msStatus, msDone, msRetain, msPg, msView, msOutside>>

-----------------------------------------------------------------------------
(***************************************************************************)
(* sync_replication_slots.                                                 *)
(***************************************************************************)

\* The member streams from the leader through the slot, which cannot be dropped then.
Active(n) == msLeader = n /\ msMember.here /\ msSlot[n].there

\* _get_members_slots: registered members, then the retained slots.
Wanted(n) == msView[n].member \/ msView[n].status.retain

\* leader_filter and replica_filter; there is nothing to say of a slot that is only retained.
ExpectedActive(n) == msView[n].member /\ msView[n].leader = n
ExpectedInactive(n) == msView[n].member /\ msView[n].leader # n

NewSlot == [there |-> TRUE, lsn |-> msWal, xmin |-> FALSE, late |-> msMember.lsn < msWal]

\* pg_replication_slot_advance to the position found in /status.
Advanced(n) ==
    LET status == msView[n].status
    IN IF status.lsn > msSlot[n].lsn THEN [msSlot[n] EXCEPT !.lsn = status.lsn, !.late = @ \/ status.late] ELSE msSlot[n]

\* _ensure_physical_slots: dropped for its xmin where it is not used, created if missing, advanced otherwise.
EnsurePhysical(n, known) ==
    CASE known /\ msSlot[n].xmin /\ ExpectedInactive(n) /\ msView[n].leader # MsNone /\ ~Active(n) -> NewSlot
      [] ~known /\ ~msSlot[n].there -> NewSlot
      [] known /\ msSlot[n].there /\ ~ExpectedActive(n) /\ ~msSlot[n].xmin -> Advanced(n)
      [] OTHER -> msSlot[n]

MsSync(n) ==
    /\ At(n, "sync", "idle")
    /\ msDone' = msDone \union {n}
    /\ LET known == IF msLoad[n] THEN msSlot[n].there ELSE msKnown[n]
       IN IF Wanted(n)
          THEN /\ msSlot' = [msSlot EXCEPT ![n] = EnsurePhysical(n, known)]
               /\ msLoad' = [msLoad EXCEPT ![n] = ~known \/ (msSlot[n].xmin /\ ExpectedInactive(n))]
          ELSE \* _drop_incorrect_slots
               /\ msSlot' = [msSlot EXCEPT ![n] = IF known /\ ~Active(n) THEN NoSlotHere ELSE @]
               /\ msLoad' = [msLoad EXCEPT ![n] = known /\ (Active(n) \/ ~msSlot[n].there)]
    /\ msKnown' = [msKnown EXCEPT ![n] = Wanted(n)]
    /\ UNCHANGED <<msLeader, msStatus, msRetain, msView, msOutside>>

\* An exception in between.
MsSyncFails(n) ==
    /\ At(n, "sync", "idle") /\ MsEvent
    /\ msDone' = msDone \union {n}
    /\ msLoad' = [msLoad EXCEPT ![n] = TRUE]
    /\ UNCHANGED <<msLeader, msStatus, msRetain, msSlot, msKnown, msView, msMember, msWal, msNow, msForgot>>

-----------------------------------------------------------------------------
\* Time for the effects of an event to show within the bound on ticks.
Early == msNow + SlotTtl + 1 <= MaxTicks

LeaderLost ==
    /\ msLeader # MsNone /\ MsEvent /\ Early
    /\ msLeader' = MsNone
    /\ UNCHANGED <<msMember, msWal, msStatus, msNow, msDone, msRetain, msPg, msView, msAt, msForgot>>

\* The member key expires.
MemberLeaves ==
    /\ msMember.here /\ msNow >= msMember.since + KeyTtl /\ MsEvent /\ Early
    /\ msMember' = [msMember EXCEPT !.here = FALSE, !.left = msNow, !.retained = msStatus.retain]
    /\ UNCHANGED <<msLeader, msWal, msStatus, msNow, msDone, msRetain, msPg, msView, msAt, msForgot>>

MemberJoins ==
    /\ ~msMember.here /\ MsEvent /\ Early
    /\ msMember' = [msMember EXCEPT !.here = TRUE, !.since = msNow]
    /\ UNCHANGED <<msLeader, msWal, msStatus, msNow, msDone, msRetain, msPg, msView, msAt, msForgot>>

\* Patroni is restarted, PostgreSQL and the leader key stay.
MsRestart(n) ==
    /\ MsEvent
    /\ msRetain' = [msRetain EXCEPT ![n] = Never]
    /\ msKnown' = [msKnown EXCEPT ![n] = FALSE]
    /\ msLoad' = [msLoad EXCEPT ![n] = TRUE]
    /\ msAt' = [msAt EXCEPT ![n] = "idle"]
    /\ msForgot' = (msForgot \/ msLeader = n)
    /\ UNCHANGED <<msLeader, msMember, msWal, msStatus, msNow, msDone, msSlot, msView>>

\* The leader writes WAL; the member receives it, with hot_standby_feedback.
MsStream ==
    /\ \/ /\ msWal < MaxLsn /\ msWal' = msWal + 1
          /\ UNCHANGED <<msMember, msSlot>>
       \/ /\ msLeader # MsNone /\ Active(msLeader) /\ (msMember.lsn < msWal \/ ~msSlot[msLeader].xmin)
          /\ msMember' = [msMember EXCEPT !.lsn = msWal]
          /\ msSlot' = [msSlot EXCEPT ![msLeader] = [there |-> TRUE, lsn |-> msWal, xmin |-> TRUE, late |-> FALSE]]
          /\ UNCHANGED msWal
    /\ UNCHANGED <<msLeader, msStatus, msNow, msDone, msRetain, msKnown, msLoad, msView, msAt, msForgot, msEvents>>

\* Every node has had its cycle.
MsTick ==
    /\ msNow < MaxTicks /\ msDone = MsNodes
    /\ \A n \in MsNodes : msAt[n] = "idle"
    /\ msNow' = msNow + 1 /\ msDone' = {}
    /\ UNCHANGED <<msLeader, msMember, msWal, msStatus, msRetain, msPg, msView, msAt, msForgot, msEvents>>

-----------------------------------------------------------------------------
MsCycle(n) == MsGet(n) \/ MsUpdate(n) \/ MsDemote(n) \/ MsAcquire(n) \/ MsFollow(n) \/ MsSync(n)

MsNext ==
    \/ \E n \in MsNodes : MsCycle(n) \/ MsUpdateFails(n) \/ MsSyncFails(n) \/ MsRestart(n)
    \/ LeaderLost \/ MemberLeaves \/ MemberJoins \/ MsStream \/ MsTick

MsSpec == MsInit /\ [][MsNext]_msVars

-----------------------------------------------------------------------------
(***************************************************************************)
(* "replication slots for absent members will not be removed when the      *)
(* members downtime is shorter than the configured threshold", on no node  *)
(* and through failovers.  The leader measures the downtime from the last  *)
(* cycle in which it has seen the member, which is up to a tick more.      *)
(***************************************************************************)
AbsentMemberKeepsSlot ==
    [][\A n \in MsNodes :
        msSlot[n].there /\ ~msSlot'[n].there /\ ~msMember.here /\ msMember.retained => msNow + 1 >= msMember.left + SlotTtl]_msVars

\* The same, unless Patroni of the leader was restarted, which forgets whom it has seen, or a leader ran a cycle
\* without having loaded its slots.
RetainedThroughFailover ==
    [][\A n \in MsNodes :
        msSlot[n].there /\ ~msSlot'[n].there /\ ~msMember.here /\ msMember.retained
            => msForgot \/ msNow + 1 >= msMember.left + SlotTtl]_msVars

(***************************************************************************)
(* Whoever becomes the leader has the WAL the member needs: its slot was   *)
(* not advanced past the position of the member (unless a slot had to be   *)
(* created when the WAL was gone already).                                 *)
(***************************************************************************)
SlotKeepsWal == \A n \in MsNodes : msSlot[n].there /\ ~msSlot[n].late => msSlot[n].lsn <= msMember.lsn

(***************************************************************************)
(* In the end every node has the slot of a member that is there, no node   *)
(* that of a member that is gone, and only the leader, where the member is *)
(* connected, is kept from vacuuming by it.                                *)
(***************************************************************************)
SlotsFollowMember ==
    <>[](\A n \in MsNodes : msSlot[n].there = msMember.here /\ (msSlot[n].xmin => msLeader = n))
=============================================================================
