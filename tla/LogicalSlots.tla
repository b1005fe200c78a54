---------------------------- MODULE LogicalSlots ----------------------------
(***************************************************************************)
(* One permanent logical replication slot on a replica that may become the *)
(* primary (patroni/postgresql/slots.py): Patroni copies it from the       *)
(* primary, advances it in a thread of its own after the position found in *)
(* the DCS, and decides when it is safe to be used after a failover.  The  *)
(* primary, its vacuum, the consumer of the slot and the streaming replica *)
(* are the environment.                                                    *)
(*                                                                         *)
(* Positions in the WAL and transaction ids are one scale: the             *)
(* catalog_xmin of a slot moves with its confirmed_flush_lsn.              *)
(***************************************************************************)
EXTENDS Integers

CONSTANTS MaxLsWal,     \* bound: end of the WAL of the primary
          MaxLsEvents \* bound: failures, changes of the configuration, lost slots, restarts and promotions

ASSUME LogicalSlotsAssumption == MaxLsWal \in Nat /\ MaxLsEvents \in Nat

\* A logical slot of a plugin at a position; pos -1: Patroni believes in a slot it has not seen.
NoSlot == [plugin |-> 0, pos |-> 0]
Slot(plugin, pos) == [plugin |-> plugin, pos |-> pos]
Out == -2       \* the slot is not in the queue of slots to be checked
Unchecked == -1 \* it is, with the value None

VARIABLES lsConf,   \* plugin of the slot in the configuration, 0: no slot is configured
          lsPrim,   \* primary: end of WAL, its slot, catalog_xmin of our physical slot (0: null), vacuumed
          lsStatus, \* position of the slot in /status, 0: none
          lsRole,   \* "replica" or "primary"
          lsReplay, \* replay position of the replica
          lsSlot,   \* the slot in the local PostgreSQL
          lsCache,  \* its entry in _replication_slots
          lsFlags,  \* _schedule_load_slots and _force_readiness_check
          lsQueue,  \* its entry in _logical_slots_processing_queue
          lsAdv,    \* SlotsAdvanceThread: scheduled, taken by the thread, outcome, _failed, _copy_slots
          lsOp,     \* where the HA cycle is, "copy" while the asynchronous task runs
          lsRead,   \* slot read by copy_logical_slots
          lsEvents

lsVars == <<lsConf, lsPrim, lsStatus, lsRole, lsReplay, lsSlot, lsCache, lsFlags, lsQueue, lsAdv, lsOp, lsRead, lsEvents>>
lsMind == <<lsCache, lsFlags, lsQueue, lsAdv, lsOp, lsRead>>
lsEnv == <<lsConf, lsPrim, lsStatus, lsRole, lsReplay>>
lsWorld == <<lsEnv, lsEvents>>

LsIdle == [scheduled |-> 0, taken |-> 0, outcome |-> "none", failed |-> FALSE, copy |-> FALSE]
Scheduled == [load |-> TRUE, force |-> TRUE]

LsInit ==
    /\ lsConf = 1
    /\ lsPrim = [wal |-> 1, slot |-> Slot(1, 1), phys |-> 0, vac |-> 0]
    /\ lsStatus = 1
    /\ lsRole = "replica"
    /\ lsReplay = 1
    /\ lsSlot = NoSlot
    /\ lsCache = NoSlot
    /\ lsFlags = Scheduled
    /\ lsQueue = Out
    /\ lsAdv = LsIdle
    /\ lsOp = "idle"
    /\ lsRead = NoSlot
    /\ lsEvents = 0

Least(a, b) == IF a < b THEN a ELSE b
LsEvent == lsEvents < MaxLsEvents /\ lsEvents' = lsEvents + 1

-----------------------------------------------------------------------------
(***************************************************************************)
(* The HA cycle: the query that starts it and sync_replication_slots.      *)
(***************************************************************************)

\* process_permanent_slots: fresh positions; a slot that is gone or has changed is loaded again.
LsQuery ==
    /\ lsOp = "idle"
    /\ lsOp' = "queried"
    /\ LET same == lsSlot # NoSlot /\ lsCache.plugin = lsSlot.plugin
       IN /\ lsCache' = IF same THEN lsSlot ELSE lsCache
          /\ lsFlags' = [lsFlags EXCEPT !.load = @ \/ (lsCache # NoSlot /\ ~same)]
    /\ UNCHANGED <<lsSlot, lsQueue, lsAdv, lsRead, lsWorld>>

\* load_replication_slots, if that was scheduled.
LoadedCache == IF lsFlags.load THEN lsSlot ELSE lsCache
LoadedQueue == IF lsFlags.load /\ lsFlags.force THEN (IF lsSlot = NoSlot THEN Out ELSE Unchecked) ELSE lsQueue
LoadedForce == lsFlags.force /\ ~lsFlags.load

\* _drop_incorrect_slots: an unknown slot, or one with another plugin.
Incorrect(cache) == cache # NoSlot /\ cache.plugin # lsConf
DropIncorrect(cache) == lsSlot' = IF Incorrect(cache) THEN NoSlot ELSE lsSlot

\* _update_pending_logical_slot_primary: remembered when catalog_xmin of our physical slot is valid.
Pending(queue) == IF queue = Unchecked /\ lsPrim.slot # NoSlot THEN lsPrim.slot.pos ELSE queue

\* Altered form: it is enough that the physical slot is not ahead of the slot on this replica.
ReadyTooEarly(queue, cache) ==
    IF cache = NoSlot \/ lsPrim.phys <= cache.pos THEN Out ELSE queue

\* _ready_logical_slots with a valid catalog_xmin.
Ready(queue, cache) ==
    IF cache = NoSlot \/ (queue <= lsPrim.phys /\ lsPrim.phys <= cache.pos) THEN Out ELSE queue

\* check_logical_slots_readiness, with a primary that answers or does not.
Checked(queue, cache, answers) ==
    CASE queue = Out -> Out
      [] queue # Out /\ ~(answers /\ lsPrim.phys > 0) -> queue
      [] OTHER -> Ready(Pending(queue), cache)

\* None is compared with a number: the primary does not have the slot.
CannotCompare(queue, cache, answers) ==
    queue # Out /\ answers /\ lsPrim.phys > 0 /\ Pending(queue) = Unchecked /\ cache # NoSlot

\* An exception: everything is loaded again in the next cycle.
LsRaises ==
    /\ lsFlags' = [load |-> TRUE, force |-> LoadedForce]
    /\ lsCache' = LoadedCache
    /\ lsOp' = "idle"
    /\ UNCHANGED <<lsAdv, lsRead>>

\* The position to advance the slot to, 0 if there is no need: never past what was replayed.
AdvanceValue(cache) ==
    LET lsn == Least(lsStatus, lsReplay)
    IN IF lsStatus > 0 /\ cache.pos < lsn THEN lsn ELSE 0

\* _ensure_logical_slots_replica; SlotsAdvanceThread.schedule gives back what failed since the last call.
EnsureReplica(cache) ==
    LET missing == lsConf # 0 /\ cache = NoSlot
        copies == missing /\ lsStatus > 0
        value == IF cache # NoSlot THEN AdvanceValue(cache) ELSE 0
    IN /\ lsAdv' = [lsAdv EXCEPT !.scheduled = IF value > 0 /\ ~lsAdv.copy THEN value ELSE @,
                                 !.failed = FALSE, !.copy = FALSE]
       /\ lsFlags' = [load |-> lsAdv.failed, force |-> LoadedForce]
       /\ lsCache' = CASE copies \/ lsConf = 0 -> NoSlot
                       [] missing /\ ~copies -> Slot(lsConf, -1)
                       [] OTHER -> cache
       /\ lsOp' = IF copies \/ lsAdv.copy THEN "copy" ELSE "idle"

\* sync_replication_slots on a replica.
SyncReplica(answers) ==
    /\ lsOp = "queried" /\ lsRole = "replica"
    /\ LET loaded == LoadedCache
           cache == IF Incorrect(loaded) THEN NoSlot ELSE loaded
       IN /\ DropIncorrect(loaded)
          /\ IF CannotCompare(LoadedQueue, cache, answers) \/ (cache # NoSlot /\ cache.pos = -1)
             THEN LsRaises /\ lsQueue' = Pending(LoadedQueue)
             ELSE /\ lsQueue' = Checked(LoadedQueue, cache, answers)
                  /\ EnsureReplica(cache)
    /\ lsRead' = NoSlot
    /\ IF answers THEN UNCHANGED lsEvents ELSE LsEvent
    /\ UNCHANGED lsEnv

\* The connection to PostgreSQL breaks in the middle.
SyncFails ==
    /\ lsOp = "queried"
    /\ LsRaises
    /\ lsQueue' = LoadedQueue
    /\ LsEvent
    /\ UNCHANGED <<lsSlot, lsEnv>>

\* sync_replication_slots on the primary: _ensure_logical_slots_primary creates the slot.
SyncPrimary ==
    /\ lsOp = "queried" /\ lsRole = "primary"
    /\ LET cache == IF Incorrect(LoadedCache) THEN NoSlot ELSE LoadedCache
           new == lsConf # 0 /\ cache.pos <= 0
       IN /\ lsSlot' = CASE new /\ (lsSlot = NoSlot \/ Incorrect(LoadedCache)) -> Slot(lsConf, lsReplay)
                         [] Incorrect(LoadedCache) /\ ~new -> NoSlot
                         [] OTHER -> lsSlot
          /\ lsCache' = IF lsConf = 0 THEN NoSlot ELSE IF new THEN Slot(lsConf, -1) ELSE cache
          /\ lsFlags' = [load |-> new, force |-> LoadedForce]
    /\ lsQueue' = Out
    /\ lsOp' = "idle"
    /\ UNCHANGED <<lsAdv, lsRead, lsWorld>>

-----------------------------------------------------------------------------
\* copy_logical_slots reads the slot and its file from the primary; it may not be there or not be ours.
CopyRead ==
    /\ lsOp = "copy" /\ lsRead = NoSlot
    /\ \/ /\ lsPrim.slot # NoSlot /\ lsPrim.slot.plugin = lsConf
          /\ lsRead' = lsPrim.slot /\ UNCHANGED <<lsOp, lsEvents>>
       \/ /\ lsPrim.slot.plugin # lsConf \/ lsConf = 0
          /\ lsOp' = "idle" /\ UNCHANGED <<lsRead, lsEvents>>
       \/ LsEvent /\ lsOp' = "idle" /\ UNCHANGED lsRead
    /\ UNCHANGED <<lsSlot, lsCache, lsFlags, lsQueue, lsAdv, lsEnv>>

\* PostgreSQL is stopped, the file written and PostgreSQL started: a new postmaster, slots are loaded again.
CopyWrite ==
    /\ lsOp = "copy" /\ lsRead # NoSlot
    /\ lsSlot' = lsRead
    /\ lsAdv' = [lsAdv EXCEPT !.scheduled = 0, !.failed = FALSE, !.copy = FALSE]
    /\ lsQueue' = Unchecked
    /\ lsFlags' = Scheduled
    /\ lsRead' = NoSlot
    /\ lsOp' = "idle"
    /\ UNCHANGED <<lsCache, lsWorld>>

-----------------------------------------------------------------------------
(***************************************************************************)
(* SlotsAdvanceThread.                                                     *)
(***************************************************************************)
AdvanceTake ==
    /\ lsAdv.scheduled > 0 /\ lsAdv.taken = 0
    /\ lsAdv' = [lsAdv EXCEPT !.taken = @ + lsAdv.scheduled, !.outcome = "none"]
    /\ UNCHANGED <<lsSlot, lsCache, lsFlags, lsQueue, lsOp, lsRead, lsWorld>>

\* sync_slot: the query; it may fail, with an error that says that the slot is of no use any more, too.
AdvanceExecute ==
    /\ lsAdv.taken > 0 /\ lsAdv.outcome = "none"
    /\ \/ /\ lsSlot # NoSlot
          /\ lsSlot' = [lsSlot EXCEPT !.pos = IF @ < lsAdv.taken THEN lsAdv.taken ELSE @]
          /\ lsAdv' = [lsAdv EXCEPT !.outcome = "done"]
          /\ UNCHANGED lsEvents
       \/ /\ lsSlot = NoSlot
          /\ lsAdv' = [lsAdv EXCEPT !.outcome = "failed"] /\ UNCHANGED <<lsSlot, lsEvents>>
       \/ \E o \in {"failed", "invalid"} : lsAdv' = [lsAdv EXCEPT !.outcome = o] /\ LsEvent /\ UNCHANGED lsSlot
    /\ UNCHANGED <<lsCache, lsFlags, lsQueue, lsOp, lsRead, lsEnv>>

\* sync_slot: the outcome is recorded, unless everything was cleaned, or scheduled anew, in the meantime.
AdvanceRecord ==
    /\ lsAdv.outcome # "none"
    /\ LET bad == lsAdv.scheduled > 0 /\ lsAdv.outcome # "done"
           over == lsAdv.outcome = "invalid" \/ lsAdv.scheduled = lsAdv.taken
       IN lsAdv' = [scheduled |-> IF over THEN 0 ELSE lsAdv.scheduled, taken |-> 0, outcome |-> "none",
                    failed |-> lsAdv.failed \/ bad, copy |-> lsAdv.copy \/ (bad /\ lsAdv.outcome = "invalid")]
    /\ UNCHANGED <<lsSlot, lsCache, lsFlags, lsQueue, lsOp, lsRead, lsWorld>>

-----------------------------------------------------------------------------
\* Postgresql.promote calls on_promote; no task runs at that time.
LsPromote ==
    /\ lsRole = "replica" /\ lsOp = "idle" /\ LsEvent
    /\ lsRole' = "primary"
    /\ lsAdv' = [lsAdv EXCEPT !.scheduled = 0, !.failed = FALSE, !.copy = FALSE]
    /\ UNCHANGED <<lsConf, lsPrim, lsStatus, lsReplay, lsSlot, lsCache, lsFlags, lsQueue, lsOp, lsRead>>

\* PostgreSQL is restarted (is_running finds a new postmaster), or a pause ends.
PgRestarts ==
    /\ LsEvent
    /\ lsFlags' = Scheduled
    /\ UNCHANGED <<lsConf, lsPrim, lsStatus, lsRole, lsReplay, lsSlot, lsCache, lsQueue, lsAdv, lsOp, lsRead>>

PatroniRestarts ==
    /\ LsEvent
    /\ lsFlags' = Scheduled
    /\ lsCache' = NoSlot /\ lsQueue' = Out /\ lsAdv' = LsIdle /\ lsOp' = "idle" /\ lsRead' = NoSlot
    /\ UNCHANGED <<lsConf, lsPrim, lsStatus, lsRole, lsReplay, lsSlot>>

\* Somebody drops the slot of the replica behind Patroni's back.
SlotVanishes ==
    /\ lsSlot # NoSlot /\ LsEvent
    /\ lsSlot' = NoSlot
    /\ UNCHANGED <<lsConf, lsPrim, lsStatus, lsRole, lsReplay, lsMind>>

Configure(plugin) ==
    /\ plugin # lsConf /\ LsEvent
    /\ lsConf' = plugin
    /\ UNCHANGED <<lsPrim, lsStatus, lsRole, lsReplay, lsSlot, lsMind>>

\* Patroni of the primary drops and creates its slot, and publishes its position in /status.
PrimaryCycle ==
    /\ lsRole = "replica"
    /\ LET slot == CASE lsConf = 0 -> NoSlot
                     [] lsConf # 0 /\ lsPrim.slot.plugin # lsConf -> Slot(lsConf, lsPrim.wal)
                     [] OTHER -> lsPrim.slot
       IN /\ lsPrim' = [lsPrim EXCEPT !.slot = slot]
          /\ lsStatus' = IF lsPrim.slot = NoSlot THEN 0 ELSE lsPrim.slot.pos
    /\ UNCHANGED <<lsConf, lsRole, lsReplay, lsSlot, lsMind, lsEvents>>

\* The primary writes WAL, its consumer confirms, vacuum removes what no slot of the primary protects.
PrimaryWorks ==
    /\ lsRole = "replica"
    /\ \/ lsPrim.wal < MaxLsWal /\ lsPrim' = [lsPrim EXCEPT !.wal = @ + 1]
       \/ lsPrim.slot # NoSlot /\ lsPrim.slot.pos < lsPrim.wal /\ lsPrim' = [lsPrim EXCEPT !.slot.pos = @ + 1]
       \/ LET end == IF lsPrim.slot = NoSlot THEN lsPrim.wal ELSE lsPrim.slot.pos
              least == IF lsPrim.phys = 0 THEN end ELSE Least(end, lsPrim.phys)
          IN lsPrim.vac < least /\ lsPrim' = [lsPrim EXCEPT !.vac = least]
    /\ UNCHANGED <<lsConf, lsStatus, lsRole, lsReplay, lsSlot, lsMind, lsEvents>>

\* The replica replays, and reports catalog_xmin of its slots (hot_standby_feedback); on the primary it never goes back.
Stream ==
    /\ lsRole = "replica" /\ lsReplay' = lsPrim.wal
    /\ lsPrim' = [lsPrim EXCEPT !.phys = IF lsSlot = NoSlot THEN 0 ELSE IF @ < lsSlot.pos THEN lsSlot.pos ELSE @]
    /\ UNCHANGED <<lsConf, lsStatus, lsRole, lsSlot, lsMind, lsEvents>>

-----------------------------------------------------------------------------
\* One HA thread, one thread that advances: each goes on while it can.
LsHa == LsQuery \/ SyncReplica(TRUE) \/ SyncPrimary \/ CopyRead \/ CopyWrite
LsAdvance == AdvanceTake \/ AdvanceExecute \/ AdvanceRecord

LsNext ==
    \/ LsHa \/ LsAdvance \/ SyncReplica(FALSE) \/ SyncFails
    \/ LsPromote \/ PgRestarts \/ PatroniRestarts \/ SlotVanishes \/ \E p \in 0..2 : Configure(p)
    \/ PrimaryCycle \/ PrimaryWorks \/ Stream

LsSpec == LsInit /\ [][LsNext]_lsVars

-----------------------------------------------------------------------------
(***************************************************************************)
(* The replica never moves its slot past the consumer of the primary's:    *)
(* what the consumer has not confirmed is still there after a failover.    *)
(***************************************************************************)
SlotNotAhead == lsRole = "replica" /\ lsSlot # NoSlot /\ lsSlot.plugin = lsPrim.slot.plugin => lsSlot.pos <= lsPrim.slot.pos

(***************************************************************************)
(* "Logical slot is safe to be used after a failover": when the replica    *)
(* has no slot left to check, vacuum on the primary has not removed any    *)
(* catalog row that its slot still needs.                                  *)
(***************************************************************************)
SlotSafe ==
    lsRole = "replica" /\ lsSlot # NoSlot /\ lsCache = lsSlot /\ lsQueue = Out /\ ~lsFlags.force
        => lsPrim.vac <= lsSlot.pos

(***************************************************************************)
(* Whatever was dropped, restarted or reconfigured, in the end the slot of *)
(* the configuration is there, and ready if this is a replica, as long as  *)
(* the HA loop goes on.                                                    *)
(***************************************************************************)
SlotComesBack == []<>(lsOp # "idle") => <>[](lsSlot.plugin = lsConf /\ (lsConf = 0 \/ lsQueue = Out))
=============================================================================
