------------------------------ MODULE LogQueue ------------------------------
(***************************************************************************)
(* The log of a Patroni process (patroni/log.py): every thread puts its    *)
(* records into a bounded queue without waiting, the logger thread writes  *)
(* them through the handler of the configuration in force, and shutdown()  *)
(* sends it a None through the same queue.                                 *)
(*                                                                         *)
(* A record is its kind and its thread: "owner" (Lock owner: ...), "beat"  *)
(* (no action. ...) or "other", and the report of lost records with their  *)
(* number.                                                                 *)
(***************************************************************************)
EXTENDS Naturals, Sequences

CONSTANTS LogThreads, QueueSizes, MaxEmitted, MaxHandlers

ASSUME LogAssumption ==
    QueueSizes \subseteq Nat \ {0} /\ QueueSizes # {} /\ MaxEmitted \in Nat /\ MaxHandlers \in Nat

Stop == [kind |-> "None", thread |-> "None", lost |-> 0]
Record(kind, t) == [kind |-> kind, thread |-> t, lost |-> 0]
LostReport(n, t) == [kind |-> "other", thread |-> t, lost |-> n]

VARIABLES logQueue,   \* QueueHandler.queue
          logMax,     \* its maxsize
          logInfo,    \* the level of the root logger is INFO
          logLost,    \* _records_lost
          logPrev,    \* prev_record of the logger thread, Stop if there is none
          logHandler, \* log_handler, a number
          logOld,     \* _old_handlers
          logClosed,  \* handlers that were closed
          logWriter,  \* "new", "top", "get" or "gone"
          logExit,    \* "no", "joining", "done" or "broken" (exit code 5)
          logCount    \* records emitted, written, left out as chatter, reported as lost

logVars == <<logQueue, logMax, logInfo, logLost, logPrev, logHandler, logOld, logClosed, logWriter, logExit, logCount>>

LogInit ==
    /\ logQueue = <<>>
    /\ logMax = CHOOSE n \in QueueSizes : \A m \in QueueSizes : m <= n
    /\ logInfo = TRUE
    /\ logLost = 0
    /\ logPrev = Stop
    /\ logHandler = 1
    /\ logOld = {}
    /\ logClosed = {}
    /\ logWriter = "new"
    /\ logExit = "no"
    /\ logCount = [emitted |-> 0, written |-> 0, chatter |-> 0, reported |-> 0]

\* Altered form: a report that does not fit still resets the counter.
QueuedForgetful(q, lost, r) ==
    CASE Len(q) >= logMax -> [queue |-> q, lost |-> lost + 1]
      [] Len(q) < logMax /\ lost > 0 /\ Len(q) + 1 >= logMax -> [queue |-> Append(q, r), lost |-> 0]
      [] OTHER -> [queue |-> IF lost = 0 THEN Append(q, r) ELSE q \o <<r, LostReport(lost, r.thread)>>, lost |-> 0]

\* QueueHandler.emit, under the handler's lock: the record, then the report of those lost before.
Queued(q, lost, r) ==
    CASE Len(q) >= logMax -> [queue |-> q, lost |-> lost + 1]
      [] Len(q) < logMax /\ lost > 0 /\ Len(q) + 1 >= logMax -> [queue |-> Append(q, r), lost |-> lost]
      [] OTHER -> [queue |-> IF lost = 0 THEN Append(q, r) ELSE q \o <<r, LostReport(lost, r.thread)>>, lost |-> 0]

\* A thread logs: through the proxy until the logger thread runs, then through the queue.
Emit(t, kind) ==
    /\ logCount.emitted < MaxEmitted /\ logExit \notin {"done", "broken"}
    /\ IF logWriter = "new"
       THEN /\ logCount' = [logCount EXCEPT !.emitted = @ + 1, !.written = @ + 1]
            /\ UNCHANGED <<logQueue, logLost>>
       ELSE /\ logCount' = [logCount EXCEPT !.emitted = @ + 1]
            /\ logQueue' = Queued(logQueue, logLost, Record(kind, t)).queue
            /\ logLost' = Queued(logQueue, logLost, Record(kind, t)).lost
    /\ UNCHANGED <<logMax, logInfo, logPrev, logHandler, logOld, logClosed, logWriter, logExit>>

\* reload_config: size, level and, when the directory comes or goes, the handler; the logger thread closes the old one.
LogReload(size, info, dir) ==
    /\ logExit = "no" /\ (dir => logHandler < MaxHandlers)
    /\ logMax' = size
    /\ logInfo' = info
    /\ logHandler' = IF dir THEN logHandler + 1 ELSE logHandler
    /\ logOld' = IF dir THEN logOld \union {logHandler} ELSE logOld
    /\ UNCHANGED <<logQueue, logLost, logPrev, logClosed, logWriter, logExit, logCount>>

-----------------------------------------------------------------------------
\* run(): the queue handler takes the place of the proxy.
WriterStarts ==
    /\ logWriter = "new"
    /\ logWriter' = "top"
    /\ UNCHANGED <<logQueue, logMax, logInfo, logLost, logPrev, logHandler, logOld, logClosed, logExit, logCount>>

CloseOldHandlers ==
    /\ logWriter = "top"
    /\ logWriter' = "get"
    /\ logClosed' = logClosed \union logOld
    /\ logOld' = {}
    /\ UNCHANGED <<logQueue, logMax, logInfo, logLost, logPrev, logHandler, logExit, logCount>>

(***************************************************************************)
(* What the logger thread does with a record at level INFO: a "Lock owner" *)
(* record is held back; it is left out when the next record of its thread  *)
(* is a heartbeat (itself left out if it repeats the previous one and      *)
(* deduplication is on) and written before any other.                      *)
(***************************************************************************)
Outcome(r) ==
    LET held == logPrev # Stop /\ logPrev.thread = r.thread
    IN CASE logInfo /\ r.kind = "owner" -> {[prev |-> r, written |-> 0, chatter |-> IF logPrev = Stop THEN 0 ELSE 1]}
         [] logInfo /\ r.kind # "owner" /\ held /\ r.kind = "beat" ->
              {[prev |-> Stop, written |-> w, chatter |-> 2 - w] : w \in {0, 1}}
         [] logInfo /\ r.kind # "owner" /\ held /\ r.kind # "beat" -> {[prev |-> Stop, written |-> 2, chatter |-> 0]}
         [] OTHER -> {[prev |-> logPrev, written |-> 1, chatter |-> 0]}

WriterGets ==
    /\ logWriter = "get" /\ logQueue # <<>>
    /\ logQueue' = Tail(logQueue)
    /\ LET r == Head(logQueue)
       IN IF r = Stop
          THEN logWriter' = "gone" /\ UNCHANGED <<logPrev, logCount>>
          ELSE /\ logWriter' = "top"
               /\ \E o \in Outcome(r) :
                    /\ logPrev' = o.prev
                    /\ logCount' = [logCount EXCEPT !.written = @ + o.written - (IF r.lost > 0 THEN 1 ELSE 0),
                                                    !.chatter = @ + o.chatter,
                                                    !.reported = @ + r.lost]
    /\ UNCHANGED <<logMax, logInfo, logLost, logHandler, logOld, logClosed, logExit>>

\* shutdown(): None goes through the queue, or the process exits at once with code 5.
LogShutdown ==
    /\ logExit = "no" /\ logWriter # "new"
    /\ logExit' = IF Len(logQueue) >= logMax THEN "broken" ELSE "joining"
    /\ logQueue' = IF Len(logQueue) >= logMax THEN logQueue ELSE Append(logQueue, Stop)
    /\ UNCHANGED <<logMax, logInfo, logLost, logPrev, logHandler, logOld, logClosed, logWriter, logCount>>

LogJoined ==
    /\ logExit = "joining" /\ logWriter = "gone"
    /\ logExit' = "done"
    /\ UNCHANGED <<logQueue, logMax, logInfo, logLost, logPrev, logHandler, logOld, logClosed, logWriter, logCount>>

Writer == CloseOldHandlers \/ WriterGets

LogNext ==
    \/ WriterStarts \/ Writer \/ LogShutdown \/ LogJoined
    \/ \E t \in LogThreads, kind \in {"owner", "beat", "other"} : Emit(t, kind)
    \/ \E size \in QueueSizes, info \in BOOLEAN, dir \in BOOLEAN : LogReload(size, info, dir)

LogSpec == LogInit /\ [][LogNext]_logVars

-----------------------------------------------------------------------------
\* The sum of the first n numbers of w.
Total(w, n) == LET sum[i \in 0..n] == IF i = 0 THEN 0 ELSE sum[i - 1] + w[i] IN sum[n]

\* What a record in the queue accounts for: itself, or the lost ones it reports.
Weight(r) == IF r = Stop THEN 0 ELSE IF r.lost > 0 THEN r.lost ELSE 1
InQueue(q) == Total([i \in 1..Len(q) |-> Weight(q[i])], Len(q))

(***************************************************************************)
(* No record disappears: each is written, left out as chatter, held back,  *)
(* in the queue, or counted in records_lost or in a report, whatever the   *)
(* queue, its size, the level and the handlers go through.                 *)
(***************************************************************************)
RecordsAccounted ==
    logCount.emitted = logCount.written + logCount.chatter + logCount.reported + logLost
                       + InQueue(logQueue) + (IF logPrev = Stop THEN 0 ELSE 1)

\* The handler in use is never one the logger thread has closed or is about to close.
HandlerOpen == logHandler \notin logClosed \union logOld

\* shutdown() comes back: the logger thread gets to the None, or the process exits for the full queue.
ShutdownReturns == logExit = "joining" ~> logExit = "done"
=============================================================================
