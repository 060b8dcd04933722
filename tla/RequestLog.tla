----------------------------- MODULE RequestLog -----------------------------
(***************************************************************************)
(* The log of upstream requests: the transport that makes one entry of     *)
(* each call (dsbx/web/logging/transport.py), the bounded queue and the    *)
(* flush task that writes them to SQLite (service.py).                     *)
(*                                                                         *)
(* Calls run on worker threads.  Everything else runs on the event loop,   *)
(* where a step is what happens between two awaits.  An entry is named     *)
(* after the call it describes, like its primary key.                      *)
(***************************************************************************)
EXTENDS Integers, SequencesExt

CONSTANTS
    Calls,      \* HTTP calls to an upstream
    QueueSize,  \* _QUEUE_MAXSIZE
    BatchSize   \* batch_size

ASSUME LogAssumption ==
    /\ QueueSize \in Nat \ {0}
    /\ BatchSize \in Nat \ {0}

VARIABLES
    call,       \* where each call is
    emitted,    \* how many entries each call made
    scheduled,  \* entries handed to the loop, whose enqueue_log has not run
    queue,
    service,    \* "new", "on", "stopping", or "off": _queue is None
    flush,      \* where the flush task is
    entries,    \* its batch
    db,         \* the rows, in the order they were added
    gone,       \* entries that were dropped, or whose batch failed
    left,       \* entries that waited when the task was cancelled
    tornWrite,  \* the write it was cancelled in had been committed
    dbFailed    \* the last write failed by itself

logVars == <<call, emitted, scheduled, queue, service, flush, entries, db, gone,
             left, tornWrite, dbFailed>>
callVars == <<call, emitted, scheduled>>
ghostVars == <<left, tornWrite, dbFailed>>

Rows == ToSet(db)
Line == db \o entries \o queue
Precedes(line, s, t) == \E i, j \in DOMAIN line : i < j /\ line[i] = s /\ line[j] = t

LogInit ==
    /\ call = [t \in Calls |-> "new"]
    /\ emitted = [t \in Calls |-> 0]
    /\ scheduled = {}
    /\ queue = <<>>
    /\ service = "new"
    /\ flush = "off"
    /\ entries = <<>>
    /\ db = <<>>
    /\ gone = {}
    /\ left = {}
    /\ tornWrite = FALSE
    /\ dbFailed = FALSE

-----------------------------------------------------------------------------
(***************************************************************************)
(* LoggingTransport and _TeeStream, on the worker threads.                 *)
(***************************************************************************)
\* _dispatch: the entry is on its way to the loop.
Emit(t) ==
    /\ emitted' = [emitted EXCEPT ![t] = @ + 1]
    /\ scheduled' = scheduled \cup {t}

EmitOnce(t) ==
    IF emitted[t] = 0 THEN Emit(t) ELSE UNCHANGED <<emitted, scheduled>>

MoveCall(t, where) == call' = [call EXCEPT ![t] = where]

\* An error, or an answer whose body is read at once, makes the entry; the
\* body of a stream is only wrapped.
Send(t) ==
    /\ call[t] = "new"
    /\ service \in {"on", "off"}
    /\ \/ Emit(t) /\ MoveCall(t, "ended")
       \/ UNCHANGED <<emitted, scheduled>> /\ MoveCall(t, "body")
    /\ UNCHANGED <<queue, service, flush, entries, db, gone, ghostVars>>

\* The iteration ends or breaks off with an error.
BodyEnds(t) ==
    /\ call[t] = "body"
    /\ EmitOnce(t)
    /\ MoveCall(t, "read")
    /\ UNCHANGED <<queue, service, flush, entries, db, gone, ghostVars>>

\* The response is closed: after its end, or at its terminator, before it.
Close(t) ==
    /\ call[t] \in {"body", "read"}
    /\ EmitOnce(t)
    /\ MoveCall(t, "ended")
    /\ UNCHANGED <<queue, service, flush, entries, db, gone, ghostVars>>

-----------------------------------------------------------------------------
(***************************************************************************)
(* The event loop.                                                         *)
(***************************************************************************)
\* The lifespan opens the database and starts the service, or goes on without.
Start ==
    /\ service = "new"
    /\ \/ service' = "on" /\ flush' = "get"
       \/ service' = "off" /\ UNCHANGED flush
    /\ UNCHANGED <<callVars, queue, entries, db, gone, ghostVars>>

\* A defect: the queue has no bound.
EnqueueUnbounded(t) ==
    /\ t \in scheduled
    /\ scheduled' = scheduled \ {t}
    /\ IF service # "off"
       THEN queue' = Append(queue, t) /\ UNCHANGED gone
       ELSE gone' = gone \cup {t} /\ UNCHANGED queue
    /\ UNCHANGED <<call, emitted, service, flush, entries, db, ghostVars>>

\* enqueue_log: dropped when the queue is full or the service is not running.
Enqueue(t) ==
    /\ t \in scheduled
    /\ scheduled' = scheduled \ {t}
    /\ IF service # "off" /\ Len(queue) < QueueSize
       THEN queue' = Append(queue, t) /\ UNCHANGED gone
       ELSE gone' = gone \cup {t} /\ UNCHANGED queue
    /\ UNCHANGED <<call, emitted, service, flush, entries, db, ghostVars>>

\* A defect: the batch is taken from the other end of the queue.
TakeBatchNewest ==
    /\ flush = "get" /\ service = "on"
    /\ queue # <<>>
    /\ LET n == IF Len(queue) < BatchSize THEN Len(queue) ELSE BatchSize
       IN  /\ entries' = SubSeq(queue, Len(queue) - n + 1, Len(queue))
           /\ queue' = SubSeq(queue, 1, Len(queue) - n)
    /\ flush' = "write"
    /\ UNCHANGED <<callVars, service, db, gone, ghostVars>>

\* _flush_loop, woken by the first entry, takes up to batch_size of them.
TakeBatch ==
    /\ flush = "get" /\ service = "on"
    /\ queue # <<>>
    /\ LET n == IF Len(queue) < BatchSize THEN Len(queue) ELSE BatchSize
       IN  /\ entries' = SubSeq(queue, 1, n)
           /\ queue' = SubSeq(queue, n + 1, Len(queue))
    /\ flush' = "write"
    /\ UNCHANGED <<callVars, service, db, gone, ghostVars>>

\* The transaction commits all rows of the batch or none; then they are lost.
WriteBatch ==
    /\ flush = "write" /\ service = "on"
    /\ \/ db' = db \o entries /\ UNCHANGED gone
       \/ gone' = gone \cup ToSet(entries) /\ UNCHANGED db
    /\ entries' = <<>>
    /\ flush' = "get"
    /\ UNCHANGED <<callVars, queue, service, ghostVars>>

-----------------------------------------------------------------------------
(***************************************************************************)
(* Shutdown.                                                               *)
(***************************************************************************)
\* The lifespan's exit, when uvicorn has drained its requests: the flush task
\* is cancelled.  No call is made any more; entries may still be scheduled.
Stop ==
    /\ service = "on"
    /\ \A t \in Calls : call[t] \in {"new", "ended"}
    /\ service' = "stopping"
    /\ UNCHANGED <<callVars, queue, flush, entries, db, gone, ghostVars>>

\* A defect: the handler only keeps the batch it had.
CancelledKeepsBatch ==
    /\ service = "stopping"
    /\ flush \in {"get", "write"}
    /\ left' = ToSet(entries) \cup ToSet(queue)
    /\ queue' = <<>>
    /\ gone' = gone \cup ToSet(queue)
    /\ flush' = "final"
    /\ UNCHANGED <<callVars, service, entries, db, tornWrite, dbFailed>>

\* A defect: the cancellation is caught like any error of a batch.
CancelledSwallowed ==
    /\ service = "stopping"
    /\ flush \in {"get", "write"}
    /\ gone' = gone \cup ToSet(entries)
    /\ entries' = <<>>
    /\ flush' = "get"
    /\ UNCHANGED <<callVars, queue, service, db, ghostVars>>

\* CancelledError arrives at the await.  In the middle of a write, the commit
\* may have reached the database thread or not.  The rest of the queue joins
\* the batch.
Cancelled ==
    /\ service = "stopping"
    /\ flush \in {"get", "write"}
    /\ \E committed \in BOOLEAN :
          /\ committed => flush = "write"
          /\ db' = IF committed THEN db \o entries ELSE db
          /\ tornWrite' = committed
    /\ left' = ToSet(entries) \cup ToSet(queue)
    /\ entries' = entries \o queue
    /\ queue' = <<>>
    /\ flush' = "final"
    /\ UNCHANGED <<callVars, service, gone, dbFailed>>

\* The shielded last write: a row that is there already fails all of it.
FinalWrite ==
    /\ flush = "final"
    /\ \/ /\ ToSet(entries) \cap Rows = {}
          /\ db' = db \o entries
          /\ UNCHANGED <<gone, dbFailed>>
       \/ /\ gone' = gone \cup (ToSet(entries) \ Rows)
          /\ dbFailed' = (ToSet(entries) \cap Rows = {})
          /\ UNCHANGED db
    /\ entries' = <<>>
    /\ flush' = "ended"
    /\ UNCHANGED <<callVars, queue, service, left, tornWrite>>

\* stop_logging_service ends: what came late goes with the queue.
Stopped ==
    /\ service = "stopping"
    /\ flush = "ended"
    /\ service' = "off"
    /\ gone' = gone \cup ToSet(queue)
    /\ queue' = <<>>
    /\ UNCHANGED <<callVars, flush, entries, db, ghostVars>>

Loop ==
    \/ \E t \in Calls : Enqueue(t)
    \/ TakeBatch \/ WriteBatch \/ Cancelled \/ FinalWrite \/ Stopped

LogNext ==
    \/ \E t \in Calls : Send(t) \/ BodyEnds(t) \/ Close(t)
    \/ Start \/ Loop \/ Stop

LogSpec == LogInit /\ [][LogNext]_logVars

\* The event loop runs what is ready, in the order it became ready.
Fairness ==
    /\ \A t \in Calls : WF_logVars(Enqueue(t))
    /\ WF_logVars(TakeBatch) /\ WF_logVars(WriteBatch)
    /\ WF_logVars(Cancelled) /\ WF_logVars(FinalWrite) /\ WF_logVars(Stopped)

FairSpec == LogSpec /\ Fairness

-----------------------------------------------------------------------------
(***************************************************************************)
(* Properties.                                                             *)
(***************************************************************************)
\* Each variable keeps its type; the queue never outgrows its bound.
LogTypeOK ==
    /\ call \in [Calls -> {"new", "body", "read", "ended"}]
    /\ emitted \in [Calls -> Nat]
    /\ scheduled \subseteq Calls
    /\ queue \in BoundedSeq(Calls, QueueSize)
    /\ service \in {"new", "on", "stopping", "off"}
    /\ flush \in {"off", "get", "write", "final", "ended"}
    /\ entries \in BoundedSeq(Calls, BatchSize + QueueSize)
    /\ Rows \cup gone \cup left \subseteq Calls
    /\ tornWrite \in BOOLEAN /\ dbFailed \in BOOLEAN

\* A call that is over made exactly one entry, however its body ended and was
\* closed (_TeeStream 359-362); and no entry vanishes: each one made is
\* waiting, written, or accounted for as dropped, and nothing but the batch of
\* a torn write is in two places.  A shutdown writes all that waited when it
\* began, if its last write works and the one it interrupted had not been
\* committed (_flush_loop 103-112).
Accounted ==
    LET waiting == scheduled \cup ToSet(queue) \cup ToSet(entries)
    IN  /\ \A t \in Calls :
              /\ emitted[t] <= 1
              /\ call[t] = "ended" => emitted[t] = 1
              /\ emitted[t] = 1 => t \in waiting \cup Rows \cup gone
        /\ IsInjective(db)
        /\ Rows \cap gone = {}
        /\ waiting \cap (Rows \cup gone) \subseteq (IF tornWrite THEN ToSet(entries) ELSE {})
        /\ ToSet(queue) \cap ToSet(entries) = {}
        /\ scheduled \cap (ToSet(queue) \cup ToSet(entries)) = {}
        /\ (flush = "ended" /\ ~dbFailed /\ ~tornWrite) => left \subseteq Rows

\* The log keeps the order in which entries reached the queue: no step lets an
\* entry overtake one that was in the line before it.
NoOvertaking ==
    [][~tornWrite' => \A s, t \in Calls :
          Precedes(Line', s, t) => Precedes(Line, s, t) \/ t \notin ToSet(Line)]_logVars

\* Every entry made is written or dropped in the end, whenever the service
\* stops, and a stop comes to its end (start_logging_service, 201-211).
EntriesSettle ==
    /\ \A t \in Calls : emitted[t] = 1 ~> t \in Rows \cup gone
    /\ service = "stopping" ~> service = "off"
=============================================================================
