----------------------------- MODULE AsyncAuditor -----------------------------
(* The audit log's queue and its worker (audit/async.go).  The router and  *)
(* the management plane emit events and never wait; one worker gathers     *)
(* them in batches and exports each batch once.  An event is its size.     *)
EXTENDS Naturals, Sequences

CONSTANTS Sizes,          \* sizes of encoded events
          MaxEvents, MaxBytes, MaxBatchEvents, MaxBatchBytes,
          MaxEmitted      \* bound: events emitted

ASSUME AuditorAssumption ==
    /\ Sizes \subseteq Nat \ {0} /\ MaxEmitted \in Nat
    /\ \A n \in {MaxEvents, MaxBytes, MaxBatchEvents, MaxBatchBytes} : n \in Nat \ {0}

VARIABLES
    waiting,      \* the channel
    queuedBytes,  \* bytes counted for it
    shut,         \* closed: Shutdown was called
    stats,        \* enqueued, dropped, exported, failed
    batch,        \* the worker's batch
    batchBytes,   \* bytes counted for it
    held,         \* the event it has taken from the channel, or 0
    work          \* where the worker stands

auditVars == <<waiting, queuedBytes, shut, stats, batch, batchBytes, held, work>>

AuditInit ==
    /\ waiting = <<>> /\ queuedBytes = 0 /\ shut = FALSE
    /\ stats = [enqueued |-> 0, dropped |-> 0, exported |-> 0, failed |-> 0]
    /\ batch = <<>> /\ batchBytes = 0 /\ held = 0 /\ work = "select"

(* Events of `bytes` bytes in all: what each of them adds leads there.      *)
Weigh(events, bytes) ==
    \E sums \in [0..Len(events) -> 0..bytes] :
        /\ sums[0] = 0 /\ sums[Len(events)] = bytes
        /\ \A n \in 1..Len(events) : sums[n] = sums[n - 1] + events[n]

(* Emit: a full queue drops the new event.                                 *)
Fits(size) == ~shut /\ queuedBytes + size <= MaxBytes /\ Len(waiting) < MaxEvents

Emit(size) ==
    /\ stats.enqueued + stats.dropped < MaxEmitted
    /\ IF Fits(size)
       THEN /\ waiting' = Append(waiting, size) /\ queuedBytes' = queuedBytes + size
            /\ stats' = [stats EXCEPT !.enqueued = @ + 1]
       ELSE /\ stats' = [stats EXCEPT !.dropped = @ + 1]
            /\ UNCHANGED <<waiting, queuedBytes>>
    /\ UNCHANGED <<shut, batch, batchBytes, held, work>>

Shutdown ==
    /\ ~shut /\ shut' = TRUE
    /\ UNCHANGED <<waiting, queuedBytes, stats, batch, batchBytes, held, work>>

(* The worker takes an event, and gives its bytes back under the mutex.    *)
TakeQueued ==
    /\ work = "select" /\ waiting # <<>>
    /\ held' = Head(waiting) /\ waiting' = Tail(waiting) /\ work' = "taken"
    /\ UNCHANGED <<queuedBytes, shut, stats, batch, batchBytes>>

Overfull ==
    batch # <<>> /\ (Len(batch) >= MaxBatchEvents \/ batchBytes + held > MaxBatchBytes)

Discount ==
    /\ work = "taken"
    /\ queuedBytes' = queuedBytes - held
    /\ work' = IF Overfull THEN "flushFirst" ELSE "add"
    /\ UNCHANGED <<waiting, shut, stats, batch, batchBytes, held>>

Add ==
    /\ work = "add"
    /\ batch' = Append(batch, held) /\ batchBytes' = batchBytes + held /\ held' = 0
    /\ work' = IF Len(batch') >= MaxBatchEvents \/ batchBytes' >= MaxBatchBytes
               THEN "flush" ELSE "select"
    /\ UNCHANGED <<waiting, queuedBytes, shut, stats>>

(* The ticker, and the end of the closed and empty channel.                *)
FlushTick ==
    /\ work = "select" /\ batch # <<>>
    /\ work' = "flush"
    /\ UNCHANGED <<waiting, queuedBytes, shut, stats, batch, batchBytes, held>>

(* Mutant: the worker returns without flushing its batch.                  *)
AfterLastUnflushed == "done"

AfterLast == IF batch = <<>> THEN "done" ELSE "flushLast"

Closed ==
    /\ work = "select" /\ shut /\ waiting = <<>>
    /\ work' = AfterLast
    /\ UNCHANGED <<waiting, queuedBytes, shut, stats, batch, batchBytes, held>>

Flush ==
    /\ work \in {"flush", "flushFirst", "flushLast"}
    /\ \/ stats' = [stats EXCEPT !.exported = @ + Len(batch)]
       \/ stats' = [stats EXCEPT !.failed = @ + Len(batch)]
    /\ batch' = <<>> /\ batchBytes' = 0
    /\ work' = CASE work = "flush" -> "select"
                 [] work = "flushFirst" -> "add"
                 [] work = "flushLast" -> "done"
    /\ UNCHANGED <<waiting, queuedBytes, shut, held>>

AuditNext ==
    \/ \E size \in Sizes : Emit(size)
    \/ Shutdown \/ TakeQueued \/ Discount \/ Add \/ FlushTick \/ Closed \/ Flush

AuditSpec == AuditInit /\ [][AuditNext]_auditVars

(* Every accepted event is counted exactly once, as waiting, exported or   *)
(* failed, its bytes are given back, no limit of the queue or of a batch   *)
(* is passed, and when the worker has stopped nothing is left              *)
(* (AsyncAuditor.Emit, run, Shutdown).                                     *)
AuditAccounted ==
    /\ stats.enqueued = stats.exported + stats.failed + Len(waiting) + Len(batch)
                          + (IF held = 0 THEN 0 ELSE 1)
    /\ Weigh(batch, batchBytes)
    /\ Weigh(IF work = "taken" THEN <<held>> \o waiting ELSE waiting, queuedBytes)
    /\ queuedBytes <= MaxBytes /\ Len(waiting) <= MaxEvents
    /\ Len(batch) <= MaxBatchEvents /\ (Len(batch) > 1 => batchBytes <= MaxBatchBytes)
    /\ work = "done" => /\ shut /\ stats.enqueued = stats.exported + stats.failed
                       /\ waiting = <<>>
=============================================================================
