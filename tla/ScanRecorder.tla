---------------------------- MODULE ScanRecorder ----------------------------
(***************************************************************************)
(* The asynchronous scan-event pipeline (internal/analytics/recorder.go):  *)
(* scan handlers put events into a bounded channel without ever blocking,  *)
(* worker goroutines take them off, batch them and write each batch in one *)
(* store transaction, and shutdown closes the channel and waits for the    *)
(* workers under a deadline.                                               *)
(*                                                                         *)
(* Events are counted, not told apart: the pipeline never looks inside.    *)
(***************************************************************************)
EXTENDS Naturals, FiniteSets

CONSTANTS
  Worker,      \* consumer goroutines
  BufferSize,  \* capacity of the channel
  BatchSize,
  MaxEvents    \* bound: calls of Record in a behaviour

ASSUME RecorderAssumption ==
  /\ IsFiniteSet(Worker) /\ Worker # {}
  /\ BufferSize \in Nat \ {0} /\ BatchSize \in Nat \ {0} /\ MaxEvents \in Nat

VARIABLES
  queue,      \* events in the channel
  closed,     \* Recorder.closed; the channel is closed with it, under the lock
  pc,         \* [Worker -> where its loop stands]
  batch,      \* [Worker -> events in its local batch]
  inflight,   \* the counter behind Unflushed
  dropped,    \* the drop counter
  persisted,  \* events the store has committed
  recorded,   \* calls of Record so far
  closing     \* where the caller of Close stands

recorderVars == <<queue, closed, pc, batch, inflight, dropped, persisted, recorded, closing>>

Stage == {"select", "received", "flush", "flushed", "last", "lastflushed", "exited"}

\* Counters are natural numbers within the channel's and the batches' bounds.
RecorderTypeOK ==
  /\ queue \in 0..BufferSize
  /\ closed \in BOOLEAN
  /\ pc \in [Worker -> Stage]
  /\ batch \in [Worker -> 0..BatchSize]
  /\ {inflight, dropped, persisted, recorded} \subseteq Nat
  /\ closing \in {"no", "waiting", "clean", "timedout"}

RecorderInit ==
  /\ queue = 0 /\ closed = FALSE
  /\ pc = [w \in Worker |-> "select"]
  /\ batch = [w \in Worker |-> 0]
  /\ inflight = 0 /\ dropped = 0 /\ persisted = 0 /\ recorded = 0
  /\ closing = "no"

-----------------------------------------------------------------------------
\* Mutant: an event that meets a full channel is discarded without a trace.
BugDropSilently ==
  /\ recorded < MaxEvents
  /\ recorded' = recorded + 1
  /\ queue' = IF ~closed /\ queue < BufferSize THEN queue + 1 ELSE queue
  /\ dropped' = IF closed THEN dropped + 1 ELSE dropped
  /\ UNCHANGED <<closed, pc, batch, inflight, persisted, closing>>

\* Record, under the read lock: into the channel, or counted as dropped.
Record ==
  /\ recorded < MaxEvents
  /\ recorded' = recorded + 1
  /\ IF ~closed /\ queue < BufferSize
     THEN queue' = queue + 1 /\ UNCHANGED dropped
     ELSE dropped' = dropped + 1 /\ UNCHANGED queue
  /\ UNCHANGED <<closed, pc, batch, inflight, persisted, closing>>

(* The worker loop.                                                        *)

Goto(w, stage) == pc' = [pc EXCEPT ![w] = stage]

Receive(w) ==
  /\ pc[w] = "select" /\ queue > 0
  /\ queue' = queue - 1
  /\ Goto(w, "received")
  /\ UNCHANGED <<closed, batch, inflight, dropped, persisted, recorded, closing>>

\* The event in hand is counted, and then appended.
Append(w) ==
  /\ pc[w] = "received"
  /\ inflight' = inflight + 1
  /\ batch' = [batch EXCEPT ![w] = @ + 1]
  /\ Goto(w, IF batch[w] + 1 >= BatchSize THEN "flush" ELSE "select")
  /\ UNCHANGED <<queue, closed, dropped, persisted, recorded, closing>>

\* Mutant: only a full batch is flushed.
BugNoTicker(w) == FALSE /\ UNCHANGED recorderVars

\* The ticker fires.
TickerFlush(w) ==
  /\ pc[w] = "select" /\ batch[w] > 0
  /\ Goto(w, "flush")
  /\ UNCHANGED <<queue, closed, batch, inflight, dropped, persisted, recorded, closing>>

\* Mutant: break for return, which leaves the select and not the loop.
BugBreakSelect(w) ==
  /\ pc[w] = "select" /\ queue = 0 /\ closed
  /\ Goto(w, IF batch[w] = 0 THEN "select" ELSE "flush")
  /\ UNCHANGED <<queue, closed, batch, inflight, dropped, persisted, recorded, closing>>

\* Mutant: the worker returns at once and takes its batch with it.
BugExitWithBatch(w) ==
  /\ pc[w] = "select" /\ queue = 0 /\ closed
  /\ Goto(w, "exited")
  /\ UNCHANGED <<queue, closed, batch, inflight, dropped, persisted, recorded, closing>>

\* The channel is closed and empty: one last flush, if there is anything in it.
Drained(w) ==
  /\ pc[w] = "select" /\ queue = 0 /\ closed
  /\ Goto(w, IF batch[w] = 0 THEN "exited" ELSE "last")
  /\ UNCHANGED <<queue, closed, batch, inflight, dropped, persisted, recorded, closing>>

\* One transaction for the batch and its rollups: it commits, or it fails
\* (within FlushTimeout) and every event of it counts as dropped.
Flush(w) ==
  /\ pc[w] \in {"flush", "last"}
  /\ Goto(w, IF pc[w] = "flush" THEN "flushed" ELSE "lastflushed")
  /\ \/ persisted' = persisted + batch[w] /\ UNCHANGED dropped
     \/ dropped' = dropped + batch[w] /\ UNCHANGED persisted
  /\ UNCHANGED <<queue, closed, batch, inflight, recorded, closing>>

\* flush's deferred decrement, and a new batch.
Uncount(w) ==
  /\ pc[w] \in {"flushed", "lastflushed"}
  /\ inflight' = inflight - batch[w]
  /\ batch' = [batch EXCEPT ![w] = 0]
  /\ Goto(w, IF pc[w] = "flushed" THEN "select" ELSE "exited")
  /\ UNCHANGED <<queue, closed, dropped, persisted, recorded, closing>>

WorkerStep(w) ==
  Receive(w) \/ Append(w) \/ TickerFlush(w) \/ Drained(w) \/ Flush(w) \/ Uncount(w)

(* Shutdown.  Handlers that outlive the server's own budget still call     *)
(* Record.                                                                 *)

\* Close takes the write lock; a second call finds it closed and waits too.
Close ==
  /\ closing \in {"no", "timedout"}
  /\ closed' = TRUE
  /\ closing' = "waiting"
  /\ UNCHANGED <<queue, pc, batch, inflight, dropped, persisted, recorded>>

CloseReturns ==
  /\ closing = "waiting"
  /\ \A w \in Worker : pc[w] = "exited"
  /\ closing' = "clean"
  /\ UNCHANGED <<queue, closed, pc, batch, inflight, dropped, persisted, recorded>>

CloseTimesOut ==
  /\ closing = "waiting"
  /\ closing' = "timedout"
  /\ UNCHANGED <<queue, closed, pc, batch, inflight, dropped, persisted, recorded>>

RecorderNext ==
  \/ Record
  \/ \E w \in Worker : WorkerStep(w)
  \/ Close \/ CloseReturns \/ CloseTimesOut

\* Goroutines are scheduled, tickers fire and FlushTimeout bounds every flush.
RecorderSpec ==
  /\ RecorderInit /\ [][RecorderNext]_recorderVars
  /\ \A w \in Worker : WF_recorderVars(WorkerStep(w))

-----------------------------------------------------------------------------
(* Properties.                                                             *)

Unflushed == queue + inflight

\* Events a worker has taken and neither persisted nor dropped yet.
Held(w) ==
  CASE pc[w] \in {"flushed", "lastflushed"} -> 0
    [] pc[w] = "received" -> batch[w] + 1
    [] OTHER -> batch[w]

\* Events a worker has persisted or dropped and not uncounted yet.
Written(w) == IF pc[w] \in {"flushed", "lastflushed"} THEN batch[w] ELSE 0

\* The sum of f over the workers, as the size of the set under its graph.
Total(f) == Cardinality({x \in Worker \X (1..BatchSize + 1) : x[2] <= f[x[1]]})

Pending == queue + Total([w \in Worker |-> Held(w)])

\* No event is lost or counted twice: every call of Record is in the channel,
\* in a worker's hands, persisted or in the drop counter.
EveryEventAccounted == recorded = Pending + persisted + dropped

\* What Unflushed tells an operator is true: it is what is pending, but for the
\* event each worker holds between its receive and the count, and the batches
\* written and not yet uncounted; "after a clean Close it is zero", and nothing
\* is pending either.
UnflushedIsTrue ==
  /\ RecorderTypeOK
  /\ Unflushed + Cardinality({w \in Worker : pc[w] = "received"}) =
       Pending + Total([w \in Worker |-> Written(w)])
  /\ closing = "clean" => Unflushed = 0 /\ Pending = 0

\* However little traffic follows, an accepted event is persisted or dropped.
EventsSettle ==
  \A n \in 1..MaxEvents : recorded = n ~> persisted + dropped >= n

\* Once the recorder is closed its workers drain the channel and return, so a
\* Close without a deadline would.
CloseDrains == closed ~> \A w \in Worker : pc[w] = "exited"
=============================================================================
