---------------------------- MODULE MetricsBatch ----------------------------
(***************************************************************************)
(* The batching of CloudWatchMetricsProvider in one API process: threads   *)
(* queue metrics under a lock, and whichever finds the batch full, or the  *)
(* last flush too long ago, takes all that is pending and sends it outside *)
(* of the lock; the end of the process flushes once more.  A metric is the *)
(* number it was queued as.  What AuditPipeline names alike says metric(s)  *)
(* here, since the proofs speak of both.                                   *)
(***************************************************************************)
EXTENDS Integers, Sequences, SequencesExt, FiniteSets

CONSTANTS Threads,
          Main,            \* the thread of the lifespan, which flushes at the end
          MetricBatchSize, \* CLOUDWATCH_BATCH_SIZE
          FlushInterval,   \* CLOUDWATCH_FLUSH_INTERVAL, in ticks
          MaxMetrics,      \* bound: metrics queued
          MaxTime          \* bound: ticks

ASSUME MetricsAssumption ==
    /\ Main \notin Threads
    /\ MetricBatchSize \in Nat \ {0} /\ FlushInterval \in Nat \ {0}
    /\ MaxMetrics \in Nat /\ MaxTime \in Nat

FlushThreads == Threads \cup {Main}
Metrics == 1 .. MaxMetrics

VARIABLES
    now,
    queuedAt,   \* when each metric was queued
    pending,    \* _pending
    lastFlush,  \* _last_flush
    pc,         \* "idle", "flush" (should_flush was true), "send", "over"
    taken,      \* the batches a thread has taken and not yet sent
    sent,       \* what put_metric_data has had
    lost,       \* what a failed put_metric_data dropped
    stopping    \* the process ends: no thread queues any more

metricsVars == <<now, queuedAt, pending, lastFlush, pc, taken, sent, lost, stopping>>

MetricsTypeOK ==
    /\ now \in Nat
    /\ queuedAt \in Seq(0 .. now) /\ Len(queuedAt) <= MaxMetrics
    /\ pending \in Seq(1 .. Len(queuedAt))
    /\ lastFlush \in 0 .. now
    /\ pc \in [FlushThreads -> {"idle", "flush", "send", "over"}]
    /\ taken \in [FlushThreads -> Seq(Seq(Metrics))]
    /\ \A t \in FlushThreads : \A i \in 1 .. Len(taken[t]) : Len(taken[t][i]) \in 1 .. MetricBatchSize
    /\ sent \subseteq Metrics /\ lost \subseteq Metrics
    /\ stopping \in BOOLEAN

MetricsInit ==
    /\ now = 0
    /\ queuedAt = <<>>
    /\ pending = <<>>
    /\ lastFlush = 0
    /\ pc = [t \in FlushThreads |-> "idle"]
    /\ taken = [t \in FlushThreads |-> <<>>]
    /\ sent = {}
    /\ lost = {}
    /\ stopping = FALSE

\* Mutant: only the size of the batch decides.
ShouldFlushBySize(n) == n >= MetricBatchSize

\* should_flush, with the metric that was just queued counted
ShouldFlush(n) == n >= MetricBatchSize \/ now - lastFlush >= FlushInterval

\* _queue_metric
Queue(t) ==
    /\ pc[t] = "idle" /\ ~stopping
    /\ Len(queuedAt) < MaxMetrics
    /\ queuedAt' = Append(queuedAt, now)
    /\ pending' = Append(pending, Len(queuedAt) + 1)
    /\ pc' = [pc EXCEPT ![t] = IF ShouldFlush(Len(pending) + 1) THEN "flush" ELSE "idle"]
    /\ UNCHANGED <<now, lastFlush, taken, sent, lost, stopping>>

\* Mutant: all that is pending goes in one call.
BatchesWhole(s) == <<s>>

\* The slices of flush.
Batches(s) ==
    [i \in 1 .. (Len(s) + MetricBatchSize - 1) \div MetricBatchSize |->
        SubSeq(s, (i - 1) * MetricBatchSize + 1,
               IF i * MetricBatchSize < Len(s) THEN i * MetricBatchSize ELSE Len(s))]

\* Mutant: what is pending is cleared only by the thread that filled the batch.
TakeKeeping(t) ==
    /\ pc[t] = "flush"
    /\ lastFlush' = now
    /\ taken' = [taken EXCEPT ![t] = Batches(pending)]
    /\ pending' = IF Len(pending) > MetricBatchSize THEN pending ELSE <<>>
    /\ pc' = [pc EXCEPT ![t] = "send"]
    /\ UNCHANGED <<now, queuedAt, sent, lost, stopping>>

\* flush, under the lock: the time is stamped even when nothing is pending.
Take(t) ==
    /\ pc[t] = "flush"
    /\ lastFlush' = now
    /\ taken' = [taken EXCEPT ![t] = Batches(pending)]
    /\ pending' = <<>>
    /\ pc' = [pc EXCEPT ![t] = "send"]
    /\ UNCHANGED <<now, queuedAt, sent, lost, stopping>>

\* flush, outside of the lock: a batch that fails is dropped, the next is tried.
Send(t) ==
    /\ pc[t] = "send" /\ taken[t] # <<>>
    /\ \/ sent' = sent \cup ToSet(Head(taken[t])) /\ UNCHANGED lost
       \/ lost' = lost \cup ToSet(Head(taken[t])) /\ UNCHANGED sent
    /\ taken' = [taken EXCEPT ![t] = Tail(@)]
    /\ UNCHANGED <<now, queuedAt, pending, lastFlush, pc, stopping>>

Done(t) ==
    /\ pc[t] = "send" /\ taken[t] = <<>>
    /\ pc' = [pc EXCEPT ![t] = IF t = Main THEN "over" ELSE "idle"]
    /\ UNCHANGED <<now, queuedAt, pending, lastFlush, taken, sent, lost, stopping>>

\* Mutant: the process ends without a flush.
StopMetricsAtOnce ==
    /\ ~stopping
    /\ \A t \in Threads : pc[t] = "idle"
    /\ stopping' = TRUE
    /\ pc' = [pc EXCEPT ![Main] = "over"]
    /\ UNCHANGED <<now, queuedAt, pending, lastFlush, taken, sent, lost>>

\* The lifespan ends when the requests have: _flush_metrics.
StopMetrics ==
    /\ ~stopping
    /\ \A t \in Threads : pc[t] = "idle"
    /\ stopping' = TRUE
    /\ pc' = [pc EXCEPT ![Main] = "flush"]
    /\ UNCHANGED <<now, queuedAt, pending, lastFlush, taken, sent, lost>>

Tick ==
    /\ now < MaxTime
    /\ now' = now + 1
    /\ UNCHANGED <<queuedAt, pending, lastFlush, pc, taken, sent, lost, stopping>>

MetricsNext ==
    \/ \E t \in Threads : Queue(t)
    \/ \E t \in FlushThreads : Take(t) \/ Send(t) \/ Done(t)
    \/ StopMetrics \/ Tick

\* Threads run; time and the end of the process are not waited for.
MetricsFairness == \A t \in FlushThreads : WF_metricsVars(Take(t) \/ Send(t) \/ Done(t))

MetricsSpec == MetricsInit /\ [][MetricsNext]_metricsVars /\ MetricsFairness
-----------------------------------------------------------------------------
(* Properties *)

Flushing == {t \in FlushThreads : pc[t] = "flush"}

\* The batches that hold a metric.
Holders(m) == {h \in FlushThreads \X Metrics : h[2] <= Len(taken[h[1]]) /\ m \in ToSet(taken[h[1]][h[2]])}

\* However the threads interleave, every metric that was queued is in one place:
\* pending, in one batch of one thread, sent or lost; none is forgotten and none
\* is sent twice (the copy and the reset of flush are one turn of the lock).
InOnePlace ==
    \A m \in 1 .. Len(queuedAt) :
        LET places == <<ToSet(pending), sent, lost>>
        IN  Cardinality({i \in 1 .. 3 : m \in places[i]}) + Cardinality(Holders(m)) = 1

\* A metric waits longer than the flush interval only when none was queued that
\* could have sent it: unless a thread is about to flush, whatever is pending
\* with it came less than an interval after it ("The age check bounds that wait
\* by CLOUDWATCH_FLUSH_INTERVAL. It is evaluated on the next queued metric").
LateOnlyWhenQuiet ==
    pending # <<>> /\ Flushing = {} =>
        queuedAt[Last(pending)] - queuedAt[Head(pending)] < FlushInterval

\* An orderly end sends what was pending, or loses it in a failed call; a
\* partial batch is not left behind (_flush_metrics in main.py).
ShutdownLeavesNothing == stopping ~> 1 .. Len(queuedAt) = sent \cup lost
=============================================================================
