------------------------- MODULE ProcessBufferProofs -------------------------
(***************************************************************************)
(* The safety of the two buffers that one API process keeps in memory and  *)
(* empties when it ends: the audit pipeline, for any number of events, any *)
(* size of the queue and of the batch and any number of attempts; and the  *)
(* batching of metrics, for any number of threads and metrics and any size *)
(* of a batch.                                                             *)
(***************************************************************************)
EXTENDS AuditPipeline, MetricsBatch, FiniteSetTheorems, TLAPS

\* Where an event can be.
Somewhere(e) == e \in queue \/ e \in batch \/ \E f \in Flushers : e \in sending[f]
Settled      == confirmed \cup abandoned

\* Only what was published is anywhere.
Known == \A e \in Events : Somewhere(e) \/ e \in Settled => e \in published

\* What is in memory is not settled, and until the sinks stop everything
\* published is one or the other.
Apart    == \A e \in Events : Somewhere(e) => e \notin Settled
Complete ==
    phase \in {"running", "draining"} =>
        \A e \in published : Somewhere(e) \/ e \in Settled

\* Who still holds something in which phase of the shutdown.
Phases ==
    /\ phase \in {"running", "draining"} => Idle("stop")
    /\ phase \in {"flushing", "stopped"} => queue = {} /\ Idle("worker") /\ Idle("timer")
    /\ phase = "stopped" => batch = {} /\ Idle("stop")

AInv == TypeOK /\ HeldOnce /\ Known /\ Apart /\ Complete /\ Phases

\* InMemory, as a property of one event.
LEMMA InMemoryIsSomewhere == \A e : e \in InMemory <=> Somewhere(e)
  BY DEF InMemory, Somewhere

LEMMA InvariantImplies ==
  AInv => ConfirmedIsDone /\ NoSilentLoss /\ StoppedIsDrained
<1> SUFFICES ASSUME AInv PROVE ConfirmedIsDone /\ NoSilentLoss /\ StoppedIsDrained
  OBVIOUS
<1>1. ConfirmedIsDone
  BY InMemoryIsSomewhere DEF AInv, TypeOK, Apart, Settled, ConfirmedIsDone
<1>2. NoSilentLoss
  BY InMemoryIsSomewhere DEF AInv, Complete, Settled, NoSilentLoss
<1>3. StoppedIsDrained
  <2> SUFFICES ASSUME phase = "stopped", NEW e, Somewhere(e) PROVE FALSE
    BY InMemoryIsSomewhere DEF StoppedIsDrained
  <2> QED  BY DEF AInv, Phases, Idle, Somewhere, Flushers
<1> QED  BY <1>1, <1>2, <1>3

\* One attempt keeps some of the records for another one and settles the rest.
LEMMA AttemptKeepsOrSettles ==
  ASSUME TypeOK, NEW f \in Flushers, NEW records \in SUBSET Events,
         NEW n \in 1..MaxAttempts, Attempt(f, records, n)
  PROVE  /\ confirmed' \subseteq Events /\ abandoned' \subseteq Events
         /\ attempt' \in [Flushers -> 0..(MaxAttempts - 1)]
         /\ \E left \in SUBSET records :
               /\ sending' = [sending EXCEPT ![f] = left]
               /\ confirmed' \cup abandoned' = Settled \cup (records \ left)
<1> USE AuditAssumption DEF TypeOK
<1>1. PICK failed \in SUBSET records :
         /\ confirmed' = confirmed \cup (records \ failed)
         /\ \/ /\ abandoned' = abandoned \cup failed
               /\ sending' = [sending EXCEPT ![f] = {}]
               /\ attempt' = [attempt EXCEPT ![f] = 0]
            \/ /\ n < MaxAttempts
               /\ sending' = [sending EXCEPT ![f] = failed]
               /\ attempt' = [attempt EXCEPT ![f] = n]
               /\ UNCHANGED abandoned
  BY DEF Attempt
<1>2. CASE /\ abandoned' = abandoned \cup failed
           /\ sending' = [sending EXCEPT ![f] = {}]
           /\ attempt' = [attempt EXCEPT ![f] = 0]
  <2>1. confirmed' \cup abandoned' = Settled \cup (records \ {})
    BY <1>1, <1>2 DEF Settled
  <2>2. confirmed' \subseteq Events /\ abandoned' \subseteq Events
    BY <1>1, <1>2
  <2>3. attempt' \in [Flushers -> 0..(MaxAttempts - 1)]
    BY <1>2
  <2> QED  BY <1>2, <2>1, <2>2, <2>3
<1>3. CASE /\ n < MaxAttempts
           /\ sending' = [sending EXCEPT ![f] = failed]
           /\ attempt' = [attempt EXCEPT ![f] = n]
           /\ UNCHANGED abandoned
  <2>1. confirmed' \cup abandoned' = Settled \cup (records \ failed)
    BY <1>1, <1>3 DEF Settled
  <2>2. confirmed' \subseteq Events /\ abandoned' \subseteq Events
    BY <1>1, <1>3
  <2>3. attempt' \in [Flushers -> 0..(MaxAttempts - 1)]
    BY <1>3
  <2> QED  BY <1>3, <2>1, <2>2, <2>3
<1> QED  BY <1>1, <1>2, <1>3

\* A flusher that takes its records out of the queue, the batch or its own
\* hands and makes an attempt: nothing is lost, doubled or settled twice.
LEMMA FlushPreserves ==
  ASSUME AInv, NEW f \in Flushers, NEW records \in SUBSET Events,
         NEW n \in 1..MaxAttempts, Attempt(f, records, n),
         records \subseteq queue \cup batch \cup sending[f],
         sending[f] \subseteq records,
         queue' = queue \ records, batch' = batch \ records,
         UNCHANGED <<published, phase>>,
         phase # "stopped",
         f = "stop" => phase = "flushing",
         f # "stop" => phase \in {"running", "draining"} \/ sending[f] # {}
  PROVE  AInv'
<1>1. PICK left \in SUBSET records :
         /\ sending' = [sending EXCEPT ![f] = left]
         /\ confirmed' \cup abandoned' = Settled \cup (records \ left)
  BY AttemptKeepsOrSettles DEF AInv
<1>2. TypeOK'
  <2>1. IsFiniteSet(queue)
    BY FS_Subset, AuditAssumption DEF AInv, TypeOK
  <2>2. Cardinality(queue') <= QueueMax
    BY <2>1, FS_Subset, FS_CardinalityType, AuditAssumption DEF AInv, TypeOK
  <2> QED  BY <1>1, <2>2, AttemptKeepsOrSettles DEF AInv, TypeOK
<1>3. /\ sending'[f] = left
      /\ \A g \in Flushers \ {f} : sending'[g] = sending[g]
  BY <1>1 DEF AInv, TypeOK
<1>4. HeldOnce'
  BY <1>3 DEF AInv, HeldOnce
<1>5. \A e \in Events : Somewhere(e)' <=> (Somewhere(e) /\ e \notin records) \/ e \in left
  BY <1>3 DEF AInv, HeldOnce, Somewhere
<1>6. \A e \in Events : e \in Settled' <=> e \in Settled \/ e \in records \ left
  BY <1>1 DEF Settled
<1>7. \A e \in records : Somewhere(e)
  BY DEF Somewhere
<1>8. Known'
  BY <1>5, <1>6, <1>7 DEF AInv, Known
<1>9. Apart'
  BY <1>5, <1>6, <1>7 DEF AInv, Apart
<1>10. Complete'
  BY <1>5, <1>6 DEF AInv, TypeOK, Complete
<1>11. Phases'
  BY <1>3 DEF AInv, Phases, Idle, Flushers
<1> QED  BY <1>2, <1>4, <1>8, <1>9, <1>10, <1>11 DEF AInv

LEMMA InitInv == Init => AInv
<1> SUFFICES ASSUME Init PROVE AInv  OBVIOUS
<1>1. TypeOK
  BY FS_EmptySet, AuditAssumption DEF Init, TypeOK
<1>2. \A e : ~Somewhere(e) /\ e \notin Settled
  BY DEF Init, Somewhere, Settled
<1> QED  BY <1>1, <1>2 DEF Init, AInv, HeldOnce, Known, Apart, Complete, Phases, Idle, Flushers

LEMMA PublishInv ==
  ASSUME AInv, NEW e \in Events, Publish(e) PROVE AInv'
<1>1. ~Somewhere(e) /\ e \notin Settled
  BY DEF AInv, Known, Publish
<1>2. TypeOK'
  <2>1. IsFiniteSet(queue) /\ Cardinality(queue) \in Nat
    BY FS_Subset, FS_CardinalityType, AuditAssumption DEF AInv, TypeOK
  <2>2. e \notin queue
    BY <1>1 DEF Somewhere
  <2>3. Cardinality(queue \cup {e}) = Cardinality(queue) + 1
    <3>1. Cardinality(queue \cup {e}) = IF e \in queue THEN Cardinality(queue)
                                        ELSE Cardinality(queue) + 1
      BY <2>1, FS_AddElement
    <3> QED  BY <3>1, <2>2
  <2>4. Cardinality(queue') <= QueueMax
    <3>1. CASE Cardinality(queue) < QueueMax
      <4>1. queue' = queue \cup {e}
        BY <3>1 DEF Publish
      <4>2. Cardinality(queue') = Cardinality(queue) + 1
        BY <4>1, <2>3
      <4> QED  BY <2>1, <3>1, <4>2, AuditAssumption
    <3>2. CASE ~(Cardinality(queue) < QueueMax)
      BY <3>2 DEF AInv, TypeOK, Publish
    <3> QED  BY <3>1, <3>2
  <2> QED  BY <2>4 DEF AInv, TypeOK, Publish
<1>3. HeldOnce'
  BY <1>1 DEF AInv, HeldOnce, Publish, Somewhere
<1>4. \A x \in Events : Somewhere(x)' \/ x \in Settled' <=> Somewhere(x) \/ x \in Settled \/ x = e
  BY DEF Publish, Somewhere, Settled
<1>5. Known' /\ Complete'
  BY <1>4 DEF AInv, TypeOK, Known, Complete, Publish
<1>6. Apart'
  BY <1>1 DEF AInv, Apart, Publish, Somewhere, Settled
<1>7. Phases'
  BY DEF AInv, Phases, Publish, Idle
<1> QED  BY <1>2, <1>3, <1>5, <1>6, <1>7 DEF AInv

LEMMA WorkInv ==
  ASSUME AInv, NEW e \in Events, Work(e) PROVE AInv'
<1>1. phase \in {"running", "draining"}
  BY DEF AInv, TypeOK, Phases, Work
<1>2. CASE Cardinality(batch \cup {e}) >= BatchSize
  <2>1. Attempt("worker", batch \cup {e}, 1) /\ batch' = {} /\ queue' = queue \ {e}
    BY <1>2 DEF Work
  <2>2. queue' = queue \ (batch \cup {e})
    BY <2>1 DEF AInv, HeldOnce
  <2>3. 1 \in 1..MaxAttempts /\ "worker" \in Flushers /\ batch \cup {e} \in SUBSET Events
    BY AuditAssumption DEF AInv, TypeOK, Flushers
  <2> QED
    BY <1>1, <2>1, <2>2, <2>3, FlushPreserves DEF Work, Idle
<1>3. CASE ~(Cardinality(batch \cup {e}) >= BatchSize)
  <2>1. /\ queue' = queue \ {e} /\ batch' = batch \cup {e} /\ e \in queue
        /\ UNCHANGED <<sending, attempt, confirmed, abandoned, published, phase>>
    BY <1>3 DEF Work
  <2>2. TypeOK'
    <3>1. IsFiniteSet(queue)
      BY FS_Subset, AuditAssumption DEF AInv, TypeOK
    <3>2. Cardinality(queue') <= QueueMax
      BY <2>1, <3>1, FS_Subset, FS_CardinalityType, AuditAssumption DEF AInv, TypeOK
    <3> QED  BY <2>1, <3>2 DEF AInv, TypeOK
  <2>3. HeldOnce'
    BY <2>1 DEF AInv, HeldOnce
  <2>4. /\ \A x : Somewhere(x)' <=> Somewhere(x)
        /\ Settled' = Settled
    BY <2>1 DEF Somewhere, Settled
  <2>5. Known' /\ Apart' /\ Complete'
    BY <2>1, <2>4 DEF AInv, Known, Apart, Complete
  <2>6. Phases'
    BY <1>1, <2>1 DEF AInv, Phases, Idle
  <2> QED  BY <2>2, <2>3, <2>5, <2>6 DEF AInv
<1> QED  BY <1>2, <1>3

LEMMA TimerInv == ASSUME AInv, Timer PROVE AInv'
<1>1. 1 \in 1..MaxAttempts /\ "timer" \in Flushers /\ batch \in SUBSET Events
  BY AuditAssumption DEF AInv, TypeOK, Flushers
<1>2. queue' = queue \ batch
  BY DEF Timer, AInv, HeldOnce
<1> QED  BY <1>1, <1>2, FlushPreserves DEF Timer, Idle

LEMMA StopFlushInv == ASSUME AInv, StopFlush PROVE AInv'
<1>1. 1 \in 1..MaxAttempts /\ "stop" \in Flushers /\ batch \in SUBSET Events
  BY AuditAssumption DEF AInv, TypeOK, Flushers
<1>2. queue' = queue \ batch
  BY DEF StopFlush, AInv, HeldOnce
<1> QED  BY <1>1, <1>2, FlushPreserves DEF StopFlush, Idle

LEMMA RetryInv == ASSUME AInv, NEW f \in Flushers, Retry(f) PROVE AInv'
<1>1. attempt[f] + 1 \in 1..MaxAttempts /\ sending[f] \in SUBSET Events
  BY AuditAssumption DEF AInv, TypeOK
<1>2. queue' = queue \ sending[f] /\ batch' = batch \ sending[f]
  BY DEF Retry, AInv, HeldOnce
<1>3. phase # "stopped" /\ (f = "stop" => phase = "flushing")
  BY DEF AInv, TypeOK, Phases, Retry, Idle, Flushers
<1> QED  BY <1>1, <1>2, <1>3, FlushPreserves DEF Retry, Idle

LEMMA StopJoinedInv == ASSUME AInv, StopJoined PROVE AInv'
<1>1. /\ sending'["timer"] = {}
      /\ \A g \in Flushers \ {"timer"} : sending'[g] = sending[g]
  BY DEF AInv, TypeOK, StopJoined, Flushers
<1>2. TypeOK'
  BY AuditAssumption DEF AInv, TypeOK, StopJoined, Flushers
<1>3. HeldOnce'
  BY <1>1 DEF AInv, HeldOnce, StopJoined
<1>4. \A e : Somewhere(e)' => Somewhere(e)
  BY <1>1 DEF StopJoined, Somewhere
<1>5. Known' /\ Apart' /\ Complete'
  BY <1>4 DEF AInv, Known, Apart, Complete, Settled, StopJoined
<1>6. Phases'
  BY <1>1 DEF AInv, Phases, Idle, StopJoined, Flushers
<1> QED  BY <1>2, <1>3, <1>5, <1>6 DEF AInv

LEMMA StepInv == AInv /\ [Next]_vars => AInv'
<1> SUFFICES ASSUME AInv, [Next]_vars PROVE AInv'  OBVIOUS
<1>1. CASE UNCHANGED vars
  BY <1>1 DEF vars, AInv, TypeOK, HeldOnce, Known, Apart, Complete, Phases, Somewhere, Settled, Idle
<1>2. CASE \E e \in Events : Publish(e)
  BY <1>2, PublishInv
<1>3. CASE \E e \in Events : Work(e)
  BY <1>3, WorkInv
<1>4. CASE Timer
  BY <1>4, TimerInv
<1>5. CASE \E f \in Flushers : Retry(f)
  BY <1>5, RetryInv
<1>6. CASE StopBegin
  BY <1>6 DEF StopBegin, AInv, TypeOK, HeldOnce, Known, Apart, Complete, Phases, Somewhere, Settled, Idle
<1>7. CASE StopJoined
  BY <1>7, StopJoinedInv
<1>8. CASE StopFlush
  BY <1>8, StopFlushInv
<1>9. CASE StopEnd
  BY <1>9 DEF StopEnd, AInv, TypeOK, HeldOnce, Known, Apart, Complete, Phases, Somewhere, Settled, Idle
<1> QED
  BY <1>1, <1>2, <1>3, <1>4, <1>5, <1>6, <1>7, <1>8, <1>9 DEF Next, Stop

LEMMA PipelineInvariant == Spec => []AInv
<1> QED  BY InitInv, StepInv, PTL DEF Spec

\* Every variable keeps its type, and the queue its bound, for every size of
\* the queue and of the batch.
THEOREM AuditTypeCorrect == Spec => []TypeOK
<1>1. AInv => TypeOK  BY DEF AInv
<1> QED  BY <1>1, PipelineInvariant, PTL

\* An event in memory is in the queue, in the batch or with one flusher, never
\* in two of them: the swap of _flush gives each batch to one sender.
THEOREM EachEventHeldOnce == Spec => []HeldOnce
<1>1. AInv => HeldOnce  BY DEF AInv
<1> QED  BY <1>1, PipelineInvariant, PTL

\* What was confirmed or given up is never sent again, however the attempts of
\* the three flushers interleave and fail.
THEOREM SettledStaysSettled == Spec => []ConfirmedIsDone
<1> QED  BY InvariantImplies, PipelineInvariant, PTL

\* Until the sinks are stopped a published event is in memory, confirmed, or
\* given up with a log line.
THEOREM NothingLostWhileRunning == Spec => []NoSilentLoss
<1> QED  BY InvariantImplies, PipelineInvariant, PTL

\* The order of AuditLifecycle.stop leaves nothing in memory.
THEOREM StopDrains == Spec => []StoppedIsDrained
<1> QED  BY InvariantImplies, PipelineInvariant, PTL
-----------------------------------------------------------------------------
(* The batching of metrics.  First, division and the slices of flush.       *)

LEMMA Division ==
    ASSUME NEW a \in Nat, NEW b \in Nat \ {0}
    PROVE  /\ a \div b \in Nat
           /\ (a \div b) * b <= a
           /\ a < (a \div b) * b + b
<1> DEFINE q == a \div b
<1>1. q \in Int /\ a % b \in 0 .. b - 1 /\ a = b * q + (a % b)
  OBVIOUS
<1>2. q >= 0
  OBVIOUS
<1>3. b * q = q * b
  BY <1>1
<1> QED BY <1>1, <1>2, <1>3

LEMMA Products ==
    ASSUME NEW i \in Nat, NEW j \in Nat, NEW b \in Nat, i <= j
    PROVE  i * b \in Nat /\ i * b <= j * b
<1>1. i * b \in Nat /\ j * b \in Nat /\ (j - i) \in Nat
  OBVIOUS
<1>2. (j - i) * b \in Nat
  BY <1>1
<1>3. j * b = i * b + (j - i) * b
  OBVIOUS
<1> QED BY <1>1, <1>2, <1>3

\* The slices of flush: how many there are ...
LEMMA HowManyBatches ==
    ASSUME NEW l \in Nat, NEW b \in Nat \ {0}
    PROVE  LET n == (l + b - 1) \div b
           IN  /\ n \in Nat /\ n <= l /\ l <= n * b
               /\ \A i \in 1 .. n : (i - 1) * b \in Nat /\ (i - 1) * b < l
<1> DEFINE n == (l + b - 1) \div b
<1>1. n \in Nat /\ n * b <= l + b - 1 /\ l + b - 1 < n * b + b
  BY Division
<1> HIDE DEF n
<1>2. n * b \in Nat /\ l <= n * b
  BY <1>1
<1>3. ASSUME NEW i \in 1 .. n PROVE (i - 1) * b \in Nat /\ (i - 1) * b < l
  <2>1. (i - 1) * b \in Nat /\ (i - 1) * b <= (n - 1) * b
    BY <1>1, Products
  <2>2. (n - 1) * b = n * b - b
    BY <1>1
  <2> QED BY <1>1, <1>2, <2>1, <2>2
<1>4. n <= l
  <2>1. CASE n = 0
    BY <2>1
  <2>2. CASE n # 0
    <3>1. (n - 1) * b < l /\ (n - 1) * b \in Nat
      BY <1>1, <1>3, <2>2
    <3>2. (n - 1) * 1 <= (n - 1) * b
      <4>1. 1 * (n - 1) <= b * (n - 1)
        BY <1>1, <2>2, Products
      <4> QED BY <1>1, <2>2, <4>1
    <3> QED BY <1>1, <3>1, <3>2
  <2> QED BY <2>1, <2>2
<1> QED BY <1>1, <1>2, <1>3, <1>4 DEF n

\* ... and that each place of the sequence is in one of them.
InSlice(k, i, b) == (i - 1) * b < k /\ k <= i * b

LEMMA OneBatchEach ==
    ASSUME NEW l \in Nat, NEW b \in Nat \ {0}, NEW k \in 1 .. l
    PROVE  \E i \in 1 .. (l + b - 1) \div b :
              /\ InSlice(k, i, b)
              /\ \A j \in 1 .. (l + b - 1) \div b : InSlice(k, j, b) => j = i
<1> DEFINE n == (l + b - 1) \div b
           q == (k - 1) \div b
<1>1. n \in Nat /\ l <= n * b
  BY HowManyBatches
<1>2. q \in Nat /\ q * b <= k - 1 /\ k - 1 < q * b + b
  BY Division
<1> HIDE DEF n, q
<1>3. (q + 1) * b = q * b + b
  BY <1>2
<1>4. q + 1 \in 1 .. n
  <2>1. ASSUME n <= q PROVE FALSE
    <3>1. n * b \in Nat /\ n * b <= q * b
      BY <1>1, <1>2, <2>1, Products
    <3> QED BY <1>1, <1>2, <3>1
  <2> QED BY <1>1, <1>2, <2>1
<1>5. ASSUME NEW i \in Nat \ {0}, NEW j \in Nat \ {0}, i < j, k <= i * b, (j - 1) * b < k PROVE FALSE
  <2>1. i * b \in Nat /\ i * b <= (j - 1) * b
    BY <1>5, Products
  <2>2. (j - 1) * b \in Nat
    BY <1>5
  <2> QED BY <1>5, <2>1, <2>2
<1>6. ASSUME NEW j \in 1 .. n, InSlice(k, j, b) PROVE j = q + 1
  <2>0. (j - 1) * b < k /\ k <= j * b
    BY <1>6 DEF InSlice
  <2>1. ~(j < q + 1)
    <3>1. j \in Nat \ {0} /\ q + 1 \in Nat \ {0} /\ ((q + 1) - 1) * b < k
      BY <1>1, <1>2
    <3> QED BY <1>5, <2>0, <3>1
  <2>2. ~(q + 1 < j)
    <3>1. j \in Nat \ {0} /\ q + 1 \in Nat \ {0} /\ k <= (q + 1) * b
      BY <1>1, <1>2, <1>3
    <3> QED BY <1>5, <2>0, <3>1
  <2> QED BY <1>1, <1>2, <2>1, <2>2
<1>7. InSlice(k, q + 1, b)
  BY <1>2, <1>3 DEF InSlice
<1> HIDE DEF InSlice
<1>8. \E i \in 1 .. n : InSlice(k, i, b) /\ \A j \in 1 .. n : InSlice(k, j, b) => j = i
  BY <1>4, <1>6, <1>7
<1> QED BY <1>8 DEF n

\* What one slice holds.
LEMMA BatchHolds ==
    ASSUME NEW S, NEW s \in Seq(S)
    PROVE  /\ Batches(s) \in Seq(Seq(S)) /\ Len(Batches(s)) <= Len(s)
           /\ Len(Batches(s)) = (Len(s) + MetricBatchSize - 1) \div MetricBatchSize
           /\ \A i \in 1 .. Len(Batches(s)) :
                 /\ Len(Batches(s)[i]) \in 1 .. MetricBatchSize
                 /\ \A m : m \in ToSet(Batches(s)[i]) <=>
                              \E k \in 1 .. Len(s) : m = s[k] /\ InSlice(k, i, MetricBatchSize)
<1> DEFINE l == Len(s)
           n == (l + MetricBatchSize - 1) \div MetricBatchSize
           low(i) == (i - 1) * MetricBatchSize
           high(i) == IF i * MetricBatchSize < l THEN i * MetricBatchSize ELSE l
           slice(i) == SubSeq(s, low(i) + 1, high(i))
<1>0. l \in Nat /\ MetricBatchSize \in Nat \ {0}
  BY MetricsAssumption DEF MetricsAssumption
<1>1. n \in Nat /\ n <= l /\ \A i \in 1 .. n : low(i) \in Nat /\ low(i) < l
  BY <1>0, HowManyBatches
<1>2. Batches(s) = [i \in 1 .. n |-> slice(i)]
  BY DEF Batches
<1> HIDE DEF n
<1>3. ASSUME NEW i \in 1 .. n
      PROVE  /\ slice(i) \in Seq(S) /\ Len(slice(i)) \in 1 .. MetricBatchSize
             /\ \A m : m \in ToSet(slice(i)) <=> \E k \in 1 .. l : m = s[k] /\ InSlice(k, i, MetricBatchSize)
  <2>1. /\ low(i) \in Nat /\ low(i) < l /\ i * MetricBatchSize = low(i) + MetricBatchSize
        /\ high(i) \in Nat /\ low(i) < high(i) /\ high(i) <= l /\ high(i) - low(i) <= MetricBatchSize
    <3>1. i * MetricBatchSize = (i - 1) * MetricBatchSize + MetricBatchSize
      BY <1>0, <1>1
    <3> QED BY <1>0, <1>1, <3>1
  <2>2. \A k \in 1 .. l : InSlice(k, i, MetricBatchSize) <=> low(i) < k /\ k <= high(i)
    BY <1>0, <2>1 DEF InSlice
  <2> HIDE DEF low, high
  <2>3. /\ slice(i) \in Seq(S) /\ Len(slice(i)) = high(i) - low(i)
        /\ \A x \in 1 .. high(i) - low(i) : slice(i)[x] = s[low(i) + x]
    BY <2>1
  <2> HIDE DEF slice
  <2>4. DOMAIN slice(i) = 1 .. high(i) - low(i)
    BY <2>3
  <2>5. ASSUME NEW m, m \in ToSet(slice(i))
        PROVE  \E k \in 1 .. l : m = s[k] /\ InSlice(k, i, MetricBatchSize)
    <3>1. PICK x \in 1 .. high(i) - low(i) : m = slice(i)[x]
      BY <2>4, <2>5 DEF ToSet
    <3>2. low(i) + x \in 1 .. l /\ low(i) < low(i) + x /\ low(i) + x <= high(i)
      BY <1>0, <2>1
    <3> QED BY <2>2, <2>3, <3>1, <3>2
  <2>6. ASSUME NEW k \in 1 .. l, InSlice(k, i, MetricBatchSize) PROVE s[k] \in ToSet(slice(i))
    <3>1. k - low(i) \in 1 .. high(i) - low(i) /\ low(i) + (k - low(i)) = k
      BY <1>0, <2>1, <2>2, <2>6
    <3>2. slice(i)[k - low(i)] = s[k]
      BY <2>3, <3>1
    <3> QED BY <2>4, <3>1, <3>2 DEF ToSet
  <2>7. Len(slice(i)) \in 1 .. MetricBatchSize
    BY <1>0, <2>1, <2>3
  <2> QED BY <2>3, <2>5, <2>6, <2>7
<1>4. Batches(s) \in Seq(Seq(S)) /\ Len(Batches(s)) = n
  <2> HIDE DEF slice
  <2>1. \A i \in 1 .. n : slice(i) \in Seq(S)
    BY <1>3
  <2> QED BY <1>1, <1>2, <2>1
<1>5. \A i \in 1 .. n : Batches(s)[i] = slice(i)
  BY <1>2
<1> HIDE DEF slice, InSlice
<1>6. ASSUME NEW i \in 1 .. n
      PROVE  /\ Len(Batches(s)[i]) \in 1 .. MetricBatchSize
             /\ \A m : m \in ToSet(Batches(s)[i]) <=> \E k \in 1 .. l : m = s[k] /\ InSlice(k, i, MetricBatchSize)
  BY <1>3, <1>5
<1> QED BY <1>1, <1>4, <1>6 DEF n

\* Slicing loses nothing and doubles nothing.
LEMMA BatchesPartition ==
    ASSUME NEW S, NEW s \in Seq(S),
           \A k, x \in 1 .. Len(s) : s[k] = s[x] => k = x
    PROVE  /\ \A i \in 1 .. Len(Batches(s)) : ToSet(Batches(s)[i]) \subseteq ToSet(s)
           /\ \A m \in ToSet(s) : \E i \in 1 .. Len(Batches(s)) :
                 /\ m \in ToSet(Batches(s)[i])
                 /\ \A j \in 1 .. Len(Batches(s)) : m \in ToSet(Batches(s)[j]) => j = i
<1> DEFINE l == Len(s)
           n == Len(Batches(s))
           In(k, i) == InSlice(k, i, MetricBatchSize)
<1>1. \A i \in 1 .. n : \A m : m \in ToSet(Batches(s)[i]) <=> \E k \in 1 .. l : m = s[k] /\ In(k, i)
  BY BatchHolds
<1>2. ASSUME NEW k \in 1 .. l
      PROVE  \E i \in 1 .. n : In(k, i) /\ \A j \in 1 .. n : In(k, j) => j = i
  <2>1. l \in Nat /\ MetricBatchSize \in Nat \ {0}
    BY MetricsAssumption DEF MetricsAssumption
  <2>2. n = (l + MetricBatchSize - 1) \div MetricBatchSize
    BY BatchHolds
  <2> QED BY <2>1, <2>2, OneBatchEach
<1>3. \A m : m \in ToSet(s) <=> \E k \in 1 .. l : m = s[k]
  BY DEF ToSet
<1> HIDE DEF l, n, In
<1>4. \A i \in 1 .. n : ToSet(Batches(s)[i]) \subseteq ToSet(s)
  <2>1. ASSUME NEW i \in 1 .. n, NEW m, m \in ToSet(Batches(s)[i]) PROVE m \in ToSet(s)
    <3>1. PICK k \in 1 .. l : m = s[k]
      BY <1>1, <2>1
    <3> QED BY <1>3, <3>1
  <2> QED BY <2>1
<1>5. ASSUME NEW k \in 1 .. l
      PROVE  \E i \in 1 .. n :
                /\ s[k] \in ToSet(Batches(s)[i])
                /\ \A j \in 1 .. n : s[k] \in ToSet(Batches(s)[j]) => j = i
  <2>1. PICK i \in 1 .. n : In(k, i) /\ \A j \in 1 .. n : In(k, j) => j = i
    BY <1>2
  <2>2. s[k] \in ToSet(Batches(s)[i])
    BY <1>1, <2>1
  <2>3. ASSUME NEW j \in 1 .. n, s[k] \in ToSet(Batches(s)[j]) PROVE j = i
    <3>1. PICK x \in 1 .. l : In(x, j) /\ s[k] = s[x]
      BY <1>1, <2>3
    <3>2. x = k
      BY <3>1 DEF l
    <3> QED BY <2>1, <3>1, <3>2
  <2> QED BY <2>2, <2>3
<1> QED BY <1>3, <1>4, <1>5 DEF n
-----------------------------------------------------------------------------
\* What has been taken out of the pending metrics: the first ones.
Old == 1 .. Len(queuedAt) - Len(pending)

\* What is pending is what was queued last, in order.
InOrder ==
    /\ Len(pending) <= Len(queuedAt)
    /\ \A k \in 1 .. Len(pending) : pending[k] = Len(queuedAt) - Len(pending) + k

\* Only a thread that sends holds batches, and no more of them than metrics;
\* the main thread does nothing before the end.
Sending ==
    /\ \A t \in FlushThreads : Len(taken[t]) <= MaxMetrics /\ (pc[t] # "send" => taken[t] = <<>>)
    /\ ~stopping => pc[Main] = "idle"

\* What was taken is sent, lost, or in one batch of one thread.
Held(m, t, i) == i \in 1 .. Len(taken[t]) /\ m \in ToSet(taken[t][i])

Accounted ==
    /\ sent \subseteq Old /\ lost \subseteq Old /\ sent \cap lost = {}
    /\ \A t \in FlushThreads, i \in Nat, m \in Metrics :
          Held(m, t, i) =>
             /\ m \in Old /\ m \notin sent /\ m \notin lost
             /\ \A u \in FlushThreads, j \in Nat : Held(m, u, j) => u = t /\ j = i
    /\ \A m \in Old : m \in sent \/ m \in lost \/ \E t \in FlushThreads, i \in Nat : Held(m, t, i)

\* What is pending came after the last flush, and, while nobody is about to
\* flush, less than an interval after it.
Recent ==
    pending # <<>> =>
        /\ lastFlush <= queuedAt[Head(pending)]
        /\ Flushing = {} => queuedAt[Last(pending)] < lastFlush + FlushInterval

BInv == MetricsTypeOK /\ InOrder /\ Sending /\ Accounted /\ Recent

\* What each step leaves to the invariant.
LEMMA SeqGrows ==
    ASSUME NEW S, NEW T, S \subseteq T, NEW s \in Seq(S)
    PROVE  s \in Seq(T)
  OBVIOUS

LEMMA Appended ==
    ASSUME NEW S, NEW s \in Seq(S), NEW e
    PROVE  /\ Len(Append(s, e)) = Len(s) + 1
           /\ \A k \in 1 .. Len(s) : Append(s, e)[k] = s[k]
           /\ Append(s, e)[Len(s) + 1] = e
           /\ \A T : S \subseteq T /\ e \in T => Append(s, e) \in Seq(T)
<1>1. \A T : S \subseteq T /\ e \in T => s \in Seq(T)
  OBVIOUS
<1>2. \A T : S \subseteq T /\ e \in T => Append(s, e) \in Seq(T)
  BY <1>1
<1>3. s \in Seq(S \cup {e})
  OBVIOUS
<1> QED BY <1>2, <1>3

LEMMA PendingIs ==
    ASSUME MetricsTypeOK, InOrder
    PROVE  /\ \A m : m \in ToSet(pending) <=> m \in 1 .. Len(queuedAt) /\ m \notin Old
           /\ \A k, x \in 1 .. Len(pending) : pending[k] = pending[x] => k = x
           /\ Len(queuedAt) \in Nat /\ Len(pending) \in Nat
<1> DEFINE l == Len(queuedAt)
           n == Len(pending)
<1>1. l \in Nat /\ n \in Nat /\ n <= l /\ DOMAIN pending = 1 .. n
  BY DEF MetricsTypeOK, InOrder
<1>2. \A k \in 1 .. n : pending[k] = l - n + k
  BY DEF InOrder
<1>3. Old = 1 .. l - n
  BY DEF Old
<1>4. \A m : m \in ToSet(pending) <=> \E k \in 1 .. n : m = pending[k]
  BY <1>1 DEF ToSet
<1> HIDE DEF l, n
<1>5. ASSUME NEW m \in 1 .. l, m \notin Old PROVE m \in ToSet(pending)
  <2>1. m - (l - n) \in 1 .. n /\ m = l - n + (m - (l - n))
    BY <1>1, <1>3, <1>5
  <2> QED BY <1>2, <1>4, <2>1
<1>6. ASSUME NEW m, m \in ToSet(pending) PROVE m \in 1 .. l /\ m \notin Old
  <2>1. PICK k \in 1 .. n : m = l - n + k
    BY <1>2, <1>4, <1>6
  <2> QED BY <1>1, <1>3, <2>1
<1>7. \A k, x \in 1 .. n : pending[k] = pending[x] => k = x
  BY <1>1, <1>2
<1> QED BY <1>1, <1>5, <1>6, <1>7 DEF l, n

LEMMA InitBInv == ASSUME MetricsInit PROVE BInv
<1>1. MetricsTypeOK
  <2>1. taken \in [FlushThreads -> Seq(Seq(Metrics))] /\ \A t \in FlushThreads : Len(taken[t]) = 0
    BY DEF MetricsInit
  <2>2. queuedAt = <<>> /\ pending = <<>> /\ sent = {} /\ lost = {} /\ stopping \in BOOLEAN
    BY DEF MetricsInit
  <2> QED BY <2>1, <2>2, MetricsAssumption DEF MetricsInit, MetricsTypeOK, MetricsAssumption
<1>2. \A m, i : \A t \in FlushThreads : ~Held(m, t, i)
  BY DEF MetricsInit, Held
<1>3. Old = {}
  BY DEF MetricsInit, Old
<1>4. InOrder /\ Sending /\ Recent
  BY MetricsAssumption DEF MetricsInit, InOrder, Sending, Recent, MetricsAssumption, FlushThreads
<1>5. Accounted
  <2> HIDE DEF Held
  <2> QED BY <1>2, <1>3 DEF Accounted, MetricsInit
<1> QED BY <1>1, <1>4, <1>5 DEF BInv

LEMMA QueueBInv == ASSUME BInv, NEW t \in Threads, Queue(t) PROVE BInv'
<1> DEFINE l == Len(queuedAt)
           n == Len(pending)
<1>0. MetricsTypeOK /\ InOrder /\ Sending /\ Accounted /\ Recent
  BY DEF BInv
<1>1. /\ queuedAt' = Append(queuedAt, now) /\ pending' = Append(pending, l + 1)
      /\ l < MaxMetrics /\ pc[t] = "idle" /\ t \in FlushThreads
      /\ pc' = [pc EXCEPT ![t] = IF ShouldFlush(n + 1) THEN "flush" ELSE "idle"]
      /\ UNCHANGED <<now, lastFlush, taken, sent, lost, stopping>>
  BY DEF Queue, FlushThreads
<1>2. l \in Nat /\ n \in Nat /\ n <= l /\ now \in Nat /\ lastFlush \in 0 .. now
  BY <1>0 DEF MetricsTypeOK, InOrder
<1>3. /\ queuedAt \in Seq(0 .. now) /\ pending \in Seq(1 .. l)
      /\ pc \in [FlushThreads -> {"idle", "flush", "send", "over"}]
  BY <1>0 DEF MetricsTypeOK
<1>4. /\ Len(queuedAt') = l + 1 /\ queuedAt'[l + 1] = now /\ queuedAt' \in Seq(0 .. now)
      /\ \A k \in 1 .. l : queuedAt'[k] = queuedAt[k]
  BY <1>1, <1>2, <1>3, Appended
<1>5. /\ Len(pending') = n + 1 /\ pending'[n + 1] = l + 1 /\ pending' \in Seq(1 .. l + 1)
      /\ \A k \in 1 .. n : pending'[k] = pending[k]
  <2>1. 1 .. l \subseteq 1 .. l + 1 /\ l + 1 \in 1 .. l + 1
    BY <1>2
  <2> QED BY <1>1, <1>2, <1>3, <2>1, Appended
<1> HIDE DEF l, n
<1>6. /\ pc' \in [FlushThreads -> {"idle", "flush", "send", "over"}]
      /\ \A u \in FlushThreads : pc'[u] = "send" <=> pc[u] = "send"
      /\ pc'[Main] = pc[Main]
  BY <1>1, <1>3, MetricsAssumption DEF MetricsAssumption, FlushThreads
<1>7. MetricsTypeOK'
  <2>1. queuedAt' \in Seq(0 .. now) /\ Len(queuedAt') = l + 1 /\ l + 1 <= MaxMetrics /\ now' = now
    BY <1>1, <1>2, <1>4, MetricsAssumption DEF MetricsAssumption
  <2>2. pending' \in Seq(1 .. l + 1)
    BY <1>5
  <2>3. pc' \in [FlushThreads -> {"idle", "flush", "send", "over"}]
    BY <1>6
  <2>4. UNCHANGED <<now, lastFlush, taken, sent, lost, stopping>>
    BY <1>1
  <2> QED BY <1>0, <2>1, <2>2, <2>3, <2>4 DEF MetricsTypeOK
<1>8. InOrder'
  <2>1. ASSUME NEW k \in 1 .. n + 1 PROVE pending'[k] = l - n + k
    <3>1. k \in 1 .. n => pending'[k] = l - n + k
      BY <1>0, <1>5 DEF InOrder, l, n
    <3>2. k = n + 1 => pending'[k] = l - n + k
      BY <1>2, <1>5
    <3> QED BY <1>2, <3>1, <3>2
  <2>2. \A k \in 1 .. n + 1 : l + 1 - (n + 1) + k = l - n + k
    BY <1>2
  <2> QED BY <1>2, <1>4, <1>5, <2>1, <2>2 DEF InOrder
<1>9. Sending'
  BY <1>0, <1>1, <1>6 DEF Sending
<1>10. Accounted'
  <2>1. Old' = Old
    BY <1>2, <1>4, <1>5 DEF Old, l, n
  <2>2. \A m, u, i : Held(m, u, i)' <=> Held(m, u, i)
    BY <1>1 DEF Held
  <2> QED BY <1>0, <1>1, <2>1, <2>2 DEF Accounted
<1>11. Recent'
  <2>1. pending' # <<>> /\ Last(pending') = l + 1 /\ Head(pending') = pending'[1]
    BY <1>2, <1>5 DEF Last
  <2>2. queuedAt'[Last(pending')] = now
    BY <1>4, <2>1
  <2>3. lastFlush <= queuedAt'[Head(pending')]
    <3>1. CASE n = 0
      BY <1>2, <1>4, <1>5, <2>1, <3>1
    <3>2. CASE n # 0
      <4>1. pending # <<>> /\ Head(pending) = pending[1] /\ pending[1] \in 1 .. l /\ pending'[1] = pending[1]
        BY <1>2, <1>3, <1>5, <3>2 DEF n
      <4> QED BY <1>0, <1>4, <2>1, <4>1 DEF Recent
    <3> QED BY <3>1, <3>2
  <2>4. Flushing' = {} => now < lastFlush + FlushInterval
    <3>1. Flushing' = {} => ~ShouldFlush(n + 1)
      BY <1>1, <1>3 DEF Flushing
    <3> QED BY <1>2, <3>1, MetricsAssumption DEF ShouldFlush, MetricsAssumption
  <2> QED BY <1>1, <2>2, <2>3, <2>4 DEF Recent
<1> QED BY <1>7, <1>8, <1>9, <1>10, <1>11 DEF BInv

LEMMA TakeBInv == ASSUME BInv, NEW t \in FlushThreads, Take(t) PROVE BInv'
<1>0. MetricsTypeOK /\ InOrder /\ Sending /\ Accounted
  BY DEF BInv
<1>1. /\ lastFlush' = now /\ taken' = [taken EXCEPT ![t] = Batches(pending)] /\ pending' = <<>>
      /\ pc[t] = "flush" /\ pc' = [pc EXCEPT ![t] = "send"]
      /\ UNCHANGED <<now, queuedAt, sent, lost, stopping>>
  BY DEF Take
<1>2. /\ taken \in [FlushThreads -> Seq(Seq(Metrics))] /\ pc \in [FlushThreads -> {"idle", "flush", "send", "over"}]
      /\ now \in Nat /\ Len(queuedAt) \in Nat /\ Len(queuedAt) <= MaxMetrics
      /\ pending \in Seq(1 .. Len(queuedAt)) /\ Len(pending) \in Nat /\ Len(pending) <= Len(queuedAt)
      /\ MaxMetrics \in Nat
  BY <1>0, MetricsAssumption DEF MetricsTypeOK, InOrder, MetricsAssumption
<1>3. pending \in Seq(Metrics)
  <2>1. 1 .. Len(queuedAt) \subseteq Metrics
    BY <1>2 DEF Metrics
  <2> QED BY <1>2, <2>1, SeqGrows
<1> DEFINE b == Batches(pending)
<1>4. /\ b \in Seq(Seq(Metrics)) /\ Len(b) <= MaxMetrics
      /\ \A i \in 1 .. Len(b) : Len(b[i]) \in 1 .. MetricBatchSize
  <2>1. b \in Seq(Seq(Metrics)) /\ Len(b) <= Len(pending)
    BY <1>3, BatchHolds
  <2>2. \A i \in 1 .. Len(b) : Len(b[i]) \in 1 .. MetricBatchSize
    BY <1>3, BatchHolds
  <2>3. Len(b) \in Nat
    BY <2>1
  <2> HIDE DEF b
  <2> QED BY <1>2, <2>1, <2>2, <2>3
<1>5. /\ \A i \in 1 .. Len(b) : ToSet(b[i]) \subseteq ToSet(pending)
      /\ \A m \in ToSet(pending) : \E i \in 1 .. Len(b) :
            /\ m \in ToSet(b[i])
            /\ \A j \in 1 .. Len(b) : m \in ToSet(b[j]) => j = i
  <2>1. \A k, x \in 1 .. Len(pending) : pending[k] = pending[x] => k = x
    BY <1>0, PendingIs
  <2> QED BY <1>3, <2>1, BatchesPartition
<1> HIDE DEF b
<1>6. /\ taken' \in [FlushThreads -> Seq(Seq(Metrics))]
      /\ taken'[t] = b /\ \A u \in FlushThreads \ {t} : taken'[u] = taken[u]
      /\ pc' \in [FlushThreads -> {"idle", "flush", "send", "over"}]
      /\ pc'[t] = "send" /\ \A u \in FlushThreads \ {t} : pc'[u] = pc[u]
  BY <1>1, <1>2, <1>4 DEF b
<1>7. MetricsTypeOK'
  <2>1. ASSUME NEW u \in FlushThreads
        PROVE  \A i \in 1 .. Len(taken'[u]) : Len(taken'[u][i]) \in 1 .. MetricBatchSize
    <3>1. CASE u = t
      BY <1>4, <1>6, <3>1
    <3>2. CASE u # t
      BY <1>0, <1>6, <3>2 DEF MetricsTypeOK
    <3> QED BY <3>1, <3>2
  <2>2. pending' \in Seq(1 .. Len(queuedAt')) /\ lastFlush' \in 0 .. now'
    BY <1>1, <1>2
  <2> QED BY <1>0, <1>1, <1>6, <2>1, <2>2 DEF MetricsTypeOK
<1>8. InOrder' /\ Recent'
  BY <1>1, <1>2 DEF InOrder, Recent
<1>9. Sending'
  <2>1. Main \in FlushThreads /\ (~stopping => Main # t)
    BY <1>0, <1>1 DEF Sending, FlushThreads
  <2> QED BY <1>0, <1>1, <1>4, <1>6, <2>1 DEF Sending
<1>10. Accounted'
  <2>1. Old' = 1 .. Len(queuedAt) /\ Old \subseteq Old'
    BY <1>1, <1>2 DEF Old
  <2>2. \A m : m \in ToSet(pending) <=> m \in Old' /\ m \notin Old
    BY <1>0, <2>1, PendingIs
  <2>3. \A m, i : ~Held(m, t, i)
    BY <1>0, <1>1 DEF Sending, Held
  <2>4. \A m, i : Held(m, t, i)' <=> i \in 1 .. Len(b) /\ m \in ToSet(b[i])
    BY <1>6 DEF Held
  <2>5. \A u \in FlushThreads \ {t} : \A m, i : Held(m, u, i)' <=> Held(m, u, i)
    BY <1>6 DEF Held
  <2>6. Len(b) \in Nat
    BY <1>4
  <2>7. ASSUME NEW u \in FlushThreads, NEW i \in Nat, NEW m \in Metrics, Held(m, u, i)'
        PROVE  /\ m \in Old' /\ m \notin sent' /\ m \notin lost'
               /\ \A v \in FlushThreads, j \in Nat : Held(m, v, j)' => v = u /\ j = i
    <3>1. CASE u = t
      <4>1. i \in 1 .. Len(b) /\ m \in ToSet(b[i]) /\ m \in ToSet(pending)
        BY <1>5, <2>4, <2>7, <3>1
      <4>2. m \in Old' /\ m \notin Old
        BY <2>2, <4>1
      <4>3. \A v \in FlushThreads \ {t}, j \in Nat : ~Held(m, v, j)'
        BY <1>0, <2>5, <4>2 DEF Accounted
      <4>4. \A j \in Nat : Held(m, t, j)' => j = i
        BY <1>5, <2>4, <4>1
      <4> QED BY <1>0, <1>1, <3>1, <4>2, <4>3, <4>4 DEF Accounted
    <3>2. CASE u # t
      <4>1. Held(m, u, i)
        BY <2>5, <2>7, <3>2
      <4>2. m \in Old /\ m \notin sent /\ m \notin lost
            /\ \A v \in FlushThreads, j \in Nat : Held(m, v, j) => v = u /\ j = i
        BY <1>0, <4>1 DEF Accounted
      <4>3. \A j \in Nat : ~Held(m, t, j)'
        BY <1>5, <2>2, <2>4, <4>2
      <4> QED BY <1>1, <2>1, <2>5, <4>2, <4>3
    <3> QED BY <3>1, <3>2
  <2>8. ASSUME NEW m \in Old'
        PROVE  m \in sent' \/ m \in lost' \/ \E u \in FlushThreads, i \in Nat : Held(m, u, i)'
    <3>1. CASE m \in Old
      <4>1. CASE m \in sent \/ m \in lost
        BY <1>1, <4>1
      <4>2. CASE \E u \in FlushThreads, i \in Nat : Held(m, u, i)
        BY <2>3, <2>5, <4>2
      <4> QED BY <1>0, <3>1, <4>1, <4>2 DEF Accounted
    <3>2. CASE m \notin Old
      <4>1. PICK i \in 1 .. Len(b) : m \in ToSet(b[i])
        BY <1>5, <2>2, <2>8, <3>2
      <4> QED BY <2>4, <2>6, <4>1
    <3> QED BY <3>1, <3>2
  <2> QED BY <1>0, <1>1, <2>1, <2>7, <2>8 DEF Accounted
<1> QED BY <1>7, <1>8, <1>9, <1>10 DEF BInv

LEMMA SendBInv == ASSUME BInv, NEW t \in FlushThreads, Send(t) PROVE BInv'
<1>0. MetricsTypeOK /\ InOrder /\ Sending /\ Accounted /\ Recent
  BY DEF BInv
<1> DEFINE b == taken[t]
<1>1. /\ pc[t] = "send" /\ b # <<>> /\ taken' = [taken EXCEPT ![t] = Tail(b)]
      /\ \/ sent' = sent \cup ToSet(Head(b)) /\ UNCHANGED lost
         \/ lost' = lost \cup ToSet(Head(b)) /\ UNCHANGED sent
      /\ UNCHANGED <<now, queuedAt, pending, lastFlush, pc, stopping>>
  BY DEF Send
<1>2. /\ taken \in [FlushThreads -> Seq(Seq(Metrics))] /\ b \in Seq(Seq(Metrics))
      /\ \A i \in 1 .. Len(b) : Len(b[i]) \in 1 .. MetricBatchSize
      /\ Len(b) <= MaxMetrics /\ MaxMetrics \in Nat
  BY <1>0, MetricsAssumption DEF MetricsTypeOK, Sending, MetricsAssumption
<1> HIDE DEF b
<1>3. /\ Len(b) \in Nat \ {0} /\ Head(b) = b[1] /\ Tail(b) \in Seq(Seq(Metrics))
      /\ Len(Tail(b)) = Len(b) - 1 /\ \A i \in 1 .. Len(b) - 1 : Tail(b)[i] = b[i + 1]
  BY <1>1, <1>2
<1>4. /\ taken' \in [FlushThreads -> Seq(Seq(Metrics))]
      /\ taken'[t] = Tail(b) /\ \A u \in FlushThreads \ {t} : taken'[u] = taken[u]
  BY <1>1, <1>2, <1>3
<1>5. b[1] \in Seq(Metrics) /\ ToSet(b[1]) \subseteq Metrics
  <2>1. b[1] \in Seq(Metrics)
    BY <1>2, <1>3
  <2> HIDE DEF b
  <2>2. \A i \in DOMAIN b[1] : b[1][i] \in Metrics
    BY <2>1
  <2> QED BY <2>1, <2>2 DEF ToSet
<1>6. MetricsTypeOK'
  <2>1. ASSUME NEW u \in FlushThreads
        PROVE  \A i \in 1 .. Len(taken'[u]) : Len(taken'[u][i]) \in 1 .. MetricBatchSize
    <3>1. CASE u = t
      <4>1. ASSUME NEW i \in 1 .. Len(b) - 1 PROVE Len(Tail(b)[i]) \in 1 .. MetricBatchSize
        <5>1. i + 1 \in 1 .. Len(b) /\ Tail(b)[i] = b[i + 1]
          BY <1>3
        <5> QED BY <1>2, <5>1
      <4> QED BY <1>3, <1>4, <3>1, <4>1
    <3>2. CASE u # t
      BY <1>0, <1>4, <3>2 DEF MetricsTypeOK
    <3> QED BY <3>1, <3>2
  <2>2. sent' \subseteq Metrics /\ lost' \subseteq Metrics
    BY <1>0, <1>1, <1>3, <1>5 DEF MetricsTypeOK
  <2> QED BY <1>0, <1>1, <1>4, <2>1, <2>2 DEF MetricsTypeOK
<1>7. InOrder' /\ Recent'
  BY <1>0, <1>1 DEF InOrder, Recent, Flushing
<1>8. Sending'
  <2>1. ASSUME NEW u \in FlushThreads PROVE Len(taken'[u]) <= MaxMetrics
    <3>1. u = t => Len(taken'[u]) = Len(b) - 1
      BY <1>3, <1>4
    <3>2. u # t => taken'[u] = taken[u]
      BY <1>4
    <3>3. u = t => Len(taken'[u]) <= MaxMetrics
      <4>1. Len(b) \in Nat /\ Len(b) <= MaxMetrics /\ MaxMetrics \in Nat
        BY <1>2, <1>3
      <4> QED BY <3>1, <4>1
    <3>4. u # t => Len(taken'[u]) <= MaxMetrics
      BY <1>0, <3>2 DEF Sending
    <3> QED BY <3>3, <3>4
  <2>2. \A u \in FlushThreads : pc'[u] # "send" => taken'[u] = <<>>
    BY <1>0, <1>1, <1>4 DEF Sending
  <2> QED BY <1>0, <1>1, <2>1, <2>2 DEF Sending
<1>9. Accounted'
  <2>1. Old' = Old
    BY <1>1 DEF Old
  <2>2. \A m \in Metrics, i \in Nat : Held(m, t, i)' <=> i # 0 /\ Held(m, t, i + 1)
    <3>1. ASSUME NEW i \in Nat PROVE i \in 1 .. Len(b) - 1 <=> i # 0 /\ i + 1 \in 1 .. Len(b)
      BY <1>3
    <3>2. \A m \in Metrics, i \in Nat : Held(m, t, i)' <=> i \in 1 .. Len(b) - 1 /\ m \in ToSet(b[i + 1])
      BY <1>3, <1>4 DEF Held
    <3> QED BY <3>1, <3>2 DEF Held, b
  <2>3. \A u \in FlushThreads \ {t} : \A m, i : Held(m, u, i)' <=> Held(m, u, i)
    BY <1>4 DEF Held
  <2>4. \A m : m \in ToSet(b[1]) <=> Held(m, t, 1)
    BY <1>3 DEF Held, b
  <2>5. \A m \in ToSet(b[1]) : m \in Old /\ m \notin sent /\ m \notin lost
    BY <1>0, <1>5, <2>4 DEF Accounted
  <2>6. /\ sent' \cup lost' = sent \cup lost \cup ToSet(b[1])
        /\ sent' \cap lost' = {} /\ sent' \subseteq Old /\ lost' \subseteq Old
    BY <1>0, <1>1, <1>3, <2>5 DEF Accounted
  <2>7. \A m \in Metrics, u \in FlushThreads, i \in Nat : Held(m, u, i)' =>
           \E x \in Nat \ {0} : Held(m, u, x) /\ (u = t => x = i + 1) /\ (u # t => x = i)
    <3>1. \A m \in Metrics, i \in Nat : Held(m, t, i)' => i + 1 \in Nat \ {0} /\ Held(m, t, i + 1)
      BY <2>2
    <3>2. \A m \in Metrics, u \in FlushThreads \ {t}, i \in Nat : Held(m, u, i)' => i \in Nat \ {0} /\ Held(m, u, i)
      <4>1. \A m, u : \A i \in Nat : Held(m, u, i) => i # 0
        BY DEF Held
      <4> HIDE DEF Held
      <4> QED BY <2>3, <4>1
    <3> QED BY <3>1, <3>2
  <2>8. ASSUME NEW u \in FlushThreads, NEW i \in Nat, NEW m \in Metrics, Held(m, u, i)'
        PROVE  /\ m \in Old' /\ m \notin sent' /\ m \notin lost'
               /\ \A v \in FlushThreads, j \in Nat : Held(m, v, j)' => v = u /\ j = i
    <3>1. PICK x \in Nat \ {0} : Held(m, u, x) /\ (u = t => x = i + 1) /\ (u # t => x = i)
      BY <2>7, <2>8
    <3>2. /\ m \in Old /\ m \notin sent /\ m \notin lost
          /\ \A v \in FlushThreads, j \in Nat : Held(m, v, j) => v = u /\ j = x
      BY <1>0, <3>1 DEF Accounted
    <3>3. m \notin ToSet(b[1])
      <4>1. CASE u = t
        <5>1. x # 1
          BY <2>2, <2>8, <3>1, <4>1
        <5> QED BY <2>4, <3>2, <5>1
      <4>2. CASE u # t
        BY <2>4, <3>2, <4>2
      <4> QED BY <4>1, <4>2
    <3>4. ASSUME NEW v \in FlushThreads, NEW j \in Nat, Held(m, v, j)' PROVE v = u /\ j = i
      <4>1. PICK y \in Nat \ {0} : Held(m, v, y) /\ (v = t => y = j + 1) /\ (v # t => y = j)
        BY <2>7, <3>4
      <4>2. v = u /\ y = x
        BY <3>2, <4>1
      <4> QED BY <3>1, <4>1, <4>2
    <3> QED BY <2>1, <2>6, <3>2, <3>3, <3>4
  <2>9. ASSUME NEW m \in Old'
        PROVE  m \in sent' \/ m \in lost' \/ \E u \in FlushThreads, i \in Nat : Held(m, u, i)'
    <3>0. m \in Metrics
      BY <1>0, <2>1, MetricsAssumption DEF MetricsTypeOK, Old, Metrics, MetricsAssumption
    <3>1. CASE m \in sent \/ m \in lost
      BY <2>6, <3>1
    <3>2. ASSUME NEW u \in FlushThreads, NEW i \in Nat, Held(m, u, i)
          PROVE  m \in sent' \cup lost' \/ \E v \in FlushThreads, j \in Nat : Held(m, v, j)'
      <4>1. CASE u # t
        BY <2>3, <3>2, <4>1
      <4>2. CASE u = t /\ i = 1
        BY <2>4, <2>6, <3>2, <4>2
      <4>3. CASE u = t /\ i # 1
        <5>1. i - 1 \in Nat /\ i - 1 # 0 /\ (i - 1) + 1 = i
          BY <3>2, <4>3 DEF Held
        <5> QED BY <2>2, <3>0, <3>2, <4>3, <5>1
      <4> QED BY <4>1, <4>2, <4>3
    <3> QED BY <1>0, <2>1, <3>1, <3>2 DEF Accounted
  <2> QED BY <2>1, <2>6, <2>8, <2>9 DEF Accounted
<1> QED BY <1>6, <1>7, <1>8, <1>9 DEF BInv

LEMMA StepBInv == ASSUME BInv, [MetricsNext]_metricsVars PROVE BInv'
<1>0. MetricsTypeOK /\ InOrder /\ Sending /\ Accounted /\ Recent
  BY DEF BInv
<1>1. CASE \E t \in Threads : Queue(t)
  BY <1>1, QueueBInv
<1>2. CASE \E t \in FlushThreads : Take(t)
  BY <1>2, TakeBInv
<1>3. CASE \E t \in FlushThreads : Send(t)
  BY <1>3, SendBInv
<1>4. ASSUME UNCHANGED <<queuedAt, pending, lastFlush, taken, sent, lost>>,
             MetricsTypeOK', \A t \in FlushThreads : pc'[t] # "send" => taken[t] = <<>>,
             ~stopping' => pc'[Main] = "idle",
             Flushing' = {} => Flushing = {}
      PROVE  BInv'
  <2>1. InOrder' /\ Sending' /\ Recent'
    BY <1>0, <1>4 DEF InOrder, Sending, Recent
  <2>2. Old' = Old /\ \A m, t, i : Held(m, t, i)' <=> Held(m, t, i)
    BY <1>4 DEF Old, Held
  <2>3. Accounted'
    BY <1>0, <1>4, <2>2 DEF Accounted
  <2> QED BY <1>4, <2>1, <2>3 DEF BInv
<1>5. CASE \E t \in FlushThreads : Done(t)
  <2>1. PICK t \in FlushThreads : Done(t)
    BY <1>5
  <2>2. MetricsTypeOK'
    BY <1>0, <2>1 DEF MetricsTypeOK, Done
  <2>3. ~stopping' => pc'[Main] = "idle"
    BY <1>0, <2>1 DEF MetricsTypeOK, Done, Sending
  <2>4. Flushing' = Flushing /\ \A u \in FlushThreads : pc'[u] # "send" => taken[u] = <<>>
    BY <1>0, <2>1 DEF MetricsTypeOK, Done, Flushing, Sending
  <2> QED BY <1>4, <2>1, <2>2, <2>3, <2>4 DEF Done
<1>6. CASE StopMetrics
  <2>1. MetricsTypeOK'
    BY <1>0, <1>6 DEF MetricsTypeOK, StopMetrics, FlushThreads
  <2>2. \A u \in FlushThreads : pc'[u] # "send" => taken[u] = <<>>
    <3>1. \A u \in Threads : pc'[u] = pc[u]
      BY <1>0, <1>6, MetricsAssumption DEF MetricsTypeOK, StopMetrics, FlushThreads, MetricsAssumption
    <3>2. taken[Main] = <<>>
      BY <1>0, <1>6 DEF Sending, FlushThreads, StopMetrics
    <3> QED BY <1>0, <1>6, <3>1, <3>2 DEF Sending, FlushThreads
  <2>3. Flushing' # {}
    BY <1>0, <1>6 DEF MetricsTypeOK, StopMetrics, FlushThreads, Flushing
  <2> QED BY <1>4, <1>6, <2>1, <2>2, <2>3 DEF StopMetrics
<1>7. CASE Tick
  <2>1. queuedAt \in Seq(0 .. now + 1) /\ lastFlush \in 0 .. now + 1 /\ now + 1 \in Nat
    <3>1. now \in Nat /\ 0 .. now \subseteq 0 .. now + 1 /\ queuedAt \in Seq(0 .. now) /\ lastFlush \in 0 .. now
      BY <1>0 DEF MetricsTypeOK
    <3> QED BY <3>1
  <2>2. MetricsTypeOK'
    BY <1>0, <1>7, <2>1 DEF MetricsTypeOK, Tick
  <2> QED BY <1>0, <1>4, <1>7, <2>2 DEF Tick, Sending, Flushing
<1>8. CASE UNCHANGED metricsVars
  <2>1. MetricsTypeOK' /\ Flushing' = Flushing
    BY <1>0, <1>8 DEF MetricsTypeOK, metricsVars, Flushing
  <2> QED BY <1>0, <1>4, <1>8, <2>1 DEF metricsVars, Sending
<1> QED BY <1>1, <1>2, <1>3, <1>5, <1>6, <1>7, <1>8 DEF MetricsNext

LEMMA MetricsInvariant == MetricsSpec => []BInv
<1>1. MetricsInit => BInv
  BY InitBInv
<1>2. BInv /\ [MetricsNext]_metricsVars => BInv'
  BY StepBInv
<1> QED BY <1>1, <1>2, PTL DEF MetricsSpec

\* Every variable of the batching keeps its type and every batch its size, for
\* any number of threads and any batch size.
THEOREM MetricsTypeCorrect == MetricsSpec => []MetricsTypeOK
<1>1. BInv => MetricsTypeOK
  BY DEF BInv
<1> QED BY <1>1, MetricsInvariant, PTL

\* However many threads queue and flush, each metric is in one place: pending,
\* in one slice of one thread, sent or lost (the copy and reset of flush).
THEOREM MetricsInOnePlace == MetricsSpec => []InOnePlace
<1>1. ASSUME BInv PROVE InOnePlace
  <2> SUFFICES ASSUME NEW m \in 1 .. Len(queuedAt)
               PROVE  LET places == <<ToSet(pending), sent, lost>>
                      IN  Cardinality({i \in 1 .. 3 : m \in places[i]}) + Cardinality(Holders(m)) = 1
    BY DEF InOnePlace
  <2> DEFINE places == <<ToSet(pending), sent, lost>>
             P == {i \in 1 .. 3 : m \in places[i]}
  <2> SUFFICES Cardinality(P) + Cardinality(Holders(m)) = 1
    OBVIOUS
  <2>0. MetricsTypeOK /\ InOrder /\ Sending /\ Accounted
    BY <1>1 DEF BInv
  <2>1. m \in ToSet(pending) <=> m \notin Old
    BY <2>0, PendingIs
  <2>2. m \in Metrics
    BY <2>0, MetricsAssumption DEF MetricsTypeOK, Metrics, MetricsAssumption
  <2>3. \A i : i \in P <=> \/ i = 1 /\ m \in ToSet(pending)
                           \/ i = 2 /\ m \in sent
                           \/ i = 3 /\ m \in lost
    <3>1. places[1] = ToSet(pending) /\ places[2] = sent /\ places[3] = lost
      OBVIOUS
    <3>2. 1 .. 3 = {1, 2, 3}
      OBVIOUS
    <3> HIDE DEF places
    <3> QED BY <3>1, <3>2
  <2>4. \A t \in FlushThreads, i \in Metrics : <<t, i>> \in Holders(m) <=> Held(m, t, i)
    <3>1. \A t \in FlushThreads : Len(taken[t]) \in Nat
      BY <2>0 DEF MetricsTypeOK
    <3> QED BY <3>1 DEF Holders, Held, Metrics
  <2>5. \A h \in Holders(m) : \E t \in FlushThreads, i \in Metrics : h = <<t, i>>
    BY DEF Holders
  <2>6. /\ Cardinality({}) = 0 /\ Cardinality({1}) = 1 /\ Cardinality({2}) = 1 /\ Cardinality({3}) = 1
        /\ \A h : Cardinality({h}) = 1
    BY FS_EmptySet, FS_Singleton
  <2> HIDE DEF P
  <2>7. CASE m \notin Old
    <3>1. P = {1}
      BY <2>0, <2>1, <2>3, <2>7 DEF Accounted
    <3>2. Holders(m) = {}
      BY <2>0, <2>2, <2>4, <2>5, <2>7 DEF Accounted, Metrics
    <3> QED BY <2>6, <3>1, <3>2
  <2>8. CASE m \in Old /\ m \in sent \cup lost
    <3>1. P = {2} \/ P = {3}
      BY <2>0, <2>1, <2>3, <2>8 DEF Accounted
    <3>2. Holders(m) = {}
      BY <2>0, <2>2, <2>4, <2>5, <2>8 DEF Accounted, Metrics
    <3>3. Cardinality(P) = 1 /\ Cardinality(Holders(m)) = 0
      BY <2>6, <3>1, <3>2, Zenon
    <3> QED BY <3>3
  <2>9. CASE m \in Old /\ m \notin sent \cup lost
    <3>1. P = {}
      BY <2>1, <2>3, <2>9
    <3>2. PICK t \in FlushThreads, i \in Nat : Held(m, t, i)
      BY <2>0, <2>9 DEF Accounted
    <3>3. i \in Metrics
      <4>1. i \in 1 .. Len(taken[t]) /\ Len(taken[t]) \in Nat /\ Len(taken[t]) <= MaxMetrics
        BY <2>0, <3>2 DEF Held, Sending, MetricsTypeOK
      <4> QED BY <4>1, MetricsAssumption DEF Metrics, MetricsAssumption
    <3>4. \A u \in FlushThreads, j \in Metrics : Held(m, u, j) => u = t /\ j = i
      BY <2>0, <2>2, <3>2 DEF Accounted, Metrics
    <3>5. Holders(m) = {<<t, i>>}
      BY <2>4, <2>5, <3>2, <3>3, <3>4
    <3>6. Cardinality(P) = 0 /\ Cardinality(Holders(m)) = 1
      BY <2>6, <3>1, <3>5, Zenon
    <3> QED BY <3>6
  <2> QED BY <2>7, <2>8, <2>9
<1> QED BY <1>1, MetricsInvariant, PTL

\* Unless a thread is about to flush, what is pending spans less than one flush
\* interval, whatever the batch size and however the threads interleave
\* (should_flush is evaluated with the metric just queued).
THEOREM MetricsLateOnlyWhenQuiet == MetricsSpec => []LateOnlyWhenQuiet
<1>1. ASSUME BInv PROVE LateOnlyWhenQuiet
  <2> SUFFICES ASSUME pending # <<>>, Flushing = {}
               PROVE  queuedAt[Last(pending)] - queuedAt[Head(pending)] < FlushInterval
    BY DEF LateOnlyWhenQuiet
  <2>1. /\ lastFlush <= queuedAt[Head(pending)]
        /\ queuedAt[Last(pending)] < lastFlush + FlushInterval
    BY <1>1 DEF BInv, Recent
  <2>2. Head(pending) \in 1 .. Len(queuedAt) /\ Last(pending) \in 1 .. Len(queuedAt)
    <3>1. pending \in Seq(1 .. Len(queuedAt)) /\ Len(pending) \in Nat \ {0}
      BY <1>1 DEF BInv, MetricsTypeOK
    <3> QED BY <3>1 DEF Last
  <2>3. queuedAt[Head(pending)] \in Nat /\ queuedAt[Last(pending)] \in Nat /\ lastFlush \in Nat
    BY <1>1, <2>2 DEF BInv, MetricsTypeOK
  <2> QED BY <2>1, <2>3, MetricsAssumption DEF MetricsAssumption
<1> QED BY <1>1, MetricsInvariant, PTL
=============================================================================
