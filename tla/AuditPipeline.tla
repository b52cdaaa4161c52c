---------------------------- MODULE AuditPipeline ----------------------------
(***************************************************************************)
(* The audit pipeline of one API process: requests publish events to a     *)
(* bounded queue, one worker moves them into the Firehose sink's batch, and *)
(* the worker (batch full), a timer (batch old) and the shutdown flush the  *)
(* batch, each with its own retries.                                        *)
(*                                                                         *)
(* Everything runs on one event loop and put_record_batch is a blocking    *)
(* call, so the only place where two flushes interleave is the sleep       *)
(* between two attempts: one action is what runs between two sleeps.       *)
(***************************************************************************)
EXTENDS Naturals, FiniteSets

CONSTANTS Events,
          QueueMax,     \* AUDIT_QUEUE_MAX_SIZE
          BatchSize,    \* AUDIT_BATCH_SIZE
          MaxAttempts   \* AUDIT_RETRY_MAX_ATTEMPTS

ASSUME AuditAssumption ==
    /\ IsFiniteSet(Events)
    /\ QueueMax \in Nat \ {0}
    /\ BatchSize \in Nat \ {0}
    /\ MaxAttempts \in Nat \ {0}

Flushers == {"worker", "timer", "stop"}

VARIABLES
    published,  \* events a request has handed to the publisher
    queue,      \* audit_queue
    batch,      \* the sink's _batch
    sending,    \* per flusher: the records it will try again after its sleep
    attempt,    \* per flusher: the attempts made for them
    confirmed,  \* records Firehose confirmed
    abandoned,  \* events given up with a log line
    phase       \* of AuditLifecycle

vars == <<published, queue, batch, sending, attempt, confirmed, abandoned, phase>>

TypeOK ==
    /\ published \subseteq Events
    /\ queue \subseteq Events /\ Cardinality(queue) <= QueueMax
    /\ batch \subseteq Events
    /\ sending \in [Flushers -> SUBSET Events]
    /\ attempt \in [Flushers -> 0..(MaxAttempts - 1)]
    /\ confirmed \subseteq Events
    /\ abandoned \subseteq Events
    /\ phase \in {"running", "draining", "flushing", "stopped"}

Init ==
    /\ published = {} /\ queue = {} /\ batch = {}
    /\ sending = [f \in Flushers |-> {}]
    /\ attempt = [f \in Flushers |-> 0]
    /\ confirmed = {} /\ abandoned = {}
    /\ phase = "running"

Idle(f) == sending[f] = {}
-----------------------------------------------------------------------------
\* Mutant: a partial failure sends the whole batch again.
AttemptWholeAgain(f, records, n) ==
    \E failed \in SUBSET records :
        \/ /\ n = MaxAttempts \/ failed = {}
           /\ confirmed' = confirmed \cup (records \ failed)
           /\ abandoned' = abandoned \cup failed
           /\ sending' = [sending EXCEPT ![f] = {}]
           /\ attempt' = [attempt EXCEPT ![f] = 0]
        \/ /\ n < MaxAttempts /\ failed # {}
           /\ confirmed' = confirmed \cup (records \ failed)
           /\ sending' = [sending EXCEPT ![f] = records]
           /\ attempt' = [attempt EXCEPT ![f] = n]
           /\ UNCHANGED abandoned

\* Mutant: what failed in the last attempt is not even logged.
AttemptForgettingFailed(f, records, n) ==
    \E failed \in SUBSET records :
        \/ /\ n = MaxAttempts \/ failed = {}
           /\ confirmed' = confirmed \cup (records \ failed)
           /\ sending' = [sending EXCEPT ![f] = {}]
           /\ attempt' = [attempt EXCEPT ![f] = 0]
           /\ UNCHANGED abandoned
        \/ /\ n < MaxAttempts /\ failed # {}
           /\ confirmed' = confirmed \cup (records \ failed)
           /\ sending' = [sending EXCEPT ![f] = failed]
           /\ attempt' = [attempt EXCEPT ![f] = n]
           /\ UNCHANGED abandoned

\* Attempt number n of _put_record_batch_with_retries.  Firehose confirms some
\* of the records (all fail when the call raises); what failed is tried again
\* unless the error is not retryable or this was the last attempt.
Attempt(f, records, n) ==
    \E failed \in SUBSET records :
        /\ confirmed' = confirmed \cup (records \ failed)
        /\ \/ /\ n = MaxAttempts \/ failed \in {{}, records}
              /\ abandoned' = abandoned \cup failed
              /\ sending' = [sending EXCEPT ![f] = {}]
              /\ attempt' = [attempt EXCEPT ![f] = 0]
           \/ /\ n < MaxAttempts /\ failed # {}
              /\ sending' = [sending EXCEPT ![f] = failed]
              /\ attempt' = [attempt EXCEPT ![f] = n]
              /\ UNCHANGED abandoned

\* The sleep of flusher f ends and it sends what failed once more.
Retry(f) ==
    /\ ~Idle(f)
    /\ Attempt(f, sending[f], attempt[f] + 1)
    /\ UNCHANGED <<published, queue, batch, phase>>
-----------------------------------------------------------------------------
\* AuditPublisher.publish: an event that finds the queue full is dropped.  The
\* server has let its requests end before the lifespan shuts down.
Publish(e) ==
    /\ phase = "running"
    /\ e \notin published
    /\ published' = published \cup {e}
    /\ IF Cardinality(queue) < QueueMax
       THEN queue' = queue \cup {e} /\ UNCHANGED abandoned
       ELSE abandoned' = abandoned \cup {e} /\ UNCHANGED queue
    /\ UNCHANGED <<batch, sending, attempt, confirmed, phase>>

\* audit_worker and _add_to_batch: the next event joins the batch, and a full
\* batch is flushed.  The worker is free again when that flush is over.
Work(e) ==
    /\ phase # "stopped"
    /\ Idle("worker")
    /\ e \in queue
    /\ queue' = queue \ {e}
    /\ IF Cardinality(batch \cup {e}) >= BatchSize
       THEN batch' = {} /\ Attempt("worker", batch \cup {e}, 1)
       ELSE /\ batch' = batch \cup {e}
            /\ UNCHANGED <<sending, attempt, confirmed, abandoned>>
    /\ UNCHANGED <<published, phase>>

\* Mutant: the timer flushes only what is a full batch.
TimerFullBatch ==
    /\ phase \in {"running", "draining"}
    /\ Idle("timer")
    /\ Cardinality(batch) >= BatchSize
    /\ batch' = {}
    /\ Attempt("timer", batch, 1)
    /\ UNCHANGED <<published, queue, phase>>

\* Mutant: the timer sends the batch and leaves it in place.
TimerKeepingBatch ==
    /\ phase \in {"running", "draining"}
    /\ Idle("timer")
    /\ batch # {}
    /\ Attempt("timer", batch, 1)
    /\ UNCHANGED <<published, queue, batch, phase>>

\* _periodic_flush_loop: the batch is older than its timeout.
Timer ==
    /\ phase \in {"running", "draining"}
    /\ Idle("timer")
    /\ batch # {}
    /\ batch' = {}
    /\ Attempt("timer", batch, 1)
    /\ UNCHANGED <<published, queue, phase>>
-----------------------------------------------------------------------------
(* AuditLifecycle.stop                                                     *)

StopBegin ==
    /\ phase = "running"
    /\ phase' = "draining"
    /\ UNCHANGED <<published, queue, batch, sending, attempt, confirmed, abandoned>>

\* Mutant: the sinks are stopped without waiting for the queue.
StopAtOnce ==
    /\ phase = "draining"
    /\ sending' = [sending EXCEPT !["timer"] = {}]
    /\ attempt' = [attempt EXCEPT !["timer"] = 0]
    /\ phase' = "flushing"
    /\ UNCHANGED <<published, queue, batch, confirmed, abandoned>>

\* audit_queue.join() returned: every event has been dispatched.  The sink
\* cancels its timer, in the middle of a retry if that is where it sleeps.
StopJoined ==
    /\ phase = "draining"
    /\ queue = {} /\ Idle("worker")
    /\ sending' = [sending EXCEPT !["timer"] = {}]
    /\ attempt' = [attempt EXCEPT !["timer"] = 0]
    /\ phase' = "flushing"
    /\ UNCHANGED <<published, queue, batch, confirmed, abandoned>>

\* The sink's last _flush.
StopFlush ==
    /\ phase = "flushing"
    /\ Idle("stop") /\ batch # {}
    /\ batch' = {}
    /\ Attempt("stop", batch, 1)
    /\ UNCHANGED <<published, queue, phase>>

\* The flush is over; the idle worker is cancelled.
StopEnd ==
    /\ phase = "flushing"
    /\ Idle("stop") /\ batch = {}
    /\ phase' = "stopped"
    /\ UNCHANGED <<published, queue, batch, sending, attempt, confirmed, abandoned>>

Stop == StopBegin \/ StopJoined \/ StopFlush \/ StopEnd
-----------------------------------------------------------------------------
Next ==
    \/ \E e \in Events : Publish(e) \/ Work(e)
    \/ Timer
    \/ \E f \in Flushers : Retry(f)
    \/ Stop

Spec == Init /\ [][Next]_vars

\* The event loop runs every task that is ready, and sleeps end.  A shutdown
\* that has begun goes on; nothing makes it begin.
Fairness ==
    /\ WF_vars(\E e \in Events : Work(e))
    /\ WF_vars(Timer)
    /\ \A f \in Flushers : WF_vars(Retry(f))
    /\ WF_vars(StopJoined \/ StopFlush \/ StopEnd)

FairSpec == Spec /\ Fairness
-----------------------------------------------------------------------------
(* Properties *)

InMemory == queue \cup batch \cup UNION {sending[f] : f \in Flushers}

\* An event in memory is in one place only, so that no flush sends what
\* another one holds (_flush swaps the batch under its lock).
HeldOnce ==
    /\ queue \cap batch = {}
    /\ \A f \in Flushers : sending[f] \cap (queue \cup batch) = {}
    /\ \A f, g \in Flushers : f # g => sending[f] \cap sending[g] = {}

\* What Firehose confirmed, or a log line gave up, is not sent again
\* (_failed_records returns only the records that failed).
ConfirmedIsDone == (confirmed \cup abandoned) \cap InMemory = {}

\* Until the sinks are stopped no event vanishes without Firehose's
\* confirmation or a log line.
NoSilentLoss ==
    phase \in {"running", "draining"} => published \subseteq confirmed \cup abandoned \cup InMemory

\* When the lifecycle has stopped nothing is left in memory ("Drain queued
\* events and stop the audit worker.").
StoppedIsDrained == phase = "stopped" => InMemory = {}

\* The shutdown sends or logs what it finds in memory ("Stop the periodic
\* flush loop and send any remaining records.").
StopSendsTheRest == phase = "stopped" => published \subseteq confirmed \cup abandoned

\* Every event a request publishes is confirmed or given up in the end, unless
\* the process is stopped first.
EventuallyHandled ==
    \A e \in Events :
        e \in published ~> e \in confirmed \cup abandoned \/ phase = "stopped"
=============================================================================
