---------------------------- MODULE IngestionJob ----------------------------
(***************************************************************************)
(* The life of ONE ingestion job: its row in ingestion_jobs with its lease *)
(* and attempt count, its command in the SQS queue with its visibility     *)
(* timeout and receive count, the portal request that enqueues it, the     *)
(* worker processes that claim and process it, its deletion and the        *)
(* reconciliation of the dead-letter queue.                                *)
(*                                                                         *)
(* Time is counted in heartbeats: one Tick is the interval at which a      *)
(* worker extends the visibility of the command it holds.  The lease and   *)
(* the visibility timeout are set from the same setting, Visibility ticks. *)
(***************************************************************************)
EXTENDS Naturals

CONSTANTS Workers,
          NoWorker,
          Source,       \* "portal": an admin upload; "s3": an approved object
          Reviewed,     \* uploaded with review_before_publish
          MaxAttempts,  \* ADMIN_INGESTION_MAX_ATTEMPTS
          MaxReceives,  \* maxReceiveCount of the queue
          Visibility,   \* ADMIN_INGESTION_WORKER_VISIBILITY_SECONDS, in ticks
          Ops,          \* what administrators and operators do in a run
          Faults        \* what may go wrong in a run, see AllFaults

AllFaults ==
    {"crash",      \* a worker, the deletion or the reconciliation dies
     "portal",     \* the portal request dies, or send_message raises
     "late",       \* the portal is still busy when a worker gets the command
     "extension",  \* change_message_visibility fails
     "database"}   \* an UPDATE of _update_job fails, and is swallowed

ASSUME JobAssumption ==
    /\ NoWorker \notin Workers
    /\ Source \in {"portal", "s3"}
    /\ Reviewed \in BOOLEAN
    /\ Source = "s3" => ~Reviewed
    /\ MaxAttempts \in Nat \ {0}
    /\ MaxReceives \in Nat \ {0}
    /\ Visibility \in Nat \ {0}
    /\ Ops \subseteq {"delete", "reconcile"}
    /\ Faults \subseteq AllFaults

VARIABLES
    status,    \* ingestion_jobs.status
    attempts,  \* ingestion_jobs.attempt_count
    lease,     \* ticks until lease_expires_at, 0 when null or expired
    owner,     \* lease_owner
    message,   \* where the command is
    hidden,    \* ticks until the command is visible again
    receives,  \* its receive count
    wpc,       \* per worker: the next step
    portal,    \* the upload request's next step
    deletion   \* the deletion's next step

row   == <<status, attempts, lease, owner>>
queue == <<message, hidden, receives>>
vars  == <<row, queue, wpc, portal, deletion>>

Completed == {"ready", "ready_for_review"}
Terminal  == {"failed_terminal", "dead_lettered", "deleted", "deletion_failed"}
Statuses  == {"absent", "queued", "extracting", "uploading", "indexing",
              "retryable", "failed", "deleting"} \cup Completed \cup Terminal

\* A worker is processing between its claim and its last write to the row.
Processing == {"download", "extract", "upload", "index", "finish",
               "raise_retry", "raise_reject", "return_retry", "return_reject"}
WorkerSteps == {"idle", "create", "claim", "ack"} \cup Processing

TypeOK ==
    /\ status \in Statuses
    /\ attempts \in 0..MaxAttempts
    /\ lease \in 0..Visibility
    /\ owner \in Workers \cup {NoWorker}
    /\ message \in {"unsent", "queued", "dead_letter", "reconciling", "gone"}
    /\ hidden \in 0..Visibility
    /\ receives \in 0..MaxReceives
    /\ wpc \in [Workers -> WorkerSteps]
    /\ portal \in {"create", "send", "mark", "fail", "done", "dead"}
    /\ deletion \in {"idle", "commit", "sweep"}

Init ==
    /\ status = "absent" /\ attempts = 0 /\ lease = 0 /\ owner = NoWorker
    /\ message = IF Source = "s3" THEN "queued" ELSE "unsent"
    /\ hidden = 0 /\ receives = 0
    /\ wpc = [w \in Workers |-> "idle"]
    /\ portal = IF Source = "s3" THEN "done" ELSE "create"
    /\ deletion = "idle"
-----------------------------------------------------------------------------
Goto(w, s) == wpc' = [wpc EXCEPT ![w] = s]

\* _update_job(status = s): an UPDATE without a look at the status or the
\* lease; a database error is logged and swallowed.
UpdateStatus(s) ==
    \/ status' = s
    \/ "database" \in Faults /\ status' = status
-----------------------------------------------------------------------------
(* The portal: upload_document with the queue enabled                      *)

PortalCreate ==
    /\ portal = "create"
    /\ status' = "queued"
    /\ portal' = "send"
    /\ UNCHANGED <<attempts, lease, owner, queue, wpc, deletion>>

\* The upload is staged and the command sent.
PortalSend ==
    /\ portal = "send"
    /\ message' = "queued"
    /\ portal' = "mark"
    /\ UNCHANGED <<row, hidden, receives, wpc, deletion>>

\* Staging or send_message raised; the command may have arrived all the same.
PortalSendFails ==
    /\ "portal" \in Faults
    /\ portal = "send"
    /\ message' \in {"unsent", "queued"}
    /\ portal' = "fail"
    /\ UNCHANGED <<row, hidden, receives, wpc, deletion>>

\* enqueue_ingestion_job after the send, fail_ingestion_job after an error.
PortalMark ==
    /\ \/ portal = "mark" /\ UpdateStatus("queued")
       \/ portal = "fail" /\ UpdateStatus("failed")
    /\ portal' = "done"
    /\ UNCHANGED <<attempts, lease, owner, queue, wpc, deletion>>

PortalDies ==
    /\ "portal" \in Faults
    /\ portal \in {"send", "mark", "fail"}
    /\ portal' = "dead"
    /\ UNCHANGED <<row, queue, wpc, deletion>>
-----------------------------------------------------------------------------
(* The worker: run_forever, process_message, process_s3_event_message      *)

\* receive_message: the command is hidden for Visibility ticks.
Receive(w) ==
    /\ wpc[w] = "idle"
    /\ message = "queued" /\ hidden = 0 /\ receives < MaxReceives
    /\ portal \in {"done", "dead"} \/ "late" \in Faults
    /\ receives' = receives + 1
    /\ hidden' = Visibility
    /\ Goto(w, IF Source = "s3" THEN "create" ELSE "claim")
    /\ UNCHANGED <<row, message, portal, deletion>>

\* Mutant: the queue has no redrive policy.
NoRedrive == FALSE /\ UNCHANGED vars

\* The queue's redrive policy, when the command would be received once more.
Redrive ==
    /\ message = "queued" /\ hidden = 0 /\ receives = MaxReceives
    /\ message' = "dead_letter"
    /\ UNCHANGED <<row, hidden, receives, wpc, portal, deletion>>

\* An S3 event: the worker creates the row unless it exists.
CreateJob(w) ==
    /\ wpc[w] = "create"
    /\ status' = IF status = "absent" THEN "queued" ELSE status
    /\ Goto(w, "claim")
    /\ UNCHANGED <<attempts, lease, owner, queue, portal, deletion>>

Closed    == Completed \cup Terminal \cup {"deleting"}
Exhausted == attempts >= MaxAttempts
\* Mutant: the claim does not know the statuses that mean completed.
ClaimableCompleted ==
    status \notin Terminal \cup {"absent", "deleting"} /\ ~Exhausted /\ lease = 0

Claimable == status \notin Closed \cup {"absent"} /\ ~Exhausted /\ lease = 0

\* claim_ingestion_job, "claimed".
Claim(w) ==
    /\ wpc[w] = "claim"
    /\ Claimable
    /\ status' = "extracting"
    /\ attempts' = attempts + 1
    /\ lease' = Visibility /\ owner' = w
    /\ Goto(w, "download")
    /\ UNCHANGED <<queue, portal, deletion>>

\* The attempts are used up, whether or not a lease is still running.
ClaimGivesUp(w) ==
    /\ wpc[w] = "claim"
    /\ status \notin Closed \cup {"absent"} /\ Exhausted
    /\ status' = "failed_terminal"
    /\ lease' = 0 /\ owner' = NoWorker
    /\ Goto(w, "ack")
    /\ UNCHANGED <<attempts, queue, portal, deletion>>

\* "completed" and "terminal": the command is a duplicate and is removed.
ClaimClosed(w) ==
    /\ wpc[w] = "claim"
    /\ status \in Completed \cup Terminal
    /\ Goto(w, "ack")
    /\ UNCHANGED <<row, queue, portal, deletion>>

Busy == \/ status \in {"deleting", "absent"}
        \/ status \notin Closed /\ ~Exhausted /\ lease > 0

\* "busy" and "missing": the command stays in the queue.
ClaimBusy(w) ==
    /\ wpc[w] = "claim"
    /\ Busy
    /\ Goto(w, "idle")
    /\ UNCHANGED <<row, queue, portal, deletion>>

\* The malware tag, the download, the checks of the file and its hash.
Download(w) ==
    /\ wpc[w] = "download"
    /\ \E s \in {"extract", "raise_retry", "raise_reject"} : Goto(w, s)
    /\ UNCHANGED <<row, queue, portal, deletion>>

\* process_ingestion_job: each stage writes its status before it works.
Stage(w, from, s, to) ==
    /\ wpc[w] = from
    /\ UpdateStatus(s)
    /\ \E t \in {to, "return_retry", "return_reject"} : Goto(w, t)
    /\ UNCHANGED <<attempts, lease, owner, queue, portal, deletion>>

Extract(w) == Stage(w, "extract", "extracting", "upload")
Upload(w)  == Stage(w, "upload", "uploading", "index")
Index(w)   == Stage(w, "index", "indexing", "finish")

Finish(w) ==
    /\ wpc[w] = "finish"
    /\ \/ /\ status' = IF Reviewed THEN "ready_for_review" ELSE "ready"
          /\ lease' = 0 /\ owner' = NoWorker
       \/ "database" \in Faults /\ UNCHANGED <<status, lease, owner>>
    /\ Goto(w, "ack")
    /\ UNCHANGED <<attempts, queue, portal, deletion>>

\* Mutant: the worker removes the command of a failed attempt.
ReleaseAndRemove(w) ==
    /\ wpc[w] \in {"raise_retry", "raise_reject", "return_retry", "return_reject"}
    /\ status' = IF wpc[w] \in {"raise_retry", "return_retry"} /\ ~Exhausted
                 THEN "retryable" ELSE "failed_terminal"
    /\ lease' = 0 /\ owner' = NoWorker
    /\ Goto(w, "ack")
    /\ UNCHANGED <<attempts, queue, portal, deletion>>

\* release_ingestion_claim, whoever holds the lease.  process_message passes
\* the failure on, so the command stays; process_s3_event_message passes on
\* only what was raised outside process_ingestion_job.
ReleaseClaim(w) ==
    /\ wpc[w] \in {"raise_retry", "raise_reject", "return_retry", "return_reject"}
    /\ status' = IF wpc[w] \in {"raise_retry", "return_retry"} /\ ~Exhausted
                 THEN "retryable" ELSE "failed_terminal"
    /\ lease' = 0 /\ owner' = NoWorker
    /\ Goto(w, IF Source = "s3" /\ wpc[w] \in {"return_retry", "return_reject"}
               THEN "ack" ELSE "idle")
    /\ UNCHANGED <<attempts, queue, portal, deletion>>

\* delete_message.
Ack(w) ==
    /\ wpc[w] = "ack"
    /\ message' = IF message = "queued" THEN "gone" ELSE message
    /\ Goto(w, "idle")
    /\ UNCHANGED <<row, hidden, receives, portal, deletion>>

\* The worker dies, or an exception outside the claim ends the message: the
\* command shows again when its visibility timeout ends.
WorkerDies(w) ==
    /\ "crash" \in Faults
    /\ wpc[w] # "idle"
    /\ Goto(w, "idle")
    /\ UNCHANGED <<row, queue, portal, deletion>>

Held == message = "queued" /\ \E w \in Workers : wpc[w] # "idle"

Minus1(n) == IF n = 0 THEN 0 ELSE n - 1

\* Mutant: nobody extends the visibility of a command in work.
TickWithoutHeartbeat ==
    /\ lease > 0 \/ hidden > 0
    /\ lease' = Minus1(lease)
    /\ hidden' = Minus1(hidden)
    /\ UNCHANGED <<status, attempts, owner, message, receives, wpc, portal, deletion>>

\* A heartbeat interval goes by.  A worker at work extends the visibility of
\* the command; nobody extends the lease.
Tick ==
    /\ lease > 0 \/ hidden > 0
    /\ lease' = Minus1(lease)
    /\ \/ Held /\ hidden' = Visibility
       \/ (~Held \/ "extension" \in Faults) /\ hidden' = Minus1(hidden)
    /\ UNCHANGED <<status, attempts, owner, message, receives, wpc, portal, deletion>>
-----------------------------------------------------------------------------
(* Deletion and reconciliation                                             *)

\* begin_ingestion_deletion reads the job outside its transaction.
DeleteCheck ==
    /\ "delete" \in Ops
    /\ deletion = "idle"
    /\ status \notin {"absent", "deleted", "queued", "extracting", "indexing",
                      "retryable"}
    /\ deletion' = "commit"
    /\ UNCHANGED <<row, queue, wpc, portal>>

DeleteCommit ==
    /\ deletion = "commit"
    /\ status' = "deleting"
    /\ deletion' = "sweep"
    /\ UNCHANGED <<attempts, lease, owner, queue, wpc, portal>>

DeleteFinish ==
    /\ deletion = "sweep"
    /\ \E s \in {"deleted", "deletion_failed"} : UpdateStatus(s)
    /\ deletion' = "idle"
    /\ UNCHANGED <<attempts, lease, owner, queue, wpc, portal>>

DeletionDies ==
    /\ "crash" \in Faults
    /\ deletion # "idle"
    /\ deletion' = "idle"
    /\ UNCHANGED <<row, queue, wpc, portal>>

\* reconcile_message, run by an operator; it cannot parse an S3 event.  The
\* UPDATE is committed, and its count of rows checked, before the command goes.
ReconcileMark ==
    /\ "reconcile" \in Ops
    /\ message = "dead_letter" /\ Source = "portal"
    /\ status \notin {"absent", "ready"}
    /\ status' = "dead_lettered"
    /\ lease' = 0 /\ owner' = NoWorker
    /\ message' = "reconciling"
    /\ UNCHANGED <<attempts, hidden, receives, wpc, portal, deletion>>

ReconcileRemove ==
    /\ message = "reconciling"
    /\ message' = "gone"
    /\ UNCHANGED <<row, hidden, receives, wpc, portal, deletion>>

\* The script dies before the removal: the command shows again in the
\* dead-letter queue, and its job has been marked already.
ReconcileDies ==
    /\ "crash" \in Faults
    /\ message = "reconciling"
    /\ message' = "dead_letter"
    /\ UNCHANGED <<row, hidden, receives, wpc, portal, deletion>>
-----------------------------------------------------------------------------
Portal == PortalCreate \/ PortalSend \/ PortalSendFails \/ PortalMark \/ PortalDies
Work(w) ==
    \/ CreateJob(w) \/ Claim(w) \/ ClaimGivesUp(w) \/ ClaimClosed(w) \/ ClaimBusy(w)
    \/ Download(w) \/ Extract(w) \/ Upload(w) \/ Index(w) \/ Finish(w)
    \/ ReleaseClaim(w) \/ Ack(w)
Deletion == DeleteCheck \/ DeleteCommit \/ DeleteFinish \/ DeletionDies
Reconcile == ReconcileMark \/ ReconcileRemove \/ ReconcileDies

Next ==
    \/ Portal \/ Deletion \/ Reconcile \/ Redrive \/ Tick
    \/ \E w \in Workers : Receive(w) \/ Work(w) \/ WorkerDies(w)

Spec == Init /\ [][Next]_vars

\* The queue, the clock and a worker that has started keep going; systemd
\* restarts a worker that died, so some worker polls; a portal request that has
\* sent its command goes on or dies.  Nothing is assumed of the time at which
\* an upload is sent, of deletions or of the operator.
Fairness ==
    /\ WF_vars(Tick) /\ WF_vars(Redrive)
    /\ WF_vars(PortalMark \/ PortalDies)
    /\ WF_vars(\E w \in Workers : Receive(w))
    /\ \A w \in Workers : WF_vars(Work(w))

FairSpec == Spec /\ Fairness
-----------------------------------------------------------------------------
(* Properties *)

Settled   == Completed \cup Terminal \cup {"absent", "failed", "deleting"}
AtWork    == {w \in Workers : wpc[w] \in Processing}

\* A job that still has work to do has a command to do it with: it waits in
\* the queue or the dead-letter queue, or the portal has not sent it yet or
\* died before it did.  Nothing else looks for unfinished jobs
\* (process_message deletes the command only of a job that is over).
NoOrphanJob ==
    status \notin Settled =>
        \/ message \in {"queued", "dead_letter"}
        \/ message = "unsent" /\ portal \in {"send", "fail", "dead"}

\* One worker at a time processes the job: a worker that outruns its lease
\* still holds the command (_extend_message_visibility).
OneProcessor == \A v, w \in AtWork : v = w

\* A job that became ready stays so until somebody deletes it: neither a
\* redelivered command nor an update that was lost undoes its completion
\* (claim_ingestion_job counts ready and ready_for_review as completed).
CompletedStays ==
    [][(status \in Completed) => (status' \in Completed \cup {"deleting"})]_vars

\* A live lease of a worker at work ends by that worker's own doing.
LeaseEndsWithItsOwner ==
    [][lease > 0 /\ owner \in AtWork /\ lease' = 0 /\ owner' = NoWorker
          => wpc'[owner] # wpc[owner]]_vars

\* No deletion begins while a worker processes the document ("Wait until
\* document processing finishes before deleting it.").
DeletionWaits == [][status # "deleting" /\ status' = "deleting" => AtWork = {}]_vars

\* The reconciliation refuses a command whose job is completed
\* (reconcile_message: "references a missing or completed job").
ReconcileSparesCompleted ==
    [][(status \in Completed) => (status' # "dead_lettered")]_vars

\* However its attempts end, and whatever else goes wrong, a command does not
\* circulate for ever (the attempt count, the receive count and the redrive).
CommandLeavesQueue == message = "queued" ~> message # "queued"

\* A sent command is worked off: the job ends in a state an administrator can
\* act on, or its command is in the dead-letter queue.
EventuallySettled == message = "queued" ~> (status \in Settled \/ message = "dead_letter")
=============================================================================
