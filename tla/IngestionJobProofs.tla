------------------------- MODULE IngestionJobProofs -------------------------
(***************************************************************************)
(* Safety of IngestionJob for any number of workers, attempts, receives    *)
(* and any timeout.  What protects the job is the visibility of its        *)
(* command, not its lease: while the heartbeat keeps the command hidden no *)
(* second worker can receive it (Exclusive), and everything else follows.  *)
(***************************************************************************)
EXTENDS IngestionJob, TLAPS

USE JobAssumption

HeartbeatsSucceed == "extension" \notin Faults
PortalIsPrompt    == Source = "portal" => "late" \notin Faults
UpdatesSucceed    == "database" \notin Faults
NobodyDeletes     == "delete" \notin Ops
OnlyDirectReconciled == "reconcile" \in Ops => ~Reviewed

LEMMA TypeInit == Init => TypeOK
BY DEF Init, TypeOK, Statuses, Completed, Terminal, WorkerSteps

LEMMA TypeNext == TypeOK /\ [Next]_vars => TypeOK'
<1> SUFFICES ASSUME TypeOK, [Next]_vars PROVE TypeOK'
  OBVIOUS
<1> USE DEF TypeOK, Statuses, Completed, Terminal, WorkerSteps, Processing,
            row, queue, vars
<1>1. CASE Portal
  BY <1>1 DEF Portal, PortalCreate, PortalSend, PortalSendFails, PortalMark,
              PortalDies, UpdateStatus
<1>2. CASE Deletion
  BY <1>2 DEF Deletion, DeleteCheck, DeleteCommit, DeleteFinish, DeletionDies,
              UpdateStatus
<1>3. CASE Reconcile \/ Redrive
  BY <1>3 DEF Reconcile, ReconcileMark, ReconcileRemove, ReconcileDies, Redrive
<1>4. CASE Tick
  <2>1. \A n \in 0..Visibility : Minus1(n) \in 0..Visibility
    BY DEF Minus1
  <2> QED BY <1>4, <2>1 DEF Tick
<1>5. ASSUME NEW w \in Workers, Receive(w) PROVE TypeOK'
  BY <1>5 DEF Receive, Goto
<1>6. ASSUME NEW w \in Workers, WorkerDies(w) PROVE TypeOK'
  BY <1>6 DEF WorkerDies, Goto
<1>7. ASSUME NEW w \in Workers, Work(w) PROVE TypeOK'
  <2>1. CASE CreateJob(w) \/ ClaimGivesUp(w) \/ ClaimClosed(w) \/ ClaimBusy(w)
    BY <2>1 DEF CreateJob, ClaimGivesUp, ClaimClosed, ClaimBusy, Goto
  <2>2. CASE Claim(w)
    BY <2>2 DEF Claim, Claimable, Exhausted, Goto
  <2>3. CASE Download(w)
    BY <2>3 DEF Download, Goto
  <2>4. CASE Extract(w) \/ Upload(w) \/ Index(w)
    BY <2>4 DEF Extract, Upload, Index, Stage, UpdateStatus, Goto
  <2>5. CASE Finish(w)
    BY <2>5 DEF Finish, Goto
  <2>6. CASE ReleaseClaim(w) \/ Ack(w)
    BY <2>6 DEF ReleaseClaim, Ack, Goto
  <2> QED BY <1>7, <2>1, <2>2, <2>3, <2>4, <2>5, <2>6 DEF Work
<1>8. CASE UNCHANGED vars
  BY <1>8
<1> QED BY <1>1, <1>2, <1>3, <1>4, <1>5, <1>6, <1>7, <1>8 DEF Next

\* Every variable keeps its type.
THEOREM JobTypeCorrect == Spec => []TypeOK
BY TypeInit, TypeNext, PTL DEF Spec
-----------------------------------------------------------------------------
\* A worker that is not idle holds the only command, and the command is hidden.
Exclusive ==
    /\ portal \in {"create", "send"} => message = "unsent"
    /\ Source = "s3" => portal = "done"
    /\ \A w \in Workers : wpc[w] # "idle" => message = "queued" /\ hidden > 0
    /\ \A v, w \in Workers : wpc[v] # "idle" /\ wpc[w] # "idle" => v = w

LEMMA ExclusiveNext ==
    ASSUME HeartbeatsSucceed, TypeOK, Exclusive, [Next]_vars PROVE Exclusive'
<1> USE DEF TypeOK, Exclusive, row, queue, vars
<1>1. CASE Portal
  BY <1>1 DEF Portal, PortalCreate, PortalSend, PortalSendFails, PortalMark,
              PortalDies
<1>2. CASE Deletion
  BY <1>2 DEF Deletion, DeleteCheck, DeleteCommit, DeleteFinish, DeletionDies
<1>3. CASE Reconcile \/ Redrive
  BY <1>3 DEF Reconcile, ReconcileMark, ReconcileRemove, ReconcileDies, Redrive
<1>4. CASE Tick
  BY <1>4 DEF Tick, Held, HeartbeatsSucceed
<1>5. ASSUME NEW w \in Workers, Receive(w) PROVE Exclusive'
  BY <1>5 DEF Receive, Goto
<1>6. ASSUME NEW w \in Workers, WorkerDies(w) PROVE Exclusive'
  BY <1>6 DEF WorkerDies, Goto
<1>7. ASSUME NEW w \in Workers, Work(w) PROVE Exclusive'
  <2>1. CASE Ack(w)
    BY <2>1 DEF Ack, Goto
  <2>2. CASE ~Ack(w)
    <3>1. /\ wpc[w] # "idle"
          /\ \E s \in WorkerSteps : wpc' = [wpc EXCEPT ![w] = s]
          /\ UNCHANGED <<queue, portal>>
      BY <1>7, <2>2 DEF Work, CreateJob, Claim, ClaimGivesUp, ClaimClosed,
         ClaimBusy, Download, Extract, Upload, Index, Stage, Finish,
         ReleaseClaim, Goto, WorkerSteps, Processing
    <3> QED BY <3>1
  <2> QED BY <2>1, <2>2
<1>8. CASE UNCHANGED vars
  BY <1>8
<1> QED BY <1>1, <1>2, <1>3, <1>4, <1>5, <1>6, <1>7, <1>8 DEF Next

\* While heartbeats get through, one worker at a time processes the job, also
\* one whose lease has expired (_extend_message_visibility).
THEOREM SingleProcessor == ASSUME HeartbeatsSucceed PROVE Spec => []OneProcessor
<1>1. Init => Exclusive
  BY DEF Init, Exclusive
<1>2. TypeOK /\ Exclusive => OneProcessor
  BY DEF TypeOK, Exclusive, OneProcessor, AtWork, Processing
<1>3. TypeOK /\ Exclusive /\ [Next]_vars => Exclusive'
  BY ExclusiveNext
<1> QED BY <1>1, <1>2, <1>3, TypeInit, TypeNext, PTL DEF Spec
-----------------------------------------------------------------------------
\* What keeps a job and its command together, for a portal upload.
Paired ==
    /\ portal = "create" => status = "absent" /\ deletion = "idle"
    /\ portal = "mark" => message = "queued"
    /\ portal \notin {"done", "dead"} => receives = 0
    /\ \A w \in Workers : wpc[w] # "idle" => portal \in {"done", "dead"}
    /\ \A w \in Workers : wpc[w] # "create"
    /\ \A w \in Workers : wpc[w] = "ack" => status \in Settled
    /\ message = "unsent" /\ portal = "done" => status \in Settled

LEMMA PairedNext ==
    ASSUME HeartbeatsSucceed, PortalIsPrompt, UpdatesSucceed, Source = "portal",
           TypeOK, Exclusive, Paired, NoOrphanJob, [Next]_vars
    PROVE  Paired' /\ NoOrphanJob'
<1> USE DEF TypeOK, Exclusive, Paired, NoOrphanJob, Settled, Completed, Terminal,
            row, queue, vars
<1>1. CASE Portal
  BY <1>1 DEF Portal, PortalCreate, PortalSend, PortalSendFails, PortalMark,
              PortalDies, UpdateStatus, UpdatesSucceed
<1>2. CASE Deletion
  <2>1. CASE DeleteCheck \/ DeletionDies
    BY <2>1 DEF DeleteCheck, DeletionDies
  <2>2. CASE DeleteCommit \/ DeleteFinish
    <3>1. status' \in {"deleting", "deleted", "deletion_failed"}
      BY <2>2 DEF DeleteCommit, DeleteFinish, UpdateStatus, UpdatesSucceed
    <3>2. deletion # "idle" /\ UNCHANGED <<queue, wpc, portal>>
      BY <2>2 DEF DeleteCommit, DeleteFinish
    <3> QED BY <3>1, <3>2
  <2> QED BY <1>2, <2>1, <2>2 DEF Deletion
<1>3. CASE Reconcile \/ Redrive
  BY <1>3 DEF Reconcile, ReconcileMark, ReconcileRemove, ReconcileDies, Redrive
<1>4. CASE Tick
  BY <1>4 DEF Tick
<1>5. ASSUME NEW w \in Workers, Receive(w) PROVE Paired' /\ NoOrphanJob'
  BY <1>5 DEF Receive, Goto, PortalIsPrompt
<1>6. ASSUME NEW w \in Workers, WorkerDies(w) PROVE Paired' /\ NoOrphanJob'
  BY <1>6 DEF WorkerDies, Goto
<1>7. ASSUME NEW w \in Workers, Work(w) PROVE Paired' /\ NoOrphanJob'
  <2>1. /\ message = "queued" /\ portal \in {"done", "dead"}
        /\ \A v \in Workers : v # w => wpc[v] = "idle"
    BY <1>7 DEF Exclusive, Work, CreateJob, Claim, ClaimGivesUp, ClaimClosed,
       ClaimBusy, Download, Extract, Upload, Index, Stage, Finish,
       ReleaseClaim, Ack
  <2>2. CASE Ack(w)
    BY <2>1, <2>2 DEF Ack, Goto
  <2>3. CASE ClaimGivesUp(w) \/ ClaimClosed(w) \/ Finish(w)
    BY <2>1, <2>3 DEF ClaimGivesUp, ClaimClosed, Finish, Goto, UpdatesSucceed
  <2>4. CASE ~(Ack(w) \/ ClaimGivesUp(w) \/ ClaimClosed(w) \/ Finish(w))
    <3>1. /\ \E s \in WorkerSteps \ {"ack", "create"} : wpc' = [wpc EXCEPT ![w] = s]
          /\ UNCHANGED <<queue, portal>>
      BY <1>7, <2>4 DEF Work, CreateJob, Claim, ClaimBusy, Download, Extract,
         Upload, Index, Stage, ReleaseClaim, Goto, WorkerSteps, Processing
    <3> QED BY <2>1, <3>1
  <2> QED BY <2>2, <2>3, <2>4
<1>8. CASE UNCHANGED vars
  BY <1>8
<1> QED BY <1>1, <1>2, <1>3, <1>4, <1>5, <1>6, <1>7, <1>8 DEF Next

\* A portal upload whose work is not over has its command in the queue or the
\* dead-letter queue, unless the portal died before it sent one.
THEOREM NoJobIsOrphaned ==
    ASSUME HeartbeatsSucceed, PortalIsPrompt, UpdatesSucceed, Source = "portal"
    PROVE  Spec => []NoOrphanJob
<1>1. Init => Exclusive /\ Paired /\ NoOrphanJob
  BY DEF Init, Exclusive, Paired, NoOrphanJob, Settled
<1>2. TypeOK /\ Exclusive /\ [Next]_vars => Exclusive'
  BY ExclusiveNext
<1>3. TypeOK /\ Exclusive /\ Paired /\ NoOrphanJob /\ [Next]_vars
        => Paired' /\ NoOrphanJob'
  BY PairedNext
<1> QED BY <1>1, <1>2, <1>3, TypeInit, TypeNext, PTL DEF Spec
-----------------------------------------------------------------------------
\* Once a job is completed nobody is between a claim and its last write to it.
Quiet ==
    /\ deletion = "idle"
    /\ status = "ready_for_review" => Reviewed
    /\ \A w \in Workers : wpc[w] # "idle" => portal \in {"done", "dead"}
    /\ status \in Completed =>
          /\ portal \in {"done", "dead"}
          /\ \A w \in Workers : wpc[w] \notin Processing

LEMMA QuietNext ==
    ASSUME HeartbeatsSucceed, PortalIsPrompt, NobodyDeletes, OnlyDirectReconciled,
           TypeOK, Exclusive, Quiet, [Next]_vars
    PROVE  /\ Quiet'
           /\ (status \in Completed) => (status' \in Completed \cup {"deleting"})
<1> DEFINE Stays == (status \in Completed) => (status' \in Completed \cup {"deleting"})
<1> SUFFICES Quiet' /\ Stays
  OBVIOUS
<1> USE DEF TypeOK, Exclusive, Quiet, Completed, Processing, row, queue, vars
<1>1. CASE Portal
  BY <1>1 DEF Portal, PortalCreate, PortalSend, PortalSendFails, PortalMark,
              PortalDies, UpdateStatus
<1>2. CASE Deletion
  BY <1>2 DEF Deletion, DeleteCheck, DeleteCommit, DeleteFinish, DeletionDies,
              NobodyDeletes
<1>3. CASE Reconcile \/ Redrive
  BY <1>3 DEF Reconcile, ReconcileMark, ReconcileRemove, ReconcileDies, Redrive,
              OnlyDirectReconciled
<1>4. CASE Tick
  BY <1>4 DEF Tick
<1>5. ASSUME NEW w \in Workers, Receive(w) PROVE Quiet' /\ Stays
  BY <1>5 DEF Receive, Goto, PortalIsPrompt
<1>6. ASSUME NEW w \in Workers, WorkerDies(w) PROVE Quiet' /\ Stays
  BY <1>6 DEF WorkerDies, Goto
<1>7. ASSUME NEW w \in Workers, Work(w) PROVE Quiet' /\ Stays
  <2>1. /\ wpc[w] # "idle" /\ portal \in {"done", "dead"}
        /\ \A v \in Workers : v # w => wpc[v] = "idle"
        /\ UNCHANGED <<portal, deletion>>
    BY <1>7 DEF Work, CreateJob, Claim, ClaimGivesUp, ClaimClosed,
       ClaimBusy, Download, Extract, Upload, Index, Stage, Finish,
       ReleaseClaim, Ack
  <2>2. CASE CreateJob(w) \/ ClaimGivesUp(w) \/ ClaimClosed(w) \/ ClaimBusy(w)
    BY <2>1, <2>2 DEF CreateJob, ClaimGivesUp, ClaimClosed, ClaimBusy, Closed, Goto
  <2>3. CASE Claim(w)
    BY <2>1, <2>3 DEF Claim, Claimable, Closed, Goto
  <2>4. CASE Finish(w) \/ Ack(w) \/ ReleaseClaim(w)
    BY <2>1, <2>4 DEF Finish, Ack, ReleaseClaim, Goto
  <2>5. CASE Download(w) \/ Extract(w) \/ Upload(w) \/ Index(w)
    <3>1. status \notin Completed
      BY <2>5 DEF Download, Extract, Upload, Index, Stage
    <3>2. status' \notin Completed
      BY <2>5, <3>1 DEF Download, Extract, Upload, Index, Stage, UpdateStatus
    <3>3. \E s \in WorkerSteps : wpc' = [wpc EXCEPT ![w] = s]
      BY <2>5 DEF Download, Extract, Upload, Index, Stage, Goto, WorkerSteps
    <3> QED BY <2>1, <3>1, <3>2, <3>3
  <2> QED BY <1>7, <2>2, <2>3, <2>4, <2>5 DEF Work
<1>8. CASE UNCHANGED vars
  BY <1>8
<1> QED BY <1>1, <1>2, <1>3, <1>4, <1>5, <1>6, <1>7, <1>8 DEF Next

\* A completed job stays completed, whatever is redelivered, whichever updates
\* the database loses and wherever workers, the portal and the reconciliation
\* die (claim_ingestion_job).  The hypotheses are what the code does not see
\* to: heartbeats get through; of an upload, the portal has written its last
\* status before a worker receives the command (enqueue_ingestion_job writes
\* after it has sent); nobody deletes the document meanwhile; and operators
\* reconcile no reviewed upload.
THEOREM CompletionIsFinal ==
    ASSUME HeartbeatsSucceed, PortalIsPrompt, NobodyDeletes, OnlyDirectReconciled
    PROVE  Spec => CompletedStays
<1>1. Init => Exclusive /\ Quiet
  BY DEF Init, Exclusive, Quiet, Completed
<1>2. TypeOK /\ Exclusive /\ [Next]_vars => Exclusive'
  BY ExclusiveNext
<1>3. TypeOK /\ Exclusive /\ Quiet /\ [Next]_vars
        => Quiet' /\ [(status \in Completed) => (status' \in Completed \cup {"deleting"})]_vars
  BY QuietNext
<1> QED BY <1>1, <1>2, <1>3, TypeInit, TypeNext, PTL DEF Spec, CompletedStays
=============================================================================
