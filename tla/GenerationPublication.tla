------------------------ MODULE GenerationPublication ------------------------
(***************************************************************************)
(* Publication of the generations of ONE logical document: the pointer     *)
(* row knowledge_active_generations, the history table                     *)
(* knowledge_document_generations, the admin registry knowledge_documents, *)
(* the job rows and the chunks in the index, and the requests that move    *)
(* them: the worker's direct publication, publish, rollback, delete and    *)
(* the retention script.                                                   *)
(*                                                                         *)
(* Each request is a sequence of steps, one per database transaction or    *)
(* index call, and may die between any two of them.  What it read in an    *)
(* earlier step may be stale in a later one: that is what this module is   *)
(* about.  Requests is the set of request slots, so its size bounds how    *)
(* many requests overlap; with one slot they are sequential.               *)
(***************************************************************************)
CONSTANTS Gens,      \* ingestion ids (= job ids) of the document
          NoGen,
          Reviewed,  \* those uploaded with review_before_publish
          Requests,  \* slots for overlapping requests
          NoReq,
          Ops        \* the kinds of request a run allows

AllOps == {"ingest", "reingest", "publish", "rollback", "delete", "cleanup"}

ASSUME PublicationAssumption ==
    /\ NoGen \notin Gens
    /\ Reviewed \subseteq Gens
    /\ NoReq \notin Requests
    /\ Ops \subseteq AllOps

VARIABLES
    active,      \* active_ingestion_id, NoGen when the row is absent
    generation,  \* knowledge_document_generations.status
    document,    \* knowledge_documents.status
    job,         \* ingestion_jobs.status
    chunks,      \* what the index holds of the generation
    pc, gen,     \* per request: the next step and the generation it is about
    seen,        \* per open transaction: what its SELECT found in the pointer row
    rowLock,     \* the request holding the pointer row FOR UPDATE
    advisory     \* the request holding the document's advisory lock

tables  == <<active, generation, document, job>>
request == <<pc, gen, seen, rowLock, advisory>>
vars    == <<tables, chunks, request>>

RowStatus   == {"absent", "active", "retired", "deleted"}
JobStatus   == {"absent", "uploading", "indexing", "retryable", "failed_terminal",
                "ready_for_review", "ready", "deleting", "deleted",
                "deletion_failed"}
ChunkStatus == {"none", "partial", "complete"}   \* partial: some, but not exactly its sections
Steps == {"idle",
          "ingest_index", "ingest_write", "ingest_await", "ingest_lock",
          "ingest_activate", "ingest_record", "ingest_finish",
          "publish_verify", "publish_lock", "publish_activate",
          "publish_record", "publish_finish",
          "rollback_verify", "rollback_lock", "rollback_commit",
          "delete_select", "delete_commit", "delete_sweep", "delete_finish",
          "cleanup_sweep", "cleanup_mark"}

TypeOK ==
    /\ active \in Gens \cup {NoGen}
    /\ generation \in [Gens -> RowStatus]
    /\ document \in [Gens -> RowStatus]
    /\ job \in [Gens -> JobStatus]
    /\ chunks \in [Gens -> ChunkStatus]
    /\ pc \in [Requests -> Steps]
    /\ gen \in [Requests -> Gens \cup {NoGen}]
    /\ seen \in [Requests -> Gens \cup {NoGen}]
    /\ rowLock \in Requests \cup {NoReq}
    /\ advisory \in Requests \cup {NoReq}

Init ==
    /\ active = NoGen
    /\ generation = [g \in Gens |-> "absent"]
    /\ document = [g \in Gens |-> "absent"]
    /\ job = [g \in Gens |-> "absent"]
    /\ chunks = [g \in Gens |-> "none"]
    /\ pc = [r \in Requests |-> "idle"]
    /\ gen = [r \in Requests |-> NoGen]
    /\ seen = [r \in Requests |-> NoGen]
    /\ rowLock = NoReq /\ advisory = NoReq
-----------------------------------------------------------------------------
\* A request takes a free slot for generation g and stands before step s.
Begin(op, r, g, s) ==
    /\ op \in Ops
    /\ pc[r] = "idle"
    /\ pc' = [pc EXCEPT ![r] = s]
    /\ gen' = [gen EXCEPT ![r] = g]
    /\ UNCHANGED <<seen, rowLock, advisory>>

Goto(r, s) == pc' = [pc EXCEPT ![r] = s] /\ UNCHANGED <<gen, seen, rowLock, advisory>>

\* The transaction of r, if it has one, is over: its locks are free.
EndTransaction(r) ==
    /\ seen' = [seen EXCEPT ![r] = NoGen]
    /\ rowLock' = IF rowLock = r THEN NoReq ELSE rowLock
    /\ advisory' = IF advisory = r THEN NoReq ELSE advisory

Commit(r, s) == pc' = [pc EXCEPT ![r] = s] /\ UNCHANGED gen /\ EndTransaction(r)

\* The request ends and its slot is free again; an open transaction is closed.
Release(r) ==
    /\ pc' = [pc EXCEPT ![r] = "idle"]
    /\ gen' = [gen EXCEPT ![r] = NoGen]
    /\ EndTransaction(r)

SetJob(g, s) == job' = [job EXCEPT ![g] = s]

\* SELECT active_ingestion_id ... FOR UPDATE: a missing row locks nothing.
SelectPointer(r) ==
    /\ rowLock = NoReq
    /\ seen' = [seen EXCEPT ![r] = active]
    /\ rowLock' = IF active = NoGen THEN NoReq ELSE r

\* Mutant: a switch relies on the row lock alone.
LockSlotByRow(r, s) ==
    /\ SelectPointer(r)
    /\ pc' = [pc EXCEPT ![r] = s]
    /\ UNCHANGED <<gen, advisory, tables, chunks>>

\* How the transaction of a switch begins: pg_advisory_xact_lock, "even when
\* its pointer row does not exist yet", then the SELECT.
LockSlot(r, s) ==
    /\ advisory = NoReq
    /\ advisory' = r
    /\ SelectPointer(r)
    /\ pc' = [pc EXCEPT ![r] = s]
    /\ UNCHANGED <<gen, tables, chunks>>

\* Mutant: the activation forgets the registry rows of the document.
ActivateKeepingRegistry(r) ==
    /\ active' = gen[r]
    /\ generation' = [h \in Gens |-> IF h = gen[r] THEN "active"
                                     ELSE IF h = seen[r] THEN "retired"
                                     ELSE generation[h]]
    /\ UNCHANGED <<document, job>>

\* The rest of _activate_generation_pointer: retire what the SELECT found,
\* retire every other registry row of the document, point at the generation,
\* upsert it as active.
ActivateGenerationPointer(r) ==
    /\ active' = gen[r]
    /\ generation' = [h \in Gens |-> IF h = gen[r] THEN "active"
                                     ELSE IF h = seen[r] THEN "retired"
                                     ELSE generation[h]]
    /\ document' = [h \in Gens |-> IF document[h] = "active" /\ (h # gen[r] \/ h = seen[r])
                                   THEN "retired" ELSE document[h]]
    /\ UNCHANGED job

\* _record_document: an upsert of the registry row, in a transaction of its own.
RecordDocument(g) ==
    /\ document' = [document EXCEPT ![g] = "active"]
    /\ UNCHANGED <<active, generation, job>>

\* The index reports as many chunks of g as the job has sections.
CountMatches(g) == chunks[g] = "complete"
-----------------------------------------------------------------------------
(* The worker, from the upload of the source on (its leases, retries and   *)
(* redeliveries are module IngestionJob).                                  *)

\* No worker processes g: what a claim presumes (OneProcessor in IngestionJob).
Unclaimed(g) == \A r \in Requests : gen[r] = g => pc[r] \notin
    {"ingest_index", "ingest_write", "ingest_await", "ingest_lock",
     "ingest_activate", "ingest_record", "ingest_finish"}

\* The worker sets the job to uploading and uploads the source; a later
\* attempt finds the row as an attempt that failed or died has left it.
IngestStart(r, g) ==
    /\ \/ job[g] = "absent" /\ Begin("ingest", r, g, "ingest_index")
       \/ /\ job[g] \in {"uploading", "indexing", "retryable"} /\ Unclaimed(g)
          /\ Begin("reingest", r, g, "ingest_index")
    /\ SetJob(g, "uploading")
    /\ UNCHANGED <<active, generation, document, chunks>>

IngestIndex(r) ==
    /\ pc[r] = "ingest_index"
    /\ SetJob(gen[r], "indexing")
    /\ Goto(r, "ingest_write")
    /\ UNCHANGED <<active, generation, document, chunks>>

\* _write_generation: every chunk accepted, none of them searchable yet, and
\* beside those of an earlier attempt, whose ids are others.
IngestWrite(r) ==
    /\ pc[r] = "ingest_write"
    /\ chunks' = [chunks EXCEPT ![gen[r]] = "partial"]
    /\ Goto(r, "ingest_await")
    /\ UNCHANGED tables

\* _await_generation: exactly the chunks of this attempt are searchable.  A
\* document uploaded for review stops here, the others go on to activation.
IngestAwait(r) ==
    /\ pc[r] = "ingest_await"
    /\ chunks' = [chunks EXCEPT ![gen[r]] = "complete"]
    /\ \/ gen[r] \notin Reviewed /\ Goto(r, "ingest_lock") /\ UNCHANGED job
       \/ gen[r] \in Reviewed /\ Release(r) /\ SetJob(gen[r], "ready_for_review")
    /\ UNCHANGED <<active, generation, document>>

\* The visibility timeout: strays of earlier attempts and this attempt's own
\* chunks are deleted and the attempt fails, for good or to be retried.
IngestTimeout(r) ==
    /\ pc[r] = "ingest_await"
    /\ chunks' = [chunks EXCEPT ![gen[r]] = "none"]
    /\ \E s \in {"retryable", "failed_terminal"} : SetJob(gen[r], s)
    /\ Release(r)
    /\ UNCHANGED <<active, generation, document>>

IngestLock(r) == pc[r] = "ingest_lock" /\ LockSlot(r, "ingest_activate")

IngestActivate(r) ==
    /\ pc[r] = "ingest_activate"
    /\ ActivateGenerationPointer(r)
    /\ Commit(r, "ingest_record")
    /\ UNCHANGED chunks

IngestRecord(r) ==
    /\ pc[r] = "ingest_record"
    /\ RecordDocument(gen[r])
    /\ Goto(r, "ingest_finish")
    /\ UNCHANGED chunks

\* Mutant: the worker writes a status the portal does not know.
IngestFinishCompleted(r) ==
    /\ pc[r] = "ingest_finish"
    /\ SetJob(gen[r], "completed")
    /\ Release(r)
    /\ UNCHANGED <<active, generation, document, chunks>>

IngestFinish(r) ==
    /\ pc[r] = "ingest_finish"
    /\ SetJob(gen[r], "ready")
    /\ Release(r)
    /\ UNCHANGED <<active, generation, document, chunks>>

\* The worker dies, which leaves the row as it is, or an exception ends the
\* attempt, and the job is retryable until its attempts are exhausted.  A
\* failed write whose best-effort cleanup failed leaves some chunks behind, and
\* chunks nobody waits for any more still become searchable.
IngestAbort(r) ==
    /\ \/ pc[r] \in {"ingest_index", "ingest_write", "ingest_await", "ingest_lock",
                     "ingest_activate", "ingest_record", "ingest_finish"}
          /\ UNCHANGED chunks
       \/ pc[r] = "ingest_write" /\ chunks' = [chunks EXCEPT ![gen[r]] = "partial"]
       \/ pc[r] = "ingest_await" /\ chunks' = [chunks EXCEPT ![gen[r]] = "complete"]
    /\ \E s \in {job[gen[r]], "retryable", "failed_terminal"} : SetJob(gen[r], s)
    /\ Release(r)
    /\ UNCHANGED <<active, generation, document>>
-----------------------------------------------------------------------------
(* publish_ingestion_job                                                   *)

\* Mutant: publish does not look at the status of the job.
PublishCheckAnyStatus(r, g) ==
    /\ Begin("publish", r, g, "publish_verify")
    /\ UNCHANGED <<tables, chunks>>

PublishCheck(r, g) ==
    /\ job[g] = "ready_for_review"
    /\ Begin("publish", r, g, "publish_verify")
    /\ UNCHANGED <<tables, chunks>>

PublishVerify(r) ==
    /\ pc[r] = "publish_verify"
    /\ CountMatches(gen[r])
    /\ Goto(r, "publish_lock")
    /\ UNCHANGED <<tables, chunks>>

PublishLock(r) == pc[r] = "publish_lock" /\ LockSlot(r, "publish_activate")

PublishActivate(r) ==
    /\ pc[r] = "publish_activate"
    /\ ActivateGenerationPointer(r)
    /\ Commit(r, "publish_record")
    /\ UNCHANGED chunks

PublishRecord(r) ==
    /\ pc[r] = "publish_record"
    /\ RecordDocument(gen[r])
    /\ Goto(r, "publish_finish")
    /\ UNCHANGED chunks

PublishFinish(r) ==
    /\ pc[r] = "publish_finish"
    /\ SetJob(gen[r], "ready")
    /\ Release(r)
    /\ UNCHANGED <<active, generation, document, chunks>>
-----------------------------------------------------------------------------
(* rollback_document_generation, asked for from any version of the document *)

\* list_document_generations: the history rows that are not deleted.
RollbackCheck(r, g) ==
    /\ generation[g] \in {"active", "retired"}
    /\ Begin("rollback", r, g, "rollback_verify")
    /\ UNCHANGED <<tables, chunks>>

\* Mutant: rollback does not count the chunks of its target.
RollbackVerifyUncounted(r) ==
    /\ pc[r] = "rollback_verify"
    /\ Goto(r, "rollback_lock")
    /\ UNCHANGED <<tables, chunks>>

RollbackVerify(r) ==
    /\ pc[r] = "rollback_verify"
    /\ CountMatches(gen[r])
    /\ Goto(r, "rollback_lock")
    /\ UNCHANGED <<tables, chunks>>

RollbackLock(r) == pc[r] = "rollback_lock" /\ LockSlot(r, "rollback_commit")

\* The target must not be the active one.  The pointer UPDATE touches no row
\* when there is none, and the registry UPDATE rewrites every row of the
\* document, deleted ones too.
RollbackCommit(r) ==
    LET target == gen[r] IN
    /\ pc[r] = "rollback_commit"
    /\ seen[r] # target
    /\ generation' = [h \in Gens |-> IF h = target THEN "active"
                                     ELSE IF h = seen[r] THEN "retired"
                                     ELSE generation[h]]
    /\ active' = IF active = NoGen THEN NoGen ELSE target
    /\ document' = [h \in Gens |-> IF document[h] = "absent" THEN "absent"
                                   ELSE IF h = target THEN "active"
                                   ELSE "retired"]
    /\ Release(r)
    /\ UNCHANGED <<job, chunks>>
-----------------------------------------------------------------------------
(* begin_ingestion_deletion and finish_ingestion_deletion                  *)

\* _deletion_in_progress allows a second sweep only after twice the sweep's
\* own time limit: the clock test stands for "no sweep of g is running".
DeletionInProgress(g) ==
    /\ job[g] = "deleting"
    /\ \E r \in Requests : gen[r] = g /\ pc[r] \in {"delete_sweep", "delete_finish"}

DeleteCheck(r, g) ==
    /\ job[g] \notin {"absent", "deleted", "queued", "extracting", "indexing", "retryable"}
    /\ ~DeletionInProgress(g)
    /\ Begin("delete", r, g, "delete_select")
    /\ UNCHANGED <<tables, chunks>>

\* Mutant: the pointer row is read without FOR UPDATE.
DeleteSelectUnlocked(r) ==
    /\ pc[r] = "delete_select"
    /\ seen' = [seen EXCEPT ![r] = active]
    /\ pc' = [pc EXCEPT ![r] = "delete_commit"]
    /\ UNCHANGED <<gen, rowLock, advisory, tables, chunks>>

\* The deletion locks the row, and only the row.
DeleteSelect(r) ==
    /\ pc[r] = "delete_select"
    /\ SelectPointer(r)
    /\ pc' = [pc EXCEPT ![r] = "delete_commit"]
    /\ UNCHANGED <<gen, advisory, tables, chunks>>

Tombstone(s) == IF s = "absent" THEN "absent" ELSE "deleted"

\* Mutant: the tombstone is written but the pointer row is left in place.
DeleteCommitKeepingPointer(r) ==
    /\ pc[r] = "delete_commit"
    /\ generation' = [generation EXCEPT ![gen[r]] = Tombstone(@)]
    /\ document' = [document EXCEPT ![gen[r]] = Tombstone(@)]
    /\ SetJob(gen[r], "deleting")
    /\ Commit(r, "delete_sweep")
    /\ UNCHANGED <<active, chunks>>

DeleteCommit(r) ==
    /\ pc[r] = "delete_commit"
    /\ active' = IF seen[r] = gen[r] THEN NoGen ELSE active
    /\ generation' = [generation EXCEPT ![gen[r]] = Tombstone(@)]
    /\ document' = [document EXCEPT ![gen[r]] = Tombstone(@)]
    /\ SetJob(gen[r], "deleting")
    /\ Commit(r, "delete_sweep")
    /\ UNCHANGED chunks

\* _delete_generation_chunks returned: module ChunkVisibility shows when.
DeleteSweep(r) ==
    /\ pc[r] = "delete_sweep"
    /\ chunks' = [chunks EXCEPT ![gen[r]] = "none"]
    /\ Goto(r, "delete_finish")
    /\ UNCHANGED tables

\* The sweep timed out or failed part of the way, or an object delete failed.
DeleteFail(r) ==
    /\ \/ /\ pc[r] = "delete_sweep"
          /\ \E c \in {"none", "partial", chunks[gen[r]]} :
               chunks' = [chunks EXCEPT ![gen[r]] = IF @ = "none" THEN @ ELSE c]
       \/ pc[r] = "delete_finish" /\ UNCHANGED chunks
    /\ SetJob(gen[r], "deletion_failed")
    /\ Release(r)
    /\ UNCHANGED <<active, generation, document>>

DeleteFinish(r) ==
    /\ pc[r] = "delete_finish"
    /\ SetJob(gen[r], "deleted")
    /\ Release(r)
    /\ UNCHANGED <<active, generation, document, chunks>>
-----------------------------------------------------------------------------
(* scripts/cleanup_knowledge_artifacts.py --apply                          *)

\* Mutant: the retention script does not filter on the status.
CleanupListAny(r, g) ==
    /\ generation[g] # "absent"
    /\ Begin("cleanup", r, g, "cleanup_sweep")
    /\ UNCHANGED <<tables, chunks>>

\* retired_generation_candidates: retired, and past its retention.
CleanupList(r, g) ==
    /\ generation[g] = "retired"
    /\ Begin("cleanup", r, g, "cleanup_sweep")
    /\ UNCHANGED <<tables, chunks>>

CleanupSweep(r) ==
    /\ pc[r] = "cleanup_sweep"
    /\ chunks' = [chunks EXCEPT ![gen[r]] = "none"]
    /\ Goto(r, "cleanup_mark")
    /\ UNCHANGED tables

\* The index rejected some of the deletes: the script stops there.
CleanupReject(r) ==
    /\ pc[r] = "cleanup_sweep"
    /\ chunks' = [chunks EXCEPT ![gen[r]] = IF @ = "none" THEN @ ELSE "partial"]
    /\ Release(r)
    /\ UNCHANGED tables

CleanupMark(r) ==
    /\ pc[r] = "cleanup_mark"
    /\ generation' = [generation EXCEPT ![gen[r]] = "deleted"]
    /\ Release(r)
    /\ UNCHANGED <<active, document, job, chunks>>
-----------------------------------------------------------------------------
\* A request other than the worker's ends early: a check failed, an exception
\* was raised or the process died.  Its open transaction is rolled back; what
\* a sweep has deleted until then stays deleted, and no row says so.
RequestAbort(r) ==
    /\ pc[r] \in {"publish_verify", "publish_lock", "publish_activate",
                  "publish_record", "publish_finish",
                  "rollback_verify", "rollback_lock", "rollback_commit",
                  "delete_select", "delete_commit", "delete_sweep",
                  "delete_finish", "cleanup_sweep", "cleanup_mark"}
    /\ \/ UNCHANGED chunks
       \/ /\ pc[r] \in {"delete_sweep", "cleanup_sweep"}
          /\ chunks[gen[r]] # "none"
          /\ \E c \in {"none", "partial"} : chunks' = [chunks EXCEPT ![gen[r]] = c]
    /\ Release(r)
    /\ UNCHANGED tables

Ingest(r) ==
    \/ IngestIndex(r) \/ IngestWrite(r) \/ IngestAwait(r) \/ IngestTimeout(r)
    \/ IngestLock(r) \/ IngestActivate(r) \/ IngestRecord(r) \/ IngestFinish(r) \/ IngestAbort(r)
Publish(r) ==
    PublishVerify(r) \/ PublishLock(r) \/ PublishActivate(r) \/ PublishRecord(r) \/ PublishFinish(r)
Rollback(r) == RollbackVerify(r) \/ RollbackLock(r) \/ RollbackCommit(r)
Delete(r) ==
    DeleteSelect(r) \/ DeleteCommit(r) \/ DeleteSweep(r) \/ DeleteFail(r) \/ DeleteFinish(r)
Cleanup(r) == CleanupSweep(r) \/ CleanupReject(r) \/ CleanupMark(r)
Start(r, g) ==
    \/ IngestStart(r, g) \/ PublishCheck(r, g) \/ RollbackCheck(r, g)
    \/ DeleteCheck(r, g) \/ CleanupList(r, g)

Next ==
    \E r \in Requests :
        \/ Ingest(r) \/ Publish(r) \/ Rollback(r) \/ Delete(r) \/ Cleanup(r)
        \/ RequestAbort(r)
        \/ \E g \in Gens : Start(r, g)

Spec == Init /\ [][Next]_vars
-----------------------------------------------------------------------------
(* Properties *)

\* The count a request has made and not used yet.
TicketSteps == {"ingest_lock", "ingest_activate", "publish_lock", "publish_activate",
                "rollback_lock", "rollback_commit"}

Ticket == [r \in Requests |-> IF pc[r] \in TicketSteps THEN gen[r] ELSE NoGen]

Slot == INSTANCE PublicationSlot
        WITH served <- active,
             complete <- {g \in Gens : chunks[g] = "complete"},
             ticket <- Ticket

\* However its requests overlap and die, publication implements the slot: the
\* pointer moves only to a generation the very same request counted complete,
\* one count for one switch, or it is withdrawn (_await_generation,
\* publish_ingestion_job, rollback_document_generation).
ImplementsSlot == Slot!Spec

\* A deletion removes the pointer row only while the row names the generation
\* it deletes: the id it read is still there when it commits, because the
\* SELECT ... FOR UPDATE holds the row (begin_ingestion_deletion).
WithdrawsOnlyItsOwn ==
    [][active # NoGen /\ active' = NoGen =>
          job'[active] = "deleting" /\ generation'[active] = "deleted"]_vars

\* The history table and the pointer row say the same of what is live, however
\* activations and rollbacks overlap: the advisory lock serialises them also
\* while there is no pointer row that could be locked
\* (_activate_generation_pointer, rollback_document_generation).
HistoryAgreesWithPointer == \A g \in Gens : generation[g] = "active" <=> active = g

\* What the pointer names has exactly its sections in the index (README of the
\* publication flow: no failed or partial generation becomes active).
ServedIsComplete == active # NoGen => chunks[active] = "complete"

\* The pointer names a generation the history table calls active.
ServedIsActive == active # NoGen => generation[active] = "active"

\* A document whose deletion has begun is not eligible for retrieval, however
\* far its cleanup got (begin_ingestion_deletion).
DeletedIsNotServed ==
    active # NoGen => job[active] \notin {"deleting", "deleted", "deletion_failed"}

\* While the document is served, the registry shows no superseded version as
\* active beside the served one (_activate_generation_pointer retires them).
RegistryShowsOnlyServed ==
    active # NoGen => \A g \in Gens : document[g] = "active" => g = active

\* A generation the history table starts to call active is the one retrieval
\* is switched to (rollback_document_generation reports it as reactivated).
ActivationTakesEffect ==
    [][\A g \in Gens : generation[g] # "active" /\ generation'[g] = "active"
                        => active' = g]_vars

\* No attempt of the worker empties a generation the pointer makes live: what
\* _await_generation deletes is a stray of an attempt that never went live.
LiveChunksAreNotStrays ==
    [][\A g \in Gens : active = g /\ active' = g /\ chunks[g] # "none"
                        => chunks'[g] # "none"]_vars
=============================================================================
