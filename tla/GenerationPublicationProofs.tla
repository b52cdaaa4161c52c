-------------------- MODULE GenerationPublicationProofs --------------------
(* Theorems about GenerationPublication, for any generations and any number *)
(* of overlapping requests.                                                 *)
EXTENDS GenerationPublication, TLAPS

\* A request is about a generation from its first step to its last.
Busy == \A r \in Requests : pc[r] # "idle" => gen[r] \in Gens

TInv == TypeOK /\ Busy

LEMMA TypeInit == Init => TInv
BY PublicationAssumption DEF Init, TInv, TypeOK, Busy, RowStatus, JobStatus, ChunkStatus, Steps

LEMMA TypeNext == TInv /\ [Next]_vars => TInv'
<1> SUFFICES ASSUME TInv, [Next]_vars PROVE TInv'
    OBVIOUS
<1> USE PublicationAssumption DEF TInv, TypeOK, Busy, RowStatus, JobStatus, ChunkStatus, Steps,
        tables, request, SetJob, Begin, Goto, Release, Commit, EndTransaction,
        LockSlot, SelectPointer
<1>1. ASSUME NEW r \in Requests, Ingest(r) PROVE TInv'
  <2> USE DEF ActivateGenerationPointer, RecordDocument
  <2>1. CASE IngestIndex(r) \/ IngestWrite(r) BY <2>1 DEF IngestIndex, IngestWrite
  <2>2. CASE IngestAwait(r)
    <3>1. CASE gen[r] \in Reviewed
      <4>1. /\ Release(r)
            /\ SetJob(gen[r], "ready_for_review")
            /\ chunks' = [chunks EXCEPT ![gen[r]] = "complete"]
            /\ UNCHANGED <<active, generation, document>>
        BY <2>2, <3>1 DEF IngestAwait
      <4> QED BY <4>1
    <3>2. CASE gen[r] \notin Reviewed BY <2>2, <3>2 DEF IngestAwait
    <3> QED BY <3>1, <3>2
  <2>3. CASE IngestTimeout(r) BY <2>3 DEF IngestTimeout
  <2>4. CASE IngestLock(r) \/ IngestActivate(r) BY <2>4 DEF IngestLock, IngestActivate
  <2>5. CASE IngestRecord(r) BY <2>5 DEF IngestRecord
  <2>6. CASE IngestFinish(r) BY <2>6 DEF IngestFinish
  <2>7. CASE IngestAbort(r) BY <2>7 DEF IngestAbort
  <2> QED BY <1>1, <2>1, <2>2, <2>3, <2>4, <2>5, <2>6, <2>7 DEF Ingest
<1>2. ASSUME NEW r \in Requests, Publish(r) PROVE TInv'
  <2> USE DEF ActivateGenerationPointer, RecordDocument
  <2>1. CASE PublishVerify(r) BY <2>1 DEF PublishVerify
  <2>2. CASE PublishLock(r) \/ PublishActivate(r) BY <2>2 DEF PublishLock, PublishActivate
  <2>3. CASE PublishRecord(r) BY <2>3 DEF PublishRecord
  <2>4. CASE PublishFinish(r) BY <2>4 DEF PublishFinish
  <2> QED BY <1>2, <2>1, <2>2, <2>3, <2>4 DEF Publish
<1>3. ASSUME NEW r \in Requests, Rollback(r) PROVE TInv'
  <2>1. CASE RollbackVerify(r) BY <2>1 DEF RollbackVerify
  <2>2. CASE RollbackLock(r) \/ RollbackCommit(r) BY <2>2 DEF RollbackLock, RollbackCommit
  <2> QED BY <1>3, <2>1, <2>2 DEF Rollback
<1>4. ASSUME NEW r \in Requests, Delete(r) PROVE TInv'
  <2>1. CASE DeleteSelect(r) BY <2>1 DEF DeleteSelect
  <2>2. CASE DeleteCommit(r) BY <2>2 DEF DeleteCommit, Tombstone
  <2>3. CASE DeleteSweep(r) BY <2>3 DEF DeleteSweep
  <2>4. CASE DeleteFail(r) BY <2>4 DEF DeleteFail
  <2>5. CASE DeleteFinish(r) BY <2>5 DEF DeleteFinish
  <2> QED BY <1>4, <2>1, <2>2, <2>3, <2>4, <2>5 DEF Delete
<1>5. ASSUME NEW r \in Requests, Cleanup(r) PROVE TInv'
  <2>1. CASE CleanupSweep(r) BY <2>1 DEF CleanupSweep
  <2>2. CASE CleanupReject(r) BY <2>2 DEF CleanupReject
  <2>3. CASE CleanupMark(r) BY <2>3 DEF CleanupMark
  <2> QED BY <1>5, <2>1, <2>2, <2>3 DEF Cleanup
<1>6. ASSUME NEW r \in Requests, RequestAbort(r) PROVE TInv'
  BY <1>6 DEF RequestAbort
<1>7. ASSUME NEW r \in Requests, NEW g \in Gens, Start(r, g) PROVE TInv'
  <2>1. CASE IngestStart(r, g) BY <2>1 DEF IngestStart
  <2>2. CASE PublishCheck(r, g) BY <2>2 DEF PublishCheck
  <2>3. CASE RollbackCheck(r, g) BY <2>3 DEF RollbackCheck
  <2>4. CASE DeleteCheck(r, g) BY <2>4 DEF DeleteCheck
  <2>5. CASE CleanupList(r, g) BY <2>5 DEF CleanupList
  <2> QED BY <1>7, <2>1, <2>2, <2>3, <2>4, <2>5 DEF Start
<1>8. CASE UNCHANGED vars
  BY <1>8 DEF vars
<1> QED BY <1>1, <1>2, <1>3, <1>4, <1>5, <1>6, <1>7, <1>8 DEF Next

\* Every variable keeps its type, whatever the requests do (all of
\* services/knowledge_ingestion.py's publication code).
THEOREM TypeCorrect == Spec => []TypeOK
<1>1. Spec => []TInv
  BY TypeInit, TypeNext, PTL DEF Spec
<1>2. TInv => TypeOK
  BY DEF TInv
<1> QED BY <1>1, <1>2, PTL
-----------------------------------------------------------------------------
(* The two locks: what a transaction found in the pointer row is still       *)
(* there when it commits.                                                    *)

\* Between the locks of a switch and its commit.
SwitchSteps == {"ingest_activate", "publish_activate", "rollback_commit"}

\* A switch holds the advisory lock, and the pointer row if there is one; a
\* deletion that found its own id holds the row.
LockInv ==
    /\ \A r \in Requests : pc[r] \in SwitchSteps =>
          advisory = r /\ seen[r] = active /\ (active # NoGen => rowLock = r)
    /\ \A r \in Requests : pc[r] = "delete_commit" /\ seen[r] = gen[r] =>
          rowLock = r /\ active = gen[r]

LEMMA LockInit == Init => LockInv
BY PublicationAssumption DEF Init, LockInv, SwitchSteps

LEMMA LockNext == TInv /\ LockInv /\ [Next]_vars => LockInv'
<1> SUFFICES ASSUME TInv, LockInv, [Next]_vars PROVE LockInv'
    OBVIOUS
<1> USE PublicationAssumption DEF TInv, TypeOK, Busy, LockInv, tables, request, Begin, Goto, Release,
        Commit, EndTransaction, LockSlot, SelectPointer, SwitchSteps
<1>1. ASSUME NEW r \in Requests, Ingest(r) PROVE LockInv'
  <2> USE DEF ActivateGenerationPointer, RecordDocument
  <2>1. CASE IngestIndex(r) \/ IngestWrite(r) BY <2>1 DEF IngestIndex, IngestWrite
  <2>2. CASE IngestAwait(r)
    <3>1. CASE gen[r] \in Reviewed BY <2>2, <3>1 DEF IngestAwait
    <3>2. CASE gen[r] \notin Reviewed BY <2>2, <3>2 DEF IngestAwait
    <3> QED BY <3>1, <3>2
  <2>3. CASE IngestTimeout(r) BY <2>3 DEF IngestTimeout
  <2>4. CASE IngestLock(r) \/ IngestActivate(r) BY <2>4 DEF IngestLock, IngestActivate
  <2>5. CASE IngestRecord(r) BY <2>5 DEF IngestRecord
  <2>6. CASE IngestFinish(r) BY <2>6 DEF IngestFinish
  <2>7. CASE IngestAbort(r) BY <2>7 DEF IngestAbort
  <2> QED BY <1>1, <2>1, <2>2, <2>3, <2>4, <2>5, <2>6, <2>7 DEF Ingest
<1>2. ASSUME NEW r \in Requests, Publish(r) PROVE LockInv'
  <2> USE DEF ActivateGenerationPointer, RecordDocument
  <2>1. CASE PublishVerify(r) BY <2>1 DEF PublishVerify
  <2>2. CASE PublishLock(r) \/ PublishActivate(r) BY <2>2 DEF PublishLock, PublishActivate
  <2>3. CASE PublishRecord(r) BY <2>3 DEF PublishRecord
  <2>4. CASE PublishFinish(r) BY <2>4 DEF PublishFinish
  <2> QED BY <1>2, <2>1, <2>2, <2>3, <2>4 DEF Publish
<1>3. ASSUME NEW r \in Requests, Rollback(r) PROVE LockInv'
  <2>1. CASE RollbackVerify(r) BY <2>1 DEF RollbackVerify
  <2>2. CASE RollbackLock(r) \/ RollbackCommit(r) BY <2>2 DEF RollbackLock, RollbackCommit
  <2> QED BY <1>3, <2>1, <2>2 DEF Rollback
<1>4. ASSUME NEW r \in Requests, Delete(r) PROVE LockInv'
  <2>1. CASE DeleteSelect(r) BY <2>1 DEF DeleteSelect
  <2>2. CASE DeleteCommit(r) BY <2>2 DEF DeleteCommit
  <2>3. CASE DeleteSweep(r) BY <2>3 DEF DeleteSweep
  <2>4. CASE DeleteFail(r) BY <2>4 DEF DeleteFail
  <2>5. CASE DeleteFinish(r) BY <2>5 DEF DeleteFinish
  <2> QED BY <1>4, <2>1, <2>2, <2>3, <2>4, <2>5 DEF Delete
<1>5. ASSUME NEW r \in Requests, Cleanup(r) PROVE LockInv'
  <2>1. CASE CleanupSweep(r) BY <2>1 DEF CleanupSweep
  <2>2. CASE CleanupReject(r) BY <2>2 DEF CleanupReject
  <2>3. CASE CleanupMark(r) BY <2>3 DEF CleanupMark
  <2> QED BY <1>5, <2>1, <2>2, <2>3 DEF Cleanup
<1>6. ASSUME NEW r \in Requests, RequestAbort(r) PROVE LockInv'
  BY <1>6 DEF RequestAbort
<1>7. ASSUME NEW r \in Requests, NEW g \in Gens, Start(r, g) PROVE LockInv'
  BY <1>7 DEF Start, IngestStart, PublishCheck, RollbackCheck, DeleteCheck, CleanupList
<1>8. CASE UNCHANGED vars
  BY <1>8 DEF vars
<1> QED BY <1>1, <1>2, <1>3, <1>4, <1>5, <1>6, <1>7, <1>8 DEF Next
-----------------------------------------------------------------------------
(* Switching only: while nothing is deleted or cleaned up, the pointer and *)
(* the history agree.  The invariant also says that a pointer, once there,  *)
(* stays: a rollback has a target only when something was activated.        *)

SwitchingOps == {"ingest", "reingest", "publish", "rollback"}

NothingDeletes == \A r \in Requests :
    pc[r] \notin {"delete_select", "delete_commit", "delete_sweep", "delete_finish",
                  "cleanup_sweep", "cleanup_mark"}

RollbackHasPointer == \A r \in Requests :
    pc[r] \in {"rollback_verify", "rollback_lock", "rollback_commit"} => active # NoGen

HistoryHasPointer == active = NoGen => \A g \in Gens : generation[g] = "absent"

SInv == HistoryAgreesWithPointer /\ NothingDeletes /\ RollbackHasPointer /\ HistoryHasPointer

LEMMA SwitchingInit == Init => SInv
BY PublicationAssumption DEF Init, SInv, HistoryAgreesWithPointer, NothingDeletes,
   RollbackHasPointer, HistoryHasPointer

LEMMA SwitchingNext ==
    ASSUME Ops \subseteq SwitchingOps, TInv, LockInv, SInv, [Next]_vars
    PROVE  SInv'
<1> USE PublicationAssumption DEF TInv, TypeOK, Busy, SInv, HistoryAgreesWithPointer,
        NothingDeletes, RollbackHasPointer, HistoryHasPointer, tables, request, Begin, Goto, Release,
        Commit, EndTransaction, LockSlot, SelectPointer
\* What the locked SELECT found is what the activation has to retire.
<1>1. ASSUME NEW r \in Requests, pc[r] \in SwitchSteps, ActivateGenerationPointer(r)
      PROVE  HistoryAgreesWithPointer' /\ active' # NoGen
  <2>1. seen[r] = active /\ gen[r] \in Gens
    BY <1>1 DEF LockInv, SwitchSteps
  <2> QED BY <1>1, <2>1 DEF ActivateGenerationPointer
<1>2. ASSUME NEW r \in Requests, Ingest(r) PROVE SInv'
  <2>1. CASE IngestIndex(r) \/ IngestWrite(r) BY <2>1 DEF IngestIndex, IngestWrite
  <2>2. CASE IngestAwait(r)
    <3>1. CASE gen[r] \in Reviewed BY <2>2, <3>1 DEF IngestAwait
    <3>2. CASE gen[r] \notin Reviewed BY <2>2, <3>2 DEF IngestAwait
    <3> QED BY <3>1, <3>2
  <2>3. CASE IngestTimeout(r) BY <2>3 DEF IngestTimeout
  <2>4. CASE IngestLock(r) BY <2>4 DEF IngestLock
  <2>5. CASE IngestActivate(r)
    <3>1. HistoryAgreesWithPointer' /\ active' # NoGen
      BY <2>5, <1>1 DEF IngestActivate, SwitchSteps
    <3> QED BY <2>5, <3>1 DEF IngestActivate
  <2>6. CASE IngestRecord(r) BY <2>6 DEF IngestRecord, RecordDocument
  <2>7. CASE IngestFinish(r) BY <2>7 DEF IngestFinish
  <2>8. CASE IngestAbort(r) BY <2>8 DEF IngestAbort
  <2> QED BY <1>2, <2>1, <2>2, <2>3, <2>4, <2>5, <2>6, <2>7, <2>8 DEF Ingest
<1>3. ASSUME NEW r \in Requests, Publish(r) PROVE SInv'
  <2>1. CASE PublishVerify(r) BY <2>1 DEF PublishVerify
  <2>2. CASE PublishActivate(r)
    <3>1. HistoryAgreesWithPointer' /\ active' # NoGen
      BY <2>2, <1>1 DEF PublishActivate, SwitchSteps
    <3> QED BY <2>2, <3>1 DEF PublishActivate
  <2>3. CASE PublishRecord(r) BY <2>3 DEF PublishRecord, RecordDocument
  <2>4. CASE PublishFinish(r) BY <2>4 DEF PublishFinish
  <2>5. CASE PublishLock(r) BY <2>5 DEF PublishLock
  <2> QED BY <1>3, <2>1, <2>2, <2>3, <2>4, <2>5 DEF Publish
<1>4. ASSUME NEW r \in Requests, Rollback(r) PROVE SInv'
  <2>1. CASE RollbackVerify(r) BY <2>1 DEF RollbackVerify
  <2>2. CASE RollbackLock(r) BY <2>2 DEF RollbackLock
  <2>3. CASE RollbackCommit(r)
    <3>1. seen[r] = active /\ gen[r] \in Gens
      BY <2>3 DEF RollbackCommit, LockInv, SwitchSteps
    <3> QED BY <2>3, <3>1 DEF RollbackCommit
  <2> QED BY <1>4, <2>1, <2>2, <2>3 DEF Rollback
<1>5. ASSUME NEW r \in Requests, RequestAbort(r) PROVE SInv'
  BY <1>5 DEF RequestAbort
<1>6. ASSUME NEW r \in Requests, NEW g \in Gens, Start(r, g) PROVE SInv'
  <2>1. CASE IngestStart(r, g) BY <2>1 DEF IngestStart
  <2>2. CASE PublishCheck(r, g) BY <2>2 DEF PublishCheck
  <2>3. CASE RollbackCheck(r, g)
    <3>1. generation[g] \in {"active", "retired"} BY <2>3 DEF RollbackCheck
    <3> QED BY <2>3, <3>1 DEF RollbackCheck
  <2>4. CASE DeleteCheck(r, g) BY <2>4 DEF DeleteCheck, SwitchingOps
  <2>5. CASE CleanupList(r, g) BY <2>5 DEF CleanupList, SwitchingOps
  <2> QED BY <1>6, <2>1, <2>2, <2>3, <2>4, <2>5 DEF Start
<1>7. CASE UNCHANGED vars
  BY <1>7 DEF vars
<1> QED BY <1>2, <1>3, <1>4, <1>5, <1>6, <1>7 DEF Next, Delete, Cleanup, DeleteSelect,
       DeleteCommit, DeleteSweep, DeleteFail, DeleteFinish, CleanupSweep, CleanupReject,
       CleanupMark

\* However many activations and rollbacks overlap and wherever they die, a
\* generation is active in the history table exactly when the pointer row names
\* it: what the advisory lock of _activate_generation_pointer and
\* rollback_document_generation is for.
THEOREM HistoryAgrees ==
    ASSUME Ops \subseteq SwitchingOps
    PROVE  Spec => []HistoryAgreesWithPointer
<1>1. TInv /\ LockInv /\ SInv /\ [Next]_vars => TInv' /\ LockInv' /\ SInv'
  BY TypeNext, LockNext, SwitchingNext
<1>2. Spec => [](TInv /\ LockInv /\ SInv)
  BY <1>1, TypeInit, LockInit, SwitchingInit, PTL DEF Spec
<1>3. SInv => HistoryAgreesWithPointer
  BY DEF SInv
<1> QED BY <1>2, <1>3, PTL
-----------------------------------------------------------------------------
(* Deletion: what it withdraws.                                             *)

\* What the pointer names has a row in the history table.
ServedHasHistory == active # NoGen => generation[active] # "absent"

LEMMA HistoryNext == TInv /\ ServedHasHistory /\ [Next]_vars => ServedHasHistory'
<1> SUFFICES ASSUME TInv, ServedHasHistory, [Next]_vars PROVE ServedHasHistory'
    OBVIOUS
<1> USE PublicationAssumption DEF TInv, TypeOK, Busy, ServedHasHistory, tables
<1>1. ASSUME UNCHANGED <<active, generation>> PROVE ServedHasHistory'
  BY <1>1
<1>2. ASSUME NEW r \in Requests, gen[r] \in Gens, ActivateGenerationPointer(r) PROVE ServedHasHistory'
  BY <1>2 DEF ActivateGenerationPointer
<1>3. ASSUME NEW r \in Requests, RollbackCommit(r) PROVE ServedHasHistory'
  BY <1>3 DEF RollbackCommit
<1>4. ASSUME NEW r \in Requests, DeleteCommit(r) PROVE ServedHasHistory'
  BY <1>4 DEF DeleteCommit, Tombstone
<1>5. ASSUME NEW r \in Requests, CleanupMark(r) PROVE ServedHasHistory'
  BY <1>5 DEF CleanupMark
<1>6. ASSUME NEW r \in Requests, Ingest(r) \/ Publish(r) PROVE ServedHasHistory'
  BY <1>6, <1>1, <1>2 DEF Ingest, IngestIndex, IngestWrite, IngestAwait, IngestTimeout, IngestLock, IngestActivate,
     IngestRecord, IngestFinish, IngestAbort, Publish, PublishVerify, PublishLock, PublishActivate,
     PublishRecord, PublishFinish, RecordDocument, LockSlot
<1>7. ASSUME NEW r \in Requests, Rollback(r) \/ Delete(r) \/ Cleanup(r) \/ RequestAbort(r)
      PROVE ServedHasHistory'
  BY <1>7, <1>1, <1>3, <1>4, <1>5 DEF Rollback, RollbackVerify, RollbackLock, LockSlot, Delete, DeleteSelect,
     DeleteSweep, DeleteFail, DeleteFinish, Cleanup, CleanupSweep, CleanupReject, RequestAbort
<1>8. ASSUME NEW r \in Requests, NEW g \in Gens, Start(r, g) PROVE ServedHasHistory'
  BY <1>8, <1>1 DEF Start, IngestStart, PublishCheck, RollbackCheck, DeleteCheck, CleanupList
<1>9. CASE UNCHANGED vars
  BY <1>9, <1>1 DEF vars
<1> QED BY <1>6, <1>7, <1>8, <1>9 DEF Next

\* A deletion withdraws only the generation it deletes, whatever activates or
\* rolls back between its SELECT ... FOR UPDATE and its commit
\* (begin_ingestion_deletion).
THEOREM Withdrawal == Spec => WithdrawsOnlyItsOwn
<1> DEFINE Own == active # NoGen /\ active' = NoGen =>
                    job'[active] = "deleting" /\ generation'[active] = "deleted"
<1>1. ASSUME TInv, LockInv, ServedHasHistory, [Next]_vars PROVE [Own]_vars
  <2> USE <1>1, PublicationAssumption DEF TInv, TypeOK, Busy, tables
  <2>1. ASSUME UNCHANGED active PROVE Own
    BY <2>1
  <2>2. ASSUME NEW r \in Requests, gen[r] \in Gens, ActivateGenerationPointer(r) PROVE Own
    BY <2>2 DEF ActivateGenerationPointer
  <2>3. ASSUME NEW r \in Requests, RollbackCommit(r) PROVE Own
    BY <2>3 DEF RollbackCommit
  <2>4. ASSUME NEW r \in Requests, DeleteCommit(r) PROVE Own
    <3>1. CASE seen[r] = gen[r]
      <4>1. active = gen[r]
        BY <2>4, <3>1 DEF DeleteCommit, LockInv
      <4> QED BY <2>4, <3>1, <4>1 DEF DeleteCommit, Tombstone, SetJob, ServedHasHistory
    <3>2. CASE seen[r] # gen[r] BY <2>4, <3>2 DEF DeleteCommit, Tombstone
    <3> QED BY <3>1, <3>2
  <2>5. ASSUME NEW r \in Requests, Ingest(r) \/ Publish(r) PROVE Own
    BY <2>5, <2>1, <2>2 DEF Ingest, IngestIndex, IngestWrite, IngestAwait, IngestTimeout, IngestLock, IngestActivate,
       IngestRecord, IngestFinish, IngestAbort, Publish, PublishVerify, PublishLock, PublishActivate,
       PublishRecord, PublishFinish, RecordDocument, LockSlot
  <2>6. ASSUME NEW r \in Requests, Rollback(r) \/ Delete(r) \/ Cleanup(r) \/ RequestAbort(r)
        PROVE Own
    BY <2>6, <2>1, <2>3, <2>4 DEF Rollback, RollbackVerify, RollbackLock, LockSlot, Delete, DeleteSelect,
       DeleteSweep, DeleteFail, DeleteFinish, Cleanup, CleanupSweep, CleanupReject,
       CleanupMark, RequestAbort
  <2>7. ASSUME NEW r \in Requests, NEW g \in Gens, Start(r, g) PROVE Own
    BY <2>7, <2>1 DEF Start, IngestStart, PublishCheck, RollbackCheck, DeleteCheck, CleanupList
  <2>8. CASE UNCHANGED vars
    BY <2>8, <2>1 DEF vars
  <2> QED BY <2>5, <2>6, <2>7, <2>8 DEF Next
<1>2. Init => ServedHasHistory
  BY DEF Init, ServedHasHistory
<1>3. Spec => [](TInv /\ LockInv /\ ServedHasHistory)
  BY <1>2, TypeInit, TypeNext, LockInit, LockNext, HistoryNext, PTL DEF Spec
<1> QED BY <1>1, <1>3, PTL DEF Spec, WithdrawsOnlyItsOwn
-----------------------------------------------------------------------------
(* Refinement: every step of a request is a step of the slot or a stutter.  *)

\* A step that counts: r moves to a step that holds a ticket for its generation.
LEMMA CountingStep ==
    ASSUME TInv, NEW r \in Requests, gen[r] \in Gens,
           pc' \in [Requests -> Steps], UNCHANGED gen,
           NEW s \in {"ingest_lock", "publish_lock", "rollback_lock"},
           pc' = [pc EXCEPT ![r] = s],
           chunks' \in [Gens -> ChunkStatus], chunks'[gen[r]] = "complete",
           UNCHANGED active
    PROVE  \E g \in Gens : Slot!Verify(r, g)
<1>1. PICK g \in Gens : g = gen[r]
  OBVIOUS
<1>2. Slot!Verify(r, g)
  BY <1>1 DEF TInv, TypeOK, Slot!Verify, Ticket, TicketSteps
<1> QED BY <1>2

\* A step that neither counts nor switches only moves chunks, or gives up.
LEMMA OtherStep ==
    ASSUME TInv, NEW r \in Requests, UNCHANGED active,
           NEW s \in Steps \ TicketSteps,
           pc' = [pc EXCEPT ![r] = s],
           gen' \in [Requests -> Gens \cup {NoGen}],
           \A q \in Requests : q # r => gen'[q] = gen[q],
           Ticket[r] # NoGen => UNCHANGED chunks
    PROVE  Slot!Cancel(r) \/ Slot!IndexChange
<1>1. Ticket' = [Ticket EXCEPT ![r] = NoGen]
  BY DEF TInv, TypeOK, Ticket, TicketSteps
<1>2. CASE Ticket[r] = NoGen
  <2>1. Ticket' = Ticket BY <1>1, <1>2 DEF Ticket
  <2> QED BY <2>1 DEF Slot!IndexChange
<1>3. CASE Ticket[r] # NoGen
  BY <1>1, <1>3 DEF Slot!Cancel
<1> QED BY <1>2, <1>3

\* An activation by r spends the ticket of r.
LEMMA SwitchStep ==
    ASSUME TInv, NEW r \in Requests,
           pc[r] \in SwitchSteps,
           active' = gen[r],
           NEW s \in {"ingest_record", "publish_record", "idle"},
           pc' = [pc EXCEPT ![r] = s],
           gen' \in [Requests -> Gens \cup {NoGen}],
           \A q \in Requests : q # r => gen'[q] = gen[q],
           UNCHANGED chunks
    PROVE  Slot!Switch(r)
<1>1. Ticket' = [Ticket EXCEPT ![r] = NoGen]
  BY DEF TInv, TypeOK, Ticket, TicketSteps
<1>2. Ticket[r] = gen[r] /\ gen[r] # NoGen
  BY PublicationAssumption DEF TInv, TypeOK, Busy, Ticket, TicketSteps, SwitchSteps
<1> QED BY <1>1, <1>2 DEF Slot!Switch

\* Taking the locks of a switch keeps the ticket.
LEMMA LockingStep ==
    ASSUME TInv, NEW r \in Requests, pc[r] \in TicketSteps,
           NEW s \in SwitchSteps, LockSlot(r, s)
    PROVE  Slot!IndexChange
<1>1. Ticket' = Ticket
  BY DEF TInv, TypeOK, Ticket, TicketSteps, SwitchSteps, LockSlot
<1> QED BY <1>1 DEF LockSlot, tables, TInv, TypeOK, Slot!IndexChange

LEMMA SlotStep == TInv /\ [Next]_vars => [Slot!Next]_(Slot!slotVars)
<1> SUFFICES ASSUME TInv, [Next]_vars PROVE [Slot!Next]_(Slot!slotVars)
    OBVIOUS
<1>0. TInv' BY TypeNext
<1> USE <1>0, PublicationAssumption
    DEF TInv, TypeOK, Steps, Busy, Ticket, TicketSteps, SwitchSteps, Goto, Release, Begin,
        Commit, EndTransaction, tables, Slot!Next
<1>1. ASSUME NEW r \in Requests, Ingest(r) PROVE Slot!Next
  <2>1. CASE IngestIndex(r) \/ IngestWrite(r)
    BY <2>1, OtherStep DEF IngestIndex, IngestWrite
  <2>2. CASE IngestAwait(r) /\ gen[r] \notin Reviewed
    <3>1. chunks'[gen[r]] = "complete" /\ gen[r] \in Gens
      BY <2>2 DEF IngestAwait
    <3>2. \E g \in Gens : Slot!Verify(r, g)
      BY <2>2, <3>1, CountingStep DEF IngestAwait
    <3> QED BY <3>1, <3>2
  <2>3. CASE IngestAwait(r) /\ gen[r] \in Reviewed
    BY <2>3, OtherStep DEF IngestAwait
  <2>4. CASE IngestTimeout(r)
    BY <2>4, OtherStep DEF IngestTimeout
  <2>5. CASE IngestActivate(r)
    BY <2>5, SwitchStep DEF IngestActivate, ActivateGenerationPointer
  <2>6. CASE IngestRecord(r)
    BY <2>6, OtherStep DEF IngestRecord, RecordDocument
  <2>7. CASE IngestFinish(r)
    BY <2>7, OtherStep DEF IngestFinish
  <2>8. CASE IngestAbort(r)
    BY <2>8, OtherStep DEF IngestAbort
  <2>9. CASE IngestLock(r)
    BY <2>9, LockingStep DEF IngestLock
  <2> QED BY <1>1, <2>1, <2>2, <2>3, <2>4, <2>5, <2>6, <2>7, <2>8, <2>9 DEF Ingest
<1>2. ASSUME NEW r \in Requests, Publish(r) PROVE Slot!Next
  <2>1. CASE PublishVerify(r)
    <3>1. chunks'[gen[r]] = "complete" /\ gen[r] \in Gens
      BY <2>1 DEF PublishVerify, CountMatches
    <3>2. \E g \in Gens : Slot!Verify(r, g)
      BY <2>1, <3>1, CountingStep DEF PublishVerify
    <3> QED BY <3>1, <3>2
  <2>2. CASE PublishActivate(r)
    BY <2>2, SwitchStep DEF PublishActivate, ActivateGenerationPointer
  <2>3. CASE PublishRecord(r)
    BY <2>3, OtherStep DEF PublishRecord, RecordDocument
  <2>4. CASE PublishFinish(r)
    BY <2>4, OtherStep DEF PublishFinish
  <2>5. CASE PublishLock(r)
    BY <2>5, LockingStep DEF PublishLock
  <2> QED BY <1>2, <2>1, <2>2, <2>3, <2>4, <2>5 DEF Publish
<1>3. ASSUME NEW r \in Requests, Rollback(r) PROVE Slot!Next
  <2>1. CASE RollbackVerify(r)
    <3>1. chunks'[gen[r]] = "complete" /\ gen[r] \in Gens
      BY <2>1 DEF RollbackVerify, CountMatches
    <3>2. \E g \in Gens : Slot!Verify(r, g)
      BY <2>1, <3>1, CountingStep DEF RollbackVerify
    <3> QED BY <3>1, <3>2
  <2>2. CASE RollbackCommit(r) /\ active = NoGen
    BY <2>2, OtherStep DEF RollbackCommit
  <2>3. CASE RollbackCommit(r) /\ active # NoGen
    BY <2>3, SwitchStep DEF RollbackCommit
  <2>4. CASE RollbackLock(r)
    BY <2>4, LockingStep DEF RollbackLock
  <2> QED BY <1>3, <2>1, <2>2, <2>3, <2>4 DEF Rollback
<1>4. ASSUME NEW r \in Requests, Delete(r) PROVE Slot!Next
  <2>1. CASE DeleteSelect(r)
    BY <2>1, OtherStep DEF DeleteSelect, SelectPointer
  <2>2. CASE DeleteCommit(r) /\ seen[r] # gen[r]
    BY <2>2, OtherStep DEF DeleteCommit
  <2>3. CASE DeleteCommit(r) /\ seen[r] = gen[r]
    <3>1. Ticket' = Ticket
      BY <2>3 DEF DeleteCommit
    <3> QED BY <2>3, <3>1 DEF DeleteCommit, Slot!Withdraw
  <2>4. CASE DeleteSweep(r)
    BY <2>4, OtherStep DEF DeleteSweep
  <2>5. CASE DeleteFail(r)
    BY <2>5, OtherStep DEF DeleteFail
  <2>6. CASE DeleteFinish(r)
    BY <2>6, OtherStep DEF DeleteFinish
  <2> QED BY <1>4, <2>1, <2>2, <2>3, <2>4, <2>5, <2>6 DEF Delete
<1>5. ASSUME NEW r \in Requests, Cleanup(r) PROVE Slot!Next
  <2>1. CASE CleanupSweep(r)
    BY <2>1, OtherStep DEF CleanupSweep
  <2>2. CASE CleanupReject(r)
    BY <2>2, OtherStep DEF CleanupReject
  <2>3. CASE CleanupMark(r)
    BY <2>3, OtherStep DEF CleanupMark
  <2> QED BY <1>5, <2>1, <2>2, <2>3 DEF Cleanup
<1>6. ASSUME NEW r \in Requests, RequestAbort(r) PROVE Slot!Next
  BY <1>6, OtherStep DEF RequestAbort
<1>7. ASSUME NEW r \in Requests, NEW g \in Gens, Start(r, g) PROVE Slot!Next
  <2>1. CASE IngestStart(r, g)
    BY <2>1, OtherStep DEF IngestStart
  <2>2. CASE PublishCheck(r, g)
    BY <2>2, OtherStep DEF PublishCheck
  <2>3. CASE RollbackCheck(r, g)
    BY <2>3, OtherStep DEF RollbackCheck
  <2>4. CASE DeleteCheck(r, g)
    BY <2>4, OtherStep DEF DeleteCheck
  <2>5. CASE CleanupList(r, g)
    BY <2>5, OtherStep DEF CleanupList
  <2> QED BY <1>7, <2>1, <2>2, <2>3, <2>4, <2>5 DEF Start
<1>8. CASE UNCHANGED vars
  BY <1>8 DEF vars, request, Slot!slotVars
<1> QED BY <1>1, <1>2, <1>3, <1>4, <1>5, <1>6, <1>7, <1>8 DEF Next

LEMMA SlotInit == Init => Slot!Init
BY DEF Init, Slot!Init, Ticket, TicketSteps

\* Publication implements the slot for every number of generations and of
\* overlapping requests (ImplementsSlot): nothing is ever served that the
\* request which switched to it has not counted complete.
THEOREM Refinement == Spec => ImplementsSlot
<1>1. Spec => []TInv
  BY TypeInit, TypeNext, PTL DEF Spec
<1> QED BY <1>1, SlotInit, SlotStep, PTL DEF Spec, ImplementsSlot, Slot!Spec
-----------------------------------------------------------------------------
(* What is served is complete, live and not deleted.  That needs an order   *)
(* among the requests.  One at a time they may be of every kind; overlapping *)
(* in any number, none may be a deletion (it may begin while the worker is   *)
(* uploading), and what puts a generation back (publish, rollback) must not  *)
(* meet the retention script.  A generation is ingested once.                *)

OneAtATime == \A q, r \in Requests : q = r

Orderly ==
    /\ "reingest" \notin Ops
    /\ \/ OneAtATime
       \/ /\ "delete" \notin Ops
          /\ "cleanup" \notin Ops \/ Ops \cap {"publish", "rollback"} = {}

WriteSteps    == {"ingest_index", "ingest_write", "ingest_await", "ingest_lock",
                  "ingest_activate"}
IngestSteps   == WriteSteps \cup {"ingest_record", "ingest_finish"}
PublishSteps  == {"publish_verify", "publish_lock", "publish_activate", "publish_record",
                  "publish_finish"}
RollbackSteps == {"rollback_verify", "rollback_lock", "rollback_commit"}
DeleteSteps   == {"delete_select", "delete_commit", "delete_sweep", "delete_finish"}
CleanupSteps  == {"cleanup_sweep", "cleanup_mark"}

Ingested == {"indexing", "retryable", "failed_terminal", "ready_for_review", "ready"}
Deletable == {"uploading", "failed_terminal", "ready_for_review", "ready", "deleting", "deleted",
              "deletion_failed"}

\* Only requests of an allowed kind run.
KindsAllowed ==
    \A r \in Requests :
        /\ pc[r] \in PublishSteps => "publish" \in Ops
        /\ pc[r] \in RollbackSteps => "rollback" \in Ops
        /\ pc[r] \in DeleteSteps => "delete" \in Ops
        /\ pc[r] \in CleanupSteps => "cleanup" \in Ops

\* A generation being ingested has one worker and no history before it is active.
Ingesting ==
    /\ \A q, r \in Requests :
          pc[q] \in IngestSteps /\ pc[r] \in IngestSteps /\ gen[q] = gen[r] => q = r
    /\ \A r \in Requests :
          /\ pc[r] \in IngestSteps =>
                job[gen[r]] = IF pc[r] = "ingest_index" THEN "uploading" ELSE "indexing"
          /\ pc[r] \in WriteSteps => generation[gen[r]] = "absent"

\* What was counted complete is still so when the request acts on the count.
Counted ==
    \A r \in Requests :
        pc[r] \in TicketSteps => chunks[gen[r]] = "complete"

\* What is put back has not been deleted.
PuttingBack ==
    \A r \in Requests :
        /\ pc[r] \in PublishSteps => job[gen[r]] \in {"ready_for_review", "ready"}
        /\ pc[r] \in RollbackSteps => generation[gen[r]] \in {"active", "retired"}

\* What is taken away is not served, from the commit of the deletion on.
TakingAway ==
    \A r \in Requests :
        /\ pc[r] \in DeleteSteps => job[gen[r]] \in Deletable
        /\ pc[r] = "delete_commit" /\ seen[r] # gen[r] => active # gen[r]
        /\ pc[r] \in {"delete_sweep", "delete_finish"} =>
              generation[gen[r]] \notin {"active", "retired"}
        /\ pc[r] \in CleanupSteps => generation[gen[r]] \in {"retired", "deleted"}

\* What the history calls active or retired was ingested and is not deleted.
HistoryIsLive ==
    \A g \in Gens :
        /\ generation[g] \in {"active", "retired"} => job[g] \in Ingested
        /\ job[g] = "absent" => generation[g] = "absent"

OInv == KindsAllowed /\ Ingesting /\ Counted /\ PuttingBack /\ TakingAway /\ HistoryIsLive
            /\ ServedIsActive /\ ServedIsComplete

LEMMA OrderlyInit == Init => OInv
BY PublicationAssumption DEF Init, OInv, KindsAllowed, Ingesting, Counted, PuttingBack,
   TakingAway, HistoryIsLive, ServedIsActive, ServedIsComplete, WriteSteps, IngestSteps,
   PublishSteps, RollbackSteps, DeleteSteps, CleanupSteps, TicketSteps

LEMMA OrderlyNext ==
    ASSUME Orderly, TInv, LockInv, OInv, [Next]_vars
    PROVE  OInv'
<1> USE PublicationAssumption DEF TInv, TypeOK, Busy, tables, request, Goto, Release, SetJob,
        OInv, KindsAllowed, Ingesting, Counted, PuttingBack, TakingAway, HistoryIsLive,
        ServedIsActive, ServedIsComplete, WriteSteps, IngestSteps, PublishSteps, RollbackSteps,
        DeleteSteps, CleanupSteps, TicketSteps, Ingested, Deletable, Commit, EndTransaction
<1>1. ASSUME NEW r \in Requests, IngestIndex(r) \/ IngestWrite(r) PROVE OInv'
  <2>1. CASE IngestIndex(r)
    <3>1. KindsAllowed' /\ Counted' /\ PuttingBack'
      BY <2>1 DEF IngestIndex
    <3>2. TakingAway'
      BY <2>1 DEF IngestIndex, Orderly, OneAtATime
    <3>3. Ingesting' /\ HistoryIsLive' /\ ServedIsActive' /\ ServedIsComplete'
      BY <2>1 DEF IngestIndex
    <3> QED BY <3>1, <3>2, <3>3
  <2>2. CASE IngestWrite(r)
    BY <2>2 DEF IngestWrite
  <2> QED BY <1>1, <2>1, <2>2
<1>2. ASSUME NEW r \in Requests, IngestAwait(r) PROVE OInv'
  BY <1>2 DEF IngestAwait
<1>3. ASSUME NEW r \in Requests, IngestTimeout(r) PROVE OInv'
  BY <1>3 DEF IngestTimeout
<1>4. ASSUME NEW r \in Requests, IngestActivate(r) PROVE OInv'
  BY <1>4 DEF IngestActivate, ActivateGenerationPointer, LockInv, SwitchSteps, Orderly, OneAtATime
<1>5. ASSUME NEW r \in Requests, IngestRecord(r) \/ IngestFinish(r) PROVE OInv'
  BY <1>5 DEF IngestRecord, IngestFinish, RecordDocument
<1>6. ASSUME NEW r \in Requests, IngestAbort(r) PROVE OInv'
  <2>1. /\ UNCHANGED <<active, generation, document>>
        /\ pc[r] \in IngestSteps
        /\ pc' = [pc EXCEPT ![r] = "idle"] /\ gen' = [gen EXCEPT ![r] = NoGen]
        /\ \A q \in Requests \ {r} : seen'[q] = seen[q]
        /\ \A g \in Gens : g # gen[r] => chunks'[g] = chunks[g] /\ job'[g] = job[g]
        /\ pc[r] \notin {"ingest_write", "ingest_await"} => UNCHANGED chunks
        /\ job'[gen[r]] \in {job[gen[r]], "retryable", "failed_terminal"}
    BY <1>6 DEF IngestAbort
  <2>2. gen[r] \in Gens /\ job[gen[r]] \in {"uploading", "indexing"}
    BY <2>1
  <2>3. KindsAllowed' /\ ServedIsActive' /\ ServedIsComplete'
    BY <2>1, <2>2
  <2>4. Ingesting' /\ Counted'
    BY <2>1, <2>2
  <2>5. HistoryIsLive'
    BY <2>1, <2>2
  <2>6. PuttingBack'
    BY <2>1, <2>2
  <2>7. TakingAway'
    BY <2>1, <2>2 DEF Orderly, OneAtATime
  <2> QED BY <2>3, <2>4, <2>5, <2>6, <2>7
<1>7. ASSUME NEW r \in Requests, PublishVerify(r) \/ PublishRecord(r) \/ PublishFinish(r) PROVE OInv'
  BY <1>7 DEF PublishVerify, PublishRecord, PublishFinish, RecordDocument, CountMatches
<1>8. ASSUME NEW r \in Requests, PublishActivate(r) PROVE OInv'
  BY <1>8 DEF PublishActivate, ActivateGenerationPointer, LockInv, SwitchSteps, Orderly, OneAtATime
<1>9. ASSUME NEW r \in Requests, RollbackVerify(r) PROVE OInv'
  BY <1>9 DEF RollbackVerify, CountMatches
<1>10. ASSUME NEW r \in Requests, RollbackCommit(r) PROVE OInv'
  BY <1>10 DEF RollbackCommit, LockInv, SwitchSteps, Orderly, OneAtATime
<1>11. ASSUME NEW r \in Requests, DeleteSelect(r) PROVE OInv'
  <2>1. /\ UNCHANGED <<active, generation, document, job, chunks, gen>>
        /\ pc[r] = "delete_select" /\ pc' = [pc EXCEPT ![r] = "delete_commit"]
        /\ \A q \in Requests \ {r} : seen'[q] = seen[q]
        /\ seen' \in [Requests -> Gens \cup {NoGen}]
        /\ seen'[r] # gen[r] => active # gen[r]
    BY <1>11 DEF DeleteSelect, SelectPointer
  <2>2. TakingAway'
    BY <2>1
  <2>3. KindsAllowed' /\ Ingesting' /\ Counted' /\ PuttingBack' /\ HistoryIsLive'
    BY <2>1
  <2> QED BY <2>1, <2>2, <2>3
<1>12. ASSUME NEW r \in Requests, DeleteCommit(r) PROVE OInv'
  BY <1>12 DEF DeleteCommit, Tombstone, Orderly, OneAtATime, LockInv
<1>13. ASSUME NEW r \in Requests, DeleteSweep(r) PROVE OInv'
  BY <1>13 DEF DeleteSweep, Orderly, OneAtATime
<1>14. ASSUME NEW r \in Requests, DeleteFail(r) \/ DeleteFinish(r) PROVE OInv'
  BY <1>14 DEF DeleteFail, DeleteFinish, Orderly, OneAtATime
<1>15. ASSUME NEW r \in Requests, CleanupSweep(r) \/ CleanupReject(r) PROVE OInv'
  BY <1>15 DEF CleanupSweep, CleanupReject, Orderly, OneAtATime
<1>16. ASSUME NEW r \in Requests, CleanupMark(r) PROVE OInv'
  BY <1>16 DEF CleanupMark, Orderly, OneAtATime
<1>17. ASSUME NEW r \in Requests, RequestAbort(r) PROVE OInv'
  BY <1>17 DEF RequestAbort, Orderly, OneAtATime
<1>18. ASSUME NEW r \in Requests, NEW g \in Gens, IngestStart(r, g) PROVE OInv'
  BY <1>18 DEF IngestStart, Begin, Orderly
<1>19. ASSUME NEW r \in Requests, NEW g \in Gens, PublishCheck(r, g) \/ RollbackCheck(r, g) PROVE OInv'
  BY <1>19 DEF PublishCheck, RollbackCheck, Begin
<1>20. ASSUME NEW r \in Requests, NEW g \in Gens, DeleteCheck(r, g) \/ CleanupList(r, g) PROVE OInv'
  BY <1>20 DEF DeleteCheck, CleanupList, Begin, JobStatus
<1>21. ASSUME NEW r \in Requests, IngestLock(r) \/ PublishLock(r) \/ RollbackLock(r) PROVE OInv'
  BY <1>21 DEF IngestLock, PublishLock, RollbackLock, LockSlot, SelectPointer
<1>22. CASE UNCHANGED vars
  BY <1>22 DEF vars
<1> QED BY <1>1, <1>2, <1>3, <1>4, <1>5, <1>6, <1>7, <1>8, <1>9, <1>10, <1>11, <1>12, <1>13,
       <1>14, <1>15, <1>16, <1>17, <1>18, <1>19, <1>20, <1>21, <1>22
       DEF Next, Ingest, Publish, Rollback, Delete, Cleanup, Start

LEMMA OrderlyInvariant ==
    ASSUME Orderly
    PROVE  Spec => []OInv
<1>1. TInv /\ LockInv /\ OInv /\ [Next]_vars => TInv' /\ LockInv' /\ OInv'
  BY TypeNext, LockNext, OrderlyNext
<1> QED BY <1>1, TypeInit, LockInit, OrderlyInit, PTL DEF Spec

\* Nothing incomplete is served: by requests one at a time that die anywhere,
\* nor by any number of overlapping ingestions, publications and rollbacks, or
\* ingestions and cleanups (_await_generation, the counts of
\* publish_ingestion_job and rollback_document_generation).
THEOREM ServedIsCompleteHolds ==
    ASSUME Orderly
    PROVE  Spec => []ServedIsComplete
<1>1. OInv => ServedIsComplete
  BY DEF OInv
<1> QED BY <1>1, OrderlyInvariant, PTL

\* In the same order of requests the history calls the served generation active
\* (_activate_generation_pointer writes both in one transaction).
THEOREM ServedIsActiveHolds ==
    ASSUME Orderly
    PROVE  Spec => []ServedIsActive
<1>1. OInv => ServedIsActive
  BY DEF OInv
<1> QED BY <1>1, OrderlyInvariant, PTL

\* In the same order of requests nothing is served whose deletion has begun,
\* wherever the deletion died or was repeated (begin_ingestion_deletion).
THEOREM DeletedIsNotServedHolds ==
    ASSUME Orderly
    PROVE  Spec => []DeletedIsNotServed
<1>1. TInv /\ OInv => DeletedIsNotServed
  BY DEF TInv, TypeOK, OInv, ServedIsActive, HistoryIsLive, Ingested, DeletedIsNotServed
<1>2. Spec => []TInv
  BY TypeInit, TypeNext, PTL DEF Spec
<1> QED BY <1>1, <1>2, OrderlyInvariant, PTL
-----------------------------------------------------------------------------
(* The registry row is written after the activation, outside of its         *)
(* transaction: what it says is true if no other request comes between.      *)

Recording ==
    \A r \in Requests : pc[r] \in {"ingest_record", "publish_record"} => active = gen[r]

RegistryInv == RegistryShowsOnlyServed /\ Recording

LEMMA RegistryNext ==
    ASSUME OneAtATime, TInv, RegistryInv, [Next]_vars
    PROVE  RegistryInv'
<1> USE PublicationAssumption DEF TInv, TypeOK, Busy, tables, request, Goto, Release, SetJob, Begin,
        Commit, EndTransaction, LockSlot, RegistryInv, RegistryShowsOnlyServed, Recording, OneAtATime
<1>1. ASSUME NEW r \in Requests, IngestActivate(r) \/ PublishActivate(r) PROVE RegistryInv'
  BY <1>1 DEF IngestActivate, PublishActivate, ActivateGenerationPointer
<1>2. ASSUME NEW r \in Requests, IngestRecord(r) \/ PublishRecord(r) PROVE RegistryInv'
  BY <1>2 DEF IngestRecord, PublishRecord, RecordDocument
<1>3. ASSUME NEW r \in Requests,
             IngestIndex(r) \/ IngestWrite(r) \/ IngestAwait(r) \/ IngestTimeout(r)
             \/ IngestLock(r) \/ IngestFinish(r) \/ IngestAbort(r)
      PROVE  RegistryInv'
  BY <1>3 DEF IngestIndex, IngestWrite, IngestAwait, IngestTimeout, IngestLock, IngestFinish,
     IngestAbort
<1>4. ASSUME NEW r \in Requests,
             PublishVerify(r) \/ PublishLock(r) \/ PublishFinish(r) \/ RollbackVerify(r)
             \/ RollbackLock(r)
      PROVE  RegistryInv'
  BY <1>4 DEF PublishVerify, PublishLock, PublishFinish, RollbackVerify, RollbackLock
<1>5. ASSUME NEW r \in Requests, RollbackCommit(r) PROVE RegistryInv'
  BY <1>5 DEF RollbackCommit
<1>6. ASSUME NEW r \in Requests, DeleteCommit(r) PROVE RegistryInv'
  BY <1>6 DEF DeleteCommit, Tombstone
<1>7. ASSUME NEW r \in Requests,
             DeleteSelect(r) \/ DeleteSweep(r) \/ DeleteFail(r) \/ DeleteFinish(r) \/ Cleanup(r)
             \/ RequestAbort(r)
      PROVE  RegistryInv'
  BY <1>7 DEF DeleteSelect, DeleteSweep, DeleteFail, DeleteFinish, Cleanup, CleanupSweep,
     CleanupReject, CleanupMark, RequestAbort
<1>8. ASSUME NEW r \in Requests, NEW g \in Gens, Start(r, g) PROVE RegistryInv'
  BY <1>8 DEF Start, IngestStart, PublishCheck, RollbackCheck, DeleteCheck, CleanupList
<1>9. CASE UNCHANGED vars
  BY <1>9 DEF vars
<1> QED BY <1>1, <1>2, <1>3, <1>4, <1>5, <1>6, <1>7, <1>8, <1>9
       DEF Next, Ingest, Publish, Rollback, Delete, Start

\* Requests that do not overlap leave no superseded version as active in the
\* registry, repeated ingestions and deaths included (_record_document,
\* _activate_generation_pointer).
THEOREM RegistryShowsOnlyServedHolds ==
    ASSUME OneAtATime
    PROVE  Spec => []RegistryShowsOnlyServed
<1>1. Init => RegistryInv
  BY PublicationAssumption DEF Init, RegistryInv, RegistryShowsOnlyServed, Recording
<1>2. TInv /\ RegistryInv /\ [Next]_vars => TInv' /\ RegistryInv'
  BY TypeNext, RegistryNext
<1>3. RegistryInv => RegistryShowsOnlyServed
  BY DEF RegistryInv
<1> QED BY <1>1, <1>2, <1>3, TypeInit, PTL DEF Spec
=============================================================================
