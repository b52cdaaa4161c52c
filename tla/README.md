# ASK Vera: TLA+ models, model checking and proofs

ASK Vera answers distributors' questions from policy documents. This directory
holds TLA+ models of the parts of it where several processes, transactions,
queues and clocks meet, the TLC runs that check them on small instances, and
proofs, checked by the TLA+ proof system, of the results that matter most.

Every definition is translated from the code under `src/`; `PROJECT.json` maps
each one to the lines it stands for, lists the runs, the hazards of the code with
the properties that guard against them, and, for each property of a passing run, a mutation of the
model that the property catches.

To repeat a check: `tlc -config <name>.cfg <Module>` for a run of `PROJECT.json`,
`tlapm <Module>Proofs.tla` for the proofs.

## 1. Inventory of the system

| Component | Where | State | Operations | What is hard about it |
|---|---|---|---|---|
| Generation publication | `services/knowledge_ingestion.py` (`_activate_generation_pointer`, `publish_ingestion_job`, `rollback_document_generation`, `begin_/finish_ingestion_deletion`), `scripts/cleanup_knowledge_artifacts.py` | pointer row, history table, registry, job status, chunks in the index | ingest, publish, roll back, delete, clean up | several transactions per request, overlap of requests, death between two transactions, what was read goes stale |
| Chunk visibility | same file (`_write_generation`, `_await_generation`, `_delete_generation_chunks`) | what the vector index holds and what it shows | write, count, sweep | the index shows changes up to a minute later; bulk calls fail in part |
| Ingestion jobs and the worker | same file (`claim_ingestion_job`, `process_ingestion_job`, `release_ingestion_claim`), `scripts/run_ingestion_worker.py`, `scripts/reconcile_ingestion_dlq.py`, the SQS queue | job row with lease and attempts, command with visibility and receive count | enqueue, receive, claim, process, release, acknowledge, delete, reconcile | redelivery, crash, expiring lease, races with the portal, swallowed errors |
| Audit pipeline | `app/audit/` | queue, batch, records in flight | publish, work, timed flush, retry, stop | coroutines interleave at every sleep; overload; shutdown |
| Active-generation cache | `services/knowledge_generations.py` | 15 s cache of the pointer rows per process | look up, clear | other processes keep serving what was withdrawn |
| Chat sessions | `services/session.py`, `services/session_service.py` | session row with history, expiry and end | register, resume, touch, append, close, clean up | check and update in separate transactions |
| Widget tokens | `app/widget_auth/`, `services/security_state.py` | tokens, revocations in Valkey with a local fallback | initialise, refresh, resume, revoke | check-then-revoke, fallback store diverges from the shared one |
| Widget configuration | `services/widget_configs.py`, `app/widget_registry/` | configuration row with draft, keys, status | create, update, stage, publish, rotate, disable | read outside the transaction that writes |
| Administrators | `services/admin_users.py` | database row and Cognito user | create, update, enable, disable, resend | two stores, compensation, "one super admin must remain" |
| Metrics batching | `app/metrics/providers/cloudwatch_provider.py` | pending list | queue, flush | threads; lost batches |
| Trace store | `app/operations/trace_store.py` | bounded ordered map | start, record, finish | eviction while a request is in progress |
| Answer caches | `services/cache.py`, `services/semantic_cache.py`, `services/answer_cache_admin.py` | exact and semantic entries | look up, store, reset | an answer outlives its evidence; reset races a store |
| Chat orchestration | `app/orchestrator/chat_orchestrator.py` | one request's state | answer a question | many early exits |
| Validation, risk, retrieval ranking, response building | `app/validation`, `app/risk`, `app/retrieval`, `app/response` | none between requests | pure functions of text | language data |
| Monitoring, configuration, governance, prompts | `app/monitoring`, `config`, `app/governance`, `app/prompts` | none after start-up | set-up | - |
| Front ends | `admin-portal`, `widget-wrapper` | browser state | user interface | - |

How they interact. The admin portal's routes (`api/admin_routes.py`) create a job
row and send a command to SQS. The worker receives the command, claims the row,
extracts the document, writes its sections to the index as chunks carrying the
job's ingestion id, waits until the index shows exactly them, and either switches
the pointer row of the logical document or leaves the job for review. Publish and
roll back switch the same row from the portal; a deletion removes it and sweeps
the chunks in the background; the retention script sweeps retired generations.
Retrieval reads the pointer rows through a cache and filters the index by the
generations they name. Chat requests go through widget authentication, the session
tables, the caches, retrieval and the orchestrator, and publish audit events and
metrics on the way.

What makes each of them correct, in a sentence: only a generation counted complete
is ever served, and nothing deleted is (publication); a wait that returns has told
the truth about the index (chunks); a job is processed by one worker at a time,
is never forgotten and never undone (jobs); an event is delivered or its loss is
logged (audit); a withdrawn generation stops being served within the cache's age
(cache); a closed conversation stays closed (sessions); a token is good for one
refresh (tokens); what an administrator saved is published or still there
(configuration); one super administrator remains (administrators).

## 2. Modules

| Module | Models | Role |
|---|---|---|
| `PublicationSlot` | the promise of publication to retrieval | abstract specification |
| `GenerationPublication` | pointer, history, registry, jobs, chunks of one logical document and the requests that move them | detailed specification; implements `PublicationSlot` |
| `ChunkVisibility` | the index with its refresh, write attempts, the wait after a write, the sweep | detailed specification with a clock |
| `IngestionJob` | one job, its command, workers, portal, deletion, reconciliation | detailed specification with a clock |
| `AuditPipeline` | queue, batch, flushers, shutdown | detailed specification |
| `ChatTurn` | chat requests in several API processes, the pointer rows each caches, the two answer caches | detailed specification with a clock |
| `WidgetSession` | one session row, its token pairs, the store of revoked tokens | detailed specification with a clock |
| `WidgetConfig` | one widget's row, the portal's requests, the registration caches | detailed specification, lives instead of a clock |
| `AdminLifecycle` | administrators' rows and logins, the advisory lock | detailed specification |
| `MetricsBatch` | the pending list, threads, the end of the process | detailed specification |
| `MC...` | symmetry and placement for TLC | instances; the `.cfg` files give the constants |
| `...Proofs` | theorems about the detailed specifications, each module extending the one it is about; `ProcessBufferProofs` covers `AuditPipeline` and `MetricsBatch` | proofs |

### 2.1 GenerationPublication

One logical document with generations `Gens`. `active` is the pointer row
(`NoGen`: no row), `generation` and `document` the status columns of the history
and registry tables, `job` that of `ingestion_jobs`, `chunks` what the index
holds of a generation: nothing, exactly its sections, or something else. A
request occupies a slot of `Requests` and moves through the steps of its handler,
one per transaction or index call, so the number of slots bounds how many
requests overlap. `RequestAbort` is the death of a request, or an error, between
any two steps; an open transaction is rolled back with it. The module presumes
`ADMIN_INGESTION_GENERATION_POINTER_ENABLED`, as the hardened profile requires and
`ChatTurn` presumes too: without the
pointer nothing is switched.

| Code | Actions |
|---|---|
| `process_ingestion_job` (publication part) | `IngestStart`, `IngestIndex`, `IngestWrite`, `IngestAwait`, `IngestTimeout`, `IngestLock`, `IngestActivate`, `IngestRecord`, `IngestFinish`, `IngestAbort` |
| `publish_ingestion_job` | `PublishCheck`, `PublishVerify`, `PublishLock`, `PublishActivate`, `PublishRecord`, `PublishFinish` |
| `rollback_document_generation` | `RollbackCheck`, `RollbackVerify`, `RollbackLock`, `RollbackCommit` |
| `begin_ingestion_deletion`, `finish_ingestion_deletion` | `DeleteCheck`, `DeleteSelect`, `DeleteCommit`, `DeleteSweep`, `DeleteFail`, `DeleteFinish` |
| `cleanup_knowledge_artifacts.apply_cleanup` | `CleanupList`, `CleanupSweep`, `CleanupReject`, `CleanupMark` |

A transaction that reads before it writes is two steps. An activation and a rollback
take the document's advisory lock (`advisory`) and read the pointer row `FOR UPDATE`
(`rowLock`), then write and commit, which frees both; a missing row locks nothing,
so before the first activation only the advisory lock serialises (`LockSlot`). The
deletion reads `FOR UPDATE` and takes no advisory lock.

A job is `uploading` before it is `indexing`, and a deletion may begin while it is:
the check of `begin_ingestion_deletion` does not list it. A later attempt
(`"reingest"`) starts from the status the last one left, never beside another one
(what `OneProcessor` of `IngestionJob` promises), and a write over the chunks of an
earlier attempt leaves the generation other than complete until the wait after it
has removed the strays. A deletion that dies or fails in its sweep leaves some of
the chunks, with the job still `deleting` or `deletion_failed`.

### 2.2 PublicationSlot

Retrieval sees `served`. A request may switch it only with a `ticket`, which it
gets by counting the generation complete itself, and which is good for one switch.
`GenerationPublication!Slot` maps `served` to the pointer, `complete` to the
generations whose chunks are complete and a ticket to a request between its count
and its switch. The property deliberately does not say that the generation is
still complete when it is switched to: that holds only for requests one at a time
(`ServedIsComplete`), and a rollback that meets the retention script shows why
(section 6).

### 2.3 ChunkVisibility

`stored` is what the index holds, `visible` what a search or a count sees;
`RefreshIndex` copies one to the other at the latest every `Refresh` ticks. A
write attempt has chunk ids of its own and may be abandoned anywhere. A bulk
write whose answer is lost may have been accepted, a bulk delete may be rejected
in part; `refused` remembers that one was. A sweep may also follow a death: the worker that
gets the command again, `Redelivery` ticks later at the earliest, gives up a job
whose attempts are exhausted, and then it can be deleted. Each poll of the two loops has its
steps (search, count, clock), because the view may change between them. The clock
is bounded by `Horizon`.

### 2.4 IngestionJob

The row (`status`, `attempts`, `lease`, `owner`), the command (`message`, `hidden`,
`receives`), the workers' program counters, the portal's and the deletion's. A tick
is the interval of the worker's visibility heartbeat. Both the lease and the
visibility timeout come from `ADMIN_INGESTION_WORKER_VISIBILITY_SECONDS`, so both
are `Visibility` ticks; the heartbeat extends the second and nothing extends the
first. `Source` selects the portal upload or the approved S3 object, whose handlers
differ in who creates the row and in what they do with a failure. `Faults` names
what may go wrong in a run: crashes, a dying portal or a `send_message` that
raises, a portal slower than the worker, failing extensions of the visibility,
failing status updates. The portal writes `queued` after it has sent the command;
in the runs it is through before a worker receives that command, and the fault
`"late"` lets the worker be quicker (section 6). The reconciliation commits its UPDATE before it removes the
command (`ReconcileMark`, `ReconcileRemove`) and may die between the two.

### 2.5 AuditPipeline

Everything runs on one event loop and `put_record_batch` blocks it, so coroutines
interleave only in the sleep between two attempts of `_put_record_batch_with_retries`:
an action is what runs between two sleeps. `sending[f]` is the local variable
`records_to_send` of flusher `f` while it sleeps: the worker after a full batch,
the timer, and the shutdown.

### 2.6 ChatTurn

The composition of the chat path: `_handle_chat` and `_handle_scrubbed_chat` as
one program counter per request, `_active_generation_rows` with its lock, its
cache per process and its query, `restore_evidence`, the exact and the semantic
cache, and the environment that switches or withdraws the generation
(`PublicationSlot` seen from its reader). What rules, validators and models say of
a text is a choice; the control around it is not.

| Code | Actions |
|---|---|
| `_handle_chat`, early exits, input governance | `Receive` |
| `_cached_response`, `_cached_response_value`, `restore_evidence` | `ReadExact`, `Restore` |
| `_active_generation_rows` | `CachedRows`, `QueryRows`, `LoadRows` (`Restore` for a fresh read) |
| `_route_or_approve_evidence`, `_semantic_cached_response` | `ReadSemantic` |
| `model_router.generate` to `_cache_response` | `Generate` |
| `append_session_turn` | `AppendTurn` |
| a publication or a rollback; a deletion of the live generation; `clear_active_generation_cache` after each | `Activate`, `Withdraw`, `ClearRows` |

The module presumes `ADMIN_INGESTION_GENERATION_POINTER_ENABLED`; without it
retrieval does not ask for the rows. The cached rows are those of all documents:
with `Others` there are some beside this one's, and a list that lacks only this
document is as good for 15 s as any; without, the list is empty, which is never
cached. So a publication may stay unseen for as long as a withdrawal stays served;
the properties speak of what is served.

One retrieval looks the pointer up several times (`Looks`), so a fresh answer may
rest on two generations when a switch falls between: the code does not prevent it,
and `CachedIsOfOneGeneration` shows that such an answer is never served again. A
narrowing response is returned unvalidated from one place and validated from
another; both are texts of the code itself, and the toggle that makes the
difference is off here. An expired or reset entry and an unreachable Valkey are a
miss, which `ReadExact` and `ReadSemantic` may choose at any time.

### 2.7 WidgetSession

One row of `chat_sessions` (`row`), the token pairs issued for it (`issued`: a pair
is its issue time and what it came from), and until when the shared store knows an
access token as revoked or a resume token as consumed. Each request runs the
transactions and store calls of its handler one by one and may fail at each.

| Code | Actions |
|---|---|
| `WidgetAuthMiddleware`, `decode_widget_token`, `decode_widget_resume_token` | `Receive` |
| `initialize` with a resume token | `CanResume`, `Consume`, `Register`, `Issue` |
| `refresh` | `Revoke`, `Issue` |
| `chat` | `Touch`, `Extend`, `CheckConsent`, `AppendTurn` |
| `consent`, `end_session`, the retention job | `Record`, `Close`, `Cleanup` |

The new expiry that `Extend` writes was computed before the SELECT of `Touch`, so a
slow chat may set the session's expiry back behind a quicker one's.

What the model shows and no property forbids: a revoked access token passes again
between its expiry and the end of the clock skew, because the store forgets it when
it expires; with it the resume token of its pair, whose parent's key lives no
longer. A chain of refreshes never looks at the session row. A consent given after
the cleanup makes a new row that is bound to no widget. Two overlapping refreshes
with one token both succeed.

### 2.8 WidgetConfig

The row of one widget (`config`, with the state of one of its public keys) and the
registration of that key as each process caches it. Instead of a clock there is
what is left of an entry's life and, per possible registration, how many ticks ago
it was last the true one (`age`). Requests of the portal read, write, clear the
draft and invalidate in separate steps and may stop after any.

### 2.9 AdminLifecycle

Rows and logins of a few people. A transaction under the advisory lock is two
steps, what it reads and what it writes; Cognito is called between transactions.
`Admission` says how a request may be admitted: by the role of a row (`Sync`,
`SyncRow`, `Admit`), with the API key, and where `ADMIN_RBAC_ENABLED` is off with any
access token (`AdmitUnread`); the last two read no row. With the API key the first row may be
somebody else's than the bootstrap administrator's and have another role, so that
there is a super administrator from the first row on holds for roles only
(`SuperAdminFirst`, proved, in no run). `unsure` names the administrators whose last enabling or disabling stopped half
way, where nothing is promised. A request's authority is what its sign-in read:
somebody demoted meanwhile finishes the request. An enabling that overlaps a
disabling can leave the row active and the login disabled; the documents
(`docs/ASKVERA_OPTIONAL_ENHANCEMENTS_ROLLOUT.md:105`) promise the other direction only, which is
`BlockedInBoth`. A commit that succeeds and is reported as failed would let the
compensation delete the login of a saved row; the driver's lost answer is not
modelled.

### 2.10 MetricsBatch

The lock of the provider makes `Queue` and `Take` one action each; `Send` is one
call outside of it. The comment in `_queue_metric` says that the age check bounds
the wait of a metric; it does when another metric comes, which is what
`LateOnlyWhenQuiet` says, and a quiet process holds a partial batch until it ends.

## 3. Runs

Each run finishes within two minutes on two cores. Deadlock is checked in
`admin_lifecycle` only: everywhere else the bounded number of generations,
attempts, events, requests or ticks brings the model to a legitimate end
(`CHECK_DEADLOCK FALSE`).

| Run | Instance | Shows |
|---|---|---|
| `publication_overlapping` | 2 generations, 2 request slots, every operation | `TypeOK`; `ImplementsSlot`, the refinement of `PublicationSlot`; `WithdrawsOnlyItsOwn` |
| `publication_switching` | 3 generations, 3 request slots, ingest, publish and roll back | `HistoryAgreesWithPointer` under overlapping switches, which only the advisory lock keeps apart |
| `publication_sequential` | 3 generations, 1 request slot, every operation but a second ingestion | requests one at a time, each dying anywhere: what is served is complete, active, not deleted and the only active registry row |
| `chunks_faults` | 2 write attempts of 2 chunks, any number of sweeps, every fault, deaths noticed after 3 ticks | `AwaitedIsExact` and `SweptIsEmpty`: the waits tell the truth; `WaitsFitTheTimeout`: they give up only after a refused request |
| `job_portal` | a reviewed upload, 2 workers, 5 attempts, 5 receives, deaths anywhere, deletions, reconciliation, fair | `NoOrphanJob`, `OneProcessor`, `EventuallySettled` |
| `job_s3_event` | a job made from an S3 object, 2 workers, 3 attempts, 5 receives, crashes and swallowed database errors, fair | `CompletedStays`, `CommandLeavesQueue` |
| `audit_pipeline` | 5 events, a queue of 2, a batch of 2, 3 attempts, a shutdown that begins anywhere, fair | `HeldOnce`, `ConfirmedIsDone`, `NoSilentLoss`, `StoppedIsDrained`, `EventuallyHandled` |
| `chat_turn` | 2 requests for one question, 2 processes, 2 generations of the document and other documents, one switch, rows that live 2 of 4 ticks, 2 look-ups per retrieval | `OnlyCheckedIsDelivered`, `CachedEvidenceWasLive`, `EvidenceAge`, `CachedIsOfOneGeneration`, `SwitcherSeesItsSwitch` |
| `widget_session` | 3 requests of any kind, 3 token pairs, 7 ticks: tokens, keys, session and transcript all expire | `ResumeOnce`, `RetiredBeforeIssued`, `AcceptedIsCurrent`, `ClosedIsLeftAlone` |
| `widget_config` | 2 reading threads and a request in one process, a request in another, 2 contents | `CachedIsRecent`, `DisabledIsFinal` |
| `admin_lifecycle` | 3 people, 2 requests without end, admitted by role or with the API key, from the bootstrap on | `SuperAdminRemains`, `BlockedInBoth`, `RowHasLogin`, `DisabledIsNotRevived`; no deadlock |
| `metrics_batch` | 3 threads, 6 metrics, batches of 3, 3 ticks, the end of the process anywhere, fair | `MetricsTypeOK`, `InOnePlace`, `LateOnlyWhenQuiet`, `ShutdownLeavesNothing` |

Bounds. Two generations are enough to have one superseded and one live, three to
have a rollback among retained ones; two request slots give every race between two
handlers, three are used where the property is about the serialisation itself. Two
workers give every race for a lease. Five attempts and five receives are the
configured values; there the receive count ends the circulation of a command, as
every attempt costs a receive, so `job_s3_event` has fewer attempts than receives
and lets `ClaimGivesUp` end it as well. The visibility of three ticks lets a worker
outlive its lease and a second one arrive. In the chunk run a tick is about 30 s:
the refresh of 60 s and the timeout of 180 s are 2 and 6 ticks, the gap of 65 s is
rounded up to 3, as it has to be longer than the refresh, and the poll interval of
5 s to 1, the shortest there is. A command stays hidden for the
rest of 900 s after a death; `Redelivery` is 3 ticks, the least that is longer than a
refresh, and with 2 TLC finds a sweep that gives up. `Horizon` is 14 ticks, enough for two
waits that run into their timeout. In the audit run the queue holds two of five
events and a batch two, so that the queue overflows while one batch is being
retried and another one collected.

In `chat_turn` two requests are one that fills a cache or the rows and one that uses
them, in the same process or in the other; a second switch adds nothing to the
properties, which speak of one answer's evidence (two were tried, without a
counterexample, and take longer than a run should). Without other documents
(`Others = FALSE`) the same run finds no counterexample either. In `widget_session` a session
may be touched for three ticks and a token accepted for one more than it lives, so
that every order of the expiries occurs; a request may take one tick, as the
timeouts of its calls bound it well below the life of a token. Three pairs are a
first one and two successors. In `widget_config` the grace of a rotated key is
shorter than an entry's life, the order in which it matters. Three people are two
who act and one acted upon; admission by any access token, an installation without
roles, was tried the same way without a counterexample; the requests return to `idle` and go on for ever. Six
metrics are two full batches, so that one thread can find two batches pending.

Fairness. The safety runs assume none. `IngestionJob!FairSpec`: the clock and the
queue's redrive go on, some worker polls (systemd restarts the service), a started
worker continues (blocking calls have timeouts), a portal request that has sent
the command proceeds or dies. Nothing is assumed of uploads, deletions or the
operator. `AuditPipeline!FairSpec`: the event loop runs ready coroutines and
sleeps end; a shutdown that has begun goes on, none has to begin.
`MetricsBatch!MetricsFairness`: a thread that has begun to flush goes on; nothing is
assumed of the end of the process.

## 4. Proofs

TLC checks an instance; the theorems hold for all values of the constants that
satisfy the named assumption of the module.

* `GenerationPublicationProofs`. `TypeCorrect`: by induction with `TypeOK` and the
  fact that only a busy slot has a generation (`TInv`). `HistoryAgrees`: without
  deletions and cleanups, a generation is active in the history exactly if the
  pointer names it, however many switches overlap: who is between the SELECT and the
  commit of a switch holds the advisory lock, and what it has read is still true
  (`LockInv`); nothing is ever deleted (`SInv`). `Withdrawal`: the same of a deletion
  that holds the row lock, and what is served has a history
  row (`ServedHasHistory`). `Refinement`: every step of the detailed specification
  is a step of `PublicationSlot` or leaves its variables alone, handler by handler,
  with lemmas for a step that gains, uses or drops a ticket.
  `ServedIsCompleteHolds`, `ServedIsActiveHolds`, `DeletedIsNotServedHolds`: under
  `Orderly`, that is, each generation is ingested once, and either requests of any
  kind come one at a time, or they overlap in any number, without deletions and with
  the retention script only where nothing is published or rolled back; the single
  slot of `publication_sequential` is one case. The invariant (`OInv`)
  says that what was counted complete is still so when the request acts on it
  (`Counted`), that what is put back has not been deleted (`PuttingBack`) and that
  what is taken away is not served once the deletion has committed (`TakingAway`).
  The conditions are needed: one slot with `reingest` violates `ServedIsComplete`, two
  slots with `ingest` and `delete` all three, with `ingest`, `rollback` and `cleanup`
  `ServedIsComplete` (TLC; section 6). `RegistryShowsOnlyServedHolds` needs one request at a time
  (`OneAtATime`), since the registry is written after the switch.
* `ChunkVisibilityProofs`. `AwaitExact`: the invariant says that a search result
  is a snapshot of the view and that what is stored but not of this attempt has
  been visible, and so has been deleted, or belongs to an attempt whose ids cannot
  be in the count (`Known`, `Caught`). `SweepComplete` needs
  `Refresh + Latency < Gap`: between the two zero polls the index has refreshed at
  least once after everything the first one saw (`Clock`, `Swept`). `WaitsFit` needs
  `EnoughTime`: besides that, a refresh, the gap, one pause and three polls fit
  into the timeout, and a death is noticed only after a refresh. With 60 s, 65 s, 5 s and at least 150 s both hold while a poll takes
  less than 5 s. Its invariant bounds, for each step of a poll, when it began by the
  start of the wait: the exact count needs two refreshes (`AwaitInTime`), the sweep one
  refresh and the gap (`SweepInTime`). The bound is exact: the instance of the run
  meets it with equality, and with a `Timeout` one tick shorter TLC finds a wait
  that gives up.
* `IngestionJobProofs`. `SingleProcessor`: whoever is past `Receive` holds a hidden
  command, and no command is received while hidden (`Exclusive`); the lease plays
  no part, which is why the theorem survives its expiry and why it needs the
  assumption that heartbeats succeed. `NoJobIsOrphaned`: ties the status of the row
  to where the command is and what the worker does (`Paired`). `CompletionIsFinal`:
  a completed row has no worker in it (`Quiet`), however often its command is
  redelivered, whichever updates the database swallows and wherever somebody dies.
  It assumes that heartbeats succeed (`HeartbeatsSucceed`), that the portal has
  written its last status before a worker receives the command (`PortalIsPrompt`),
  that nobody deletes the document (`NobodyDeletes`) and that no reviewed upload is
  reconciled (`OnlyDirectReconciled`). The code guarantees none of the four, and
  none can be dropped (section 6).
  `JobTypeCorrect` allows every fault.
* `ProcessBufferProofs`: the two buffers inside a process.
  `AuditPipeline`: all four safety properties from one invariant (`AInv`)
  that speaks of one event: where it can be (`Somewhere`), that it was published if
  it is anywhere (`Known`), that what is in memory is not settled (`Apart`) and that
  nothing published is missing before the sinks stop (`Complete`), with the
  flushers that still hold something in each phase of the shutdown (`Phases`).
  Every flush, first attempt or retry, of the worker, the timer or the shutdown,
  is an instance of one lemma (`FlushPreserves`).
  `MetricsBatch`: `MetricsTypeCorrect`, `MetricsInOnePlace`
  and `MetricsLateOnlyWhenQuiet` from one invariant (`BInv`). What is pending is what was
  queued last, in order (`InOrder`); everything older is sent, lost, or in exactly one
  batch of one thread (`Accounted`). The step that needs work is `Take`: the slices
  `pending[start : start + batch size]` are a partition of the list with no slice
  empty or too long (`BatchesPartition`, from a lemma on division,
  `OneBatchEach`, which says of each position in which slice it is). The age check is
  `Recent`: unless somebody is about to flush, the last pending metric came less than
  an interval after the last flush.
* `ChatTurnProofs`. The five properties of the run. The invariant (`IInv`) says of
  the cached rows that their generation was live when they were asked for
  (`RowsInv`), of the caches that they hold grounded answers with evidence
  (`CacheInv`), and of a request, step by step, since when its evidence has been
  live and whether its text is checked (`RequestInv`). The heart is that "now" is
  taken before the lock and the query (`LiveStays`, `RowsChange`).
  `SwitcherSeesItsSwitchHolds` has an invariant of its own about the process that
  switched: who holds its lock while it is not dirty has read the new pointer.
* `WidgetSessionProofs`. `RetiredBeforeIssuedHolds` and `AcceptedIsCurrentHolds`
  from `Retired`: whatever a refresh issued, or is about to issue, succeeds an
  access token whose key lives until it expires, and keys are never shortened.
  `ClosedIsLeftAloneHolds` from `Answering`: a chat past its check of the row was
  received before the row was closed. `ResumeOnceHolds`: a token that has been
  resumed with is remembered until it expires (`Remembered`), and when a late second
  request comes while the clock skew would still let the token pass, the session is
  too old, because its row is still the first one, made no later than the token
  (`FirstRow`). The latter needs `2 * Slowest <= Retention`: the cleanup would otherwise
  remove the row under a request that has checked it, after a slow chat has set its
  expiry back. The code's values are
  a request of some seconds and 90 days.
* `WidgetConfigProofs`. `CachedIsRecentHolds`: what a reader holds, as well as what
  is cached, is at most as old as the ticks since its "now", with the age of the true
  registration 0; it survives every missed or adopted version, which is why the
  invalidation plays no part in the proof. `DisabledIsFinalHolds` is about one step.
* `AdminLifecycleProofs`. `SuperAdminRemainsHolds`, for every kind of admission: what a
  transaction read under the lock is still so when it writes (`IInv`), since what writes without the lock
  only activates rows, and a row being changed is locked. `SuperAdminFirstHolds`,
  where only roles admit: while there is no row, nobody is past the first sign-in
  (`FirstInv`). `RowHasLoginHolds`: who
  may still delete a login has created it, and nobody with a row has such a
  creation going on. `BlockedInBothHolds` and `DisabledIsNotRevivedHolds` follow the
  order of the two stores and the lock of the sign-in.

The assumptions are those named in the modules: finite sets of generations,
attempts, sections and events, positive sizes. A theorem that needs more states it:
the absence of a fault, which requests overlap (`Orderly`, `OneAtATime`,
`Ops \subseteq SwitchingOps`), or how configured durations compare (`EnoughTime`,
`2 * Slowest <= Retention`).

Every safety and action property that a run checks is stated by a theorem. Only
model-checked are the liveness properties (`EventuallySettled`, `CommandLeavesQueue`,
`EventuallyHandled`, `ShutdownLeavesNothing`), because the prover does not reason
about fairness.

## 5. Hazards

`PROJECT.json` lists them with their lines, each with the properties that guard
against it, or with a note: the code violates the property that would (section 6),
or the harm is one that nothing in the repository rules out.

## 6. Findings

The modules state properties that a document, a comment or a test of the
repository promises and the code violates. No run is kept for them; each is
reproduced, with a counterexample of a few steps, by a configuration that differs
from a kept one as follows.

| Property | What happens | Configuration |
|---|---|---|
| `DeletedIsNotServed` | `publish_ingestion_job` checks the job before its transaction (line 1908); a deletion that begins in between is undone, against the comment at line 1656 | `publication_overlapping` with the property and `Ops = {"ingest", "publish", "delete"}` |
| `ServedIsComplete`, `ServedIsActive`, `DeletedIsNotServed` | a deletion begins while the worker is `uploading`, which its check (line 1664) does not list, and the worker makes the deleted generation live | `publication_overlapping` with the property and `Ops = {"ingest", "delete"}` |
| `ActivationTakesEffect` | a rollback updates a pointer row that a deletion removed (line 1626): "reactivated", and nothing is served | `publication_sequential` with the property |
| `ServedIsComplete` | the retention script sweeps the target of a rollback that has counted it (`cleanup_knowledge_artifacts.py:131`), against `docs/CONTROLLED_KNOWLEDGE_PUBLICATION.md:50` | `publication_overlapping` with the property, three generations and `Ops = {"ingest", "rollback", "cleanup"}` |
| `NoOrphanJob` | a temporary failure of an S3 job removes its command (`run_ingestion_worker.py:192`), against `docs/CONTROLLED_KNOWLEDGE_PUBLICATION.md:45` | `job_s3_event` with the property |
| `StopSendsTheRest` | the shutdown cancels the audit timer between two attempts (`firehose.py:60`) and its records are gone without a log line, against the comment at line 58 | `audit_pipeline` with the property |
| `RegistryShowsOnlyServed` | the registry row is written after, and outside, the activation, so a superseded version returns as active | `publication_switching` with the property |
| `LiveChunksAreNotStrays` | a retry after the activation takes the live chunks for strays | `publication_overlapping` with `Ops = {"ingest", "reingest"}` |
| `NoOrphanJob` | the last status of a job is lost, and its command removed | `job_portal` with `"database"` in `Faults` |
| `CompletedStays` | the portal writes `queued` after it has sent the command (`knowledge_ingestion.py:449`), over the `ready` of a quicker worker | `job_portal` with the property, `Faults = {"late"}` and `Ops = {}` |
| `CompletedStays` | the visibility of a command is not extended and its lease expires (line 219): a second worker takes the job back to `extracting` after the first has completed it | `job_portal` with the property, `Faults = {"extension"}` and `Ops = {}` |
| `CompletedStays` | a deletion that began while the worker was `uploading` ends after the job completed | `job_portal` with the property, `Faults = {}` and `Ops = {"delete"}` |
| `CompletedStays` | the reconciliation marks a job that waits for review as dead-lettered | `job_portal` with the property, `Faults = {"crash"}` and `Ops = {"reconcile"}` |
| `DeletionWaits` | `uploading` is missing from the statuses a deletion waits for | `job_portal` |
| `ReconcileSparesCompleted` | `ready_for_review` is missing from the statuses the reconciliation takes for completed | `job_portal` |
| `LeaseEndsWithItsOwner` | a worker releases the lease of its successor | `job_portal` with `"extension"` in `Faults` |

Two promises are stated nowhere as a property, and the models show what becomes of
them. `docs/OPERATIONS_PORTAL.md:117` and
`docs/ASKVERA_OPTIONAL_ENHANCEMENTS_ROLLOUT.md:78` describe what a rotation and an
invalidation do at once ("Key rotation invalidates the prior public key"); the code
keeps the prior key valid for a grace period (`Rotate`), and a missed invalidation
is made up for only by the life of an entry (`CachedIsRecent`). A draft saved while
another is being published is cleared without having been published (`Begin`,
`UpdateConfig`, `Stage`, `ClearDraft` in `widget_config`).

## 7. What could follow

* `TraceStore` and the rate limit are single objects under one lock; a model would
  restate them.
* The administrative reset of the answer caches as an action that scans and unlinks,
  and the local fallback of the security store, for installations that are not
  production.
* `IngestionJob` against an abstract "at least once, one at a time" consumer, and
  `ChatTurn` against a reader of `PublicationSlot` with a bounded age.

## 8. What is left out

Text: extraction, ranking, validation rules, risk policies and response wording
are functions of natural language; a finite model would restate their tables. The
formats of messages and rows, logging and metrics are left out unless a property
is about them. That is most of the repository by lines: the orchestrator's phrase
tables and detectors, the directory and section vocabularies, the numeric
validators, the benchmarks and replays, the front ends; which is why the mapped
lines are a small share of the whole, and most of those of the parts that keep
state, in a process or in a store, from one request to the next. The AWS services are modelled as the code uses them: SQS by
visibility, receive count and redrive; the index by refresh and bulk results;
Firehose by the records it confirms.
