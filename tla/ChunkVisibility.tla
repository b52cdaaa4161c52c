--------------------------- MODULE ChunkVisibility ---------------------------
(***************************************************************************)
(* The chunks of ONE generation in the vector index, which shows a write   *)
(* or a delete only after its next refresh, and the two waits that cope    *)
(* with it: _await_generation after a write (attempt after attempt, each   *)
(* with ids of its own, the earlier ones abandoned anywhere), and          *)
(* _delete_generation_chunks.  Time is counted in ticks; a poll takes      *)
(* between 0 and Latency ticks, so the view may change between its calls.  *)
(***************************************************************************)
EXTENDS Naturals, FiniteSets

CONSTANTS Attempts,   \* write attempts of the worker, in no given order
          NoAttempt,
          Sections,   \* sections of the document: one chunk each
          Refresh,    \* the index refreshes at least this often (about 60 s)
          Poll,       \* poll_seconds
          Gap,        \* refresh_interval_seconds between two zero polls
          Timeout,    \* _visibility_timeout()
          Latency,    \* longest time one poll takes
          Redelivery, \* after a death, a command stays hidden at least this long
          Horizon,    \* bound on the clock
          Faults      \* what may go wrong: "reject", "lost", "crash"

ASSUME VisibilityAssumption ==
    /\ NoAttempt \notin Attempts
    /\ IsFiniteSet(Attempts)
    /\ IsFiniteSet(Sections) /\ Sections # {}
    /\ {Refresh, Poll, Gap, Timeout, Latency, Redelivery, Horizon} \subseteq Nat
    /\ Faults \subseteq {"reject", "lost", "crash"}

VARIABLES
    now,          \* the clock
    lastRefresh,  \* when the view was last renewed
    stored,       \* chunk ids the index holds
    visible,      \* chunk ids a search or a count sees
    pc,           \* the next step of the client
    attempt,      \* the attempt that is writing or awaiting
    used,         \* attempts so far
    own,          \* own_ids, the ids the attempt was told of
    ids,          \* what the last search returned
    began,        \* when the current poll, the sleep before it, or the death was
    deadline,
    firstZero,    \* first_zero_at, in {} or a singleton
    refused       \* has a request been rejected so far, or its answer lost

index  == <<stored, visible, lastRefresh>>
client == <<attempt, used, own>>
waits  == <<ids, began, deadline, firstZero, refused>>
vars   == <<now, index, pc, client, waits>>

Ids == Attempts \X Sections
ChunksOf(a) == {a} \X Sections
Rounds == {"await_search", "await_count", "await_clock",
           "sweep_search", "sweep_count", "sweep_clock_zero", "sweep_clock_some"}
Asleep == {"await_sleep", "sweep_sleep"}
Ended  == {"idle", "crashed", "write_failed", "await_failed", "complete",
           "swept", "sweep_failed", "sweep_crashed"}

TypeOK ==
    /\ now \in Nat /\ lastRefresh \in Nat
    /\ stored \subseteq Ids /\ visible \subseteq Ids
    /\ pc \in Rounds \cup Asleep \cup Ended \cup {"write"}
    /\ attempt \in Attempts \cup {NoAttempt} /\ used \subseteq Attempts
    /\ own \subseteq Ids /\ ids \subseteq Ids
    /\ began \in Nat /\ deadline \in Nat /\ firstZero \subseteq Nat
    /\ refused \in BOOLEAN

Init ==
    /\ now = 0 /\ lastRefresh = 0
    /\ stored = {} /\ visible = {}
    /\ pc = "idle" /\ attempt = NoAttempt /\ used = {} /\ own = {}
    /\ ids = {} /\ began = 0 /\ deadline = 0 /\ firstZero = {} /\ refused = FALSE
-----------------------------------------------------------------------------
(* The index, and time.                                                    *)

RefreshIndex ==
    /\ visible' = stored
    /\ lastRefresh' = now
    /\ UNCHANGED <<now, stored, pc, client, waits>>

\* Time passes unless the index is due a refresh or the client a step.
Tick ==
    /\ now < Horizon
    /\ now < lastRefresh + Refresh
    /\ pc \in Rounds => now < began + Latency
    /\ pc \in Asleep => now < began + Poll
    /\ now' = now + 1
    /\ UNCHANGED <<index, pc, client, waits>>

\* _delete_ids: a bulk delete whose rejected items nobody looks at.
DeleteIds(doomed) ==
    \E kept \in SUBSET doomed :
        /\ kept = {} \/ "reject" \in Faults
        /\ stored' = stored \ (doomed \ kept)
        /\ refused' = (refused \/ kept # {})
        /\ UNCHANGED <<visible, lastRefresh>>
-----------------------------------------------------------------------------
(* _write_generation                                                       *)

WriteStart ==
    /\ pc \in {"idle", "crashed", "write_failed", "await_failed"}
    /\ \E a \in Attempts \ used : attempt' = a /\ used' = used \cup {a}
    /\ own' = {}
    /\ pc' = "write"
    /\ UNCHANGED <<now, index, waits>>

\* A bulk request: its chunks are accepted, and the worker keeps their ids.
WriteBatch ==
    /\ pc = "write"
    /\ \E batch \in SUBSET (ChunksOf(attempt) \ own) \ {{}} :
           /\ stored' = stored \cup batch
           /\ own' = own \cup batch
    /\ UNCHANGED <<now, visible, lastRefresh, pc, attempt, used, waits>>

\* Everything was accepted: start to wait.
WriteDone ==
    /\ pc = "write"
    /\ own = ChunksOf(attempt)
    /\ pc' = "await_search"
    /\ began' = now
    /\ deadline' = now + Timeout
    /\ UNCHANGED <<now, index, client, ids, firstZero, refused>>

\* A request fails, maybe after the index accepted it: _cleanup_written takes
\* back what the worker knows of.
WriteFail ==
    /\ pc = "write"
    /\ "reject" \in Faults \/ "lost" \in Faults
    /\ own # ChunksOf(attempt)
    /\ \E lost \in SUBSET (ChunksOf(attempt) \ own), kept \in SUBSET own :
           /\ lost = {} \/ "lost" \in Faults
           /\ kept = {} \/ "reject" \in Faults
           /\ stored' = (stored \cup lost) \ (own \ kept)
    /\ pc' = "write_failed"
    /\ refused' = TRUE
    /\ UNCHANGED <<now, visible, lastRefresh, client, ids, began, deadline, firstZero>>

\* The worker dies in the middle of an attempt or of a sweep.
Crash ==
    /\ "crash" \in Faults
    /\ pc \notin Ended
    /\ pc' = IF pc \in {"write", "await_search", "await_count", "await_clock", "await_sleep"}
             THEN "crashed" ELSE "sweep_crashed"
    /\ began' = now
    /\ UNCHANGED <<now, index, client, ids, deadline, firstZero, refused>>
-----------------------------------------------------------------------------
(* _await_generation                                                       *)

\* Delete the strays; without them, is what is left exactly own_ids?
AwaitSearch ==
    /\ pc = "await_search"
    /\ DeleteIds(visible \ own)
    /\ ids' = visible
    /\ pc' = IF own \subseteq visible THEN "await_count" ELSE "await_clock"
    /\ UNCHANGED <<now, client, began, deadline, firstZero>>

\* Mutant: the count is not compared with the number of chunks written.
AwaitCountAny ==
    /\ pc = "await_count"
    /\ pc' = "complete"
    /\ UNCHANGED <<now, index, client, waits>>

AwaitCount ==
    /\ pc = "await_count"
    /\ pc' = IF Cardinality(visible) = Cardinality(own) THEN "complete" ELSE "await_clock"
    /\ UNCHANGED <<now, index, client, waits>>

AwaitSleep ==
    /\ pc = "await_clock"
    /\ now < deadline
    /\ pc' = "await_sleep"
    /\ began' = now
    /\ UNCHANGED <<now, index, client, ids, deadline, firstZero, refused>>

AwaitTimeout ==
    /\ pc = "await_clock"
    /\ now >= deadline
    /\ DeleteIds(own)
    /\ pc' = "await_failed"
    /\ UNCHANGED <<now, client, ids, began, deadline, firstZero>>
-----------------------------------------------------------------------------
(* _delete_generation_chunks                                               *)

\* begin_ingestion_deletion refuses while the job may be retried.  A death is
\* noticed when the command comes back, by a worker that retries or, if that
\* was the last attempt, gives the job up: then it can be deleted as it is.
SweepStart ==
    /\ pc \in {"crashed", "write_failed", "await_failed", "complete", "sweep_failed",
               "sweep_crashed"}
    /\ pc = "crashed" => now >= began + Redelivery
    /\ pc' = "sweep_search"
    /\ began' = now
    /\ deadline' = now + Timeout
    /\ firstZero' = {}
    /\ UNCHANGED <<now, index, client, ids, refused>>

SweepSearch ==
    /\ pc = "sweep_search"
    /\ ids' = visible
    /\ DeleteIds(visible)
    /\ pc' = "sweep_count"
    /\ UNCHANGED <<now, client, began, deadline, firstZero>>

SweepCount ==
    /\ pc = "sweep_count"
    /\ pc' = IF ids = {} /\ visible = {} THEN "sweep_clock_zero" ELSE "sweep_clock_some"
    /\ UNCHANGED <<now, index, client, waits>>

\* Mutant: one zero poll is enough.
SweepReturnAtOnce ==
    /\ pc = "sweep_clock_zero"
    /\ pc' = "swept"
    /\ UNCHANGED <<now, index, client, waits>>

\* A zero poll a refresh interval after the first zero poll: all is gone.
SweepReturn ==
    /\ pc = "sweep_clock_zero"
    /\ \E z \in firstZero : now - z >= Gap
    /\ pc' = "swept"
    /\ UNCHANGED <<now, index, client, waits>>

\* Mutant: every zero poll counts as the first one.
SweepNotYetForgetting ==
    /\ \/ pc = "sweep_clock_zero" /\ firstZero' = {now}
       \/ pc = "sweep_clock_some" /\ firstZero' = {}
    /\ \/ now >= deadline /\ pc' = "sweep_failed" /\ UNCHANGED began
       \/ now < deadline /\ pc' = "sweep_sleep" /\ began' = now
    /\ UNCHANGED <<now, index, client, ids, deadline, refused>>

SweepNotYet ==
    /\ \/ /\ pc = "sweep_clock_zero"
          /\ \A z \in firstZero : now - z < Gap
          /\ firstZero' = IF firstZero = {} THEN {now} ELSE firstZero
       \/ /\ pc = "sweep_clock_some"
          /\ firstZero' = {}
    /\ \/ now >= deadline /\ pc' = "sweep_failed" /\ UNCHANGED began
       \/ now < deadline /\ pc' = "sweep_sleep" /\ began' = now
    /\ UNCHANGED <<now, index, client, ids, deadline, refused>>

\* time.sleep(poll_seconds) is over: the next poll of either loop begins.
Wake ==
    /\ pc \in Asleep
    /\ now >= began + Poll
    /\ pc' = IF pc = "await_sleep" THEN "await_search" ELSE "sweep_search"
    /\ began' = now
    /\ UNCHANGED <<now, index, client, ids, deadline, firstZero, refused>>
-----------------------------------------------------------------------------
Write == WriteStart \/ WriteBatch \/ WriteDone \/ WriteFail \/ Crash
Await == AwaitSearch \/ AwaitCount \/ AwaitSleep \/ AwaitTimeout
Sweep == SweepStart \/ SweepSearch \/ SweepCount \/ SweepReturn \/ SweepNotYet

Next == RefreshIndex \/ Tick \/ Write \/ Await \/ Sweep \/ Wake

Spec == Init /\ [][Next]_vars
-----------------------------------------------------------------------------
(* Properties *)

\* When _await_generation returns, the index holds exactly the chunks of this
\* attempt: no stray of an earlier one is left to surface after publication.
AwaitedIsExact == pc = "complete" => stored = ChunksOf(attempt)

\* When _delete_generation_chunks returns, no chunk is left, not even one the
\* view does not show yet: this is what the two zero polls are for.
SweptIsEmpty == pc = "swept" => stored = {}

\* While the index takes every request, the configured wait is long enough:
\* neither wait gives up, whatever abandoned attempts left behind for the
\* first one (config/settings.py: it must cover two refreshes and the polling).
WaitsFitTheTimeout == pc \in {"await_failed", "sweep_failed"} => refused
=============================================================================
