------------------------ MODULE ChunkVisibilityProofs ------------------------
(* Theorems about ChunkVisibility, for any number of attempts and sections  *)
(* and any times.                                                           *)
EXTENDS ChunkVisibility, FiniteSetTheorems, TLAPS

AwaitPcs == {"await_search", "await_count", "await_clock", "await_sleep"}
SweepPcs == {"sweep_search", "sweep_count", "sweep_clock_zero", "sweep_clock_some",
             "sweep_sleep"}

Writing == pc = "write" \/ pc \in AwaitPcs

TInv == TypeOK /\ (Writing => attempt \in used)

\* Only attempts that began have left anything, and what the attempt that is
\* writing left is what it knows of.
Known ==
    /\ \A i \in stored \cup visible : i[1] \in used
    /\ Writing =>
         /\ own \subseteq ChunksOf(attempt) /\ own \subseteq stored
         /\ \A i \in stored \cup visible : i[1] = attempt => i \in own

\* Once the view shows what the attempt wrote, it shows everything there is.
Caught ==
    /\ Writing /\ own # {} /\ own \subseteq visible => stored \subseteq visible
    /\ pc \in AwaitPcs => own = ChunksOf(attempt)
    /\ pc = "await_count" => own \subseteq visible

LEMMA TypeInit == Init => TInv
<1>1. Init => refused \in BOOLEAN BY DEF Init
<1> QED BY <1>1 DEF Init, TInv, TypeOK, Writing, AwaitPcs, Rounds, Asleep, Ended

LEMMA TypeNext == TInv /\ [Next]_vars => TInv'
<1> SUFFICES ASSUME TInv, [Next]_vars PROVE TInv'
    OBVIOUS
<1> USE VisibilityAssumption
    DEF TInv, TypeOK, Writing, AwaitPcs, Rounds, Asleep, Ended, Ids, ChunksOf,
        index, client, waits, DeleteIds
<1>1. CASE RefreshIndex BY <1>1 DEF RefreshIndex
<1>2. CASE Tick BY <1>2 DEF Tick
<1>3. CASE WriteStart BY <1>3 DEF WriteStart
<1>4. CASE WriteBatch BY <1>4 DEF WriteBatch
<1>5. CASE WriteDone BY <1>5 DEF WriteDone
<1>6. CASE WriteFail BY <1>6 DEF WriteFail
<1>7. CASE Crash BY <1>7 DEF Crash
<1>8. CASE Await BY <1>8 DEF Await, AwaitSearch, AwaitCount, AwaitSleep, AwaitTimeout
<1>9. CASE Sweep
  <2>1. CASE SweepStart BY <2>1 DEF SweepStart
  <2>2. CASE SweepSearch BY <2>2 DEF SweepSearch
  <2>3. CASE SweepCount BY <2>3 DEF SweepCount
  <2>4. CASE SweepReturn BY <2>4 DEF SweepReturn
  <2>5. CASE SweepNotYet
    <3>1. firstZero' \subseteq Nat BY <2>5 DEF SweepNotYet
    <3>2. began' \in Nat /\ pc' \in {"sweep_failed", "sweep_sleep"} BY <2>5 DEF SweepNotYet
    <3> QED BY <2>5, <3>1, <3>2 DEF SweepNotYet
  <2> QED BY <1>9, <2>1, <2>2, <2>3, <2>4, <2>5 DEF Sweep
<1>10. CASE Wake BY <1>10 DEF Wake
<1>11. CASE UNCHANGED vars BY <1>11 DEF vars
<1> QED BY <1>1, <1>2, <1>3, <1>4, <1>5, <1>6, <1>7, <1>8, <1>9, <1>10, <1>11
        DEF Next, Write

LEMMA KnownNext == TInv /\ Known /\ [Next]_vars => Known'
<1> SUFFICES ASSUME TInv, Known, [Next]_vars PROVE Known'
    OBVIOUS
<1> USE DEF TInv, TypeOK, Known, Writing, AwaitPcs, Rounds, Asleep, Ended, Ids, ChunksOf,
        index, client, waits, DeleteIds
<1>1. CASE RefreshIndex BY <1>1 DEF RefreshIndex
<1>2. CASE Tick BY <1>2 DEF Tick
<1>3. CASE WriteStart BY <1>3 DEF WriteStart
<1>4. CASE WriteBatch BY <1>4 DEF WriteBatch
<1>5. CASE WriteDone BY <1>5 DEF WriteDone
<1>6. CASE WriteFail BY <1>6 DEF WriteFail
<1>7. CASE Crash BY <1>7 DEF Crash
<1>8. CASE Await BY <1>8 DEF Await, AwaitSearch, AwaitCount, AwaitSleep, AwaitTimeout
<1>9. CASE Sweep
  BY <1>9 DEF Sweep, SweepStart, SweepSearch, SweepCount, SweepReturn, SweepNotYet
<1>10. CASE Wake BY <1>10 DEF Wake
<1>11. CASE UNCHANGED vars BY <1>11 DEF vars
<1> QED BY <1>1, <1>2, <1>3, <1>4, <1>5, <1>6, <1>7, <1>8, <1>9, <1>10, <1>11
        DEF Next, Write

LEMMA CaughtNext == TInv /\ Known /\ Caught /\ [Next]_vars => Caught'
<1> SUFFICES ASSUME TInv, Known, Caught, [Next]_vars PROVE Caught'
    OBVIOUS
<1> USE DEF TInv, TypeOK, Known, Caught, Writing, AwaitPcs, Rounds, Asleep, Ended, Ids,
        ChunksOf, index, client, waits, DeleteIds
<1>1. CASE RefreshIndex BY <1>1 DEF RefreshIndex
<1>2. CASE Tick BY <1>2 DEF Tick
<1>3. CASE WriteStart BY <1>3 DEF WriteStart
<1>4. CASE WriteBatch BY <1>4 DEF WriteBatch
<1>5. CASE WriteDone BY <1>5 DEF WriteDone
<1>6. CASE WriteFail BY <1>6 DEF WriteFail
<1>7. CASE Crash BY <1>7 DEF Crash
<1>8. CASE Await BY <1>8 DEF Await, AwaitSearch, AwaitCount, AwaitSleep, AwaitTimeout
<1>9. CASE Sweep
  BY <1>9 DEF Sweep, SweepStart, SweepSearch, SweepCount, SweepReturn, SweepNotYet
<1>10. CASE Wake BY <1>10 DEF Wake
<1>11. CASE UNCHANGED vars BY <1>11 DEF vars
<1> QED BY <1>1, <1>2, <1>3, <1>4, <1>5, <1>6, <1>7, <1>8, <1>9, <1>10, <1>11
        DEF Next, Write

\* When _await_generation returns, the chunks of the attempt, all of them and
\* nothing else, are what the index holds, whatever the earlier attempts left,
\* whatever deletes were rejected and however long anything took.
THEOREM AwaitExact == Spec => []AwaitedIsExact
<1>1. Init => Known /\ Caught /\ AwaitedIsExact
  BY DEF Init, Known, Caught, AwaitedIsExact, Writing, AwaitPcs
<1>2. TInv /\ Known /\ Caught /\ AwaitedIsExact /\ [Next]_vars => AwaitedIsExact'
  <2> SUFFICES ASSUME TInv, Known, Caught, AwaitedIsExact, [Next]_vars, pc' = "complete"
               PROVE  stored' = ChunksOf(attempt')
      BY DEF AwaitedIsExact
  <2> USE DEF index, client, waits
  <2>1. CASE AwaitCount
    <3>0. own = ChunksOf(attempt) /\ own # {}
      <4>1. PICK s \in Sections : TRUE
        BY VisibilityAssumption
      <4>2. <<attempt, s>> \in ChunksOf(attempt)
        BY DEF ChunksOf
      <4> QED BY <2>1, <4>2 DEF AwaitCount, Caught, AwaitPcs
    <3>1. own \subseteq visible /\ stored \subseteq visible /\ own \subseteq stored
      BY <2>1, <3>0 DEF AwaitCount, Known, Caught, Writing, AwaitPcs
    <3>2. IsFiniteSet(visible)
      BY FS_Product, FS_Subset, VisibilityAssumption DEF TInv, TypeOK, Ids
    <3>3. Cardinality(visible) = Cardinality(own)
      BY <2>1 DEF AwaitCount
    <3>4. visible = own
      BY <3>1, <3>2, <3>3, FS_Subset
    <3> QED BY <2>1, <3>0, <3>1, <3>4 DEF AwaitCount
  <2>2. CASE ~AwaitCount
    <3>1. pc = "complete" /\ UNCHANGED <<stored, attempt>>
      BY <2>2 DEF Next, RefreshIndex, Tick, Write, WriteStart, WriteBatch, WriteDone, WriteFail,
         Crash, Await, AwaitSearch, AwaitSleep, AwaitTimeout, Sweep, SweepStart, SweepSearch,
         SweepCount, SweepReturn, SweepNotYet, Wake, vars, Ended
    <3> QED BY <3>1 DEF AwaitedIsExact
  <2> QED BY <2>1, <2>2
<1> QED BY <1>1, <1>2, TypeInit, TypeNext, KnownNext, CaughtNext, PTL DEF Spec
-----------------------------------------------------------------------------
\* The clock during one poll, and since the last refresh.
Clock ==
    /\ lastRefresh <= now /\ now <= lastRefresh + Refresh
    /\ pc \in Rounds => began <= now /\ now <= began + Latency

LEMMA ClockNext == TInv /\ Clock /\ [Next]_vars => Clock'
<1> SUFFICES ASSUME TInv, Clock, [Next]_vars PROVE Clock'
    OBVIOUS
<1> USE VisibilityAssumption
    DEF TInv, TypeOK, Clock, Rounds, Asleep, Ended, index, client, waits, DeleteIds
<1>1. CASE RefreshIndex BY <1>1 DEF RefreshIndex
<1>2. CASE Tick BY <1>2 DEF Tick
<1>3. CASE Write BY <1>3 DEF Write, WriteStart, WriteBatch, WriteDone, WriteFail, Crash
<1>4. CASE Await BY <1>4 DEF Await, AwaitSearch, AwaitCount, AwaitSleep, AwaitTimeout
<1>5. CASE Sweep
  BY <1>5 DEF Sweep, SweepStart, SweepSearch, SweepCount, SweepReturn, SweepNotYet
<1>6. CASE Wake BY <1>6 DEF Wake
<1>7. CASE UNCHANGED vars BY <1>7 DEF vars
<1> QED BY <1>1, <1>2, <1>3, <1>4, <1>5, <1>6, <1>7 DEF Next

\* A sweep began at deadline - Timeout.  After a refresh since then the view
\* shows all that is stored; a poll that saw nothing before any such refresh
\* began at most one refresh interval after the sweep did.
Swept ==
    /\ pc \in SweepPcs =>
         /\ deadline <= now + Timeout
         /\ \A z \in firstZero : z <= now /\ deadline <= z + Timeout
         /\ lastRefresh + Timeout > deadline => stored \subseteq visible
    /\ pc = "sweep_clock_zero" => stored = {} \/ began + Timeout <= deadline + Refresh
    /\ SweptIsEmpty

LEMMA SweptNext ==
    ASSUME Refresh + Latency < Gap, TInv, Clock, Swept, [Next]_vars
    PROVE  Swept'
<1> USE VisibilityAssumption
    DEF TInv, TypeOK, Clock, Swept, SweptIsEmpty, SweepPcs, Rounds, Asleep, Ended, index,
        client, waits, DeleteIds
<1>1. CASE RefreshIndex BY <1>1 DEF RefreshIndex
<1>2. CASE Tick BY <1>2 DEF Tick
<1>3. CASE Write BY <1>3 DEF Write, WriteStart, WriteBatch, WriteDone, WriteFail, Crash
<1>4. CASE Await BY <1>4 DEF Await, AwaitSearch, AwaitCount, AwaitSleep, AwaitTimeout
<1>5. CASE Sweep
  <2>1. CASE SweepStart BY <2>1 DEF SweepStart
  <2>2. CASE SweepSearch BY <2>2 DEF SweepSearch
  <2>3. CASE SweepCount BY <2>3 DEF SweepCount
  <2>4. CASE SweepReturn
    <3>1. PICK z \in firstZero : now - z >= Gap
      BY <2>4 DEF SweepReturn
    <3>2. ~(began + Timeout <= deadline + Refresh)
      BY <2>4, <3>1 DEF SweepReturn
    <3> QED BY <2>4, <3>2 DEF SweepReturn
  <2>5. CASE SweepNotYet
    <3>1. \A z \in firstZero' : z <= now /\ deadline <= z + Timeout
      <4>1. CASE firstZero' = {} BY <4>1
      <4>2. CASE firstZero' = {now} BY <2>5, <4>2 DEF SweepNotYet
      <4>3. CASE firstZero' = firstZero BY <2>5, <4>3 DEF SweepNotYet
      <4> QED BY <2>5, <4>1, <4>2, <4>3 DEF SweepNotYet
    <3> QED BY <2>5, <3>1 DEF SweepNotYet
  <2> QED BY <1>5, <2>1, <2>2, <2>3, <2>4, <2>5 DEF Sweep
<1>6. CASE Wake BY <1>6 DEF Wake
<1>7. CASE UNCHANGED vars BY <1>7 DEF vars
<1> QED BY <1>1, <1>2, <1>3, <1>4, <1>5, <1>6, <1>7 DEF Next

\* A sweep that returns has left nothing, visible or not yet visible, provided
\* one refresh and one poll fit between the two zero polls it waits for: 60 s
\* and less than 5 s in 65 s (_delete_generation_chunks).
THEOREM SweepComplete ==
    ASSUME Refresh + Latency < Gap
    PROVE  Spec => []SweptIsEmpty
<1>1. Init => Clock /\ Swept
  BY VisibilityAssumption DEF Init, Clock, Swept, SweptIsEmpty, SweepPcs, Rounds
<1>2. TInv /\ Clock /\ Swept /\ [Next]_vars => Swept'
  BY SweptNext
<1>3. Swept => SweptIsEmpty
  BY DEF Swept
<1> QED BY <1>1, <1>2, <1>3, TypeInit, TypeNext, ClockNext, PTL DEF Spec
-----------------------------------------------------------------------------
(* How long the waits take while no request is refused.  A wait began at     *)
(* deadline - Timeout.                                                       *)

Dozing == pc \in Asleep => began <= now /\ now <= began + Poll

\* _await_generation.  One refresh shows everything; the search of the poll
\* after it deletes the strays; the poll after the next refresh counts exactly.
AwaitInTime ==
    pc \in AwaitPcs /\ ~refused =>
        /\ deadline <= now + Timeout
        /\ ~(own \subseteq visible) => lastRefresh + Timeout <= deadline
        /\ stored # own =>
              /\ pc = "await_search" => began + Timeout <= deadline + Refresh + Poll + Latency
              /\ pc = "await_clock" => began + Timeout <= deadline + Refresh
              /\ pc = "await_sleep" => began + Timeout <= deadline + Refresh + Latency
              /\ pc # "await_count"
        /\ stored = own /\ visible # own =>
              lastRefresh + Timeout <= deadline + Refresh + Poll + 2 * Latency
        /\ pc = "await_clock" =>
              began + Timeout <= deadline + 2 * Refresh + Poll + 2 * Latency

\* _delete_generation_chunks.  It begins when the view shows all there is (after
\* a death the index has refreshed before the command comes back), so its first
\* search deletes everything, the next refresh shows that, and the poll after it
\* is the first of two zero polls.
SweepInTime ==
    /\ pc \in SweepPcs \cup {"complete", "sweep_crashed"} /\ ~refused => stored \subseteq visible
    /\ pc \in SweepPcs /\ ~refused =>
        /\ stored = {} \/ (pc = "sweep_search" /\ began + Timeout <= deadline)
        /\ visible # {} => lastRefresh + Timeout <= deadline + Latency
        /\ (pc = "sweep_count" /\ ids # {}) \/ pc = "sweep_clock_some" =>
              began + Timeout <= deadline + Latency + Refresh
        /\ firstZero = {} =>
              began + Timeout <= deadline + 2 * Latency + Refresh + (IF pc = "sweep_sleep" THEN 0 ELSE Poll)
        /\ \A z \in firstZero : z + Timeout <= deadline + 3 * Latency + Refresh + Poll
    /\ pc \in {"write_failed", "await_failed", "sweep_failed"} => refused
    /\ pc = "crashed" /\ ~refused =>
          began <= now /\ (began < lastRefresh => stored \subseteq visible)

LEMMA DozingNext == TInv /\ Dozing /\ [Next]_vars => Dozing'
<1> SUFFICES ASSUME TInv, Dozing, [Next]_vars PROVE Dozing'
    OBVIOUS
<1> USE VisibilityAssumption
    DEF TInv, TypeOK, Dozing, Rounds, Asleep, Ended, index, client, waits, DeleteIds
<1>1. CASE RefreshIndex BY <1>1 DEF RefreshIndex
<1>2. CASE Tick BY <1>2 DEF Tick
<1>3. CASE Write BY <1>3 DEF Write, WriteStart, WriteBatch, WriteDone, WriteFail, Crash
<1>4. CASE Await BY <1>4 DEF Await, AwaitSearch, AwaitCount, AwaitSleep, AwaitTimeout
<1>5. CASE Sweep
  BY <1>5 DEF Sweep, SweepStart, SweepSearch, SweepCount, SweepReturn, SweepNotYet
<1>6. CASE Wake BY <1>6 DEF Wake
<1>7. CASE UNCHANGED vars BY <1>7 DEF vars
<1> QED BY <1>1, <1>2, <1>3, <1>4, <1>5, <1>6, <1>7 DEF Next

\* Enough time: the zero polls need a refresh and their gap after the first
\* search; the exact count needs two refreshes, which is less.  In the code a
\* refresh takes 60 s, the gap is 65 s, the pause between two polls 5 s and the
\* timeout at least 150 s, so this holds while a poll takes less than 5 s.  After
\* a death the command stays hidden for most of 900 s.
EnoughTime ==
    /\ Refresh < Redelivery
    /\ Refresh + Latency < Gap
    /\ Refresh + Gap + Poll + 3 * Latency <= Timeout

\* The poll that finds the deadline passed was not in time.
LEMMA NoAwaitTimeout ==
    ASSUME EnoughTime, TInv, Clock, AwaitInTime, ~refused
    PROVE  ~AwaitTimeout
  BY VisibilityAssumption DEF EnoughTime, TInv, TypeOK, Clock, AwaitInTime, AwaitPcs, Rounds, AwaitTimeout

\* What the search and the delete of strays leave: exactly the attempt's
\* chunks, once the view shows all of these.
LEMMA SearchCleans ==
    ASSUME TInv, Known, Caught, AwaitSearch, ~refused'
    PROVE  /\ ~refused /\ pc = "await_search" /\ own \subseteq stored
           /\ stored' = stored \ (visible \ own)
           /\ own \subseteq visible => stored' = own
<1>1. ~refused /\ pc = "await_search" /\ stored' = stored \ (visible \ own)
  BY DEF AwaitSearch, DeleteIds, TInv, TypeOK
<1>2. own \subseteq stored /\ own # {} /\ (own \subseteq visible => stored \subseteq visible)
  <2>1. PICK s \in Sections : TRUE
    BY VisibilityAssumption
  <2>2. <<attempt, s>> \in ChunksOf(attempt)
    BY DEF ChunksOf
  <2>3. pc \in AwaitPcs
    BY <1>1 DEF AwaitPcs
  <2> QED BY <2>2, <2>3 DEF Known, Caught, Writing
<1> QED BY <1>1, <1>2

LEMMA AwaitInTimeNext ==
    ASSUME EnoughTime, TInv, Known, Caught, Clock, Dozing, AwaitInTime, [Next]_vars
    PROVE  AwaitInTime'
<1> SUFFICES ASSUME pc' \in AwaitPcs, ~refused' PROVE AwaitInTime'
  BY DEF AwaitInTime
<1> USE VisibilityAssumption
    DEF TInv, TypeOK, Clock, Dozing, AwaitInTime, AwaitPcs, Rounds, Asleep, Ended, index, client, waits
<1>1. CASE RefreshIndex
  <2>1. pc \in AwaitPcs => own \subseteq stored
    BY DEF Known, Writing
  <2> QED BY <1>1, <2>1 DEF RefreshIndex
<1>2. CASE Tick BY <1>2 DEF Tick
<1>3. CASE WriteDone
  <2>1. /\ pc' = "await_search" /\ began' = now /\ deadline' = now + Timeout
        /\ UNCHANGED <<now, lastRefresh>>
    BY <1>3 DEF WriteDone
  <2> QED BY <2>1
<1>4. CASE WriteStart \/ WriteBatch \/ WriteFail \/ Crash
  BY <1>4 DEF WriteStart, WriteBatch, WriteFail, Crash
<1>5. CASE AwaitSearch
  <2>1. /\ ~refused /\ pc = "await_search" /\ own \subseteq stored
        /\ stored' = stored \ (visible \ own)
        /\ own \subseteq visible => stored' = own
    BY <1>5, SearchCleans
  <2>2. /\ pc' = IF own \subseteq visible THEN "await_count" ELSE "await_clock"
        /\ UNCHANGED <<now, lastRefresh, visible, own, began, deadline>>
    BY <1>5 DEF AwaitSearch, DeleteIds
  <2>3. CASE own \subseteq visible
    <3>1. pc' = "await_count" /\ stored' = own'
      BY <2>1, <2>2, <2>3
    <3>2. visible # own => lastRefresh + Timeout <= deadline + Refresh + Poll + 2 * Latency
      <4>1. CASE stored = own
        BY <2>1, <4>1
      <4>2. CASE stored # own
        BY <2>1, <4>2
      <4> QED BY <4>1, <4>2
    <3> QED BY <2>1, <2>2, <2>3, <3>1, <3>2
  <2>4. CASE ~(own \subseteq visible)
    <3>1. pc' = "await_clock" /\ lastRefresh + Timeout <= deadline /\ began + Timeout <= deadline + Refresh
      BY <2>1, <2>2, <2>4
    <3> QED BY <2>1, <2>2, <2>4, <3>1
  <2> QED BY <2>3, <2>4
<1>6. CASE AwaitCount
  <2>1. /\ pc = "await_count" /\ pc' = "await_clock" /\ Cardinality(visible) # Cardinality(own) /\ ~refused
        /\ UNCHANGED <<now, lastRefresh, stored, visible, own, began, deadline>>
    BY <1>6 DEF AwaitCount
  <2>2. stored = own /\ visible # own
    BY <2>1
  <2> QED BY <2>1, <2>2
<1>7. CASE AwaitSleep
  BY <1>7 DEF AwaitSleep
<1>8. CASE AwaitTimeout \/ Sweep
  BY <1>8 DEF AwaitTimeout, Sweep, SweepStart, SweepSearch, SweepCount, SweepReturn, SweepNotYet
<1>9. CASE Wake
  BY <1>9 DEF Wake
<1>10. CASE UNCHANGED vars
  BY <1>10 DEF vars
<1> QED BY <1>1, <1>2, <1>3, <1>4, <1>5, <1>6, <1>7, <1>8, <1>9, <1>10 DEF Next, Write, Await

LEMMA SweepInTimeNext ==
    ASSUME EnoughTime, TInv, Known, Caught, Clock, Dozing, AwaitInTime, SweepInTime, [Next]_vars
    PROVE  SweepInTime'
<1> SUFFICES ASSUME ~refused' PROVE SweepInTime'
  BY DEF SweepInTime
<1>0. ~refused
  BY DEF Next, RefreshIndex, Tick, Write, WriteStart, WriteBatch, WriteDone, WriteFail,
     Crash, Await, AwaitSearch, AwaitCount, AwaitSleep, AwaitTimeout, Sweep, SweepStart, SweepSearch,
     SweepCount, SweepReturn, SweepNotYet, Wake, DeleteIds, vars, waits, TInv, TypeOK
<1> USE <1>0, VisibilityAssumption
    DEF TInv, TypeOK, Clock, Dozing, SweepInTime, SweepPcs, Rounds, Asleep, Ended, index, client, waits
<1>1. CASE RefreshIndex BY <1>1 DEF RefreshIndex
<1>2. CASE Tick BY <1>2 DEF Tick
<1>3. CASE Write BY <1>3 DEF Write, WriteStart, WriteBatch, WriteDone, WriteFail, Crash
<1>4. CASE AwaitSearch \/ AwaitSleep
  BY <1>4 DEF AwaitSearch, AwaitSleep
<1>5. CASE AwaitCount
  <2>1. pc = "await_count" /\ pc' \in {"complete", "await_clock"} /\ UNCHANGED <<stored, visible>>
    BY <1>5 DEF AwaitCount
  <2>2. own # {}
    <3>1. PICK s \in Sections : TRUE
      OBVIOUS
    <3>2. <<attempt, s>> \in ChunksOf(attempt)
      BY DEF ChunksOf
    <3> QED BY <2>1, <3>2 DEF Caught, AwaitPcs
  <2>3. stored \subseteq visible
    BY <2>1, <2>2 DEF Caught, Writing, AwaitPcs
  <2> QED BY <2>1, <2>3
<1>6. CASE AwaitTimeout
  BY <1>6, NoAwaitTimeout
<1>7. CASE SweepStart
  <2>1. pc = "crashed" => began < lastRefresh
    BY <1>7 DEF SweepStart, EnoughTime
  <2> QED BY <1>7, <2>1 DEF SweepStart
<1>8. CASE SweepSearch
  <2>1. stored' = {} /\ ids' = visible
    BY <1>8 DEF SweepSearch, DeleteIds
  <2> QED BY <1>8, <2>1 DEF SweepSearch, DeleteIds
<1>9. CASE SweepCount
  BY <1>9 DEF SweepCount
<1>10. CASE SweepReturn
  BY <1>10 DEF SweepReturn
<1>11. CASE SweepNotYet
  <2>1. /\ pc' \in {"sweep_failed", "sweep_sleep"} /\ firstZero' \subseteq Nat
        /\ pc' = "sweep_failed" => now >= deadline
        /\ pc' = "sweep_sleep" => began' = now
        /\ UNCHANGED <<now, lastRefresh, stored, visible, deadline>>
    BY <1>11 DEF SweepNotYet
  <2>2. stored \subseteq visible /\ stored = {} /\ (visible # {} => lastRefresh + Timeout <= deadline + Latency)
    BY <1>11 DEF SweepNotYet
  <2>3. began <= now /\ now <= began + Latency
    BY <1>11 DEF SweepNotYet
  <2>4. CASE pc = "sweep_clock_some"
    <3>1. firstZero' = {} /\ began + Timeout <= deadline + Latency + Refresh
      BY <1>11, <2>4 DEF SweepNotYet
    <3>2. now < deadline
      BY <2>3, <3>1 DEF EnoughTime
    <3> QED BY <2>1, <2>2, <2>3, <3>1, <3>2
  <2>5. CASE pc = "sweep_clock_zero" /\ firstZero = {}
    <3>1. firstZero' = {now} /\ began + Timeout <= deadline + 2 * Latency + Refresh + Poll
      BY <1>11, <2>5 DEF SweepNotYet
    <3>2. now < deadline /\ now + Timeout <= deadline + 3 * Latency + Refresh + Poll
      BY <2>3, <3>1 DEF EnoughTime
    <3> QED BY <2>1, <2>2, <3>1, <3>2
  <2>6. CASE pc = "sweep_clock_zero" /\ firstZero # {}
    <3>1. firstZero' = firstZero /\ \A z \in firstZero : now - z < Gap
      BY <1>11, <2>6 DEF SweepNotYet
    <3>2. \A z \in firstZero : z + Timeout <= deadline + 3 * Latency + Refresh + Poll
      BY <2>6
    <3>3. now < deadline
      <4>1. PICK z \in firstZero : TRUE
        BY <2>6
      <4>2. z \in Nat /\ now - z < Gap /\ z + Timeout <= deadline + 3 * Latency + Refresh + Poll
        BY <3>1, <3>2
      <4> QED BY <4>2 DEF EnoughTime
    <3>4. pc' = "sweep_sleep" /\ firstZero' # {} /\ stored' = {} /\ UNCHANGED <<visible, lastRefresh, deadline>>
      BY <2>1, <2>2, <2>6, <3>1, <3>3
    <3>5. \A z \in firstZero' : z + Timeout <= deadline' + 3 * Latency + Refresh + Poll
      BY <3>1, <3>2, <3>4
    <3> QED BY <2>2, <3>4, <3>5
  <2> QED BY <1>11, <2>4, <2>5, <2>6 DEF SweepNotYet
<1>12. CASE Wake
  BY <1>12 DEF Wake
<1>13. CASE UNCHANGED vars
  BY <1>13 DEF vars
<1> QED BY <1>1, <1>2, <1>3, <1>4, <1>5, <1>6, <1>7, <1>8, <1>9, <1>10, <1>11, <1>12, <1>13 DEF Next,
           Await, Sweep

\* While the index takes every request neither wait times out, provided that a
\* refresh, the gap of the zero polls, one poll interval and three polls fit the
\* timeout: 60, 65, 5 and 3 times less than 5 seconds in 150, and that a death is
\* noticed only after a refresh (_await_generation, _delete_generation_chunks,
\* _visibility_timeout).
THEOREM WaitsFit ==
    ASSUME EnoughTime
    PROVE  Spec => []WaitsFitTheTimeout
<1>1. Init => Known /\ Caught /\ Clock /\ Dozing /\ AwaitInTime /\ SweepInTime
  BY VisibilityAssumption DEF Init, Known, Caught, Clock, Dozing, AwaitInTime, SweepInTime,
     Writing, AwaitPcs, SweepPcs, Rounds, Asleep
<1>2. SweepInTime => WaitsFitTheTimeout
  BY DEF SweepInTime, WaitsFitTheTimeout
<1> QED BY <1>1, <1>2, TypeInit, TypeNext, KnownNext, CaughtNext, ClockNext, DozingNext,
           AwaitInTimeNext, SweepInTimeNext, PTL DEF Spec
=============================================================================
