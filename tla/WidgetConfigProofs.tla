------------------------- MODULE WidgetConfigProofs -------------------------
(***************************************************************************)
(* Safety of WidgetConfig for any number of processes, threads and         *)
(* requests and any life of a cache entry: what a thread still holds in    *)
(* its hand is as recent as the life it would give it (HeldIsRecent), and  *)
(* so is what it stores, whatever was invalidated in between.              *)
(***************************************************************************)
EXTENDS WidgetConfig, TLAPS

USE ConfigAssumption

\* The type invariant in parts.
ConfigType == [content : Contents, status : Statuses, draft : Contents \cup {"none"},
               key : {"current", "previous", "gone"}]

RowType == config \in ConfigType /\ grace \in 0 .. Grace
RequestType ==
    /\ qpc \in [Requests -> {"idle", "write", "undraft", "clear", "incr", "over"}]
    /\ op \in [Requests -> Ops]
    /\ value \in [Requests -> Contents]
    /\ seen \in [Requests -> Statuses]
ReaderType ==
    /\ rpc \in [Readers -> {"idle", "clear", "look", "read", "store"}]
    /\ rview \in [Readers -> Views]
    /\ rleft \in [Readers -> 0 .. Ttl]
AgeType == age \in [Views -> 0 .. Ttl + 1]
CacheType == cache \in [Processes -> [view : Views, left : 0 .. Ttl]]
VersionType ==
    /\ version \in Nat
    /\ known \in [Processes -> Nat \cup {-1}]
    /\ \A p \in Processes : known[p] <= version

LEMMA TypeParts ==
    TypeOK <=> RowType /\ RequestType /\ ReaderType /\ AgeType /\ CacheType /\ VersionType
BY DEF TypeOK, RowType, RequestType, ReaderType, AgeType, CacheType, VersionType, ConfigType

LEMMA ViewIsView == NoView \in Views /\ (RowType => View \in Views)
BY DEF View, ViewOf, Views, RowType, ConfigType

LEMMA TypeInit == Init => TypeOK
<1> SUFFICES ASSUME Init PROVE TypeOK
  OBVIOUS
<1>1. RowType /\ RequestType
  BY DEF Init, RowType, RequestType, ConfigType, Ops, Statuses
<1>2. ReaderType /\ AgeType /\ CacheType /\ VersionType
  BY ViewIsView DEF Init, ReaderType, AgeType, CacheType, VersionType, NoEntry
<1> QED BY <1>1, <1>2, TypeParts

LEMMA RowNext == RowType /\ RequestType /\ [Next]_vars => RowType'
<1> SUFFICES ASSUME RowType /\ RequestType, [Next]_vars PROVE RowType'
  OBVIOUS
<1> USE DEF RowType, RequestType, ConfigType, Statuses, Goto, vars, readers, requests
<1>1. ASSUME NEW r \in Readers, Sync(r) \/ ClearStale(r) PROVE RowType'
  BY <1>1 DEF Sync, ClearStale
<1>2. ASSUME NEW r \in Readers, Look(r) \/ Read(r) \/ Store(r) PROVE RowType'
  BY <1>2 DEF Look, Read, Store
<1>3. ASSUME NEW q \in Requests, Begin(q) PROVE RowType'
  BY <1>3 DEF Begin
<1>4. ASSUME NEW q \in Requests, UpdateConfig(q) PROVE RowType'
  BY <1>4 DEF UpdateConfig
<1>5. ASSUME NEW q \in Requests, ClearDraft(q) \/ Stage(q) PROVE RowType'
  BY <1>5 DEF ClearDraft, Stage
<1>6. ASSUME NEW q \in Requests, Rotate(q) PROVE RowType'
  BY <1>6 DEF Rotate
<1>7. ASSUME NEW q \in Requests, Disable(q) PROVE RowType'
  BY <1>7 DEF Disable
<1>8. ASSUME NEW q \in Requests, Reload(q) \/ Incr(q) PROVE RowType'
  BY <1>8 DEF Reload, Incr
<1>9. CASE Tick
  BY <1>9 DEF Tick, Down
<1>10. CASE UNCHANGED vars
  BY <1>10
<1> QED BY <1>1, <1>2, <1>3, <1>4, <1>5, <1>6, <1>7, <1>8, <1>9, <1>10 DEF Next

LEMMA RequestNext == RowType /\ RequestType /\ [Next]_vars => RequestType'
<1> SUFFICES ASSUME RowType /\ RequestType, [Next]_vars PROVE RequestType'
  OBVIOUS
<1> USE DEF RequestType, RowType, ConfigType, Ops, Statuses, Goto, vars, readers, requests
<1>1. ASSUME NEW r \in Readers, Sync(r) \/ ClearStale(r) PROVE RequestType'
  BY <1>1 DEF Sync, ClearStale
<1>2. ASSUME NEW r \in Readers, Look(r) \/ Read(r) \/ Store(r) PROVE RequestType'
  BY <1>2 DEF Look, Read, Store
<1>3. ASSUME NEW q \in Requests, Begin(q) PROVE RequestType'
  BY <1>3 DEF Begin
<1>4. ASSUME NEW q \in Requests, UpdateConfig(q) PROVE RequestType'
  BY <1>4 DEF UpdateConfig
<1>5. ASSUME NEW q \in Requests, ClearDraft(q) \/ Stage(q) PROVE RequestType'
  BY <1>5 DEF ClearDraft, Stage
<1>6. ASSUME NEW q \in Requests, Rotate(q) PROVE RequestType'
  BY <1>6 DEF Rotate
<1>7. ASSUME NEW q \in Requests, Disable(q) PROVE RequestType'
  BY <1>7 DEF Disable
<1>8. ASSUME NEW q \in Requests, Reload(q) \/ Incr(q) PROVE RequestType'
  BY <1>8 DEF Reload, Incr
<1>9. CASE Tick
  BY <1>9 DEF Tick, Down
<1>10. CASE UNCHANGED vars
  BY <1>10
<1> QED BY <1>1, <1>2, <1>3, <1>4, <1>5, <1>6, <1>7, <1>8, <1>9, <1>10 DEF Next

LEMMA ReaderNext == RowType /\ ReaderType /\ [Next]_vars => ReaderType'
<1> SUFFICES ASSUME RowType /\ ReaderType, [Next]_vars PROVE ReaderType'
  OBVIOUS
<1>0. NoView \in Views /\ View \in Views
  BY ViewIsView
<1> USE <1>0
<1> USE DEF ReaderType, vars, readers, requests
<1>1. ASSUME NEW r \in Readers, Sync(r) PROVE ReaderType'
  BY <1>1 DEF Sync
<1>2. ASSUME NEW r \in Readers, ClearStale(r) PROVE ReaderType'
  BY <1>2 DEF ClearStale
<1>3. ASSUME NEW r \in Readers, Look(r) PROVE ReaderType'
  BY <1>3 DEF Look
<1>4. ASSUME NEW r \in Readers, Read(r) PROVE ReaderType'
  BY <1>4 DEF Read
<1>5. ASSUME NEW r \in Readers, Store(r) PROVE ReaderType'
  BY <1>5 DEF Store
<1>6. ASSUME NEW q \in Requests, Begin(q) PROVE ReaderType'
  BY <1>6 DEF Begin
<1>7. ASSUME NEW q \in Requests, UpdateConfig(q) PROVE ReaderType'
  BY <1>7 DEF UpdateConfig
<1>8. ASSUME NEW q \in Requests, ClearDraft(q) \/ Stage(q) PROVE ReaderType'
  BY <1>8 DEF ClearDraft, Stage
<1>9. ASSUME NEW q \in Requests, Rotate(q) PROVE ReaderType'
  BY <1>9 DEF Rotate
<1>10. ASSUME NEW q \in Requests, Disable(q) PROVE ReaderType'
  BY <1>10 DEF Disable
<1>11. ASSUME NEW q \in Requests, Reload(q) \/ Incr(q) PROVE ReaderType'
  BY <1>11 DEF Reload, Incr
<1>12. CASE Tick
  BY <1>12 DEF Tick, Down
<1>13. CASE UNCHANGED vars
  BY <1>13
<1> QED BY <1>1, <1>2, <1>3, <1>4, <1>5, <1>6, <1>7, <1>8, <1>9, <1>10, <1>11, <1>12, <1>13 DEF Next

LEMMA AgeNext == AgeType /\ [Next]_vars => AgeType'
<1> SUFFICES ASSUME AgeType, [Next]_vars PROVE AgeType'
  OBVIOUS
<1> USE DEF AgeType, Written, vars, readers, requests
<1>1. ASSUME NEW r \in Readers, Sync(r) \/ ClearStale(r) PROVE AgeType'
  BY <1>1 DEF Sync, ClearStale
<1>2. ASSUME NEW r \in Readers, Look(r) \/ Read(r) \/ Store(r) PROVE AgeType'
  BY <1>2 DEF Look, Read, Store
<1>3. ASSUME NEW q \in Requests, Begin(q) PROVE AgeType'
  BY <1>3 DEF Begin
<1>4. ASSUME NEW q \in Requests, UpdateConfig(q) PROVE AgeType'
  BY <1>4 DEF UpdateConfig
<1>5. ASSUME NEW q \in Requests, ClearDraft(q) \/ Stage(q) PROVE AgeType'
  BY <1>5 DEF ClearDraft, Stage
<1>6. ASSUME NEW q \in Requests, Rotate(q) PROVE AgeType'
  BY <1>6 DEF Rotate
<1>7. ASSUME NEW q \in Requests, Disable(q) PROVE AgeType'
  BY <1>7 DEF Disable
<1>8. ASSUME NEW q \in Requests, Reload(q) \/ Incr(q) PROVE AgeType'
  BY <1>8 DEF Reload, Incr
<1>9. CASE Tick
  BY <1>9 DEF Tick, Down
<1>10. CASE UNCHANGED vars
  BY <1>10
<1> QED BY <1>1, <1>2, <1>3, <1>4, <1>5, <1>6, <1>7, <1>8, <1>9, <1>10 DEF Next

LEMMA CacheNext == ReaderType /\ CacheType /\ [Next]_vars => CacheType'
<1> SUFFICES ASSUME ReaderType /\ CacheType, [Next]_vars PROVE CacheType'
  OBVIOUS
<1>0. NoView \in Views
  BY ViewIsView
<1> USE <1>0
<1> USE DEF CacheType, ReaderType, NoEntry, vars, readers, requests
<1>1. ASSUME NEW r \in Readers, Sync(r) PROVE CacheType'
  BY <1>1 DEF Sync
<1>2. ASSUME NEW r \in Readers, ClearStale(r) PROVE CacheType'
  BY <1>2 DEF ClearStale
<1>3. ASSUME NEW r \in Readers, Look(r) PROVE CacheType'
  BY <1>3 DEF Look
<1>4. ASSUME NEW r \in Readers, Read(r) PROVE CacheType'
  BY <1>4 DEF Read
<1>5. ASSUME NEW r \in Readers, Store(r) PROVE CacheType'
  BY <1>5 DEF Store
<1>6. ASSUME NEW q \in Requests, Begin(q) \/ UpdateConfig(q) \/ ClearDraft(q) \/ Stage(q)
             \/ Rotate(q) \/ Disable(q)
      PROVE  CacheType'
  BY <1>6 DEF Begin, UpdateConfig, ClearDraft, Stage, Rotate, Disable
<1>7. ASSUME NEW q \in Requests, Reload(q) PROVE CacheType'
  BY <1>7 DEF Reload
<1>8. ASSUME NEW q \in Requests, Incr(q) PROVE CacheType'
  BY <1>8 DEF Incr
<1>9. CASE Tick
  BY <1>9 DEF Tick, Down
<1>10. CASE UNCHANGED vars
  BY <1>10
<1> QED BY <1>1, <1>2, <1>3, <1>4, <1>5, <1>6, <1>7, <1>8, <1>9, <1>10 DEF Next

LEMMA VersionNext == VersionType /\ [Next]_vars => VersionType'
<1> SUFFICES ASSUME VersionType, [Next]_vars PROVE VersionType'
  OBVIOUS
<1> USE DEF VersionType, vars, readers, requests
<1>1. ASSUME NEW r \in Readers, Sync(r) PROVE VersionType'
  BY <1>1 DEF Sync
<1>2. ASSUME NEW r \in Readers, ClearStale(r) \/ Look(r) \/ Read(r) \/ Store(r) PROVE VersionType'
  BY <1>2 DEF ClearStale, Look, Read, Store
<1>3. ASSUME NEW q \in Requests, Begin(q) \/ UpdateConfig(q) \/ ClearDraft(q) \/ Stage(q)
             \/ Rotate(q) \/ Disable(q)
      PROVE  VersionType'
  BY <1>3 DEF Begin, UpdateConfig, ClearDraft, Stage, Rotate, Disable
<1>4. ASSUME NEW q \in Requests, Reload(q) PROVE VersionType'
  BY <1>4 DEF Reload
<1>5. ASSUME NEW q \in Requests, Incr(q) PROVE VersionType'
  BY <1>5 DEF Incr
<1>6. CASE Tick
  BY <1>6 DEF Tick, Down
<1>7. CASE UNCHANGED vars
  BY <1>7
<1> QED BY <1>1, <1>2, <1>3, <1>4, <1>5, <1>6, <1>7 DEF Next

LEMMA TypeNext == TypeOK /\ [Next]_vars => TypeOK'
<1> SUFFICES ASSUME TypeOK, [Next]_vars PROVE TypeOK'
  OBVIOUS
<1>1. (RowType /\ RequestType /\ ReaderType /\ AgeType /\ CacheType /\ VersionType)'
  BY TypeParts, RowNext, RequestNext, ReaderNext, AgeNext, CacheNext, VersionNext
<1> QED BY <1>1, TypeParts, PTL

\* Every variable keeps its type.
THEOREM ConfigTypeCorrect == Spec => []TypeOK
BY TypeInit, TypeNext, PTL DEF Spec
-----------------------------------------------------------------------------
ViewIsNew == age[View] = 0

HeldIsRecent ==
    \A r \in Readers : rpc[r] = "store" /\ rleft[r] > 0 => age[rview[r]] + rleft[r] <= Ttl

IInv == TypeOK /\ ViewIsNew /\ HeldIsRecent /\ CachedIsRecent

LEMMA InvInit == Init => IInv
<1> SUFFICES ASSUME Init PROVE IInv
  OBVIOUS
<1>1. TypeOK /\ View \in Views
  BY TypeInit, TypeParts, ViewIsView
<1>2. ViewIsNew /\ HeldIsRecent /\ CachedIsRecent
  BY <1>1 DEF Init, ViewIsNew, HeldIsRecent, CachedIsRecent, NoEntry
<1> QED BY <1>1, <1>2 DEF IInv

LEMMA ViewNext == TypeOK /\ ViewIsNew /\ [Next]_vars => ViewIsNew'
<1> SUFFICES ASSUME TypeOK /\ ViewIsNew, [Next]_vars PROVE ViewIsNew'
  OBVIOUS
<1>0. View \in Views /\ View' \in Views /\ AgeType /\ RowType
  <2>1. RowType /\ RowType' /\ AgeType
    BY TypeParts, RowNext
  <2> QED BY <2>1, ViewIsView DEF View, ViewOf, Views, RowType, ConfigType
<1> USE <1>0 DEF AgeType
<1> USE DEF ViewIsNew, View, Written, vars, readers, requests
<1>1. ASSUME NEW r \in Readers, Sync(r) \/ ClearStale(r) \/ Look(r) \/ Read(r) \/ Store(r) PROVE ViewIsNew'
  BY <1>1 DEF Sync, ClearStale, Look, Read, Store
<1>2. ASSUME NEW q \in Requests, Begin(q) \/ Reload(q) \/ Incr(q) PROVE ViewIsNew'
  BY <1>2 DEF Begin, Reload, Incr
<1>3. ASSUME NEW q \in Requests, UpdateConfig(q) PROVE ViewIsNew'
  BY <1>3 DEF UpdateConfig
<1>4. ASSUME NEW q \in Requests, ClearDraft(q) \/ Stage(q) PROVE ViewIsNew'
  BY <1>4 DEF ClearDraft, Stage, ViewOf, RowType, ConfigType
<1>5. ASSUME NEW q \in Requests, Rotate(q) PROVE ViewIsNew'
  BY <1>5 DEF Rotate
<1>6. ASSUME NEW q \in Requests, Disable(q) PROVE ViewIsNew'
  BY <1>6 DEF Disable
<1>7. CASE Tick
  BY <1>7 DEF Tick
<1>8. CASE UNCHANGED vars
  BY <1>8
<1> QED BY <1>1, <1>2, <1>3, <1>4, <1>5, <1>6, <1>7, <1>8 DEF Next

LEMMA HeldNext == TypeOK /\ ViewIsNew /\ HeldIsRecent /\ [Next]_vars => HeldIsRecent'
<1> SUFFICES ASSUME TypeOK /\ ViewIsNew /\ HeldIsRecent, [Next]_vars PROVE HeldIsRecent'
  OBVIOUS
<1>0. View \in Views /\ AgeType /\ ReaderType /\ CacheType
  BY TypeParts, ViewIsView
<1> USE <1>0 DEF AgeType, ReaderType, CacheType
<1> USE DEF HeldIsRecent, ViewIsNew, Written, vars, readers, requests
<1>1. ASSUME NEW r \in Readers, Sync(r) \/ ClearStale(r) PROVE HeldIsRecent'
  BY <1>1 DEF Sync, ClearStale
<1>2. ASSUME NEW r \in Readers, Look(r) PROVE HeldIsRecent'
  BY <1>2 DEF Look
<1>3. ASSUME NEW r \in Readers, Read(r) PROVE HeldIsRecent'
  BY <1>3 DEF Read
<1>4. ASSUME NEW r \in Readers, Store(r) PROVE HeldIsRecent'
  BY <1>4 DEF Store
<1>5. ASSUME NEW q \in Requests, Begin(q) \/ ClearDraft(q) \/ Stage(q) \/ Reload(q) \/ Incr(q)
      PROVE  HeldIsRecent'
  BY <1>5 DEF Begin, ClearDraft, Stage, Reload, Incr
<1>6. ASSUME NEW q \in Requests, UpdateConfig(q) PROVE HeldIsRecent'
  BY <1>6 DEF UpdateConfig
<1>7. ASSUME NEW q \in Requests, Rotate(q) PROVE HeldIsRecent'
  BY <1>7 DEF Rotate
<1>8. ASSUME NEW q \in Requests, Disable(q) PROVE HeldIsRecent'
  BY <1>8 DEF Disable
<1>9. CASE Tick
  BY <1>9 DEF Tick, Down
<1>10. CASE UNCHANGED vars
  BY <1>10
<1> QED BY <1>1, <1>2, <1>3, <1>4, <1>5, <1>6, <1>7, <1>8, <1>9, <1>10 DEF Next

LEMMA CachedNext == TypeOK /\ HeldIsRecent /\ CachedIsRecent /\ [Next]_vars => CachedIsRecent'
<1> SUFFICES ASSUME TypeOK /\ HeldIsRecent /\ CachedIsRecent, [Next]_vars PROVE CachedIsRecent'
  OBVIOUS
<1>0. View \in Views /\ AgeType /\ ReaderType /\ CacheType
  BY TypeParts, ViewIsView
<1> USE <1>0 DEF AgeType, ReaderType, CacheType
<1> USE DEF HeldIsRecent, CachedIsRecent, NoEntry, Written, vars, readers, requests
<1>1. ASSUME NEW r \in Readers, Sync(r) \/ Look(r) \/ Read(r) PROVE CachedIsRecent'
  BY <1>1 DEF Sync, Look, Read
<1>2. ASSUME NEW r \in Readers, ClearStale(r) PROVE CachedIsRecent'
  BY <1>2 DEF ClearStale
<1>3. ASSUME NEW r \in Readers, Store(r) PROVE CachedIsRecent'
  BY <1>3 DEF Store
<1>4. ASSUME NEW q \in Requests, Begin(q) \/ ClearDraft(q) \/ Stage(q) \/ Incr(q) PROVE CachedIsRecent'
  BY <1>4 DEF Begin, ClearDraft, Stage, Incr
<1>5. ASSUME NEW q \in Requests, Reload(q) PROVE CachedIsRecent'
  BY <1>5 DEF Reload
<1>6. ASSUME NEW q \in Requests, UpdateConfig(q) PROVE CachedIsRecent'
  BY <1>6 DEF UpdateConfig
<1>7. ASSUME NEW q \in Requests, Rotate(q) PROVE CachedIsRecent'
  BY <1>7 DEF Rotate
<1>8. ASSUME NEW q \in Requests, Disable(q) PROVE CachedIsRecent'
  BY <1>8 DEF Disable
<1>9. CASE Tick
  <2> SUFFICES ASSUME NEW p \in Processes, cache'[p].left > 0
               PROVE  age'[cache'[p].view] + cache'[p].left <= Ttl
    BY DEF CachedIsRecent
  <2>1. cache[p] \in [view : Views, left : 0 .. Ttl]
    OBVIOUS
  <2>2. cache'[p] = [cache[p] EXCEPT !.left = Down(@)]
    BY <1>9 DEF Tick
  <2>3. cache'[p].view = cache[p].view /\ cache'[p].left = Down(cache[p].left)
    BY <2>1, <2>2
  <2>4. cache[p].left > 0 /\ cache'[p].left = cache[p].left - 1
    BY <2>1, <2>3 DEF Down
  <2>5. age'[cache[p].view] <= age[cache[p].view] + 1
    BY <1>9, <2>1 DEF Tick
  <2> QED BY <2>1, <2>3, <2>4, <2>5, <1>9 DEF Tick
<1>10. CASE UNCHANGED vars
  BY <1>10
<1> QED BY <1>1, <1>2, <1>3, <1>4, <1>5, <1>6, <1>7, <1>8, <1>9, <1>10 DEF Next

LEMMA InvNext == IInv /\ [Next]_vars => IInv'
BY TypeNext, ViewNext, HeldNext, CachedNext DEF IInv

LEMMA ConfigInvariant == Spec => []IInv
BY InvInit, InvNext, PTL DEF Spec

\* What a process answers from its cache was true within the life of an entry.
THEOREM CachedIsRecentHolds == Spec => []CachedIsRecent
<1>1. IInv => CachedIsRecent
  BY DEF IInv
<1> QED BY <1>1, ConfigInvariant, PTL

\* A widget that was disabled stays so.
THEOREM DisabledIsFinalHolds == Spec => DisabledIsFinal
<1>1. TypeOK /\ [Next]_vars => [config.status = "disabled" => config'.status = "disabled"]_vars
  <2> SUFFICES ASSUME RowType, Next PROVE config.status = "disabled" => config'.status = "disabled"
    BY TypeParts DEF vars, readers, requests
  <2> USE DEF RowType, ConfigType, readers, requests
  <2>1. ASSUME NEW r \in Readers, Sync(r) \/ ClearStale(r) \/ Look(r) \/ Read(r) \/ Store(r)
        PROVE  config' = config
    BY <2>1 DEF Sync, ClearStale, Look, Read, Store
  <2>2. ASSUME NEW q \in Requests, Begin(q) \/ Reload(q) \/ Incr(q)
        PROVE  config' = config
    BY <2>2 DEF Begin, Reload, Incr
  <2>3. ASSUME NEW q \in Requests,
               UpdateConfig(q) \/ ClearDraft(q) \/ Stage(q) \/ Rotate(q) \/ Disable(q)
        PROVE  config.status = "disabled" => config'.status = "disabled"
    BY <2>3 DEF UpdateConfig, ClearDraft, Stage, Rotate, Disable
  <2>4. Tick => config' = config
    BY DEF Tick
  <2> QED BY <2>1, <2>2, <2>3, <2>4 DEF Next
<1> QED BY <1>1, ConfigTypeCorrect, PTL DEF Spec, DisabledIsFinal
=============================================================================
