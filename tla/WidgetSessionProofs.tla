------------------------- MODULE WidgetSessionProofs -------------------------
(***************************************************************************)
(* Safety of WidgetSession for any number of requests and token pairs and  *)
(* any durations.  A refresh revokes before it issues (Retired), so a pair *)
(* with a successor is refused while its access token lives; and only a    *)
(* chat that passed its check before the closing still writes (Answering). *)
(* While no request lasts longer than transcripts are kept, a resume token *)
(* that was used is remembered until its session is too old (Remembered,   *)
(* FirstRow).                                                              *)
(***************************************************************************)
EXTENDS WidgetSession, TLAPS

USE SessionAssumption

\* The type invariant in parts.
Pair == [iat : Nat, from : {"start", "resume", "refresh"}, of : 0 .. MaxPairs]

RowType == now \in Nat /\ row \in Row /\ row.expires <= now + SessionTtl
IssuedType == issued \in Seq(Pair) /\ Len(issued) <= MaxPairs
StoreType == accessUntil \in [Pairs -> Nat] /\ resumeUntil \in [Pairs -> Nat]
RequestType ==
    /\ pc \in [Requests -> Labels]
    /\ kind \in [Requests -> Kinds]
    /\ pair \in [Requests -> Pairs]
    /\ since \in [Requests -> Nat]

LEMMA TypeParts == TypeOK <=> RowType /\ IssuedType /\ StoreType /\ RequestType
BY DEF TypeOK, RowType, IssuedType, StoreType, RequestType, Pair

\* What the statements of the program make of a row is a row.
LEMMA MarkedIsRow ==
    ASSUME NEW x \in Row, x.kept, NEW y,
           y = [x EXCEPT !.bound = TRUE] \/ y = [x EXCEPT !.consented = TRUE]
    PROVE  y \in Row /\ y.expires = x.expires /\ y.ended = x.ended /\ y.kept
BY DEF Row

LEMMA InsertedIsRow ==
    ASSUME now \in Nat, NEW y,
           y = [NewRow EXCEPT !.bound = TRUE] \/ y = [NewRow EXCEPT !.consented = TRUE] \/ y = NewRow
    PROVE  y \in Row /\ y.expires = now + SessionTtl /\ y.ended = 0 /\ y.kept
<1>1. NewRow \in Row /\ NewRow.expires = now + SessionTtl /\ NewRow.ended = 0 /\ NewRow.kept
  BY DEF NewRow, Row
<1> QED BY <1>1, MarkedIsRow

LEMMA NoRowIsRow == NoRow \in Row /\ NoRow.expires = 0 /\ ~NoRow.kept
BY DEF NoRow, Row

LEMMA RowHas == ASSUME NEW x \in Row PROVE x.expires \in Nat /\ x.ended \in Nat /\ x.kept \in BOOLEAN
BY DEF Row

LEMMA TouchedIsRow ==
    ASSUME NEW x \in Row, NEW m \in Nat, NEW y, y = [x EXCEPT !.expires = m]
    PROVE  y \in Row /\ y.expires = m /\ y.ended = x.ended /\ y.kept = x.kept
BY DEF Row

\* The row after the UPDATE of validate_and_touch_session by r.
Extended(r) == \E t \in since[r] .. now : row' = [row EXCEPT !.expires = t + SessionTtl]

LEMMA ExtendIs ==
    ASSUME NEW r \in Requests, Extend(r)
    PROVE  now' = now /\ (row' = row \/ (row.kept /\ Extended(r))) /\ pc[r] = "extend"
BY DEF Extend, Extended

LEMMA ExtendedIsRow ==
    ASSUME RowType, RequestType, NEW r \in Requests, Extended(r)
    PROVE  /\ row' \in Row /\ row'.ended = row.ended /\ row'.kept = row.kept
           /\ row'.bound = row.bound /\ row'.created = row.created
           /\ row'.expires \in Nat
           /\ since[r] <= row'.expires /\ row'.expires <= now + SessionTtl
<1>1. PICK t \in since[r] .. now : row' = [row EXCEPT !.expires = t + SessionTtl]
  BY DEF Extended
<1>2. t + SessionTtl \in Nat /\ since[r] <= t + SessionTtl /\ t + SessionTtl <= now + SessionTtl
  BY <1>1 DEF RowType, RequestType
<1> DEFINE m == t + SessionTtl
<1> HIDE DEF m
<1>3. row' = [row EXCEPT !.expires = m] /\ m \in Nat /\ since[r] <= m /\ m <= now + SessionTtl
  BY <1>1, <1>2 DEF m
<1> QED BY <1>3 DEF RowType, Row

LEMMA TypeInit == Init => TypeOK
<1> SUFFICES ASSUME Init PROVE TypeOK
  OBVIOUS
<1>1. RowType
  <2>1. now = 1 /\ row = [NewRow EXCEPT !.bound = TRUE]
    BY DEF Init
  <2>2. row \in Row /\ row.expires = now + SessionTtl
    BY <2>1, InsertedIsRow
  <2> QED BY <2>1, <2>2 DEF RowType
<1>2. IssuedType
  BY DEF Init, IssuedType, Pair
<1>3. StoreType /\ RequestType
  BY DEF Init, StoreType, RequestType, Labels, Kinds, Pairs
<1> QED BY <1>1, <1>2, <1>3, TypeParts
-----------------------------------------------------------------------------
\* The kind of request a step belongs to, and the pair it carries.
Steps ==
    \A r \in Requests :
        /\ pc[r] \in {"check", "consume", "register"} => kind[r] = "resume"
        /\ pc[r] = "revoke" => kind[r] = "refresh"
        /\ pc[r] = "issue" => kind[r] \in {"resume", "refresh"}
        /\ pc[r] \in {"touch", "extend", "consent", "answer"} => kind[r] = "chat"

PairsExist ==
    /\ \A r \in Requests : Busy(r) => pair[r] \in 1 .. Len(issued)
    /\ \A n \in 1 .. Len(issued) : issued[n].from = "refresh" => issued[n].of \in 1 .. Len(issued)

LEMMA PairHas ==
    ASSUME IssuedType, NEW k \in 1 .. Len(issued)
    PROVE  /\ issued[k].iat \in Nat /\ issued[k].of \in 0 .. MaxPairs
           /\ AccessExp(k) \in Nat /\ ResumeExp(k) \in Nat
<1>1. issued[k] \in Pair
  BY DEF IssuedType
<1>2. issued[k].iat \in Nat /\ issued[k].of \in 0 .. MaxPairs
  BY <1>1 DEF Pair
<1> QED BY <1>2 DEF AccessExp, ResumeExp

LEMMA KeyIsNat == ASSUME now \in Nat, NEW e \in Nat PROVE KeyUntil(e) \in Nat /\ KeyUntil(e) >= e
BY DEF KeyUntil

\* What Issue appends, and that it leaves the earlier pairs alone.
LEMMA IssueAppends ==
    ASSUME RowType, RequestType, IssuedType, Steps, NEW r \in Requests, Issue(r)
    PROVE  /\ IssuedType'
           /\ Len(issued') = Len(issued) + 1
           /\ \A k \in 1 .. Len(issued) : issued'[k] = issued[k]
           /\ issued'[Len(issued) + 1].from = kind[r]
           /\ issued'[Len(issued) + 1].of = pair[r]
<1> DEFINE p == [iat |-> now, from |-> kind[r], of |-> pair[r]]
<1>1. kind[r] \in {"resume", "refresh"} /\ pair[r] \in 1 .. MaxPairs /\ now \in Nat
  BY DEF Issue, Steps, RequestType, RowType, Pairs
<1>2. p \in Pair /\ p.from = kind[r] /\ p.of = pair[r]
  BY <1>1 DEF Pair
<1>3. issued' = Append(issued, p) /\ issued \in Seq(Pair) /\ Len(issued) < MaxPairs
  BY DEF Issue, IssuedType
<1> HIDE DEF p
<1>4. issued' \in Seq(Pair) /\ Len(issued') = Len(issued) + 1
  BY <1>2, <1>3
<1>5. \A k \in 1 .. Len(issued) : issued'[k] = issued[k]
  BY <1>2, <1>3
<1>6. issued'[Len(issued) + 1] = p
  BY <1>2, <1>3
<1>7. IssuedType'
  BY <1>3, <1>4 DEF IssuedType
<1> QED BY <1>2, <1>4, <1>5, <1>6, <1>7

LEMMA RowNext == RowType /\ RequestType /\ [Next]_vars => RowType'
<1> SUFFICES ASSUME RowType, RequestType, [Next]_vars PROVE RowType'
  OBVIOUS
<1>1. /\ now \in Nat /\ row \in Row /\ row.expires <= now + SessionTtl
      /\ row.expires \in Nat /\ row.ended \in Nat /\ row.kept \in BOOLEAN
      /\ now + SessionTtl \in Nat
  BY RowHas DEF RowType
<1>2. ASSUME UNCHANGED <<now, row>> PROVE RowType'
  BY <1>1, <1>2 DEF RowType
<1>3. ASSUME NEW r \in Requests, Receive(r) \/ Fail(r) \/ Issue(r) \/ CanResume(r) \/ Consume(r)
             \/ Revoke(r) \/ Touch(r) \/ CheckConsent(r)
      PROVE  RowType'
  BY <1>2, <1>3 DEF Receive, Fail, Issue, CanResume, Consume, Revoke, Touch, CheckConsent
<1>4. ASSUME now' = now,
               row' = [NewRow EXCEPT !.bound = TRUE] \/ row' = [NewRow EXCEPT !.consented = TRUE] \/ row' = NewRow
        PROVE  RowType'
  BY <1>1, <1>4, InsertedIsRow DEF RowType
<1>5. ASSUME now' = now, row' = [row EXCEPT !.expires = now + SessionTtl] PROVE RowType'
  BY <1>1, <1>5, TouchedIsRow DEF RowType
<1>6. ASSUME now' = now, row' = [row EXCEPT !.consented = TRUE, !.expires = now + SessionTtl] PROVE RowType'
  <2>1. row' \in Row /\ row'.expires = now + SessionTtl
    BY <1>1, <1>6 DEF Row
  <2> QED BY <1>1, <1>6, <2>1 DEF RowType
<1>7. ASSUME NEW r \in Requests, Register(r) PROVE RowType'
  <2>1. CASE row' = [NewRow EXCEPT !.bound = TRUE]
    BY <1>4, <1>7, <2>1 DEF Register
  <2>2. CASE row' = [row EXCEPT !.expires = now + SessionTtl]
    BY <1>5, <1>7, <2>2 DEF Register
  <2>3. CASE row' = row
    BY <1>2, <1>7, <2>3 DEF Register
  <2> QED BY <1>7, <2>1, <2>2, <2>3 DEF Register
<1>8. ASSUME NEW r \in Requests, Record(r) PROVE RowType'
  <2>1. CASE row' = [NewRow EXCEPT !.consented = TRUE]
    BY <1>4, <1>8, <2>1 DEF Record
  <2>2. CASE row' = [row EXCEPT !.consented = TRUE, !.expires = now + SessionTtl]
    BY <1>6, <1>8, <2>2 DEF Record
  <2>3. CASE row' = row
    BY <1>2, <1>8, <2>3 DEF Record
  <2> QED BY <1>8, <2>1, <2>2, <2>3 DEF Record
<1>9. ASSUME NEW r \in Requests, Extend(r) \/ AppendTurn(r) PROVE RowType'
  <2>1. CASE Extend(r)
    <3>1. now' = now /\ (row' = row \/ Extended(r))
      BY <2>1, ExtendIs
    <3> QED BY <1>1, <1>2, <3>1, ExtendedIsRow DEF RowType
  <2>2. CASE AppendTurn(r)
    BY <1>2, <1>4, <1>5, <2>2 DEF AppendTurn
  <2> QED BY <1>9, <2>1, <2>2
<1>10. ASSUME NEW r \in Requests, Close(r) PROVE RowType'
  <2>1. CASE ~row.kept
    BY <1>2, <1>10, <2>1 DEF Close
  <2>2. CASE row.kept
    <3> DEFINE e == IF row.ended = 0 THEN now ELSE row.ended
               m == IF row.expires < now THEN row.expires ELSE now
    <3>1. e \in Nat /\ m \in Nat /\ m <= now + SessionTtl
      BY <1>1
    <3>2. row' = [row EXCEPT !.ended = e, !.expires = m] /\ now' = now
      BY <1>10, <2>2 DEF Close
    <3> HIDE DEF e, m
    <3>3. row' \in Row /\ row'.expires = m
      BY <1>1, <3>1, <3>2 DEF Row
    <3> QED BY <1>1, <3>1, <3>2, <3>3 DEF RowType
  <2> QED BY <2>1, <2>2
<1>11. CASE Cleanup
  BY <1>1, <1>11, NoRowIsRow DEF Cleanup, RowType
<1>12. CASE Tick
  BY <1>1, <1>12 DEF Tick, RowType
<1>13. CASE UNCHANGED vars
  BY <1>2, <1>13 DEF vars
<1> QED BY <1>3, <1>7, <1>8, <1>9, <1>10, <1>11, <1>12, <1>13 DEF Next

LEMMA IssuedNext == RowType /\ RequestType /\ IssuedType /\ Steps /\ [Next]_vars => IssuedType'
<1> SUFFICES ASSUME RowType /\ RequestType /\ IssuedType /\ Steps, [Next]_vars PROVE IssuedType'
  OBVIOUS
<1> USE DEF IssuedType, RowType, RequestType, Pair, Pairs, Kinds, vars, locals
<1>1. ASSUME NEW r \in Requests, Receive(r) \/ Fail(r) \/ CanResume(r) \/ Consume(r) \/ Revoke(r)
             \/ Touch(r) \/ CheckConsent(r) \/ Register(r) \/ Record(r) \/ Extend(r)
             \/ AppendTurn(r) \/ Close(r)
      PROVE  IssuedType'
  BY <1>1 DEF Receive, Fail, CanResume, Consume, Revoke, Touch, CheckConsent, Register, Record, Extend,
     AppendTurn, Close
<1>2. ASSUME NEW r \in Requests, Issue(r) PROVE IssuedType'
  BY <1>2, IssueAppends
<1>3. CASE Cleanup
  BY <1>3 DEF Cleanup
<1>4. CASE Tick
  BY <1>4 DEF Tick
<1>5. CASE UNCHANGED vars
  BY <1>5
<1> QED BY <1>1, <1>2, <1>3, <1>4, <1>5 DEF Next

LEMMA StoreNext == RowType /\ IssuedType /\ RequestType /\ StoreType /\ PairsExist /\ [Next]_vars => StoreType'
<1> SUFFICES ASSUME RowType /\ IssuedType /\ RequestType /\ StoreType /\ PairsExist, [Next]_vars
             PROVE  StoreType'
  OBVIOUS
<1> USE DEF StoreType, vars, locals
<1>1. ASSUME NEW r \in Requests, Receive(r) \/ Fail(r) \/ Issue(r) \/ CanResume(r) \/ Touch(r)
             \/ CheckConsent(r) \/ Register(r) \/ Record(r) \/ Extend(r) \/ AppendTurn(r) \/ Close(r)
      PROVE  StoreType'
  BY <1>1 DEF Receive, Fail, Issue, CanResume, Touch, CheckConsent, Register, Record, Extend, AppendTurn,
     Close
<1>2. ASSUME NEW r \in Requests, Consume(r) PROVE StoreType'
  <2>1. KeyUntil(ResumeExp(pair[r])) \in Nat
    BY <1>2, PairHas, KeyIsNat DEF Consume, PairsExist, Busy, RowType
  <2> QED BY <1>2, <2>1 DEF Consume, StoreType
<1>3. ASSUME NEW r \in Requests, Revoke(r) PROVE StoreType'
  <2>1. KeyUntil(AccessExp(pair[r])) \in Nat
    BY <1>3, PairHas, KeyIsNat DEF Revoke, PairsExist, Busy, RowType
  <2> QED BY <1>3, <2>1 DEF Revoke, StoreType
<1>4. CASE Cleanup
  BY <1>4 DEF Cleanup
<1>5. CASE Tick
  BY <1>5 DEF Tick
<1>6. CASE UNCHANGED vars
  BY <1>6
<1> QED BY <1>1, <1>2, <1>3, <1>4, <1>5, <1>6 DEF Next

LEMMA RequestNext == RowType /\ IssuedType /\ RequestType /\ [Next]_vars => RequestType'
<1> SUFFICES ASSUME RowType /\ IssuedType /\ RequestType, [Next]_vars PROVE RequestType'
  OBVIOUS
<1> USE DEF RequestType, RowType, IssuedType, Labels, Kinds, Pairs, FirstStep, Goto, vars, locals
<1>1. ASSUME NEW r \in Requests, Receive(r) PROVE RequestType'
  BY <1>1 DEF Receive
<1>2. ASSUME NEW r \in Requests, Fail(r) \/ Issue(r) PROVE RequestType'
  BY <1>2 DEF Fail, Issue
<1>3. ASSUME NEW r \in Requests, CanResume(r) \/ Touch(r) \/ CheckConsent(r) PROVE RequestType'
  BY <1>3 DEF CanResume, Touch, CheckConsent
<1>4. ASSUME NEW r \in Requests, Consume(r) PROVE RequestType'
  BY <1>4 DEF Consume
<1>5. ASSUME NEW r \in Requests, Register(r) \/ Revoke(r) \/ Record(r) \/ Extend(r)
             \/ AppendTurn(r) \/ Close(r)
      PROVE  RequestType'
  BY <1>5 DEF Register, Revoke, Record, Extend, AppendTurn, Close
<1>6. CASE Cleanup
  BY <1>6 DEF Cleanup
<1>7. CASE Tick
  BY <1>7 DEF Tick
<1>8. CASE UNCHANGED vars
  BY <1>8
<1> QED BY <1>1, <1>2, <1>3, <1>4, <1>5, <1>6, <1>7, <1>8 DEF Next

LEMMA StepsNext == RequestType /\ Steps /\ [Next]_vars => Steps'
<1> SUFFICES ASSUME RequestType /\ Steps, [Next]_vars PROVE Steps'
  OBVIOUS
<1> USE DEF Steps, RequestType, FirstStep, Kinds, Goto, vars, locals
<1>1. ASSUME NEW r \in Requests, Receive(r) PROVE Steps'
  BY <1>1 DEF Receive
<1>2. ASSUME NEW r \in Requests, Fail(r) \/ Issue(r) PROVE Steps'
  BY <1>2 DEF Fail, Issue
<1>3. ASSUME NEW r \in Requests, CanResume(r) \/ Touch(r) \/ CheckConsent(r) PROVE Steps'
  BY <1>3 DEF CanResume, Touch, CheckConsent
<1>4. ASSUME NEW r \in Requests, Consume(r) PROVE Steps'
  BY <1>4 DEF Consume
<1>5. ASSUME NEW r \in Requests, Register(r) \/ Revoke(r) PROVE Steps'
  BY <1>5 DEF Register, Revoke
<1>6. ASSUME NEW r \in Requests, Record(r) \/ Extend(r) \/ AppendTurn(r) \/ Close(r) PROVE Steps'
  BY <1>6 DEF Record, Extend, AppendTurn, Close
<1>7. CASE Cleanup
  BY <1>7 DEF Cleanup
<1>8. CASE Tick
  BY <1>8 DEF Tick
<1>9. CASE UNCHANGED vars
  BY <1>9
<1> QED BY <1>1, <1>2, <1>3, <1>4, <1>5, <1>6, <1>7, <1>8, <1>9 DEF Next

LEMMA PairsNext == RowType /\ IssuedType /\ RequestType /\ Steps /\ PairsExist /\ [Next]_vars => PairsExist'
<1> SUFFICES ASSUME RowType /\ IssuedType /\ RequestType /\ Steps /\ PairsExist, [Next]_vars PROVE PairsExist'
  OBVIOUS
<1> USE DEF PairsExist, RequestType, Busy, Goto, vars, locals
<1>1. ASSUME NEW r \in Requests, Receive(r) PROVE PairsExist'
  BY <1>1 DEF Receive
<1>2. ASSUME NEW r \in Requests, Fail(r) PROVE PairsExist'
  BY <1>2 DEF Fail
<1>3. ASSUME NEW r \in Requests, Issue(r) PROVE PairsExist'
  <2>1. pair[r] \in 1 .. Len(issued) /\ Len(issued) \in Nat
    <3>1. Busy(r)
      BY <1>3 DEF Issue
    <3>2. pair[r] \in 1 .. Len(issued)
      BY <3>1
    <3>3. Len(issued) \in Nat
      BY DEF IssuedType
    <3> QED BY <3>2, <3>3
  <2>2. \A q \in Requests : Busy(q)' => pair'[q] \in 1 .. Len(issued')
    <3> SUFFICES ASSUME NEW q \in Requests, Busy(q)' PROVE pair'[q] \in 1 .. Len(issued')
      OBVIOUS
    <3>1. pair' = pair /\ Busy(q)
      BY <1>3 DEF Issue, Busy, Goto, locals, RequestType
    <3>2. pair[q] \in 1 .. Len(issued)
      BY <3>1 DEF PairsExist
    <3>3. Len(issued') = Len(issued) + 1
      BY <1>3, IssueAppends
    <3> QED BY <2>1, <3>1, <3>2, <3>3
  <2>3. \A n \in 1 .. Len(issued') : issued'[n].from = "refresh" => issued'[n].of \in 1 .. Len(issued')
    <3> SUFFICES ASSUME NEW n \in 1 .. Len(issued'), issued'[n].from = "refresh"
                 PROVE  issued'[n].of \in 1 .. Len(issued')
      OBVIOUS
    <3>1. CASE n \in 1 .. Len(issued)
      <4>1. issued'[n] = issued[n]
        BY <1>3, <3>1, IssueAppends
      <4>2. issued[n].of \in 1 .. Len(issued)
        BY <3>1, <4>1 DEF PairsExist
      <4> QED BY <1>3, <2>1, <4>1, <4>2, IssueAppends
    <3>2. CASE n = Len(issued) + 1
      <4>1. issued'[n].of = pair[r]
        BY <1>3, <3>2, IssueAppends
      <4> QED BY <1>3, <2>1, <4>1, IssueAppends
    <3> QED BY <1>3, <2>1, <3>1, <3>2, IssueAppends
  <2> QED BY <2>2, <2>3 DEF PairsExist
<1>4. ASSUME NEW r \in Requests, CanResume(r) \/ Touch(r) \/ CheckConsent(r) PROVE PairsExist'
  BY <1>4 DEF CanResume, Touch, CheckConsent
<1>5. ASSUME NEW r \in Requests, Consume(r) PROVE PairsExist'
  BY <1>5 DEF Consume
<1>6. ASSUME NEW r \in Requests, Register(r) \/ Revoke(r) PROVE PairsExist'
  BY <1>6 DEF Register, Revoke
<1>7. ASSUME NEW r \in Requests, Record(r) \/ Extend(r) \/ AppendTurn(r) \/ Close(r) PROVE PairsExist'
  BY <1>7 DEF Record, Extend, AppendTurn, Close
<1>8. CASE Cleanup
  BY <1>8 DEF Cleanup
<1>9. CASE Tick
  BY <1>9 DEF Tick
<1>10. CASE UNCHANGED vars
  BY <1>10
<1> QED BY <1>1, <1>2, <1>3, <1>4, <1>5, <1>6, <1>7, <1>8, <1>9, <1>10 DEF Next
-----------------------------------------------------------------------------
(* A refresh revokes before it issues *)

IsRetired(k) == accessUntil[k] >= AccessExp(k)

Retired ==
    /\ \A r \in Requests : pc[r] = "issue" /\ kind[r] = "refresh" => IsRetired(pair[r])
    /\ \A n \in 1 .. Len(issued) : issued[n].from = "refresh" => IsRetired(issued[n].of)

\* A pair keeps its expiry, and once its access token is revoked it stays so.
LEMMA RetiredStays ==
    ASSUME TypeOK, Steps, PairsExist, [Next]_vars, NEW k \in 1 .. Len(issued)
    PROVE  issued'[k] = issued[k] /\ (IsRetired(k) => IsRetired(k)')
<1> USE TypeParts
<1>1. ASSUME UNCHANGED <<issued, accessUntil>> PROVE issued'[k] = issued[k] /\ (IsRetired(k) => IsRetired(k)')
  BY <1>1 DEF IsRetired, AccessExp
<1>2. ASSUME NEW r \in Requests, Issue(r) PROVE issued'[k] = issued[k] /\ (IsRetired(k) => IsRetired(k)')
  <2>1. issued'[k] = issued[k]
    BY <1>2, IssueAppends
  <2> QED BY <1>2, <2>1 DEF Issue, IsRetired, AccessExp
<1>3. ASSUME NEW r \in Requests, Revoke(r) PROVE issued'[k] = issued[k] /\ (IsRetired(k) => IsRetired(k)')
  <2>1. issued' = issued /\ AccessExp(k)' = AccessExp(k)
    BY <1>3 DEF Revoke, AccessExp
  <2>2. CASE k = pair[r]
    <3>1. KeyUntil(AccessExp(k)) >= AccessExp(k)
      BY PairHas, KeyIsNat DEF RowType
    <3>2. accessUntil'[k] = KeyUntil(AccessExp(k))
      BY <1>3, <2>2 DEF Revoke, StoreType, RequestType
    <3> QED BY <2>1, <3>1, <3>2 DEF IsRetired
  <2>3. CASE k # pair[r]
    <3>1. accessUntil'[k] = accessUntil[k]
      BY <1>3, <2>3 DEF Revoke, StoreType
    <3> QED BY <2>1, <3>1 DEF IsRetired
  <2> QED BY <2>2, <2>3
<1>4. ASSUME NEW r \in Requests, Receive(r) \/ Fail(r) \/ CanResume(r) \/ Consume(r) \/ Register(r)
                                 \/ Record(r) \/ Touch(r) \/ Extend(r) \/ CheckConsent(r) \/ AppendTurn(r) \/ Close(r)
        PROVE  UNCHANGED <<issued, accessUntil>>
  BY <1>4 DEF Receive, Fail, CanResume, Consume, Register, Record, Touch, Extend, CheckConsent, AppendTurn,
     Close
<1>5. CASE Cleanup \/ Tick \/ UNCHANGED vars
  BY <1>1, <1>5 DEF Cleanup, Tick, vars
<1> QED BY <1>1, <1>2, <1>3, <1>4, <1>5 DEF Next

\* A request is about to issue the successor of a pair only when it was about
\* to before, or has just revoked the pair.
LEMMA AboutToIssue ==
    ASSUME TypeOK, Steps, [Next]_vars, NEW r \in Requests, pc'[r] = "issue", kind'[r] = "refresh"
    PROVE  pair'[r] = pair[r] /\ Busy(r) /\ (Revoke(r) \/ (pc[r] = "issue" /\ kind[r] = "refresh"))
<1> USE DEF RequestType, Steps, Busy, Goto, FirstStep, Kinds
<1>1. RequestType
  BY TypeParts
<1>2. ASSUME NEW q \in Requests, Receive(q) PROVE pc[r] = pc'[r] /\ UNCHANGED <<kind[r], pair[r]>>
  BY <1>1, <1>2 DEF Receive
<1>3. ASSUME NEW q \in Requests, Fail(q) \/ Issue(q) \/ CanResume(q) \/ Consume(q)
                                 \/ Record(q) \/ Touch(q) \/ Extend(q) \/ CheckConsent(q) \/ AppendTurn(q) \/ Close(q)
        PROVE  pc[r] = pc'[r] /\ UNCHANGED <<kind[r], pair[r]>>
  BY <1>1, <1>3 DEF Fail, Issue, CanResume, Consume, Record, Touch, Extend, CheckConsent, AppendTurn,
     Close, locals
<1>4. ASSUME NEW q \in Requests, Register(q) PROVE pc[r] = pc'[r] /\ UNCHANGED <<kind[r], pair[r]>>
  BY <1>1, <1>4 DEF Register, locals
<1>5. ASSUME NEW q \in Requests, Revoke(q)
        PROVE (q = r \/ pc[r] = pc'[r]) /\ pc[q] = "revoke" /\ UNCHANGED <<kind[r], pair[r]>>
  BY <1>1, <1>5 DEF Revoke, locals
<1>6. CASE Cleanup \/ Tick \/ UNCHANGED vars
  BY <1>6 DEF Cleanup, Tick, vars, locals
<1> QED BY <1>2, <1>3, <1>4, <1>5, <1>6 DEF Next

LEMMA RetiredNext == TypeOK /\ Steps /\ PairsExist /\ Retired /\ [Next]_vars => Retired'
<1> SUFFICES ASSUME TypeOK, Steps, PairsExist, Retired, [Next]_vars PROVE Retired'
  OBVIOUS
<1> USE TypeParts
<1>1. ASSUME NEW r \in Requests, pc'[r] = "issue", kind'[r] = "refresh" PROVE IsRetired(pair[r])'
  <2>1. pair'[r] = pair[r] /\ pair[r] \in 1 .. Len(issued)
    BY <1>1, AboutToIssue DEF PairsExist
  <2>2. CASE pc[r] = "issue" /\ kind[r] = "refresh"
    <3>1. IsRetired(pair[r])
      BY <2>2 DEF Retired
    <3> DEFINE k == pair[r]
    <3>2. IsRetired(k) => accessUntil'[k] >= issued'[k].iat + AccessTtl
      BY <2>1, RetiredStays DEF IsRetired, AccessExp
    <3> QED BY <2>1, <3>1, <3>2 DEF IsRetired, AccessExp
  <2>3. CASE Revoke(r)
    <3>1. KeyUntil(AccessExp(pair[r])) >= AccessExp(pair[r])
      BY <2>1, PairHas, KeyIsNat DEF RowType
    <3>2. accessUntil'[pair[r]] = KeyUntil(AccessExp(pair[r])) /\ issued' = issued
      BY <2>3 DEF Revoke, StoreType, RequestType
    <3> QED BY <2>1, <3>1, <3>2 DEF IsRetired, AccessExp
  <2> QED BY <1>1, <2>2, <2>3, AboutToIssue
<1>2. ASSUME NEW n \in 1 .. Len(issued'), issued'[n].from = "refresh"
      PROVE  accessUntil'[issued'[n].of] >= issued'[issued'[n].of].iat + AccessTtl
  <2>1. CASE n \in 1 .. Len(issued)
    <3> DEFINE k == issued[n].of
    <3>1. issued'[n] = issued[n]
      BY <2>1, RetiredStays
    <3>2. k \in 1 .. Len(issued) /\ IsRetired(k)
      BY <1>2, <2>1, <3>1 DEF PairsExist, Retired
    <3> HIDE DEF k
    <3>3. accessUntil'[k] >= issued'[k].iat + AccessTtl
      BY <3>2, RetiredStays DEF IsRetired, AccessExp
    <3> QED BY <3>1, <3>3 DEF k
  <2>2. CASE n \notin 1 .. Len(issued)
    <3>1. PICK r \in Requests : Issue(r)
      <4>1. issued' # issued
        BY <1>2, <2>2
      <4> QED BY <4>1 DEF Next, vars, Receive, Fail, CanResume, Consume, Register, Revoke, Record, Touch,
                 Extend,
                      CheckConsent, AppendTurn, Close, Cleanup, Tick
    <3>2. n = Len(issued) + 1
      <4>1. Len(issued) \in Nat /\ Len(issued') = Len(issued) + 1
        BY <3>1, IssueAppends DEF IssuedType
      <4> QED BY <1>2, <2>2, <4>1
    <3>3. issued'[n].of = pair[r] /\ kind[r] = "refresh" /\ pc[r] = "issue"
      BY <1>2, <3>1, <3>2, IssueAppends DEF Issue
    <3>4. pair[r] \in 1 .. Len(issued) /\ IsRetired(pair[r])
      BY <3>3 DEF Retired, PairsExist, Busy
    <3> DEFINE k == pair[r]
    <3>5. accessUntil'[k] >= issued'[k].iat + AccessTtl
      BY <3>4, RetiredStays DEF IsRetired, AccessExp
    <3> QED BY <3>3, <3>5
  <2> QED BY <2>1, <2>2
<1> QED BY <1>1, <1>2 DEF Retired, IsRetired, AccessExp
-----------------------------------------------------------------------------
(* Only a chat that was checked before the closing still writes *)

Answering ==
    /\ 1 <= now
    /\ \A r \in Requests :
        /\ since[r] <= now
        /\ pc[r] \in {"extend", "consent", "answer"} /\ row.kept /\ row.ended # 0 => since[r] <= row.ended

\* How a step changes a session that is closed, or closes one that was not.
LEMMA RowEnded ==
    ASSUME RowType, RequestType, [Next]_vars, row'.kept, row'.ended # 0
    PROVE  row.kept /\ (row.ended # 0 => row'.ended = row.ended)
                    /\ (row.ended = 0 => row'.ended = now)
<1> DEFINE Goal == row.kept /\ (row.ended # 0 => row'.ended = row.ended)
                            /\ (row.ended = 0 => row'.ended = now)
<1> SUFFICES Goal
  OBVIOUS
<1>1. row \in Row /\ now \in Nat /\ now + SessionTtl \in Nat
  BY DEF RowType
<1>2. ASSUME row' = row PROVE Goal
  BY <1>2
<1>3. row' # NewRow /\ row' # [NewRow EXCEPT !.bound = TRUE] /\ row' # [NewRow EXCEPT !.consented = TRUE]
  BY <1>1, InsertedIsRow
<1>4. ASSUME row' = [row EXCEPT !.expires = now + SessionTtl] PROVE Goal
  BY <1>1, <1>4, TouchedIsRow
<1>5. ASSUME row' = [row EXCEPT !.consented = TRUE, !.expires = now + SessionTtl] PROVE Goal
  BY <1>1, <1>5 DEF Row
<1>6. ASSUME NEW r \in Requests, Register(r) PROVE Goal
  BY <1>2, <1>3, <1>4, <1>6 DEF Register
<1>7. ASSUME NEW r \in Requests, Record(r) PROVE Goal
  BY <1>2, <1>3, <1>5, <1>7 DEF Record
<1>8. ASSUME NEW r \in Requests, Extend(r) \/ AppendTurn(r) PROVE Goal
  BY <1>2, <1>3, <1>4, <1>8, ExtendIs, ExtendedIsRow DEF AppendTurn
<1>9. ASSUME NEW r \in Requests, Close(r) PROVE Goal
  <2>1. CASE ~row.kept
    BY <1>2, <1>9, <2>1 DEF Close
  <2>2. CASE row.kept
    <3> DEFINE e == IF row.ended = 0 THEN now ELSE row.ended
               m == IF row.expires < now THEN row.expires ELSE now
    <3>1. row' = [row EXCEPT !.ended = e, !.expires = m]
      BY <1>9, <2>2 DEF Close
    <3> HIDE DEF m
    <3>2. row'.ended = e
      <4> HIDE DEF e
      <4> QED BY <1>1, <3>1 DEF Row
    <3> QED BY <2>2, <3>2
  <2> QED BY <2>1, <2>2
<1>10. ASSUME NEW r \in Requests, Receive(r) \/ Fail(r) \/ Issue(r) \/ CanResume(r) \/ Consume(r)
              \/ Revoke(r) \/ Touch(r) \/ CheckConsent(r)
       PROVE  Goal
  BY <1>2, <1>10 DEF Receive, Fail, Issue, CanResume, Consume, Revoke, Touch, CheckConsent
<1>11. CASE Cleanup
  BY <1>11, NoRowIsRow DEF Cleanup
<1>12. CASE Tick \/ UNCHANGED vars
  BY <1>2, <1>12 DEF Tick, vars
<1> QED BY <1>6, <1>7, <1>8, <1>9, <1>10, <1>11, <1>12 DEF Next

LEMMA AnsweringNext == TypeOK /\ Answering /\ [Next]_vars => Answering'
<1> SUFFICES ASSUME TypeOK, Answering, [Next]_vars PROVE Answering'
  OBVIOUS
<1> USE TypeParts
<1>1. now \in Nat /\ row \in Row /\ (now' = now \/ now' = now + 1)
  <2>1. ASSUME NEW r \in Requests, Receive(r) \/ Fail(r) \/ Issue(r) \/ CanResume(r) \/ Consume(r)
               \/ Register(r)
                                   \/ Revoke(r) \/ Record(r) \/ Touch(r) \/ Extend(r) \/ CheckConsent(r)
                                   \/ AppendTurn(r) \/ Close(r)
          PROVE  now' = now
    BY <2>1 DEF Receive, Fail, Issue, CanResume, Consume, Register, Revoke, Record, Touch, Extend,
       CheckConsent, AppendTurn, Close
  <2> QED BY <2>1 DEF Next, vars, Cleanup, Tick, RowType
<1>2. ASSUME NEW r \in Requests
        PROVE  /\ since'[r] \in {since[r], now} /\ since[r] \in Nat
               /\ pc'[r] \in {"extend", "consent", "answer"} =>
                      /\ since'[r] = since[r]
                      /\ pc[r] \in {"extend", "consent", "answer"} \/ (row' = row /\ row.ended = 0)
  <2> DEFINE Goal == /\ since'[r] \in {since[r], now} /\ since[r] \in Nat
                     /\ pc'[r] \in {"extend", "consent", "answer"} =>
                            /\ since'[r] = since[r]
                            /\ pc[r] \in {"extend", "consent", "answer"} \/ (row' = row /\ row.ended = 0)
  <2> USE DEF RequestType, Goto, locals
  <2>1. ASSUME NEW q \in Requests, Receive(q) PROVE Goal
    BY <2>1 DEF Receive, FirstStep, Kinds
  <2>2. ASSUME NEW q \in Requests, Fail(q) \/ Issue(q) \/ CanResume(q) \/ Consume(q) \/ Register(q) PROVE Goal
    BY <2>2 DEF Fail, Issue, CanResume, Consume, Register
  <2>3. ASSUME NEW q \in Requests, Revoke(q) \/ Record(q) \/ AppendTurn(q) \/ Close(q) PROVE Goal
    BY <2>3 DEF Revoke, Record, AppendTurn, Close
  <2>4. ASSUME NEW q \in Requests, Touch(q) PROVE Goal
    BY <2>4 DEF Touch, Open
  <2>5. ASSUME NEW q \in Requests, Extend(q) \/ CheckConsent(q) PROVE Goal
    BY <2>5 DEF Extend, CheckConsent
  <2>6. CASE Cleanup \/ Tick \/ UNCHANGED vars
    BY <2>6 DEF Cleanup, Tick, vars
  <2> QED BY <2>1, <2>2, <2>3, <2>4, <2>5, <2>6 DEF Next
<1>3. ASSUME NEW r \in Requests, pc'[r] \in {"extend", "consent", "answer"}, row'.kept, row'.ended # 0
        PROVE  since'[r] <= row'.ended
  <2>1. row.kept /\ (row.ended # 0 => row'.ended = row.ended) /\ (row.ended = 0 => row'.ended = now)
    BY <1>3, RowEnded
  <2>2. since'[r] = since[r] /\ (pc[r] \in {"extend", "consent", "answer"} \/ (row' = row /\ row.ended = 0))
    BY <1>2, <1>3
  <2>3. CASE row.ended = 0
    BY <2>1, <2>2, <2>3 DEF Answering
  <2>4. CASE row.ended # 0
    BY <1>3, <2>1, <2>2, <2>4 DEF Answering
  <2> QED BY <2>3, <2>4
<1>4. 1 <= now' /\ \A r \in Requests : since'[r] <= now'
  BY <1>1, <1>2 DEF Answering
<1> QED BY <1>3, <1>4 DEF Answering
-----------------------------------------------------------------------------
(* The theorems *)

IInv == TypeOK /\ Steps /\ PairsExist /\ Retired /\ Answering

LEMMA InitIInv == Init => IInv
<1> SUFFICES ASSUME Init PROVE IInv
  OBVIOUS
<1> DEFINE p == [iat |-> 1, from |-> "start", of |-> 0]
<1>1. /\ \A r \in Requests : pc[r] = "idle" /\ since[r] = 0
      /\ row = [NewRow EXCEPT !.bound = TRUE] /\ now = 1 /\ issued = <<p>>
  BY DEF Init
<1>2. Len(issued) = 1 /\ issued[1].from = "start"
  BY <1>1
<1>3. row.ended = 0
  BY <1>1, InsertedIsRow
<1>4. Steps /\ Answering
  BY <1>1, <1>3 DEF Steps, Answering
<1>5. PairsExist /\ Retired
  BY <1>1, <1>2 DEF PairsExist, Retired, Busy
<1> QED BY <1>4, <1>5, TypeInit DEF IInv

LEMMA NextIInv == IInv /\ [Next]_vars => IInv'
<1> SUFFICES ASSUME IInv, [Next]_vars PROVE IInv'
  OBVIOUS
<1>1. TypeOK'
  <2>1. RowType' /\ IssuedType' /\ StoreType' /\ RequestType'
    BY TypeParts, RowNext, IssuedNext, StoreNext, RequestNext DEF IInv
  <2> QED BY <2>1 DEF TypeOK, RowType, IssuedType, StoreType, RequestType, Pair
<1>2. Steps' /\ PairsExist' /\ Retired' /\ Answering'
  BY TypeParts, StepsNext, PairsNext, RetiredNext, AnsweringNext DEF IInv
<1> QED BY <1>1, <1>2 DEF IInv

LEMMA Invariance == Spec => []IInv
BY InitIInv, NextIInv, PTL DEF Spec

\* The variables keep their types and the row never expires later than the idle
\* time from now (session_service.py, consent_service.py, session.py).
THEOREM SessionTypeCorrect == Spec => []TypeOK
<1>1. IInv => TypeOK
  BY DEF IInv
<1> QED BY <1>1, Invariance, PTL

\* No refresh issues a pair before the shared store knows the old access token
\* as revoked until it expires (refresh, revoke_widget_token).
THEOREM RetiredBeforeIssuedHolds == Spec => []RetiredBeforeIssued
<1>1. IInv => RetiredBeforeIssued
  BY DEF IInv, Retired, RetiredBeforeIssued, IsRetired
<1> QED BY <1>1, Invariance, PTL

\* No request is let in with a token of a pair that a refresh has succeeded
\* before its access token has expired (decode_widget_token,
\* decode_widget_resume_token).
THEOREM AcceptedIsCurrentHolds == Spec => AcceptedIsCurrent
<1>1. ASSUME IInv, [Next]_vars, NEW r \in Requests, pc[r] = "idle", pc'[r] # "idle", Refreshed(pair'[r])
        PROVE  now >= AccessExp(pair'[r])
  <2>1. IsRetired(pair'[r]) /\ pair'[r] \in 1 .. Len(issued)
    BY <1>1 DEF IInv, Refreshed, Retired, PairsExist
  <2>2. Receive(r)
    <3>1. ASSUME NEW q \in Requests, q # r, Receive(q) PROVE pc[r] = pc'[r]
      BY <1>1, <3>1, TypeParts DEF Receive, Goto, IInv, RequestType
    <3>2. ASSUME NEW q \in Requests,
                 Fail(q) \/ Issue(q) \/ CanResume(q) \/ Consume(q) \/ Register(q) \/ Revoke(q)
            PROVE  pc[r] = pc'[r]
      BY <1>1, <3>2, TypeParts DEF Fail, Busy, Issue, CanResume, Consume, Register, Revoke, Goto, IInv,
         RequestType
    <3>3. ASSUME NEW q \in Requests,
                 Record(q) \/ Touch(q) \/ Extend(q) \/ CheckConsent(q) \/ AppendTurn(q) \/ Close(q)
            PROVE  pc[r] = pc'[r]
      BY <1>1, <3>3, TypeParts DEF Record, Touch, Extend, CheckConsent, AppendTurn, Close, Goto, IInv,
         RequestType
    <3>4. ASSUME Cleanup \/ Tick \/ UNCHANGED vars PROVE pc[r] = pc'[r]
      BY <3>4 DEF Cleanup, Tick, vars
    <3>5. pc[r] # pc'[r]
      BY <1>1
    <3> QED BY <1>1, <3>1, <3>2, <3>3, <3>4, <3>5 DEF Next
  <2>3. now >= accessUntil[pair'[r]]
    <3>1. PICK d \in Kinds, k \in 1 .. Len(issued) :
              /\ IF d = "resume" THEN ResumeAccepted(k) ELSE AccessAccepted(k)
              /\ pair' = [pair EXCEPT ![r] = k]
      BY <2>2 DEF Receive
    <3>2. pair'[r] = k
      BY <1>1, <3>1, TypeParts DEF IInv, RequestType
    <3>3. ~IsRevoked(accessUntil[k])
      BY <3>1 DEF ResumeAccepted, AccessAccepted
    <3>4. accessUntil[k] \in Nat /\ now \in Nat
      BY <1>1, <2>1, <3>2, TypeParts DEF IInv, StoreType, RowType, IssuedType, Pairs
    <3> QED BY <3>2, <3>3, <3>4 DEF IsRevoked
  <2>4. accessUntil[pair'[r]] \in Nat /\ AccessExp(pair'[r]) \in Nat /\ now \in Nat
    BY <1>1, <2>1, PairHas, TypeParts DEF IInv, StoreType, IssuedType, RowType, Pairs
  <2> QED BY <2>1, <2>3, <2>4 DEF IsRetired
<1>2. IInv /\ [Next]_vars =>
        [\A r \in Requests : pc[r] = "idle" /\ pc'[r] # "idle" /\ Refreshed(pair'[r]) => now >= AccessExp(pair'[r])]_vars
  BY <1>1
<1> QED BY <1>2, Invariance, PTL DEF Spec, AcceptedIsCurrent

\* Only a chat received before the closing still touches a closed row, and
\* nothing opens it again (close_session, append_session_turn, record_consent,
\* register_widget_session).
THEOREM ClosedIsLeftAloneHolds == Spec => ClosedIsLeftAlone
<1> DEFINE Alone == row.kept /\ row.ended # 0 /\ row'.kept =>
                      /\ row'.ended = row.ended
                      /\ row'.expires > row.expires =>
                          \E r \in Requests : kind[r] = "chat" /\ pc'[r] # pc[r] /\ since[r] <= row.ended
<1>1. ASSUME IInv, [Next]_vars PROVE Alone
  <2> SUFFICES ASSUME row.kept, row.ended # 0, row'.kept
               PROVE  /\ row'.ended = row.ended
                      /\ row'.expires > row.expires =>
                          \E r \in Requests : kind[r] = "chat" /\ pc'[r] # pc[r] /\ since[r] <= row.ended
    OBVIOUS
  <2>1. row \in Row /\ now \in Nat /\ now + SessionTtl \in Nat /\ row.expires \in Nat
    BY <1>1, TypeParts, RowHas DEF IInv, RowType
  <2>2. ASSUME row' = row PROVE row'.ended = row.ended /\ ~(row'.expires > row.expires)
    BY <2>1, <2>2
  <2>3. ASSUME NEW r \in Requests, Register(r) \/ Record(r) PROVE row' = row
    BY <2>3 DEF Register, Record, Mergeable, Open
  <2>4. ASSUME NEW r \in Requests, Extend(r) \/ AppendTurn(r)
          PROVE  row'.ended = row.ended /\ kind[r] = "chat" /\ pc'[r] # pc[r] /\ since[r] <= row.ended
    <3>1. /\ Extended(r) \/ row' = [row EXCEPT !.expires = now + SessionTtl]
          /\ pc[r] \in {"extend", "answer"}
      BY <2>4 DEF Extend, Extended, AppendTurn
    <3>2. row'.ended = row.ended
      BY <1>1, <2>1, <3>1, TouchedIsRow, ExtendedIsRow, TypeParts DEF IInv
    <3>3. pc'[r] # pc[r]
      BY <1>1, <2>4, TypeParts DEF Extend, AppendTurn, Goto, IInv, RequestType
    <3>4. kind[r] = "chat" /\ since[r] <= row.ended
      BY <1>1, <3>1 DEF IInv, Steps, Answering
    <3> QED BY <3>2, <3>3, <3>4
  <2>5. ASSUME NEW r \in Requests, Close(r) PROVE row'.ended = row.ended /\ ~(row'.expires > row.expires)
    <3> DEFINE m == IF row.expires < now THEN row.expires ELSE now
    <3>1. row' = [row EXCEPT !.ended = row.ended, !.expires = m]
      BY <2>5 DEF Close
    <3>2. m \in Nat /\ m <= row.expires
      BY <2>1
    <3> HIDE DEF m
    <3>3. row'.ended = row.ended /\ row'.expires = m
      BY <2>1, <3>1 DEF Row
    <3> QED BY <2>1, <3>2, <3>3
  <2>6. ASSUME NEW r \in Requests, Receive(r) \/ Fail(r) \/ Issue(r) \/ CanResume(r) \/ Consume(r)
               \/ Revoke(r) \/ Touch(r) \/ CheckConsent(r)
          PROVE  row' = row
    BY <2>6 DEF Receive, Fail, Issue, CanResume, Consume, Revoke, Touch, CheckConsent
  <2>7. ASSUME Cleanup \/ Tick \/ UNCHANGED vars PROVE row' = row
    BY <2>7, NoRowIsRow DEF Cleanup, Tick, vars
  <2> QED BY <1>1, <2>2, <2>3, <2>4, <2>5, <2>6, <2>7 DEF Next
<1>2. IInv /\ [Next]_vars => [Alone]_vars
  BY <1>1
<1> QED BY <1>2, Invariance, PTL DEF Spec, ClosedIsLeftAlone
-----------------------------------------------------------------------------
(* A resume token is good for one resumption.  The store remembers a        *)
(* consumed token until the token expires (Remembered).  Whoever is let in   *)
(* after that, within the clock skew, finds the session too old: its row is  *)
(* the first one, made no later than the token (FirstRow), since a row that  *)
(* was open when a request checked it is not cleaned up under that request.  *)

IsRemembered(k) == resumeUntil[k] >= ResumeExp(k)

Remembered ==
    /\ \A r \in Requests : pc[r] \in {"register", "issue"} /\ kind[r] = "resume" => IsRemembered(pair[r])
    /\ \A n \in 1 .. Len(issued) :
          issued[n].from = "resume" => issued[n].of \in 1 .. Len(issued) /\ IsRemembered(issued[n].of)

\* A pair keeps its expiry, and once its resume token is consumed it stays so.
LEMMA RememberedStays ==
    ASSUME TypeOK, Steps, PairsExist, [Next]_vars, NEW k \in 1 .. Len(issued)
    PROVE  /\ issued'[k] = issued[k] /\ k \in 1 .. Len(issued')
           /\ IsRemembered(k) => resumeUntil'[k] >= issued'[k].iat + Lifetime
<1> DEFINE Goal == /\ issued'[k] = issued[k] /\ k \in 1 .. Len(issued')
                   /\ IsRemembered(k) => resumeUntil'[k] >= issued'[k].iat + Lifetime
<1> USE TypeParts
<1>1. ASSUME UNCHANGED <<issued, resumeUntil>> PROVE Goal
  BY <1>1 DEF IsRemembered, ResumeExp
<1>2. ASSUME NEW r \in Requests, Issue(r) PROVE Goal
  <2>1. issued'[k] = issued[k] /\ Len(issued') = Len(issued) + 1 /\ Len(issued) \in Nat
    BY <1>2, IssueAppends DEF IssuedType
  <2>2. resumeUntil' = resumeUntil
    BY <1>2 DEF Issue
  <2> QED BY <2>1, <2>2 DEF IsRemembered, ResumeExp
<1>3. ASSUME NEW r \in Requests, Consume(r) PROVE Goal
  <2>1. issued' = issued
    BY <1>3 DEF Consume
  <2>2. CASE resumeUntil'[k] = resumeUntil[k]
    BY <2>1, <2>2 DEF IsRemembered, ResumeExp
  <2>3. CASE resumeUntil'[k] # resumeUntil[k]
    <3>1. resumeUntil'[k] = KeyUntil(ResumeExp(k))
      <4>1. resumeUntil \in [Pairs -> Nat]
        BY DEF StoreType
      <4>2. resumeUntil' = [resumeUntil EXCEPT ![pair[r]] = KeyUntil(ResumeExp(pair[r]))]
        BY <1>3, <2>3 DEF Consume
      <4>3. k \in Pairs
        BY DEF IssuedType, Pairs
      <4>4. k = pair[r]
        BY <2>3, <4>1, <4>2, <4>3
      <4> QED BY <4>1, <4>2, <4>3, <4>4
    <3>2. KeyUntil(ResumeExp(k)) >= ResumeExp(k)
      BY PairHas, KeyIsNat DEF RowType
    <3> QED BY <2>1, <3>1, <3>2 DEF ResumeExp
  <2> QED BY <2>2, <2>3
<1>4. ASSUME NEW r \in Requests, Receive(r) \/ Fail(r) \/ CanResume(r) \/ Register(r) \/ Revoke(r)
                                 \/ Record(r) \/ Touch(r) \/ Extend(r) \/ CheckConsent(r) \/ AppendTurn(r) \/ Close(r)
        PROVE  UNCHANGED <<issued, resumeUntil>>
  BY <1>4 DEF Receive, Fail, CanResume, Register, Revoke, Record, Touch, Extend, CheckConsent, AppendTurn,
     Close
<1>5. CASE Cleanup \/ Tick \/ UNCHANGED vars
  BY <1>1, <1>5 DEF Cleanup, Tick, vars
<1> QED BY <1>1, <1>2, <1>3, <1>4, <1>5 DEF Next

\* A request is past the store only when it was before, or has just consumed.
LEMMA PastTheStore ==
    ASSUME TypeOK, Steps, [Next]_vars, NEW r \in Requests, pc'[r] \in {"register", "issue"},
           kind'[r] = "resume"
    PROVE  /\ pair'[r] = pair[r] /\ Busy(r)
           /\ \/ pc[r] \in {"register", "issue"} /\ kind[r] = "resume"
              \/ Consume(r) /\ pc'[r] = "register"
<1> DEFINE Same == pc[r] = pc'[r] /\ UNCHANGED <<kind[r], pair[r]>>
<1> USE DEF RequestType, Steps, Busy, Goto, FirstStep, Kinds
<1>1. RequestType
  BY TypeParts
<1>2. ASSUME NEW q \in Requests, Receive(q) PROVE Same
  BY <1>1, <1>2 DEF Receive
<1>3. ASSUME NEW q \in Requests, Fail(q) \/ Issue(q) \/ CanResume(q) PROVE Same
  BY <1>1, <1>3 DEF Fail, Issue, CanResume, locals
<1>4. ASSUME NEW q \in Requests, Record(q) \/ Touch(q) \/ Extend(q) \/ CheckConsent(q)
             \/ AppendTurn(q) \/ Close(q)
        PROVE  Same
  BY <1>1, <1>4 DEF Record, Touch, Extend, CheckConsent, AppendTurn, Close, locals
<1>5. ASSUME NEW q \in Requests, Register(q)
        PROVE  (q = r \/ pc[r] = pc'[r]) /\ pc[q] = "register" /\ UNCHANGED <<kind[r], pair[r]>>
  BY <1>1, <1>5 DEF Register, locals
<1>6. ASSUME NEW q \in Requests, Revoke(q)
        PROVE  (q = r \/ pc[r] = pc'[r]) /\ kind[q] = "refresh" /\ UNCHANGED <<kind[r], pair[r]>>
  BY <1>1, <1>6 DEF Revoke, locals
<1>7. ASSUME NEW q \in Requests, Consume(q)
        PROVE  /\ q = r \/ pc[r] = pc'[r]
               /\ pc[q] = "consume" /\ pc'[q] \in {"over", "register"} /\ UNCHANGED <<kind[r], pair[r]>>
  BY <1>1, <1>7 DEF Consume, locals
<1>8. CASE Cleanup \/ Tick \/ UNCHANGED vars
  BY <1>8 DEF Cleanup, Tick, vars, locals
<1>9. \A q \in Requests : q = r /\ Consume(q) => Consume(r)
  OBVIOUS
<1> QED BY <1>1, <1>2, <1>3, <1>4, <1>5, <1>6, <1>7, <1>8, <1>9 DEF Next

LEMMA RememberedNext == TypeOK /\ Steps /\ PairsExist /\ Remembered /\ [Next]_vars => Remembered'
<1> SUFFICES ASSUME TypeOK, Steps, PairsExist, Remembered, [Next]_vars PROVE Remembered'
  OBVIOUS
<1> USE TypeParts
<1>1. ASSUME NEW r \in Requests, pc'[r] \in {"register", "issue"}, kind'[r] = "resume"
        PROVE  resumeUntil'[pair'[r]] >= issued'[pair'[r]].iat + Lifetime
  <2> DEFINE k == pair[r]
  <2>1. pair'[r] = k /\ k \in 1 .. Len(issued)
    BY <1>1, PastTheStore DEF PairsExist
  <2>2. CASE pc[r] \in {"register", "issue"} /\ kind[r] = "resume"
    <3>1. IsRemembered(k)
      BY <2>2 DEF Remembered
    <3> HIDE DEF k
    <3> QED BY <2>1, <3>1, RememberedStays
  <2>3. CASE Consume(r) /\ pc'[r] = "register"
    <3>1. resumeUntil' = [resumeUntil EXCEPT ![k] = KeyUntil(ResumeExp(k))] /\ issued' = issued
      BY <2>3 DEF Consume, Goto, RequestType
    <3>2. k \in Pairs
      BY DEF RequestType
    <3> HIDE DEF k
    <3>3. KeyUntil(ResumeExp(k)) >= ResumeExp(k)
      BY <2>1, PairHas, KeyIsNat DEF RowType
    <3>4. resumeUntil'[k] = KeyUntil(ResumeExp(k))
      BY <3>1, <3>2 DEF StoreType
    <3> QED BY <2>1, <3>1, <3>3, <3>4 DEF ResumeExp
  <2> QED BY <1>1, <2>2, <2>3, PastTheStore
<1>2. ASSUME NEW n \in 1 .. Len(issued'), issued'[n].from = "resume"
        PROVE  /\ issued'[n].of \in 1 .. Len(issued')
               /\ resumeUntil'[issued'[n].of] >= issued'[issued'[n].of].iat + Lifetime
  <2>1. CASE n \in 1 .. Len(issued)
    <3> DEFINE k == issued[n].of
    <3>1. issued'[n] = issued[n]
      BY <2>1, RememberedStays
    <3>2. k \in 1 .. Len(issued) /\ IsRemembered(k)
      BY <1>2, <2>1, <3>1 DEF Remembered
    <3> HIDE DEF k
    <3>3. k \in 1 .. Len(issued') /\ resumeUntil'[k] >= issued'[k].iat + Lifetime
      BY <3>2, RememberedStays
    <3> QED BY <3>1, <3>3 DEF k
  <2>2. CASE n \notin 1 .. Len(issued)
    <3>1. PICK r \in Requests : Issue(r)
      <4>1. issued' # issued
        BY <1>2, <2>2
      <4> QED BY <4>1 DEF Next, vars, Receive, Fail, CanResume, Consume, Register, Revoke, Record, Touch,
                 Extend,
                      CheckConsent, AppendTurn, Close, Cleanup, Tick
    <3>2. n = Len(issued) + 1
      <4>1. Len(issued) \in Nat /\ Len(issued') = Len(issued) + 1
        BY <3>1, IssueAppends DEF IssuedType
      <4> QED BY <1>2, <2>2, <4>1
    <3>3. issued'[n].of = pair[r] /\ kind[r] = "resume" /\ pc[r] = "issue"
      BY <1>2, <3>1, <3>2, IssueAppends DEF Issue
    <3> DEFINE k == pair[r]
    <3>4. k \in 1 .. Len(issued) /\ IsRemembered(k)
      BY <3>3 DEF Remembered, PairsExist, Busy
    <3> HIDE DEF k
    <3>5. k \in 1 .. Len(issued') /\ resumeUntil'[k] >= issued'[k].iat + Lifetime
      BY <3>4, RememberedStays
    <3> QED BY <3>3, <3>5 DEF k
  <2> QED BY <2>1, <2>2
<1> QED BY <1>1, <1>2 DEF Remembered, IsRemembered, ResumeExp

FirstRow ==
    /\ row.kept /\ row.bound => row.created = 1
    /\ \A n \in 1 .. Len(issued) : issued[n].iat >= 1
    /\ \A r \in Requests :
          /\ Busy(r) => now <= since[r] + Slowest
          /\ pc[r] \in {"consume", "register"} =>
                row.kept /\ row.bound /\ since[r] <= row.expires + Slowest
          /\ pc[r] = "consume" => since[r] < 1 + Lifetime

\* What becomes of a row in a step that does not clean it up: it keeps who it
\* is, and expires no earlier than it did, or than now less the time a request
\* may take.
LEMMA RowKeeps ==
    ASSUME RowType, RequestType, FirstRow, [Next]_vars, row.kept
    PROVE  \/ Cleanup
           \/ /\ row'.kept /\ row'.created = row.created /\ row'.bound = row.bound
              /\ row'.expires >= row.expires \/ row'.expires + Slowest >= now
<1> DEFINE Goal == /\ row'.kept /\ row'.created = row.created /\ row'.bound = row.bound
                   /\ row'.expires >= row.expires \/ row'.expires + Slowest >= now
<1>0. Slowest \in Nat
  BY SessionAssumption
<1>1. row \in Row /\ now \in Nat /\ now + SessionTtl \in Nat /\ now + SessionTtl >= now
  BY DEF RowType
<1>2. row.expires \in Nat /\ row.kept \in BOOLEAN
  BY <1>1, RowHas
<1>3. ASSUME row' = row PROVE Goal
  BY <1>2, <1>3
<1>4. ASSUME row' = [row EXCEPT !.expires = now + SessionTtl] PROVE Goal
  BY <1>0, <1>1, <1>4 DEF Row
<1>5. ASSUME row' = [row EXCEPT !.consented = TRUE, !.expires = now + SessionTtl] PROVE Goal
  BY <1>0, <1>1, <1>5 DEF Row
<1>6. ASSUME NEW r \in Requests, Register(r) \/ Record(r) \/ Extend(r) \/ AppendTurn(r) PROVE Goal
  <2>1. CASE Extend(r)
    <3>1. row' = row \/ Extended(r)
      BY <2>1, ExtendIs
    <3>2. since[r] \in Nat /\ now <= since[r] + Slowest
      BY <2>1 DEF Extend, FirstRow, Busy, RequestType
    <3>3. ASSUME Extended(r) PROVE Goal
      <4>1. /\ row'.kept = row.kept /\ row'.bound = row.bound /\ row'.created = row.created
            /\ row'.expires \in Nat /\ since[r] <= row'.expires
        BY <3>3, ExtendedIsRow
      <4>2. row'.expires + Slowest >= now
        BY <1>0, <1>1, <3>2, <4>1
      <4> QED BY <4>1, <4>2
    <3> QED BY <1>3, <3>1, <3>3
  <2>2. CASE Register(r) \/ Record(r) \/ AppendTurn(r)
    BY <1>3, <1>4, <1>5, <2>2 DEF Register, Record, AppendTurn
  <2> QED BY <1>6, <2>1, <2>2
<1>7. ASSUME NEW r \in Requests, Close(r) PROVE Goal
  <2> DEFINE e == IF row.ended = 0 THEN now ELSE row.ended
             m == IF row.expires < now THEN row.expires ELSE now
  <2>1. row' = [row EXCEPT !.ended = e, !.expires = m]
    BY <1>7 DEF Close
  <2>2. m \in Nat /\ (m >= row.expires \/ m + Slowest >= now)
    BY <1>0, <1>1, <1>2
  <2> HIDE DEF e, m
  <2> QED BY <1>1, <2>1, <2>2 DEF Row
<1>8. ASSUME NEW r \in Requests, Receive(r) \/ Fail(r) \/ Issue(r) \/ CanResume(r) \/ Consume(r)
             \/ Revoke(r) \/ Touch(r) \/ CheckConsent(r)
      PROVE  Goal
  BY <1>3, <1>8 DEF Receive, Fail, Issue, CanResume, Consume, Revoke, Touch, CheckConsent
<1>9. CASE Tick \/ UNCHANGED vars
  BY <1>3, <1>9 DEF Tick, vars
<1> QED BY <1>6, <1>7, <1>8, <1>9 DEF Next

\* A row is only bound to a widget by a request that registers it.
LEMMA RowBound ==
    ASSUME RowType, [Next]_vars, ~row.kept, row'.kept, row'.bound
    PROVE  \E r \in Requests : pc[r] = "register"
<1>1. NewRow \in Row /\ ~NewRow.bound
  BY DEF RowType, NewRow, Row
<1>2. ~[NewRow EXCEPT !.consented = TRUE].bound
  BY <1>1 DEF Row
<1>3. ~NoRow.kept
  BY NoRowIsRow
<1>4. ASSUME NEW r \in Requests, Record(r) \/ Extend(r) \/ AppendTurn(r) \/ Close(r) PROVE FALSE
  BY <1>1, <1>2, <1>4 DEF Record, Extend, AppendTurn, Close, Open
<1>5. ASSUME NEW r \in Requests, Receive(r) \/ Fail(r) \/ Issue(r) \/ CanResume(r) \/ Consume(r)
             \/ Revoke(r) \/ Touch(r) \/ CheckConsent(r)
      PROVE  FALSE
  BY <1>5 DEF Receive, Fail, Issue, CanResume, Consume, Revoke, Touch, CheckConsent
<1>6. ASSUME Cleanup \/ Tick \/ UNCHANGED vars PROVE FALSE
  BY <1>3, <1>6 DEF Cleanup, Tick, vars
<1>7. ASSUME NEW r \in Requests, Register(r) PROVE pc[r] = "register"
  BY <1>7 DEF Register
<1> QED BY <1>4, <1>5, <1>6, <1>7 DEF Next

\* Time, and what a request knows of it: the step that lets a request reach the
\* store has found its session open.
LEMMA RequestStep ==
    ASSUME TypeOK, Answering, [Next]_vars, NEW r \in Requests
    PROVE  /\ now' = now \/ (now' = now + 1 /\ Tick)
           /\ Busy(r)' => (since'[r] = now /\ ~Busy(r)) \/ (since'[r] = since[r] /\ Busy(r))
           /\ pc'[r] = "consume" =>
                 \/ pc[r] = "consume" /\ since'[r] = since[r]
                 \/ CanResume(r) /\ since'[r] = since[r] /\ Open /\ WithinLifetime /\ row.bound
           /\ pc'[r] = "register" => pc[r] \in {"consume", "register"} /\ since'[r] = since[r]
<1> DEFINE Goal == /\ now' = now \/ (now' = now + 1 /\ Tick)
                   /\ Busy(r)' => (since'[r] = now /\ ~Busy(r)) \/ (since'[r] = since[r] /\ Busy(r))
                   /\ pc'[r] = "consume" =>
                         \/ pc[r] = "consume" /\ since'[r] = since[r]
                         \/ CanResume(r) /\ since'[r] = since[r] /\ Open /\ WithinLifetime /\ row.bound
                   /\ pc'[r] = "register" => pc[r] \in {"consume", "register"} /\ since'[r] = since[r]
<1> USE DEF Busy, Goto, RequestType, locals
<1>0. RequestType
  BY TypeParts
<1>1. ASSUME NEW q \in Requests, Receive(q) PROVE Goal
  BY <1>0, <1>1 DEF Receive, FirstStep, Kinds
<1>2. ASSUME NEW q \in Requests, Fail(q) \/ Issue(q) PROVE Goal
  BY <1>0, <1>2 DEF Fail, Issue
<1>3. ASSUME NEW q \in Requests, CanResume(q) PROVE Goal
  <2>1. CASE q = r
    <3>1. now' = now /\ since' = since /\ pc[r] = "check"
      BY <1>3, <2>1 DEF CanResume
    <3>2. pc'[r] = (IF Open /\ WithinLifetime /\ row.bound THEN "consume" ELSE "over")
      BY <1>0, <1>3, <2>1 DEF CanResume
    <3> QED BY <1>3, <2>1, <3>1, <3>2
  <2>2. CASE q # r
    BY <1>0, <1>3, <2>2 DEF CanResume
  <2> QED BY <2>1, <2>2
<1>4. ASSUME NEW q \in Requests, Consume(q) PROVE Goal
  BY <1>0, <1>4 DEF Consume
<1>5. ASSUME NEW q \in Requests, Register(q) \/ Revoke(q) \/ Record(q) \/ AppendTurn(q) \/ Close(q) PROVE Goal
  BY <1>0, <1>5 DEF Register, Revoke, Record, AppendTurn, Close
<1>6. ASSUME NEW q \in Requests, Touch(q) \/ Extend(q) \/ CheckConsent(q) PROVE Goal
  BY <1>0, <1>6 DEF Touch, Extend, CheckConsent
<1>7. CASE Cleanup \/ UNCHANGED vars
  <2>1. now' = now /\ pc' = pc /\ since' = since
    BY <1>7 DEF Cleanup, vars
  <2> QED BY <2>1
<1>8. CASE Tick
  BY <1>0, <1>8 DEF Tick
<1> QED BY <1>1, <1>2, <1>3, <1>4, <1>5, <1>6, <1>7, <1>8 DEF Next

LEMMA FirstRowNext ==
    ASSUME Slowest + Slowest <= Retention, IInv, FirstRow, [Next]_vars
    PROVE  FirstRow'
<1>1. RowType /\ RequestType /\ IssuedType /\ TypeOK /\ Steps /\ Answering
  BY TypeParts DEF IInv
<1>2. now \in Nat /\ row \in Row /\ row.expires \in Nat /\ row.created \in Nat
  BY <1>1, RowHas DEF RowType, Row
\* No request loses the row it has checked: it, and the chat that extends the
\* session, would have to take longer than transcripts are retained.
<1>3. ASSUME NEW r \in Requests, pc[r] \in {"consume", "register"}
      PROVE  /\ row'.kept /\ row'.bound /\ row'.created = row.created
             /\ since[r] <= row'.expires + Slowest
  <2>1. row.kept /\ row.bound /\ since[r] <= row.expires + Slowest /\ since[r] <= now /\ now <= since[r] + Slowest
        /\ since[r] \in Nat
    BY <1>1, <1>3 DEF FirstRow, Answering, Busy, RequestType
  <2>2. ~Cleanup
    BY <1>2, <2>1, SessionAssumption DEF Cleanup
  <2>3. /\ row'.kept /\ row'.created = row.created /\ row'.bound = row.bound
        /\ row'.expires >= row.expires \/ row'.expires + Slowest >= now
    BY <1>1, <2>1, <2>2, RowKeeps
  <2>4. row'.expires \in Nat
    BY <1>1, RowNext, RowHas DEF RowType
  <2> QED BY <1>2, <2>1, <2>3, <2>4, SessionAssumption
<1>4. row'.kept /\ row'.bound => row'.created = 1
  <2> SUFFICES ASSUME row'.kept, row'.bound PROVE row'.created = 1
    OBVIOUS
  <2>1. row.kept
    BY <1>1, <1>3, RowBound DEF FirstRow
  <2>2. ~Cleanup
    BY NoRowIsRow DEF Cleanup
  <2> QED BY <1>1, <2>1, <2>2, RowKeeps DEF FirstRow
<1>5. ASSUME NEW n \in 1 .. Len(issued') PROVE issued'[n].iat >= 1
  <2>1. CASE n \in 1 .. Len(issued)
    <3>1. issued'[n] = issued[n]
      BY <1>1, <2>1, RetiredStays DEF IInv
    <3> QED BY <2>1, <3>1 DEF FirstRow
  <2>2. CASE n \notin 1 .. Len(issued)
    <3>1. PICK r \in Requests : Issue(r)
      <4>1. issued' # issued
        BY <2>2
      <4> QED BY <4>1 DEF Next, vars, Receive, Fail, CanResume, Consume, Register, Revoke, Record, Touch,
                 Extend,
                      CheckConsent, AppendTurn, Close, Cleanup, Tick
    <3>2. n = Len(issued) + 1
      <4>1. Len(issued) \in Nat /\ Len(issued') = Len(issued) + 1
        BY <1>1, <3>1, IssueAppends DEF IssuedType
      <4> QED BY <2>2, <4>1
    <3> DEFINE p == [iat |-> now, from |-> kind[r], of |-> pair[r]]
    <3>3. issued' = Append(issued, p) /\ p.iat = now
      BY <3>1 DEF Issue
    <3> HIDE DEF p
    <3>4. issued'[n] = p
      <4>1. issued \in Seq(Pair \cup {p})
        BY <1>1 DEF IssuedType
      <4> QED BY <3>2, <3>3, <4>1
    <3> QED BY <1>1, <3>3, <3>4 DEF Answering
  <2> QED BY <2>1, <2>2
<1>6. ASSUME NEW r \in Requests PROVE Busy(r)' => now' <= since'[r] + Slowest
  <2> SUFFICES ASSUME Busy(r)' PROVE now' <= since'[r] + Slowest
    OBVIOUS
  <2>1. CASE since'[r] = now /\ ~Busy(r)
    <3>1. now' = now \/ Tick
      BY <1>1, RequestStep
    <3>2. ~Tick
      BY <2>1 DEF Tick, Busy
    <3> QED BY <1>2, <2>1, <3>1, <3>2
  <2>2. CASE since'[r] = since[r] /\ Busy(r)
    <3>1. now <= since[r] + Slowest /\ since[r] \in Nat
      BY <1>1, <2>2 DEF FirstRow, RequestType
    <3>2. Tick => now < since[r] + Slowest
      BY <2>2 DEF Tick
    <3>3. now' = now \/ (now' = now + 1 /\ Tick)
      BY <1>1, RequestStep
    <3> QED BY <1>2, <2>2, <3>1, <3>2, <3>3
  <2> QED BY <1>1, <2>1, <2>2, RequestStep
<1>7. ASSUME NEW r \in Requests, pc'[r] \in {"consume", "register"}
      PROVE  /\ row'.kept /\ row'.bound /\ since'[r] <= row'.expires + Slowest
             /\ pc'[r] = "consume" => since'[r] < 1 + Lifetime
  <2>1. CASE pc[r] \in {"consume", "register"} /\ since'[r] = since[r] /\ (pc'[r] = "consume" => pc[r] = "consume")
    BY <1>3, <2>1 DEF FirstRow
  <2>2. CASE CanResume(r) /\ since'[r] = since[r] /\ Open /\ WithinLifetime /\ row.bound
    <3>1. row' = row /\ row.kept /\ row.expires > now /\ row.created > now - Lifetime
      BY <2>2 DEF CanResume, Open, WithinLifetime
    <3>2. row.created = 1 /\ since[r] <= now /\ since[r] \in Nat
      BY <1>1, <2>2, <3>1 DEF FirstRow, Answering, RequestType
    <3> QED BY <1>2, <2>2, <3>1, <3>2, SessionAssumption
  <2> QED BY <1>1, <1>7, <2>1, <2>2, RequestStep
<1> QED BY <1>4, <1>5, <1>6, <1>7 DEF FirstRow

\* While no request lasts half as long as transcripts are kept, which is minutes
\* against days, a resume token resumes its session once: a second request can
\* only be one that was let in before the token expired and reaches the store
\* after that (can_resume_bound_session, consume_widget_resume_token).
THEOREM ResumeOnceHolds ==
    ASSUME Slowest + Slowest <= Retention
    PROVE  Spec => ResumeOnce
<1> DEFINE Once == \A r \in Requests :
                      pc[r] = "consume" /\ pc'[r] = "register" /\ Resumed(pair[r])
                          => since[r] < ResumeExp(pair[r]) /\ now >= ResumeExp(pair[r])
           RInv == IInv /\ Remembered /\ FirstRow
<1>1. Init => RInv
  <2> SUFFICES ASSUME Init PROVE RInv
    OBVIOUS
  <2> DEFINE p == [iat |-> 1, from |-> "start", of |-> 0]
  <2>1. /\ \A r \in Requests : pc[r] = "idle"
        /\ row = [NewRow EXCEPT !.bound = TRUE] /\ now = 1 /\ issued = <<p>>
    BY DEF Init
  <2>2. Len(issued) = 1 /\ issued[1].from = "start" /\ issued[1].iat = 1
    BY <2>1
  <2>3. row.created = 1
    BY <2>1 DEF NewRow
  <2>4. Remembered /\ FirstRow
    BY <2>1, <2>2, <2>3 DEF Remembered, FirstRow, Busy
  <2> QED BY <2>4, InitIInv
<1>2. RInv /\ [Next]_vars => RInv'
  BY NextIInv, RememberedNext, FirstRowNext DEF IInv
<1>3. ASSUME RInv, [Next]_vars PROVE Once
  <2> SUFFICES ASSUME NEW r \in Requests, pc[r] = "consume", pc'[r] = "register", Resumed(pair[r])
               PROVE  since[r] < ResumeExp(pair[r]) /\ now >= ResumeExp(pair[r])
    OBVIOUS
  <2> DEFINE k == pair[r]
  <2>1. RequestType /\ RowType /\ StoreType /\ IssuedType /\ k \in 1 .. Len(issued)
    BY <1>3, TypeParts DEF IInv, PairsExist, Busy
  <2>2. IsRemembered(k)
    BY <1>3 DEF Resumed, Remembered
  <2>3. Consume(r)
    <3>1. ASSUME NEW q \in Requests, Receive(q) \/ Fail(q) \/ Issue(q) \/ CanResume(q)
                 \/ Register(q) \/ Revoke(q)
          PROVE  FALSE
      BY <2>1, <3>1 DEF Receive, FirstStep, Kinds, Fail, Issue, CanResume, Register, Revoke, Goto, RequestType
    <3>2. ASSUME NEW q \in Requests, Record(q) \/ Touch(q) \/ Extend(q) \/ CheckConsent(q)
                 \/ AppendTurn(q) \/ Close(q)
          PROVE  FALSE
      BY <2>1, <3>2 DEF Record, Touch, Extend, CheckConsent, AppendTurn, Close, Goto, RequestType
    <3>3. ASSUME Cleanup \/ Tick \/ UNCHANGED vars PROVE FALSE
      BY <3>3 DEF Cleanup, Tick, vars
    <3>4. ASSUME NEW q \in Requests, q # r, Consume(q) PROVE FALSE
      BY <2>1, <3>4 DEF Consume, Goto, RequestType
    <3> QED BY <1>3, <3>1, <3>2, <3>3, <3>4 DEF Next
  <2>4. ~IsRevoked(resumeUntil[k])
    BY <2>1, <2>3 DEF Consume, Goto, RequestType
  <2>5. resumeUntil[k] \in Nat /\ ResumeExp(k) \in Nat /\ now \in Nat
    BY <2>1, PairHas DEF StoreType, RowType, RequestType
  <2>6. since[r] < 1 + Lifetime /\ issued[k].iat >= 1 /\ since[r] \in Nat /\ issued[k].iat \in Nat
    BY <1>3, <2>1, PairHas DEF FirstRow, RequestType
  <2> QED BY <2>2, <2>4, <2>5, <2>6 DEF IsRemembered, IsRevoked, ResumeExp
<1>4. RInv /\ [Next]_vars => [Once]_vars
  BY <1>3
<1> QED BY <1>1, <1>2, <1>4, PTL DEF Spec, ResumeOnce
=============================================================================
