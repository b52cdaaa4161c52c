--------------------------- MODULE ChatTurnProofs ---------------------------
(***************************************************************************)
(* Safety of ChatTurn for any number of requests, processes, generations,  *)
(* look-ups and switches, and any age of the cached rows.                  *)
(***************************************************************************)
EXTENDS ChatTurn, TLAPS, FiniteSetTheorems

USE ChatAssumption

\* The type invariant in parts.
PointerType ==
    /\ now \in Nat /\ change \in Nat
    /\ active \in Gens \cup {NoGen}
    /\ switcher \subseteq Processes
    /\ liveUntil \in [Gens -> Nat]
RowsType == rows \in [Processes -> Rows] /\ dirty \subseteq Processes
CacheType == exact \subseteq Entry /\ semantic \subseteq Entry
StepType == pc \in [Requests -> Labels] /\ proc \in [Requests -> Processes]
LocalType ==
    /\ since \in [Requests -> Nat]
    /\ asked \in [Requests -> Nat]
    /\ seen \in [Requests -> Gens \cup {NoGen}]
    /\ looks \in [Requests -> Nat]
AnswerType == answer \in [Requests -> Answer]

LEMMA TypeParts == TypeOK <=> PointerType /\ RowsType /\ CacheType /\ StepType /\ LocalType /\ AnswerType
BY DEF TypeOK, PointerType, RowsType, CacheType, StepType, LocalType, AnswerType
-----------------------------------------------------------------------------
(* Answers and entries *)

LEMMA Constants ==
    /\ Copy \in Answer /\ Copy.text = "copy" /\ Copy.evidence = {} /\ Copy.origin = "none"
    /\ Nothing \in Answer /\ Nothing.text = "none" /\ Nothing.evidence = {} /\ Nothing.origin = "none"
BY DEF Copy, Nothing, Answer, Texts, Origins

LEMMA AnswerHas == ASSUME NEW a \in Answer
                   PROVE  a.evidence \subseteq Gens /\ a.origin \in Origins /\ a.text \in Texts
BY DEF Answer

LEMMA EntryHas == ASSUME NEW e \in Entry PROVE e.evidence \subseteq Gens /\ e.text \in Texts
BY DEF Entry

LEMMA RowsHas == ASSUME NEW w \in Rows PROVE w.gen \in Gens \cup {NoGen} /\ w.loadedAt \in Nat
BY DEF Rows

LEMMA FromCacheIsAnswer ==
    ASSUME NEW e \in Entry, NEW o \in {"exact", "semantic"}
    PROVE  /\ FromCache(e, o) \in Answer
           /\ FromCache(e, o).text = e.text
           /\ FromCache(e, o).evidence = e.evidence
           /\ FromCache(e, o).origin = o
BY EntryHas DEF FromCache, Answer, Origins

\* What was checked is a copy, or a grounded text on the same evidence.
LEMMA CheckedIs ==
    ASSUME NEW a \in Answer, NEW b \in Checked(a)
    PROVE  /\ b \in Answer
           /\ b = Copy \/ (b.text = "grounded" /\ b.evidence = a.evidence /\ b.origin = a.origin)
<1>1. [a EXCEPT !.text = "grounded"] \in Answer
      /\ [a EXCEPT !.text = "grounded"].text = "grounded"
      /\ [a EXCEPT !.text = "grounded"].evidence = a.evidence
      /\ [a EXCEPT !.text = "grounded"].origin = a.origin
  BY DEF Answer, Texts
<1>2. b = Copy \/ b = [a EXCEPT !.text = "grounded"]
  BY DEF Checked, Validated
<1> QED BY <1>1, <1>2, Constants

\* The answer of one request is replaced, or the evidence in it.
LEMMA AnswerSet ==
    ASSUME AnswerType, NEW r \in Requests, NEW a \in Answer, answer' = [answer EXCEPT ![r] = a]
    PROVE  AnswerType' /\ answer'[r] = a /\ \A q \in Requests \ {r} : answer'[q] = answer[q]
BY DEF AnswerType

LEMMA EvidenceSet ==
    ASSUME AnswerType, NEW r \in Requests, NEW h \in SUBSET Gens,
           answer' = [answer EXCEPT ![r].evidence = @ \cup h]
    PROVE  /\ AnswerType'
           /\ answer'[r].evidence = answer[r].evidence \cup h
           /\ answer'[r].origin = answer[r].origin
           /\ \A q \in Requests \ {r} : answer'[q] = answer[q]
<1> DEFINE a == [answer[r] EXCEPT !.evidence = @ \cup h]
<1>1. answer[r] \in Answer
  BY DEF AnswerType
<1>2. a \in Answer /\ a.evidence = answer[r].evidence \cup h /\ a.origin = answer[r].origin
  BY <1>1 DEF Answer
<1>3. answer' = [answer EXCEPT ![r] = a]
  OBVIOUS
<1> HIDE DEF a
<1> QED BY <1>2, <1>3, AnswerSet
-----------------------------------------------------------------------------
(* Types *)

LEMMA PointerNext == PointerType /\ [Next]_vars => PointerType'
<1> SUFFICES ASSUME PointerType, [Next]_vars PROVE PointerType'
  OBVIOUS
<1> USE DEF PointerType, pointer, vars
<1>1. ASSUME NEW r \in Requests, Receive(r) \/ Proceed(r) PROVE PointerType'
  BY <1>1 DEF Receive, Proceed, ReadExact, CachedRows, QueryRows, LoadRows, Restore, ReadSemantic,
     Generate, AppendTurn
<1>2. ASSUME NEW p \in Processes, ClearRows(p) PROVE PointerType'
  BY <1>2 DEF ClearRows
<1>3. ASSUME NEW p \in Processes, NEW g \in Gens \cup {NoGen}, SetPointer(p, g) PROVE PointerType'
  BY <1>3 DEF SetPointer
<1>4. CASE Tick
  BY <1>4 DEF Tick
<1>5. CASE UNCHANGED vars
  BY <1>5
<1> QED BY <1>1, <1>2, <1>3, <1>4, <1>5 DEF Next, Activate, Withdraw

LEMMA StoredIsRows ==
    ASSUME RowsType, StepType, LocalType, NEW r \in Requests, rows' = StoredRows(r), dirty' = dirty
    PROVE  /\ RowsType'
           /\ rows'[proc[r]].gen = seen[r]
           /\ rows'[proc[r]].loadedAt = asked[r]
           /\ \A p \in Processes \ {proc[r]} : rows'[p] = rows[p]
<1> DEFINE w == [gen |-> seen[r], loadedAt |-> asked[r]]
<1>1. w \in Rows /\ w.gen = seen[r] /\ w.loadedAt = asked[r]
  BY DEF Rows, LocalType
<1>2. rows' = [rows EXCEPT ![proc[r]] = w] /\ proc[r] \in Processes
  BY DEF StoredRows, StepType
<1> HIDE DEF w
<1> QED BY <1>1, <1>2 DEF RowsType

LEMMA RowsNext == RowsType /\ StepType /\ LocalType /\ [Next]_vars => RowsType'
<1> SUFFICES ASSUME RowsType, StepType, LocalType, [Next]_vars PROVE RowsType'
  OBVIOUS
<1>1. ASSUME UNCHANGED <<rows, dirty>> PROVE RowsType'
  BY <1>1 DEF RowsType
<1>2. ASSUME NEW r \in Requests, Receive(r) \/ ReadExact(r) \/ CachedRows(r) \/ QueryRows(r)
                                 \/ ReadSemantic(r) \/ Generate(r) \/ AppendTurn(r) PROVE RowsType'
  BY <1>1, <1>2 DEF Receive, ReadExact, CachedRows, QueryRows, ReadSemantic, Generate, AppendTurn
<1>3. ASSUME NEW r \in Requests, LoadRows(r) PROVE RowsType'
  BY <1>1, <1>3, StoredIsRows DEF LoadRows
<1>4. ASSUME NEW r \in Requests, Restore(r) PROVE RowsType'
  <2>1. dirty' = dirty /\ (rows' = rows \/ rows' = StoredRows(r))
    BY <1>4 DEF Restore
  <2> QED BY <1>1, <2>1, StoredIsRows
<1>5. ASSUME NEW p \in Processes, ClearRows(p) PROVE RowsType'
  BY <1>5 DEF ClearRows, NoRows, Rows, RowsType
<1>6. ASSUME NEW p \in Processes, NEW g \in Gens \cup {NoGen}, SetPointer(p, g) PROVE RowsType'
  BY <1>6 DEF SetPointer, RowsType
<1>7. CASE Tick \/ UNCHANGED vars
  BY <1>1, <1>7 DEF Tick, vars
<1> QED BY <1>2, <1>3, <1>4, <1>5, <1>6, <1>7 DEF Next, Activate, Withdraw, Proceed

\* What a response adds to the caches.
LEMMA CacheGains ==
    ASSUME CacheType, NEW a \in Answer, CacheResponse(a)
    PROVE  CacheType' /\ \A e \in exact' \cup semantic' :
               e \in exact \cup semantic \/ (a.text # "copy" /\ e.text = a.text /\ e.evidence = a.evidence)
<1> DEFINE e0 == [text |-> a.text, evidence |-> a.evidence]
<1>1. e0 \in Entry /\ e0.text = a.text /\ e0.evidence = a.evidence
  BY AnswerHas DEF Entry
<1>2. CASE a.text = "copy"
  BY <1>2 DEF CacheResponse, ShouldCache, CacheType, caches
<1>3. CASE a.text # "copy"
  <2>1. exact' \in {exact, {e0}}
        /\ (semantic' = semantic \/ \E kept \in SUBSET semantic : semantic' = kept \cup {e0})
    BY <1>3 DEF CacheResponse, ShouldCache
  <2> HIDE DEF e0
  <2>2. \A e \in exact' \cup semantic' : e \in exact \cup semantic \/ e = e0
    BY <2>1
  <2>3. \A e \in exact' \cup semantic' : e \in Entry
    BY <1>1, <2>2 DEF CacheType
  <2> QED BY <1>1, <1>3, <2>2, <2>3 DEF CacheType
<1> QED BY <1>2, <1>3

\* The model's text and what becomes of it.
LEMMA Generated ==
    ASSUME AnswerType, CacheType, StepType, NEW r \in Requests, Generate(r), pc'[r] = "append"
    PROVE  /\ AnswerType' /\ CacheType'
           /\ answer'[r] = Copy \/ (answer'[r].text = "grounded" /\ answer'[r].evidence = answer[r].evidence
                                    /\ answer'[r].origin = "model")
           /\ \A q \in Requests \ {r} : answer'[q] = answer[q]
           /\ \A e \in exact' \cup semantic' :
                  e \in exact \cup semantic \/ (e.text = "grounded" /\ e.evidence = answer[r].evidence)
<1>1. PICK text \in {"grounded", "ungrounded", "forbidden"} :
        \E a \in Checked([text |-> text, evidence |-> answer[r].evidence, origin |-> "model"]) :
            answer' = [answer EXCEPT ![r] = a] /\ CacheResponse(a)
  BY DEF Generate, End, Goto, StepType
<1> DEFINE d == [text |-> text, evidence |-> answer[r].evidence, origin |-> "model"]
<1>2. d \in Answer /\ d.evidence = answer[r].evidence /\ d.origin = "model"
  BY AnswerHas DEF Answer, Texts, Origins, AnswerType
<1>3. PICK a \in Checked(d) : answer' = [answer EXCEPT ![r] = a] /\ CacheResponse(a)
  BY <1>1
<1> HIDE DEF d
<1>4. a \in Answer /\ (a = Copy \/ (a.text = "grounded" /\ a.evidence = answer[r].evidence /\ a.origin = "model"))
  BY <1>2, CheckedIs
<1>5. AnswerType' /\ answer'[r] = a /\ \A q \in Requests \ {r} : answer'[q] = answer[q]
  BY <1>3, <1>4, AnswerSet
<1>6. CacheType' /\ \A e \in exact' \cup semantic' :
          e \in exact \cup semantic \/ (a.text # "copy" /\ e.text = a.text /\ e.evidence = a.evidence)
  BY <1>3, <1>4, CacheGains
<1>7. a.text # "copy" => a.text = "grounded" /\ a.evidence = answer[r].evidence
  BY <1>4, Constants
<1> QED BY <1>4, <1>5, <1>6, <1>7

\* The other end of Generate.
LEMMA Failed ==
    ASSUME StepType, NEW r \in Requests, Generate(r), pc'[r] # "append"
    PROVE  End(r, "failed") /\ UNCHANGED caches
BY DEF Generate, Goto, StepType

LEMMA Ended ==
    ASSUME StepType, LocalType, AnswerType, NEW r \in Requests, NEW l \in Labels, End(r, l)
    PROVE  /\ LocalType' /\ AnswerType' /\ pc' \in [Requests -> Labels]
           /\ pc'[r] = l /\ since'[r] = 0 /\ asked'[r] = 0 /\ answer'[r] = Nothing
           /\ \A q \in Requests \ {r} : pc'[q] = pc[q] /\ since'[q] = since[q] /\ asked'[q] = asked[q]
                                        /\ seen'[q] = seen[q] /\ answer'[q] = answer[q]
<1>1. AnswerType' /\ answer'[r] = Nothing /\ \A q \in Requests \ {r} : answer'[q] = answer[q]
  BY AnswerSet, Constants DEF End
<1> QED BY <1>1 DEF End, Goto, StepType, LocalType

\* What a look-up adds to the evidence of its retrieval.
LEMMA FoundIs ==
    ASSUME PointerType, StepType, LocalType, AnswerType, NEW r \in Requests,
           NEW g \in Gens \cup {NoGen}, Found(r, g)
    PROVE  /\ AnswerType' /\ pc' \in [Requests -> Labels]
           /\ asked' \in [Requests -> Nat] /\ looks' \in [Requests -> Nat]
           /\ (pc'[r] = "look" /\ asked'[r] = now) \/ (pc'[r] = "approve" /\ asked'[r] = 0)
           /\ answer'[r].evidence = answer[r].evidence \cup ({g} \ {NoGen})
           /\ answer'[r].origin = answer[r].origin
           /\ \A q \in Requests \ {r} : pc'[q] = pc[q] /\ asked'[q] = asked[q] /\ answer'[q] = answer[q]
<1> DEFINE h == {g} \ {NoGen}
<1>1. h \in SUBSET Gens /\ answer' = [answer EXCEPT ![r].evidence = @ \cup h]
  BY DEF Found
<1>2. /\ AnswerType' /\ answer'[r].evidence = answer[r].evidence \cup h
      /\ answer'[r].origin = answer[r].origin
      /\ \A q \in Requests \ {r} : answer'[q] = answer[q]
  <2> HIDE DEF h
  <2> QED BY <1>1, EvidenceSet
<1>3. CASE looks[r] + 1 = Looks
  BY <1>2, <1>3 DEF Found, Goto, StepType, LocalType, Labels
<1>4. CASE looks[r] + 1 # Looks
  BY <1>2, <1>4 DEF Found, Ask, Goto, StepType, LocalType, PointerType, Labels
<1> QED BY <1>3, <1>4

Typed == StepType /\ LocalType /\ AnswerType /\ CacheType

\* All but the pointer, the rows and the clock keep their types, one action at a
\* time, and only the request that acts changes.
OthersStay(r) ==
    \A q \in Requests \ {r} : pc'[q] = pc[q] /\ since'[q] = since[q] /\ asked'[q] = asked[q]
                              /\ seen'[q] = seen[q] /\ answer'[q] = answer[q]

LEMMA ReceiveTyped ==
    ASSUME PointerType, RowsType, Typed, NEW r \in Requests, Receive(r)
    PROVE  Typed' /\ OthersStay(r)
<1> USE DEF Typed
<1>1. CacheType' /\ proc' = proc
  BY DEF Receive, caches, CacheType
<1>2. CASE End(r, "failed")
  BY <1>1, <1>2, Ended DEF OthersStay, Labels, StepType
<1>3. CASE ~End(r, "failed")
  <2>1. /\ since' = [since EXCEPT ![r] = now] /\ UNCHANGED <<asked, seen, looks>>
        /\ pc' = [pc EXCEPT ![r] = "exact"] \/ pc' = [pc EXCEPT ![r] = "append"]
        /\ answer' = answer \/ answer' = [answer EXCEPT ![r] = Copy]
    BY <1>3 DEF Receive, Goto
  <2>2. AnswerType' /\ \A q \in Requests \ {r} : answer'[q] = answer[q]
    BY <2>1, AnswerSet, Constants DEF AnswerType
  <2> QED BY <1>1, <2>1, <2>2 DEF OthersStay, StepType, LocalType, PointerType, Labels
<1> QED BY <1>2, <1>3

LEMMA ReadExactTyped ==
    ASSUME PointerType, RowsType, Typed, NEW r \in Requests, ReadExact(r)
    PROVE  Typed' /\ OthersStay(r)
<1> USE DEF Typed
<1>1. CacheType' /\ proc' = proc /\ UNCHANGED <<since, seen, looks>> /\ asked' = [asked EXCEPT ![r] = now]
      /\ (pc' = [pc EXCEPT ![r] = "restore"] \/ pc' = [pc EXCEPT ![r] = "look"])
  BY DEF ReadExact, Ask, Goto, caches, CacheType
<1>2. answer' = answer \/ \E e \in Entry : answer' = [answer EXCEPT ![r] = FromCache(e, "exact")]
  BY DEF ReadExact, CacheType
<1>3. AnswerType' /\ \A q \in Requests \ {r} : answer'[q] = answer[q]
  BY <1>2, AnswerSet, FromCacheIsAnswer DEF AnswerType
<1> QED BY <1>1, <1>3 DEF OthersStay, StepType, LocalType, PointerType, Labels

LEMMA CachedRowsTyped ==
    ASSUME PointerType, RowsType, Typed, NEW r \in Requests, CachedRows(r)
    PROVE  Typed' /\ OthersStay(r)
<1> USE DEF Typed
<1>1. CacheType' /\ proc' = proc /\ UNCHANGED <<since, seen>>
  BY DEF CachedRows, caches, CacheType
<1>2. rows[proc[r]].gen \in Gens \cup {NoGen} /\ Found(r, rows[proc[r]].gen)
  BY RowsHas DEF CachedRows, RowsType, StepType
<1> QED BY <1>1, <1>2, FoundIs DEF OthersStay, StepType, LocalType

LEMMA QueryRowsTyped ==
    ASSUME PointerType, RowsType, Typed, NEW r \in Requests, QueryRows(r)
    PROVE  Typed' /\ OthersStay(r)
BY DEF Typed, QueryRows, Goto, caches, CacheType, OthersStay, StepType, LocalType, AnswerType, PointerType,
   Labels

LEMMA LoadRowsTyped ==
    ASSUME PointerType, RowsType, Typed, NEW r \in Requests, LoadRows(r)
    PROVE  Typed' /\ OthersStay(r)
<1> USE DEF Typed
<1>1. CacheType' /\ proc' = proc /\ since' = since /\ seen' = [seen EXCEPT ![r] = NoGen]
  BY DEF LoadRows, caches, CacheType
<1>2. seen[r] \in Gens \cup {NoGen} /\ (Found(r, seen[r]) \/ Found(r, NoGen))
  BY DEF LoadRows, LocalType
<1> QED BY <1>1, <1>2, FoundIs DEF OthersStay, StepType, LocalType

\* A cached answer is restored, or is a miss.
RestoredIs(r) ==
    /\ rows' = StoredRows(r) /\ Restorable(answer[r].evidence, seen[r])
    /\ pc'[r] = "append" /\ asked'[r] = 0
    /\ answer'[r] = Copy \/ (answer'[r].text = "grounded" /\ answer'[r].evidence = answer[r].evidence
                             /\ answer'[r].origin = answer[r].origin)
MissedIs(r) ==
    \/ answer[r].origin = "exact" /\ pc'[r] = "look" /\ asked'[r] = now /\ answer'[r] = Nothing
    \/ /\ answer[r].origin # "exact" /\ pc'[r] = "generate" /\ asked'[r] = 0
       /\ answer'[r].evidence = answer[r].evidence /\ answer'[r].origin = "none"

LEMMA RestoreTyped ==
    ASSUME PointerType, RowsType, Typed, NEW r \in Requests, Restore(r)
    PROVE  Typed' /\ OthersStay(r) /\ (RestoredIs(r) \/ MissedIs(r))
<1> USE DEF Typed
<1>1. CacheType' /\ proc' = proc /\ UNCHANGED <<since, looks>> /\ seen' = [seen EXCEPT ![r] = NoGen]
  BY DEF Restore, caches, CacheType
<1>2. answer[r] \in Answer
  BY DEF AnswerType
<1> DEFINE kept == [Nothing EXCEPT !.evidence = answer[r].evidence]
<1>3. kept \in Answer /\ kept.evidence = answer[r].evidence /\ kept.origin = "none"
  BY <1>2, AnswerHas DEF Nothing, Answer, Texts, Origins
<1>4. \/ /\ rows' = StoredRows(r) /\ Restorable(answer[r].evidence, seen[r])
         /\ \E a \in Checked(answer[r]) : answer' = [answer EXCEPT ![r] = a]
         /\ pc' = [pc EXCEPT ![r] = "append"] /\ asked' = [asked EXCEPT ![r] = 0]
      \/ /\ answer[r].origin = "exact"
         /\ pc' = [pc EXCEPT ![r] = "look"] /\ asked' = [asked EXCEPT ![r] = now]
         /\ answer' = [answer EXCEPT ![r] = Nothing]
      \/ /\ answer[r].origin # "exact"
         /\ pc' = [pc EXCEPT ![r] = "generate"] /\ asked' = [asked EXCEPT ![r] = 0]
         /\ answer' = [answer EXCEPT ![r] = kept]
  BY DEF Restore, Ask, Goto
<1> HIDE DEF kept
<1>5. CASE /\ rows' = StoredRows(r) /\ Restorable(answer[r].evidence, seen[r])
           /\ \E a \in Checked(answer[r]) : answer' = [answer EXCEPT ![r] = a]
           /\ pc' = [pc EXCEPT ![r] = "append"] /\ asked' = [asked EXCEPT ![r] = 0]
  <2>1. PICK a \in Checked(answer[r]) : answer' = [answer EXCEPT ![r] = a]
    BY <1>5
  <2>2. a \in Answer /\ (a = Copy \/ (a.text = "grounded" /\ a.evidence = answer[r].evidence /\ a.origin = answer[r].origin))
    BY <1>2, CheckedIs
  <2>3. AnswerType' /\ answer'[r] = a /\ \A q \in Requests \ {r} : answer'[q] = answer[q]
    BY <2>1, <2>2, AnswerSet
  <2> QED BY <1>1, <1>5, <2>2, <2>3 DEF OthersStay, RestoredIs, StepType, LocalType, Labels
<1>6. CASE /\ answer[r].origin = "exact"
           /\ pc' = [pc EXCEPT ![r] = "look"] /\ asked' = [asked EXCEPT ![r] = now]
           /\ answer' = [answer EXCEPT ![r] = Nothing]
  <2>1. AnswerType' /\ answer'[r] = Nothing /\ \A q \in Requests \ {r} : answer'[q] = answer[q]
    BY <1>6, Constants, AnswerSet
  <2> QED BY <1>1, <1>6, <2>1 DEF OthersStay, MissedIs, StepType, LocalType, PointerType, Labels
<1>7. CASE /\ answer[r].origin # "exact"
           /\ pc' = [pc EXCEPT ![r] = "generate"] /\ asked' = [asked EXCEPT ![r] = 0]
           /\ answer' = [answer EXCEPT ![r] = kept]
  <2>1. AnswerType' /\ answer'[r] = kept /\ \A q \in Requests \ {r} : answer'[q] = answer[q]
    BY <1>3, <1>7, AnswerSet
  <2> QED BY <1>1, <1>3, <1>7, <2>1 DEF OthersStay, MissedIs, StepType, LocalType, Labels
<1> QED BY <1>4, <1>5, <1>6, <1>7

\* A retrieval ends with a copy, a near entry of the semantic cache, or the model.
ApprovedIs(r) ==
    \/ pc'[r] = "append" /\ asked'[r] = asked[r] /\ answer'[r] = Copy
    \/ \E e \in semantic :
          /\ e.evidence = answer[r].evidence /\ answer[r].evidence # {}
          /\ pc'[r] = "restore" /\ asked'[r] = now
          /\ answer'[r].evidence = answer[r].evidence /\ answer'[r].origin = "semantic"
    \/ pc'[r] = "generate" /\ asked'[r] = asked[r] /\ answer'[r] = answer[r] /\ answer[r].evidence # {}

LEMMA ReadSemanticTyped ==
    ASSUME PointerType, RowsType, Typed, NEW r \in Requests, ReadSemantic(r)
    PROVE  Typed' /\ OthersStay(r) /\ ApprovedIs(r)
<1> USE DEF Typed
<1>1. CacheType' /\ proc' = proc /\ UNCHANGED <<since, seen, looks>>
  BY DEF ReadSemantic, caches, CacheType
<1>2. \/ pc' = [pc EXCEPT ![r] = "append"] /\ answer' = [answer EXCEPT ![r] = Copy] /\ asked' = asked
      \/ \E e \in semantic : /\ answer[r].evidence # {} /\ e.evidence = answer[r].evidence
                             /\ pc' = [pc EXCEPT ![r] = "restore"] /\ asked' = [asked EXCEPT ![r] = now]
                             /\ answer' = [answer EXCEPT ![r] = FromCache(e, "semantic")]
      \/ /\ pc' = [pc EXCEPT ![r] = "generate"] /\ answer[r].evidence # {} /\ asked' = asked /\ answer' = answer
  BY DEF ReadSemantic, Approvable, Ask, Goto
<1>3. CASE pc' = [pc EXCEPT ![r] = "append"] /\ answer' = [answer EXCEPT ![r] = Copy] /\ asked' = asked
  <2>1. AnswerType' /\ answer'[r] = Copy /\ \A q \in Requests \ {r} : answer'[q] = answer[q]
    BY <1>3, Constants, AnswerSet
  <2> QED BY <1>1, <1>3, <2>1 DEF OthersStay, ApprovedIs, StepType, LocalType, Labels
<1>4. CASE \E e \in semantic : /\ answer[r].evidence # {} /\ e.evidence = answer[r].evidence
                               /\ pc' = [pc EXCEPT ![r] = "restore"] /\ asked' = [asked EXCEPT ![r] = now]
                               /\ answer' = [answer EXCEPT ![r] = FromCache(e, "semantic")]
  <2>1. PICK e \in semantic : /\ answer[r].evidence # {} /\ e.evidence = answer[r].evidence
                              /\ pc' = [pc EXCEPT ![r] = "restore"] /\ asked' = [asked EXCEPT ![r] = now]
                              /\ answer' = [answer EXCEPT ![r] = FromCache(e, "semantic")]
    BY <1>4
  <2> DEFINE a == FromCache(e, "semantic")
  <2>2. a \in Answer /\ a.evidence = answer[r].evidence /\ a.origin = "semantic"
    BY <2>1, FromCacheIsAnswer DEF CacheType
  <2>3. answer' = [answer EXCEPT ![r] = a]
    BY <2>1
  <2> HIDE DEF a
  <2>4. AnswerType' /\ answer'[r] = a /\ \A q \in Requests \ {r} : answer'[q] = answer[q]
    BY <2>2, <2>3, AnswerSet
  <2> QED BY <1>1, <2>1, <2>2, <2>4 DEF OthersStay, ApprovedIs, StepType, LocalType, PointerType, Labels
<1>5. CASE pc' = [pc EXCEPT ![r] = "generate"] /\ answer[r].evidence # {} /\ asked' = asked /\ answer' = answer
  BY <1>1, <1>5 DEF OthersStay, ApprovedIs, StepType, LocalType, AnswerType, Labels
<1> QED BY <1>2, <1>3, <1>4, <1>5

LEMMA GenerateTyped ==
    ASSUME PointerType, RowsType, Typed, NEW r \in Requests, Generate(r)
    PROVE  Typed' /\ OthersStay(r)
<1> USE DEF Typed
<1>1. proc' = proc
  BY DEF Generate
<1>2. CASE pc'[r] = "append"
  <2>1. pc' = [pc EXCEPT ![r] = "append"] /\ UNCHANGED <<since, asked, seen, looks>>
    BY <1>2 DEF Generate, End, Goto, StepType
  <2> QED BY <1>1, <1>2, <2>1, Generated DEF OthersStay, StepType, LocalType, Labels
<1>3. CASE pc'[r] # "append"
  BY <1>1, <1>3, Failed, Ended DEF OthersStay, StepType, Labels, caches, CacheType
<1> QED BY <1>2, <1>3

LEMMA AppendTyped ==
    ASSUME PointerType, RowsType, Typed, NEW r \in Requests, AppendTurn(r)
    PROVE  Typed' /\ OthersStay(r)
<1>1. End(r, "delivered") \/ End(r, "failed")
  BY DEF AppendTurn
<1> QED BY <1>1, Ended DEF AppendTurn, Typed, OthersStay, StepType, Labels, caches, CacheType

\* Switches, clearing and time leave the requests and the answer caches alone.
LEMMA EnvironmentTyped ==
    ASSUME Typed, ((\E p \in Processes : ClearRows(p) \/ Withdraw(p) \/ \E g \in Gens : Activate(p, g))
                    \/ Tick \/ UNCHANGED vars)
    PROVE  Typed' /\ UNCHANGED <<caches, pc, proc, locals>>
<1>1. UNCHANGED <<caches, pc, proc, locals>>
  BY DEF ClearRows, Activate, Withdraw, SetPointer, Tick, vars
<1> QED BY <1>1 DEF Typed, caches, locals, CacheType, StepType, LocalType, AnswerType

LEMMA TypeNext == TypeOK /\ [Next]_vars => TypeOK'
<1> SUFFICES ASSUME TypeOK, [Next]_vars PROVE TypeOK'
  OBVIOUS
<1>1. PointerType /\ RowsType /\ Typed
  BY TypeParts DEF Typed
<1>2. PointerType' /\ RowsType'
  BY <1>1, PointerNext, RowsNext DEF Typed
<1>3. Typed'
  BY <1>1, ReceiveTyped, ReadExactTyped, CachedRowsTyped, QueryRowsTyped, LoadRowsTyped, RestoreTyped,
     ReadSemanticTyped, GenerateTyped, AppendTyped, EnvironmentTyped DEF Next, Proceed
<1> QED BY <1>2, <1>3 DEF TypeOK, Typed, PointerType, RowsType, CacheType, StepType, LocalType, AnswerType

LEMMA TypeInit == Init => TypeOK
<1> SUFFICES ASSUME Init PROVE TypeOK
  OBVIOUS
<1>1. NoRows \in Rows
  BY DEF NoRows, Rows
<1> QED BY <1>1, Constants DEF Init, TypeOK, Labels
-----------------------------------------------------------------------------
(* What was live at a time of the past has been live since that time *)

LEMMA LiveStays ==
    ASSUME PointerType, [Next]_vars, NEW g \in Gens, NEW t \in Int, t <= now, LiveSince(g, t)
    PROVE  g = active' \/ liveUntil'[g] >= t
<1>1. ASSUME UNCHANGED pointer PROVE g = active' \/ liveUntil'[g] >= t
  BY <1>1 DEF pointer, LiveSince
<1>2. ASSUME NEW p \in Processes, NEW h \in Gens \cup {NoGen}, SetPointer(p, h)
      PROVE  g = active' \/ liveUntil'[g] >= t
  <2>1. liveUntil'[g] = IF g = active THEN now ELSE liveUntil[g]
    BY <1>2 DEF SetPointer
  <2> QED BY <2>1 DEF LiveSince
<1>3. ASSUME NEW r \in Requests, Receive(r) \/ Proceed(r) PROVE UNCHANGED pointer
  BY <1>3 DEF Receive, Proceed, ReadExact, CachedRows, QueryRows, LoadRows, Restore, ReadSemantic,
     Generate, AppendTurn, pointer
<1>4. (\E p \in Processes : ClearRows(p)) \/ Tick \/ UNCHANGED vars => UNCHANGED pointer
  BY DEF ClearRows, Tick, vars, pointer
<1> QED BY <1>1, <1>2, <1>3, <1>4 DEF Next, Activate, Withdraw

LEMMA LiveEarlier ==
    ASSUME PointerType, NEW g \in Gens, NEW t \in Int, NEW u \in Int, u <= t, LiveSince(g, t)
    PROVE  LiveSince(g, u)
<1>1. liveUntil[g] \in Int
  BY DEF PointerType
<1> QED BY <1>1 DEF LiveSince

\* Steps of a request: neither the pointer nor the clock moves.
LEMMA RequestFrame ==
    ASSUME NEW r \in Requests, Receive(r) \/ Proceed(r)
    PROVE  UNCHANGED <<now, active, liveUntil, switcher, dirty, proc>>
BY DEF Receive, Proceed, ReadExact, CachedRows, QueryRows, LoadRows, Restore, ReadSemantic, Generate,
   AppendTurn, pointer

\* Since when the evidence of a request has been live.
Recent(r) == \A g \in answer[r].evidence : LiveSince(g, (since[r] + 1) - CacheSeconds)

\* What holds of a request in each of its steps.
RequestInv(r) ==
    /\ since[r] <= now
    /\ pc[r] \in {"look", "reading", "restore", "rereading"} => since[r] <= asked[r] /\ asked[r] <= now
    /\ pc[r] \in {"reading", "rereading"} => seen[r] = NoGen \/ LiveSince(seen[r], asked[r])
    /\ pc[r] \in {"restore", "rereading"} => answer[r].evidence # {}
    /\ pc[r] \in {"restore", "rereading"} => Cached(r)
    /\ pc[r] \in {"look", "reading", "approve", "generate"} => ~Cached(r)
    /\ pc[r] = "generate" => answer[r].evidence # {}
    /\ pc[r] = "append" => answer[r].text \in {"grounded", "copy"}
    /\ pc[r] \in {"exact", "look", "reading", "approve", "generate", "append"} \/ answer[r].origin = "semantic" => Recent(r)
    /\ pc[r] \in {"idle", "exact"} => answer[r] = Nothing
    /\ pc[r] = "append" /\ Cached(r) => \E g \in Gens : answer[r].evidence = {g} /\ LiveSince(g, since[r])

\* The answer caches and the rows of the processes.
CacheInv == \A e \in exact \cup semantic : e.text = "grounded" /\ e.evidence # {}

RowsInv ==
    \A p \in Processes :
        rows[p].gen # NoGen => rows[p].loadedAt <= now /\ LiveSince(rows[p].gen, rows[p].loadedAt)

IInv == TypeOK /\ CacheInv /\ RowsInv /\ \A r \in Requests : RequestInv(r)

LEMMA TimeGoesOn == PointerType /\ [Next]_vars => now' >= now /\ now' \in Nat
<1> SUFFICES ASSUME PointerType, [Next]_vars PROVE now' >= now /\ now' \in Nat
  OBVIOUS
<1>1. (\E p \in Processes : ClearRows(p) \/ Withdraw(p) \/ \E g \in Gens : Activate(p, g)) \/ UNCHANGED vars => now' = now
  BY DEF ClearRows, Activate, Withdraw, SetPointer, vars
<1>2. Tick => now' = now + 1
  BY DEF Tick
<1> QED BY <1>1, <1>2, RequestFrame DEF Next, PointerType

\* A request that does not act keeps what holds of it.
LEMMA RequestStays ==
    ASSUME TypeOK, [Next]_vars, NEW r \in Requests, RequestInv(r),
           pc'[r] = pc[r], since'[r] = since[r], asked'[r] = asked[r], seen'[r] = seen[r], answer'[r] = answer[r]
    PROVE  RequestInv(r)'
<1> DEFINE a == answer[r]
<1> DEFINE t == (since[r] + 1) - CacheSeconds
<1>1. PointerType /\ since[r] \in Nat /\ asked[r] \in Nat /\ now \in Nat /\ now' \in Nat /\ now <= now'
      /\ seen[r] \in Gens \cup {NoGen} /\ a.evidence \subseteq Gens
  BY TypeParts, TimeGoesOn, AnswerHas DEF PointerType, LocalType, AnswerType
<1>2. \A g \in Gens, u \in Int : u <= now /\ LiveSince(g, u) => (g = active' \/ liveUntil'[g] >= u)
  BY <1>1, LiveStays
<1>3. since'[r] <= now' /\ since[r] <= now
  BY <1>1 DEF RequestInv
<1>4. pc[r] \in {"look", "reading", "restore", "rereading"} => since[r] <= asked[r] /\ asked[r] <= now /\ asked[r] <= now'
  BY <1>1 DEF RequestInv
<1>5. pc[r] \in {"reading", "rereading"} => seen[r] = NoGen \/ seen[r] = active' \/ liveUntil'[seen[r]] >= asked[r]
  BY <1>1, <1>2, <1>4 DEF RequestInv
<1>6. Recent(r) => \A g \in a.evidence : g = active' \/ liveUntil'[g] >= t
  <2>1. t \in Int /\ t <= now
    BY <1>1, <1>3
  <2>2. Recent(r) => \A g \in a.evidence : LiveSince(g, t)
    BY DEF Recent
  <2> HIDE DEF t
  <2> QED BY <1>1, <1>2, <2>1, <2>2
<1>7. pc[r] = "append" /\ Cached(r) =>
        \E g \in Gens : a.evidence = {g} /\ (g = active' \/ liveUntil'[g] >= since[r])
  BY <1>1, <1>2, <1>3 DEF RequestInv
<1> QED BY <1>3, <1>4, <1>5, <1>6, <1>7 DEF RequestInv, Recent, Cached, LiveSince

\* Facts of a request that acts.
LEMMA Acting ==
    ASSUME IInv, NEW r \in Requests
    PROVE  /\ PointerType /\ RowsType /\ Typed /\ RequestInv(r)
           /\ since[r] \in Nat /\ asked[r] \in Nat /\ now \in Nat
           /\ seen[r] \in Gens \cup {NoGen} /\ pc[r] \in Labels /\ proc[r] \in Processes
           /\ answer[r] \in Answer /\ answer[r].evidence \subseteq Gens
BY TypeParts, AnswerHas DEF IInv, Typed, PointerType, StepType, LocalType, AnswerType

LEMMA EndedKeeps ==
    ASSUME IInv, NEW r \in Requests, NEW l \in {"delivered", "failed"}, End(r, l), now' = now
    PROVE  RequestInv(r)'
<1>1. pc'[r] = l /\ since'[r] = 0 /\ asked'[r] = 0 /\ answer'[r] = Nothing /\ now \in Nat
  BY Acting, Ended DEF Typed, Labels
<1> QED BY <1>1, Constants DEF RequestInv, Cached

LEMMA ReceiveKeeps == ASSUME IInv, NEW r \in Requests, Receive(r) PROVE RequestInv(r)'
<1>1. now' = now /\ now \in Nat
  BY Acting, RequestFrame
<1>2. CASE End(r, "failed")
  BY <1>1, <1>2, EndedKeeps
<1>3. CASE ~End(r, "failed")
  <2>1. /\ pc[r] = "idle" /\ since' = [since EXCEPT ![r] = now]
        /\ \/ pc' = [pc EXCEPT ![r] = "exact"] /\ answer' = answer
           \/ pc' = [pc EXCEPT ![r] = "append"] /\ answer' = [answer EXCEPT ![r] = Copy]
    BY <1>3 DEF Receive, Goto
  <2>2. since'[r] = now /\ answer[r] = Nothing
    BY <2>1, Acting DEF RequestInv, Typed, LocalType
  <2>3. (pc'[r] = "exact" /\ answer'[r] = Nothing) \/ (pc'[r] = "append" /\ answer'[r] = Copy)
    BY <2>1, <2>2, Acting DEF Typed, StepType, AnswerType
  <2> QED BY <1>1, <2>2, <2>3, Constants DEF RequestInv, Recent, Cached
<1> QED BY <1>2, <1>3

LEMMA ReadExactKeeps == ASSUME IInv, NEW r \in Requests, ReadExact(r) PROVE RequestInv(r)'
<1>1. now' = now /\ now \in Nat /\ pc[r] = "exact" /\ since' = since /\ asked'[r] = now /\ since[r] <= now
  BY Acting, RequestFrame DEF ReadExact, Ask, Proceed, RequestInv, Typed, LocalType
<1>2. answer[r] = Nothing
  BY <1>1, Acting DEF RequestInv
<1>3. CASE pc' = [pc EXCEPT ![r] = "look"] /\ answer' = answer
  <2>1. pc'[r] = "look" /\ answer'[r] = Nothing
    BY <1>2, <1>3, Acting DEF Typed, StepType
  <2> QED BY <1>1, <2>1, Constants DEF RequestInv, Recent, Cached
<1>4. CASE \E e \in exact : pc' = [pc EXCEPT ![r] = "restore"] /\ answer' = [answer EXCEPT ![r] = FromCache(e, "exact")]
  <2>1. PICK e \in exact : pc' = [pc EXCEPT ![r] = "restore"] /\ answer' = [answer EXCEPT ![r] = FromCache(e, "exact")]
    BY <1>4
  <2>2. e \in Entry /\ e.evidence # {}
    BY Acting DEF IInv, CacheInv, Typed, CacheType
  <2>3. pc'[r] = "restore" /\ answer'[r] = FromCache(e, "exact")
    BY <2>1, Acting DEF Typed, StepType, AnswerType
  <2>4. answer'[r].evidence # {} /\ answer'[r].origin = "exact"
    BY <2>2, <2>3, FromCacheIsAnswer
  <2> QED BY <1>1, <2>3, <2>4 DEF RequestInv, Cached
<1> QED BY <1>3, <1>4 DEF ReadExact, Ask, Goto

\* A look-up adds evidence that was live less than the age of the rows ago.
LEMMA FoundKeeps ==
    ASSUME IInv, NEW r \in Requests, NEW g \in Gens \cup {NoGen}, Found(r, g),
           UNCHANGED <<now, active, liveUntil, since>>, pc[r] \in {"look", "reading"},
           g # NoGen => LiveSince(g, (since[r] + 1) - CacheSeconds)
    PROVE  RequestInv(r)'
<1>1. /\ (pc'[r] = "look" /\ asked'[r] = now) \/ (pc'[r] = "approve" /\ asked'[r] = 0)
      /\ answer'[r].evidence = answer[r].evidence \cup ({g} \ {NoGen})
      /\ answer'[r].origin = answer[r].origin
  BY Acting, FoundIs DEF Typed
<1>2. since[r] <= now /\ Recent(r) /\ ~Cached(r)
  BY Acting DEF RequestInv
<1>3. ~(answer'[r].origin \in {"exact", "semantic"})
  BY <1>1, <1>2 DEF Cached
<1>4. \A h \in answer'[r].evidence : LiveSince(h, (since[r] + 1) - CacheSeconds)
  BY <1>1, <1>2 DEF Recent
<1>5. Recent(r)'
  BY <1>4 DEF Recent, LiveSince
<1> QED BY <1>1, <1>2, <1>3, <1>5, Acting DEF RequestInv, Cached

LEMMA CachedRowsKeeps == ASSUME IInv, NEW r \in Requests, CachedRows(r) PROVE RequestInv(r)'
<1> DEFINE p == proc[r]
<1>1. pc[r] = "look" /\ HasRows(p) /\ asked[r] < rows[p].loadedAt + CacheSeconds /\ Found(r, rows[p].gen)
      /\ UNCHANGED <<now, active, liveUntil, since>>
  BY RequestFrame DEF CachedRows, RowsAreFresh, Proceed
<1>2. p \in Processes /\ rows[p] \in Rows
  BY Acting DEF RowsType
<1>3. rows[p].loadedAt \in Nat /\ rows[p].gen \in Gens \cup {NoGen}
  BY <1>2, RowsHas
<1>4. rows[p].gen # NoGen => LiveSince(rows[p].gen, rows[p].loadedAt)
  BY <1>2 DEF IInv, RowsInv
<1>5. since[r] <= asked[r]
  BY <1>1, Acting DEF RequestInv
<1>6. rows[p].gen # NoGen => LiveSince(rows[p].gen, (since[r] + 1) - CacheSeconds)
  <2>1. (since[r] + 1) - CacheSeconds \in Int /\ (since[r] + 1) - CacheSeconds <= rows[p].loadedAt
    BY <1>1, <1>3, <1>5, Acting
  <2> QED BY <1>3, <1>4, <2>1, LiveEarlier, Acting
<1> QED BY <1>1, <1>3, <1>6, FoundKeeps

LEMMA QueryRowsKeeps == ASSUME IInv, NEW r \in Requests, QueryRows(r) PROVE RequestInv(r)'
<1>1. UNCHANGED <<now, active, liveUntil, since, asked, answer>> /\ seen'[r] = active
      /\ ((pc[r] = "look" /\ pc'[r] = "reading") \/ (pc[r] = "restore" /\ pc'[r] = "rereading"))
  BY Acting DEF QueryRows, Goto, Typed, StepType, LocalType, pointer
<1> QED BY <1>1, Acting DEF RequestInv, Recent, Cached, LiveSince

LEMMA LoadRowsKeeps == ASSUME IInv, NEW r \in Requests, LoadRows(r) PROVE RequestInv(r)'
<1>1. pc[r] = "reading" /\ UNCHANGED <<now, active, liveUntil, since>> /\ (Found(r, seen[r]) \/ Found(r, NoGen))
  BY RequestFrame DEF LoadRows, Proceed
<1>2. seen[r] # NoGen => LiveSince(seen[r], (since[r] + 1) - CacheSeconds)
  <2>1. since[r] <= asked[r] /\ (seen[r] # NoGen => seen[r] \in Gens /\ LiveSince(seen[r], asked[r]))
    BY <1>1, Acting DEF RequestInv
  <2>2. (since[r] + 1) - CacheSeconds \in Int /\ (since[r] + 1) - CacheSeconds <= asked[r] /\ asked[r] \in Int
    BY <2>1, Acting
  <2> QED BY <2>1, <2>2, LiveEarlier, Acting
<1> QED BY <1>1, <1>2, FoundKeeps, Acting

LEMMA RestoreKeeps == ASSUME IInv, NEW r \in Requests, Restore(r) PROVE RequestInv(r)'
<1>1. pc[r] = "rereading" /\ UNCHANGED <<now, active, liveUntil, since>>
  BY RequestFrame DEF Restore, Proceed
<1>2. RestoredIs(r) \/ MissedIs(r)
  BY Acting, RestoreTyped
<1>3. since[r] <= now /\ since[r] <= asked[r] /\ answer[r].evidence # {} /\ Cached(r)
      /\ (seen[r] = NoGen \/ LiveSince(seen[r], asked[r])) /\ (answer[r].origin = "semantic" => Recent(r))
  BY <1>1, Acting DEF RequestInv
<1>4. CASE RestoredIs(r)
  <2>1. seen[r] \in Gens /\ answer[r].evidence = {seen[r]}
    BY <1>4, Acting DEF RestoredIs, Restorable
  <2>2. LiveSince(seen[r], since[r]) /\ LiveSince(seen[r], (since[r] + 1) - CacheSeconds)
    <3>1. (since[r] + 1) - CacheSeconds \in Int /\ (since[r] + 1) - CacheSeconds <= asked[r]
      BY <1>3, Acting
    <3> QED BY <1>3, <2>1, <3>1, LiveEarlier, Acting
  <2>3. CASE answer'[r] = Copy
    BY <1>1, <1>3, <1>4, <2>3, Constants DEF RestoredIs, RequestInv, Recent, Cached
  <2>4. CASE answer'[r].text = "grounded" /\ answer'[r].evidence = {seen[r]}
    BY <1>1, <1>3, <1>4, <2>1, <2>2, <2>4 DEF RestoredIs, RequestInv, Recent, Cached, LiveSince
  <2> QED BY <1>4, <2>1, <2>3, <2>4 DEF RestoredIs
<1>5. CASE MissedIs(r)
  <2>1. CASE pc'[r] = "look" /\ asked'[r] = now /\ answer'[r] = Nothing
    BY <1>1, <1>3, <2>1, Constants, Acting DEF RequestInv, Recent, Cached
  <2>2. CASE /\ answer[r].origin # "exact" /\ pc'[r] = "generate"
             /\ answer'[r].evidence = answer[r].evidence /\ answer'[r].origin = "none"
    <3>1. Recent(r)
      BY <1>3, <2>2 DEF Cached
    <3>2. Recent(r)'
      BY <1>1, <2>2, <3>1 DEF Recent, LiveSince
    <3> QED BY <1>1, <1>3, <2>2, <3>2 DEF RequestInv, Cached
  <2> QED BY <1>5, <2>1, <2>2 DEF MissedIs
<1> QED BY <1>2, <1>4, <1>5

LEMMA ReadSemanticKeeps == ASSUME IInv, NEW r \in Requests, ReadSemantic(r) PROVE RequestInv(r)'
<1>1. pc[r] = "approve" /\ UNCHANGED <<now, active, liveUntil, since>>
  BY RequestFrame DEF ReadSemantic, Proceed
<1>2. ApprovedIs(r) /\ since[r] <= now /\ Recent(r) /\ ~Cached(r) /\ now \in Nat
  BY <1>1, Acting, ReadSemanticTyped DEF RequestInv
<1>3. CASE pc'[r] = "append" /\ answer'[r] = Copy
  BY <1>1, <1>2, <1>3, Constants DEF RequestInv, Recent, Cached
<1>4. CASE \E e \in semantic :
              /\ e.evidence = answer[r].evidence /\ answer[r].evidence # {}
              /\ pc'[r] = "restore" /\ asked'[r] = now
              /\ answer'[r].evidence = answer[r].evidence /\ answer'[r].origin = "semantic"
  <2>1. Recent(r)'
    BY <1>1, <1>2, <1>4 DEF Recent, LiveSince
  <2> QED BY <1>1, <1>2, <1>4, <2>1 DEF RequestInv, Cached
<1>5. CASE pc'[r] = "generate" /\ answer'[r] = answer[r] /\ answer[r].evidence # {}
  <2>1. Recent(r)'
    BY <1>1, <1>2, <1>5 DEF Recent, LiveSince
  <2> QED BY <1>1, <1>2, <1>5, <2>1 DEF RequestInv, Cached
<1> QED BY <1>2, <1>3, <1>4, <1>5 DEF ApprovedIs

LEMMA GenerateKeeps == ASSUME IInv, NEW r \in Requests, Generate(r) PROVE RequestInv(r)'
<1>1. pc[r] = "generate" /\ UNCHANGED <<now, active, liveUntil>>
  BY RequestFrame DEF Generate, Proceed
<1>2. since[r] <= now /\ Recent(r)
  BY <1>1, Acting DEF RequestInv
<1>3. CASE pc'[r] = "append"
  <2>1. since' = since
    BY <1>3, Acting DEF Generate, End, Goto, Typed, StepType
  <2>2. answer'[r] = Copy \/ (answer'[r].text = "grounded" /\ answer'[r].evidence = answer[r].evidence /\ answer'[r].origin = "model")
    BY <1>3, Acting, Generated DEF Typed
  <2>3. CASE answer'[r] = Copy
    BY <1>1, <1>2, <1>3, <2>1, <2>3, Constants DEF RequestInv, Recent, Cached
  <2>4. CASE answer'[r].text = "grounded" /\ answer'[r].evidence = answer[r].evidence /\ answer'[r].origin = "model"
    <3>1. Recent(r)'
      BY <1>1, <1>2, <2>1, <2>4 DEF Recent, LiveSince
    <3> QED BY <1>1, <1>2, <1>3, <2>1, <2>4, <3>1 DEF RequestInv, Cached
  <2> QED BY <2>2, <2>3, <2>4
<1>4. CASE pc'[r] # "append"
  BY <1>1, <1>4, Acting, Failed, EndedKeeps DEF Typed
<1> QED BY <1>3, <1>4

LEMMA AppendKeeps == ASSUME IInv, NEW r \in Requests, AppendTurn(r) PROVE RequestInv(r)'
BY EndedKeeps DEF AppendTurn
-----------------------------------------------------------------------------
(* The invariant *)

LEMMA CacheNext == IInv /\ [Next]_vars => CacheInv'
<1> SUFFICES ASSUME IInv, [Next]_vars PROVE CacheInv'
  OBVIOUS
<1>1. ASSUME UNCHANGED caches PROVE CacheInv'
  BY <1>1 DEF IInv, CacheInv, caches
<1>2. ASSUME NEW r \in Requests, Generate(r) PROVE CacheInv'
  <2>1. CASE pc'[r] = "append"
    <3>1. answer[r].evidence # {}
      BY <1>2, Acting DEF RequestInv, Generate
    <3> QED BY <1>2, <2>1, <3>1, Acting, Generated DEF Typed, IInv, CacheInv
  <2>2. CASE pc'[r] # "append"
    BY <1>1, <1>2, <2>2, Acting, Failed DEF Typed
  <2> QED BY <2>1, <2>2
<1>3. ASSUME NEW r \in Requests, Receive(r) \/ ReadExact(r) \/ CachedRows(r) \/ QueryRows(r) \/ LoadRows(r)
                                 \/ Restore(r) \/ ReadSemantic(r) \/ AppendTurn(r) PROVE UNCHANGED caches
  BY <1>3 DEF Receive, ReadExact, CachedRows, QueryRows, LoadRows, Restore, ReadSemantic, AppendTurn
<1>4. (\E p \in Processes : ClearRows(p) \/ Withdraw(p) \/ \E g \in Gens : Activate(p, g)) \/ Tick \/ UNCHANGED vars
        => UNCHANGED caches
  BY DEF ClearRows, Activate, Withdraw, SetPointer, Tick, vars
<1> QED BY <1>1, <1>2, <1>3, <1>4 DEF Next, Proceed

\* The rows that a request stores are those of the generation it read.
LEMMA RowsChange ==
    ASSUME IInv, NEW r \in Requests, Receive(r) \/ Proceed(r), rows' # rows
    PROVE  rows' = StoredRows(r) /\ dirty' = dirty /\ pc[r] \in {"reading", "rereading"}
BY DEF Receive, Proceed, ReadExact, CachedRows, QueryRows, LoadRows, Restore, ReadSemantic, Generate,
   AppendTurn

LEMMA RowsInvNext == IInv /\ [Next]_vars => RowsInv'
<1> SUFFICES ASSUME IInv, [Next]_vars, NEW p \in Processes, rows'[p].gen # NoGen
             PROVE  /\ rows'[p].loadedAt <= now'
                    /\ rows'[p].gen = active' \/ liveUntil'[rows'[p].gen] >= rows'[p].loadedAt
  BY DEF RowsInv, LiveSince
<1>1. TypeOK /\ PointerType /\ RowsType
  BY TypeParts DEF IInv
<1>2. CASE rows'[p] = rows[p]
  <2>1. rows[p].gen # NoGen /\ rows[p] \in Rows
    BY <1>1, <1>2 DEF RowsType
  <2>2. rows[p].gen \in Gens /\ rows[p].loadedAt \in Nat /\ rows[p].loadedAt <= now
        /\ LiveSince(rows[p].gen, rows[p].loadedAt)
    BY <2>1, RowsHas DEF IInv, RowsInv
  <2>3. rows[p].gen = active' \/ liveUntil'[rows[p].gen] >= rows[p].loadedAt
    BY <1>1, <2>2, LiveStays
  <2> QED BY <1>1, <1>2, <2>2, <2>3, TimeGoesOn DEF LiveSince, PointerType
<1>3. ASSUME NEW r \in Requests, Receive(r) \/ Proceed(r), rows'[p] # rows[p]
        PROVE  /\ rows'[p].loadedAt <= now'
               /\ rows'[p].gen = active' \/ liveUntil'[rows'[p].gen] >= rows'[p].loadedAt
  <2>1. rows' = StoredRows(r) /\ dirty' = dirty /\ pc[r] \in {"reading", "rereading"}
    BY <1>3, RowsChange
  <2>2. rows'[p].gen = seen[r] /\ rows'[p].loadedAt = asked[r]
    BY <1>3, <2>1, Acting, StoredIsRows DEF Typed
  <2>3. seen[r] # NoGen /\ asked[r] <= now /\ LiveSince(seen[r], asked[r])
    BY <2>1, <2>2, Acting DEF RequestInv
  <2> QED BY <1>3, <2>2, <2>3, RequestFrame DEF LiveSince
<1>4. ASSUME NEW q \in Processes, ClearRows(q) PROVE rows'[p] = rows[p]
  <2>1. rows' = [rows EXCEPT ![q] = NoRows] /\ NoRows.gen = NoGen
    BY <1>4 DEF ClearRows, NoRows
  <2> QED BY <1>1, <2>1 DEF RowsType
<1>5. (\E q \in Processes : Withdraw(q) \/ \E g \in Gens : Activate(q, g)) \/ Tick \/ UNCHANGED vars => rows' = rows
  BY DEF Activate, Withdraw, SetPointer, Tick, vars
<1> QED BY <1>2, <1>3, <1>4, <1>5 DEF Next, Activate, Withdraw

LEMMA RequestsNext == IInv /\ [Next]_vars => \A r \in Requests : RequestInv(r)'
<1> SUFFICES ASSUME IInv, [Next]_vars, NEW r \in Requests PROVE RequestInv(r)'
  OBVIOUS
<1>1. TypeOK /\ RequestInv(r) /\ PointerType /\ RowsType /\ Typed
  BY Acting DEF IInv
<1>2. CASE Receive(r) \/ Proceed(r)
  BY <1>2, ReceiveKeeps, ReadExactKeeps, CachedRowsKeeps, QueryRowsKeeps, LoadRowsKeeps, RestoreKeeps,
     ReadSemanticKeeps, GenerateKeeps, AppendKeeps DEF Proceed
<1>3. ASSUME NEW q \in Requests \ {r}, Receive(q) \/ Proceed(q) PROVE RequestInv(r)'
  <2>1. OthersStay(q)
    BY <1>1, <1>3, ReceiveTyped, ReadExactTyped, CachedRowsTyped, QueryRowsTyped, LoadRowsTyped, RestoreTyped,
       ReadSemanticTyped, GenerateTyped, AppendTyped DEF Proceed
  <2> QED BY <1>1, <2>1, RequestStays DEF OthersStay
<1>4. CASE (\E p \in Processes : ClearRows(p) \/ Withdraw(p) \/ \E g \in Gens : Activate(p, g)) \/ Tick \/ UNCHANGED vars
  <2>1. UNCHANGED <<pc, locals>>
    BY <1>1, <1>4, EnvironmentTyped
  <2> QED BY <1>1, <2>1, RequestStays DEF locals
<1> QED BY <1>2, <1>3, <1>4 DEF Next

LEMMA InitIInv == Init => IInv
<1> SUFFICES ASSUME Init PROVE IInv
  OBVIOUS
<1>1. CacheInv /\ RowsInv
  <2>1. NoRows.gen = NoGen
    BY DEF NoRows
  <2> QED BY <2>1 DEF Init, CacheInv, RowsInv
<1>2. ASSUME NEW r \in Requests PROVE RequestInv(r)
  <2>1. pc[r] = "idle" /\ since[r] = 0 /\ now = 1 /\ answer[r] = Nothing
    BY DEF Init
  <2> QED BY <2>1, Constants DEF RequestInv, Cached
<1> QED BY <1>1, <1>2, TypeInit DEF IInv

LEMMA Invariance == Spec => []IInv
<1>1. IInv /\ [Next]_vars => IInv'
  BY TypeNext, CacheNext, RowsInvNext, RequestsNext DEF IInv
<1> QED BY <1>1, InitIInv, PTL DEF Spec

\* Every variable keeps its type.
THEOREM ChatTypeCorrect == Spec => []TypeOK
<1>1. IInv => TypeOK
  BY DEF IInv
<1> QED BY <1>1, Invariance, PTL

\* What is delivered was written by the code or checked, on every path, and the
\* answer caches hold nothing else that could be delivered.
THEOREM OnlyCheckedIsDeliveredHolds == Spec => []OnlyCheckedIsDelivered
<1>1. IInv => OnlyCheckedIsDelivered
  BY DEF IInv, OnlyCheckedIsDelivered, CacheInv, RequestInv, Settled
<1> QED BY <1>1, Invariance, PTL

\* The evidence of a cached answer was live at some moment of the request it is
\* served to (_cached_response_value, restore_evidence).
THEOREM CachedEvidenceWasLiveHolds == Spec => []CachedEvidenceWasLive
<1>1. IInv => CachedEvidenceWasLive
  BY DEF IInv, CachedEvidenceWasLive, RequestInv, Settled
<1> QED BY <1>1, Invariance, PTL

\* No answer rests on evidence that was replaced CacheSeconds or more before the
\* request was received (_active_generation_rows).
THEOREM EvidenceAgeHolds == Spec => []EvidenceAge
<1>1. IInv => EvidenceAge
  BY DEF IInv, EvidenceAge, RequestInv, Settled, Recent
<1> QED BY <1>1, Invariance, PTL

\* A cached answer rests on one generation of the document only.
THEOREM CachedIsOfOneGenerationHolds == Spec => []CachedIsOfOneGeneration
<1>1. IInv => CachedIsOfOneGeneration
  <2> SUFFICES ASSUME IInv, NEW r \in Requests, Settled(r), Cached(r)
               PROVE  Cardinality(answer[r].evidence) = 1
    BY DEF CachedIsOfOneGeneration
  <2>1. PICK g \in Gens : answer[r].evidence = {g}
    BY DEF IInv, RequestInv, Settled
  <2> QED BY <2>1, FS_Singleton
<1> QED BY <1>1, Invariance, PTL
-----------------------------------------------------------------------------
(* The process that switched the pointer *)

\* Neither its rows nor a query that is under way are of an older pointer.
SwitcherInv ==
    \A p \in switcher \ dirty :
        /\ HasRows(p) => rows[p].gen = active
        /\ \A r \in Holders(p) : seen[r] = active

LEMMA SwitcherNext == IInv /\ SwitcherInv /\ [Next]_vars => SwitcherInv'
<1> SUFFICES ASSUME IInv, SwitcherInv, [Next]_vars, NEW p \in switcher' \ dirty'
             PROVE  (HasRows(p) => rows[p].gen = active)' /\ \A r \in Holders(p)' : seen'[r] = active'
  BY DEF SwitcherInv
<1>1. RowsType /\ PointerType /\ Typed /\ TypeOK
  BY TypeParts DEF IInv, Typed
<1>2. ASSUME NEW q \in Requests, Receive(q) \/ Proceed(q)
        PROVE  (HasRows(p) => rows[p].gen = active)' /\ \A r \in Holders(p)' : seen'[r] = active'
  <2>1. UNCHANGED <<active, switcher, dirty, proc>> /\ p \in switcher \ dirty /\ p \in Processes
    BY <1>1, <1>2, RequestFrame DEF PointerType
  <2>2. rows'[p] # rows[p] => rows'[p].gen = active
    <3> SUFFICES ASSUME rows'[p] # rows[p] PROVE rows'[p].gen = active
      OBVIOUS
    <3>1. rows' = StoredRows(q) /\ dirty' = dirty /\ pc[q] \in {"reading", "rereading"}
      BY <1>2, RowsChange
    <3>2. proc[q] = p /\ rows'[p].gen = seen[q]
      BY <1>1, <2>1, <3>1, StoredIsRows DEF Typed
    <3> QED BY <2>1, <3>1, <3>2 DEF SwitcherInv, Holders
  <2>3. OthersStay(q)
    BY <1>1, <1>2, ReceiveTyped, ReadExactTyped, CachedRowsTyped, QueryRowsTyped, LoadRowsTyped, RestoreTyped,
       ReadSemanticTyped, GenerateTyped, AppendTyped DEF Proceed
  <2>4. pc'[q] \in {"reading", "rereading"} => seen'[q] = active
    <3>1. ASSUME pc'[q] \in {"reading", "rereading"} PROVE QueryRows(q)
      <4>1. ~Receive(q) /\ ~ReadExact(q)
        BY <1>1, <3>1 DEF Receive, ReadExact, End, Ask, Goto, Typed, StepType
      <4>2. ~CachedRows(q) /\ ~LoadRows(q)
        BY <1>1, <3>1 DEF CachedRows, LoadRows, Found, Ask, Goto, Typed, StepType
      <4>3. ~Restore(q) /\ ~ReadSemantic(q)
        BY <1>1, <3>1, RestoreTyped, ReadSemanticTyped DEF RestoredIs, MissedIs, ApprovedIs
      <4>4. ~Generate(q) /\ ~AppendTurn(q)
        BY <1>1, <3>1 DEF Generate, AppendTurn, End, Goto, Typed, StepType
      <4> QED BY <1>2, <4>1, <4>2, <4>3, <4>4 DEF Proceed
    <3> QED BY <1>1, <3>1 DEF QueryRows, Typed, LocalType
  <2> QED BY <2>1, <2>2, <2>3, <2>4 DEF SwitcherInv, Holders, HasRows, OthersStay
<1>3. ASSUME NEW q \in Processes, ClearRows(q)
        PROVE  (HasRows(p) => rows[p].gen = active)' /\ \A r \in Holders(p)' : seen'[r] = active'
  <2>1. UNCHANGED <<active, switcher, proc, pc, seen>> /\ rows' = [rows EXCEPT ![q] = NoRows] /\ dirty' = dirty \ {q}
        /\ Holders(q) = {} /\ NoRows.gen = NoGen /\ NoRows.loadedAt = 0 /\ p \in Processes
    BY <1>1, <1>3 DEF ClearRows, pointer, locals, NoRows, PointerType
  <2>2. CASE p = q
    BY <1>1, <2>1, <2>2 DEF Holders, HasRows, RowsType
  <2>3. CASE p # q
    BY <1>1, <2>1, <2>3 DEF SwitcherInv, Holders, HasRows, RowsType
  <2> QED BY <2>2, <2>3
<1>4. ASSUME NEW q \in Processes, NEW g \in Gens \cup {NoGen}, SetPointer(q, g) PROVE FALSE
  BY <1>4 DEF SetPointer
<1>5. CASE Tick \/ UNCHANGED vars
  BY <1>5 DEF Tick, vars, pointer, locals, SwitcherInv, Holders, HasRows
<1> QED BY <1>2, <1>3, <1>4, <1>5 DEF Next, Activate, Withdraw

\* The process that switched last and has cleared its rows does not go back to
\* an older pointer, whatever queries were under way (_cache_lock).
THEOREM SwitcherSeesItsSwitchHolds == Spec => []SwitcherSeesItsSwitch
<1>1. Init => SwitcherInv
  BY DEF Init, SwitcherInv
<1>2. SwitcherInv => SwitcherSeesItsSwitch
  BY DEF SwitcherInv, SwitcherSeesItsSwitch
<1> QED BY <1>1, <1>2, SwitcherNext, Invariance, PTL DEF Spec
=============================================================================
