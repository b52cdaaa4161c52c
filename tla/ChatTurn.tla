------------------------------ MODULE ChatTurn ------------------------------
(***************************************************************************)
(* Chat requests in several API processes: what a request does from the    *)
(* moment it is received until its answer is delivered, and the state it   *)
(* shares with the others: the live generation of a document, each         *)
(* process's 15 s copy of the pointer, the two answer caches and the       *)
(* transcript of the session.                                              *)
(*                                                                         *)
(* The requests ask one question in one session about one document.  What  *)
(* the rules, the validator and the guardrail say of a text is data: a     *)
(* text is grounded, or states what its evidence does not, or is forbidden *)
(* by the governance.  A text that the code writes itself (a refusal, a    *)
(* clarification, reviewed conversation copy) is a "copy".  The toggles of *)
(* candidate_control are off and the semantic cache is live.               *)
(***************************************************************************)
EXTENDS Integers, FiniteSets

CONSTANTS Requests,
          Processes,    \* API worker processes
          Gens,         \* generations of the document
          NoGen,
          Others,       \* whether other documents have a live generation
          CacheSeconds, \* _CACHE_SECONDS, in ticks
          Looks,        \* pointer look-ups of one retrieval
          SemanticMax,  \* SEMANTIC_CACHE_MAX_ENTRIES
          MaxChanges,   \* bound: switches and withdrawals
          MaxTime       \* bound: ticks

ASSUME ChatAssumption ==
    /\ NoGen \notin Gens
    /\ Others \in BOOLEAN
    /\ CacheSeconds \in Nat \ {0}
    /\ Looks \in Nat \ {0}
    /\ SemanticMax \in Nat \ {0}
    /\ MaxChanges \in Nat /\ MaxTime \in Nat

Texts == {"none", "copy", "grounded", "ungrounded", "forbidden"}
Origins == {"none", "model", "exact", "semantic"}
Inputs == {"plain", "mixed", "unclear", "sensitive", "assistant", "blocked"}

Entry == [text : Texts, evidence : SUBSET Gens]
Answer == [text : Texts, evidence : SUBSET Gens, origin : Origins]
Rows == [gen : Gens \cup {NoGen}, loadedAt : Nat]

Labels == {"idle", "exact", "look", "reading", "approve", "restore", "rereading",
           "generate", "append", "delivered", "failed"}

VARIABLES
    now,
    active,     \* the pointer row: the live generation
    change,     \* how often the pointer has changed
    switcher,   \* the process that changed it last, if any
    liveUntil,  \* per generation: when it was last replaced (0: never)
    rows,       \* per process: _cache_rows and _cache_loaded_at
    dirty,      \* processes that have switched and not yet cleared their rows
    exact,      \* the exact entry of the question, if any
    semantic,   \* the semantic entries near the question
    pc,
    proc,       \* the process that serves the request
    since,      \* when the request was received
    asked,      \* "now" of its current look-up
    seen,       \* what its query of the pointer returned
    looks,      \* look-ups its retrieval has made
    answer      \* the response it is working on

pointer == <<active, change, switcher, liveUntil>>
caches == <<exact, semantic>>
locals == <<since, asked, seen, looks, answer>>
vars == <<now, pointer, rows, dirty, caches, pc, proc, locals>>

Nothing == [text |-> "none", evidence |-> {}, origin |-> "none"]
Copy == [text |-> "copy", evidence |-> {}, origin |-> "none"]
NoRows == [gen |-> NoGen, loadedAt |-> 0]

TypeOK ==
    /\ now \in Nat /\ change \in Nat
    /\ active \in Gens \cup {NoGen}
    /\ switcher \subseteq Processes
    /\ liveUntil \in [Gens -> Nat]
    /\ rows \in [Processes -> Rows]
    /\ dirty \subseteq Processes
    /\ exact \subseteq Entry /\ semantic \subseteq Entry
    /\ pc \in [Requests -> Labels]
    /\ proc \in [Requests -> Processes]
    /\ since \in [Requests -> Nat]
    /\ asked \in [Requests -> Nat]
    /\ seen \in [Requests -> Gens \cup {NoGen}]
    /\ looks \in [Requests -> Nat]
    /\ answer \in [Requests -> Answer]

Init ==
    /\ now = 1 /\ change = 0
    /\ active \in Gens \cup {NoGen}
    /\ switcher = {} /\ dirty = {}
    /\ liveUntil = [g \in Gens |-> 0]
    /\ rows = [p \in Processes |-> NoRows]
    /\ exact = {} /\ semantic = {}
    /\ pc = [r \in Requests |-> "idle"]
    /\ proc \in [Requests -> Processes]
    /\ since = [r \in Requests |-> 0]
    /\ asked = [r \in Requests |-> 0]
    /\ seen = [r \in Requests |-> NoGen]
    /\ looks = [r \in Requests |-> 0]
    /\ answer = [r \in Requests |-> Nothing]

Goto(r, label) == pc' = [pc EXCEPT ![r] = label]

\* r asks for the pointer rows: "now" is taken before the lock is.
Ask(r, label) == Goto(r, label) /\ asked' = [asked EXCEPT ![r] = now]

\* r is over: its locals are gone.
End(r, label) ==
    /\ Goto(r, label)
    /\ since' = [since EXCEPT ![r] = 0]
    /\ asked' = [asked EXCEPT ![r] = 0]
    /\ looks' = [looks EXCEPT ![r] = 0]
    /\ answer' = [answer EXCEPT ![r] = Nothing]
    /\ UNCHANGED seen
-----------------------------------------------------------------------------
(* Receiving and screening the message                                     *)

\* handle_chat up to the exact cache.  The session has to be open and to have
\* consented (WidgetSession has their rows).  Then PII, references and repairs,
\* the mixed request, the early routes and the governance of the input: only a
\* plain question, or the question of a mixed request, goes on.  A read of the
\* database may fail.
Receive(r) ==
    /\ pc[r] = "idle"
    /\ \/ /\ since' = [since EXCEPT ![r] = now]
          /\ \E kind \in Inputs :
               IF kind \in {"plain", "mixed"}
               THEN Goto(r, "exact") /\ UNCHANGED answer
               ELSE Goto(r, "append") /\ answer' = [answer EXCEPT ![r] = Copy]
          /\ UNCHANGED <<asked, seen, looks>>
       \/ End(r, "failed")
    /\ UNCHANGED <<now, pointer, rows, dirty, caches, proc>>

FromCache(e, origin) == [text |-> e.text, evidence |-> e.evidence, origin |-> origin]

\* get_cache_value: an entry that expired or was reset is a miss, and so is an
\* unreachable cache.
ReadExact(r) ==
    /\ pc[r] = "exact"
    /\ \/ \E e \in exact :
            /\ Ask(r, "restore")
            /\ answer' = [answer EXCEPT ![r] = FromCache(e, "exact")]
       \/ Ask(r, "look") /\ UNCHANGED answer
    /\ UNCHANGED <<now, pointer, rows, dirty, caches, proc, since, seen, looks>>
-----------------------------------------------------------------------------
(* What a text has to pass                                                 *)

\* The governance of the output rejects a forbidden text.
Governed(a) == a.text # "forbidden"

\* _validate_response: a text with unsupported numbers may lose them and pass
\* when it is validated again.
Validated(a) == [a EXCEPT !.text = "grounded"]

\* _secure_and_complete_response, for fresh and for cached answers.  The rules
\* may reject a good text too.
Checked(a) == {Copy} \cup IF Governed(a) THEN {Validated(a)} ELSE {}
-----------------------------------------------------------------------------
(* _active_generation_rows: _cache_lock is held during the query.           *)

\* The request of p that holds _cache_lock.
Holders(p) == {r \in Requests : proc[r] = p /\ pc[r] \in {"reading", "rereading"}}

\* An empty list is not cached.  A list that only lacks this document is, as
\* of when it was read; reading starts at 1.
HasRows(p) == rows[p].gen # NoGen \/ (Others /\ rows[p].loadedAt > 0)

RowsAreFresh(r) == HasRows(proc[r]) /\ asked[r] < rows[proc[r]].loadedAt + CacheSeconds

\* The documents of one look-up join the evidence of the retrieval.  No rows:
\* the filter matches no document.
Found(r, gen) ==
    /\ answer' = [answer EXCEPT ![r].evidence = @ \cup ({gen} \ {NoGen})]
    /\ IF looks[r] + 1 = Looks
       THEN /\ Goto(r, "approve")
            /\ looks' = [looks EXCEPT ![r] = 0]
            /\ asked' = [asked EXCEPT ![r] = 0]
       ELSE Ask(r, "look") /\ looks' = [looks EXCEPT ![r] = @ + 1]

\* The rows in the cache are young enough.
CachedRows(r) ==
    /\ pc[r] = "look"
    /\ Holders(proc[r]) = {}
    /\ RowsAreFresh(r)
    /\ Found(r, rows[proc[r]].gen)
    /\ UNCHANGED <<now, pointer, rows, dirty, caches, proc, since, seen>>

\* Mutant: the evidence of a cached answer is checked against the cached rows.
QueryRowsUnlessCached(r) ==
    /\ pc[r] \in {"look", "restore"}
    /\ Holders(proc[r]) = {}
    /\ pc[r] = "look" => ~RowsAreFresh(r)
    /\ seen' = [seen EXCEPT ![r] =
                  IF pc[r] = "restore" /\ RowsAreFresh(r) THEN rows[proc[r]].gen ELSE active]
    /\ Goto(r, IF pc[r] = "look" THEN "reading" ELSE "rereading")
    /\ UNCHANGED <<now, pointer, rows, dirty, caches, proc, since, asked, looks, answer>>

\* The query, under the lock; with fresh=True whatever the cache holds.
QueryRows(r) ==
    /\ pc[r] \in {"look", "restore"}
    /\ Holders(proc[r]) = {}
    /\ pc[r] = "look" => ~RowsAreFresh(r)
    /\ seen' = [seen EXCEPT ![r] = active]
    /\ Goto(r, IF pc[r] = "look" THEN "reading" ELSE "rereading")
    /\ UNCHANGED <<now, pointer, rows, dirty, caches, proc, since, asked, looks, answer>>

\* Mutant: the age of the rows counts from when they are stored.
LoadRowsAsOfNow(r) ==
    /\ pc[r] = "reading"
    /\ \/ /\ rows' = [rows EXCEPT ![proc[r]] = [gen |-> seen[r], loadedAt |-> now]]
          /\ Found(r, seen[r])
       \/ UNCHANGED rows /\ Found(r, NoGen)
    /\ seen' = [seen EXCEPT ![r] = NoGen]
    /\ UNCHANGED <<now, pointer, dirty, caches, proc, since>>

\* What r read becomes the process's rows, as of when r asked.
StoredRows(r) == [rows EXCEPT ![proc[r]] = [gen |-> seen[r], loadedAt |-> asked[r]]]

\* The rows are stored; a failed query fails closed, with no rows.
LoadRows(r) ==
    /\ pc[r] = "reading"
    /\ \/ rows' = StoredRows(r) /\ Found(r, seen[r])
       \/ UNCHANGED rows /\ Found(r, NoGen)
    /\ seen' = [seen EXCEPT ![r] = NoGen]
    /\ UNCHANGED <<now, pointer, dirty, caches, proc, since>>

\* Mutant: a part of the evidence is enough.
RestorableInPart(evidence, gen) == gen \in evidence

\* restore_evidence: all evidence of the cached answer has to be live.
Restorable(evidence, gen) == evidence # {} /\ evidence \subseteq {gen}

\* _cached_response_value: the cached answer is checked like a fresh one; if
\* its evidence cannot be restored, the request goes on as after a miss.
Restore(r) ==
    /\ pc[r] = "rereading"
    /\ \E failed \in BOOLEAN :
          /\ rows' = IF failed THEN rows ELSE StoredRows(r)
          /\ IF ~failed /\ Restorable(answer[r].evidence, seen[r])
             THEN \E a \in Checked(answer[r]) :
                     /\ answer' = [answer EXCEPT ![r] = a]
                     /\ Goto(r, "append")
                     /\ asked' = [asked EXCEPT ![r] = 0]
             ELSE IF answer[r].origin = "exact"
             THEN Ask(r, "look") /\ answer' = [answer EXCEPT ![r] = Nothing]
             ELSE /\ Goto(r, "generate")
                  /\ asked' = [asked EXCEPT ![r] = 0]
                  /\ answer' = [answer EXCEPT ![r] = [Nothing EXCEPT !.evidence = answer[r].evidence]]
    /\ seen' = [seen EXCEPT ![r] = NoGen]
    /\ UNCHANGED <<now, pointer, dirty, caches, proc, since, looks>>
-----------------------------------------------------------------------------
(* Evidence, semantic cache and model                                      *)

\* _route_or_approve_evidence: without documents there is nothing to approve.
\* The planner may find a conversation route, the retrieval may be unavailable,
\* its scores too low or the period not covered; all end with a copy.
Approvable(r) == answer[r].evidence # {}

\* get_semantic_cache_value looks for a near entry of the same fingerprint.
ReadSemantic(r) ==
    /\ pc[r] = "approve"
    /\ \/ Goto(r, "append") /\ answer' = [answer EXCEPT ![r] = Copy] /\ UNCHANGED asked
       \/ \E e \in semantic :
            /\ Approvable(r)
            /\ e.evidence = answer[r].evidence
            /\ Ask(r, "restore")
            /\ answer' = [answer EXCEPT ![r] = FromCache(e, "semantic")]
       \/ Approvable(r) /\ Goto(r, "generate") /\ UNCHANGED <<asked, answer>>
    /\ UNCHANGED <<now, pointer, rows, dirty, caches, proc, since, seen, looks>>

\* Mutant: a fallback is stored as well.
ShouldCacheAnything(a) == a.text # "none"

\* _should_cache_response; a low confidence is one more reason not to store.
ShouldCache(a) == a.text # "copy"

\* _cache_response: set_cache_value, and for strong and cited answers
\* set_semantic_cache_value, each failing open; _trim_index removes the
\* semantic entries that expire first.
CacheResponse(a) ==
    LET entry == [text |-> a.text, evidence |-> a.evidence]
    IN  IF ShouldCache(a)
        THEN /\ exact' \in {exact, {entry}}
             /\ \/ UNCHANGED semantic
                \/ \E kept \in SUBSET semantic :
                     /\ semantic' = kept \cup {entry}
                     /\ Cardinality(semantic') <= SemanticMax
                     /\ kept # semantic => Cardinality(semantic') = SemanticMax
        ELSE UNCHANGED caches

\* model_router.generate, the evidence contract, the checks of the answer and
\* the caches.  Low confidence, a timeout, the model's own guardrail and a
\* broken contract end with a copy; a configuration error leaves handle_chat.
Generate(r) ==
    /\ pc[r] = "generate"
    /\ \/ /\ \E text \in {"grounded", "ungrounded", "forbidden"} :
             \E a \in Checked([text |-> text, evidence |-> answer[r].evidence, origin |-> "model"]) :
                answer' = [answer EXCEPT ![r] = a] /\ CacheResponse(a)
          /\ Goto(r, "append")
          /\ UNCHANGED <<since, asked, seen, looks>>
       \/ End(r, "failed") /\ UNCHANGED caches
    /\ UNCHANGED <<now, pointer, rows, dirty, proc>>
-----------------------------------------------------------------------------
(* Delivering                                                              *)

\* append_session_turn, one upsert; an error of the database fails the request.
AppendTurn(r) ==
    /\ pc[r] = "append"
    /\ End(r, "delivered") \/ End(r, "failed")
    /\ UNCHANGED <<now, pointer, rows, dirty, caches, proc>>

\* The steps of a received request.
Proceed(r) ==
    \/ ReadExact(r) \/ CachedRows(r) \/ QueryRows(r) \/ LoadRows(r) \/ Restore(r)
    \/ ReadSemantic(r) \/ Generate(r) \/ AppendTurn(r)
-----------------------------------------------------------------------------
(* What else happens                                                       *)

Tick ==
    /\ now < MaxTime
    /\ now' = now + 1
    /\ UNCHANGED <<pointer, rows, dirty, caches, pc, proc, locals>>

\* A transaction of process p changes the pointer row; the activation and the
\* rollback do it alike.
SetPointer(p, g) ==
    /\ change < MaxChanges
    /\ g # active
    /\ active' = g
    /\ change' = change + 1
    /\ switcher' = {p}
    /\ liveUntil' = [h \in Gens |-> IF h = active THEN now ELSE liveUntil[h]]
    /\ dirty' = dirty \cup {p}
    /\ UNCHANGED <<now, rows, caches, pc, proc, locals>>

\* _activate_generation_pointer, and rollback_document_generation
Activate(p, g) == g \in Gens /\ SetPointer(p, g)

\* begin_ingestion_deletion, of the live generation
Withdraw(p) == SetPointer(p, NoGen)

\* Mutant: the rows are cleared without the lock.
ClearRowsUnlocked(p) ==
    /\ p \in dirty
    /\ dirty' = dirty \ {p}
    /\ rows' = [rows EXCEPT ![p] = NoRows]
    /\ UNCHANGED <<now, pointer, caches, pc, proc, locals>>

\* clear_active_generation_cache, after the commit.
ClearRows(p) ==
    /\ p \in dirty
    /\ Holders(p) = {}
    /\ dirty' = dirty \ {p}
    /\ rows' = [rows EXCEPT ![p] = NoRows]
    /\ UNCHANGED <<now, pointer, caches, pc, proc, locals>>

Next ==
    \/ \E r \in Requests : Receive(r) \/ Proceed(r)
    \/ \E p \in Processes : ClearRows(p) \/ Withdraw(p) \/ \E g \in Gens : Activate(p, g)
    \/ Tick

Spec == Init /\ [][Next]_vars
-----------------------------------------------------------------------------
(* Properties *)

\* The answer of r has only to be appended before it is delivered.
Settled(r) == pc[r] = "append"
Cached(r) == answer[r].origin \in {"exact", "semantic"}

LiveSince(g, t) == g = active \/ liveUntil[g] >= t

\* What a reader gets is a grounded text or a text the code wrote, on every
\* path (_secure_and_complete_response, _validate_response,
\* _cached_response_value); and the caches hold grounded answers with their
\* evidence, and no fallback ("Return true only for complete model answers that
\* are safe to reuse.").
OnlyCheckedIsDelivered ==
    /\ \A r \in Requests : Settled(r) => answer[r].text \in {"grounded", "copy"}
    /\ \A e \in exact \cup semantic : e.text = "grounded" /\ e.evidence # {}

\* A cached answer is served only if all its evidence was live at some moment
\* of this very request, whatever the process has cached ("Fail closed for
\* cached facts unless their evidence is still published.").
CachedEvidenceWasLive ==
    \A r \in Requests :
        Settled(r) /\ Cached(r) => \A g \in answer[r].evidence : LiveSince(g, since[r])

\* No answer is delivered that is out of date by more than the age of the
\* cached rows: its evidence was live less than CacheSeconds before the
\* request was received (_active_generation_rows).
EvidenceAge ==
    \A r \in Requests :
        Settled(r) => \A g \in answer[r].evidence : LiveSince(g, (since[r] + 1) - CacheSeconds)

\* A cached answer never mixes two generations of the document, although the
\* look-ups of one retrieval may see both (restore_evidence).
CachedIsOfOneGeneration ==
    \A r \in Requests : Settled(r) /\ Cached(r) => Cardinality(answer[r].evidence) = 1

\* The process that switched the pointer last and has cleared its rows holds
\* the live generation or nothing: no query that read the old pointer stores it
\* afterwards (_cache_lock is held during the query).
SwitcherSeesItsSwitch ==
    \A p \in switcher \ dirty : HasRows(p) => rows[p].gen = active
=============================================================================
