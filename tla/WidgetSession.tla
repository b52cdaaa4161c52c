--------------------------- MODULE WidgetSession ---------------------------
(***************************************************************************)
(* One chat session of a widget: its row in chat_sessions, the pairs of    *)
(* access and resume tokens that were issued for it, and the shared store  *)
(* of revoked tokens, under requests of several API processes that resume, *)
(* refresh, consent, chat and close it, and under the retention script.    *)
(*                                                                         *)
(* Production settings: widget authentication and the shared store are     *)
(* required (scripts/validate_config.py), so a store that cannot be        *)
(* reached fails the request.  Any step of a request may fail; a request   *)
(* that is rejected at the door changes nothing and does not appear.  An   *)
(* initialization that may not resume opens a session of its own, which is *)
(* another row.                                                            *)
(***************************************************************************)
EXTENDS Integers, Sequences, FiniteSets

CONSTANTS Requests,
          AccessTtl,   \* WIDGET_JWT_TTL_SECONDS, in ticks
          SessionTtl,  \* SESSION_TTL_SECONDS
          Lifetime,    \* MAX_SESSION_DAYS, of a session and of a resume token
          Retention,   \* CHAT_TRANSCRIPT_RETENTION_DAYS
          Skew,        \* WIDGET_JWT_CLOCK_SKEW_SECONDS
          Slowest,     \* ticks a request may take, by the timeouts of its calls
          MaxPairs,    \* bound: token pairs issued
          MaxTime      \* bound: ticks

ASSUME SessionAssumption ==
    /\ AccessTtl \in Nat \ {0} /\ SessionTtl \in Nat \ {0}
    /\ Lifetime \in Nat \ {0} /\ Retention \in Nat \ {0}
    /\ Skew \in Nat /\ Slowest \in Nat /\ MaxPairs \in Nat \ {0} /\ MaxTime \in Nat

Kinds == {"resume", "refresh", "chat", "consent", "end"}
Pairs == 1 .. MaxPairs

Labels == {"idle", "check", "consume", "register", "revoke", "issue", "record",
           "close", "touch", "extend", "consent", "answer", "over"}

Row == [kept : BOOLEAN, bound : BOOLEAN, consented : BOOLEAN,
        created : Nat, expires : Nat, ended : Nat]

VARIABLES
    now,
    row,          \* the session's row; "ended" is 0 until it is closed
    issued,       \* the token pairs, with their iat and what they came from
    accessUntil,  \* until when the store knows a revoked access token (0: never)
    resumeUntil,  \* until when it knows a consumed resume token
    pc,
    kind,
    pair,         \* the pair whose token the request carries
    since         \* when the request was received

locals == <<kind, pair, since>>
vars == <<now, row, issued, accessUntil, resumeUntil, pc, locals>>

NoRow == [kept |-> FALSE, bound |-> FALSE, consented |-> FALSE,
          created |-> 0, expires |-> 0, ended |-> 0]

TypeOK ==
    /\ now \in Nat
    /\ row \in Row
    /\ row.expires <= now + SessionTtl
    /\ issued \in Seq([iat : Nat, from : {"start", "resume", "refresh"}, of : 0 .. MaxPairs])
    /\ Len(issued) <= MaxPairs
    /\ accessUntil \in [Pairs -> Nat]
    /\ resumeUntil \in [Pairs -> Nat]
    /\ pc \in [Requests -> Labels]
    /\ kind \in [Requests -> Kinds]
    /\ pair \in [Requests -> Pairs]
    /\ since \in [Requests -> Nat]

\* A row that is inserted.
NewRow ==
    [kept |-> TRUE, bound |-> FALSE, consented |-> FALSE,
     created |-> now, expires |-> now + SessionTtl, ended |-> 0]

\* The session was just opened: initialize without a resume token.
Init ==
    /\ now = 1
    /\ row = [NewRow EXCEPT !.bound = TRUE]
    /\ issued = <<[iat |-> 1, from |-> "start", of |-> 0]>>
    /\ accessUntil = [k \in Pairs |-> 0]
    /\ resumeUntil = [k \in Pairs |-> 0]
    /\ pc = [r \in Requests |-> "idle"]
    /\ kind = [r \in Requests |-> "chat"]
    /\ pair = [r \in Requests |-> 1]
    /\ since = [r \in Requests |-> 0]

Busy(r) == pc[r] \notin {"idle", "over"}

Goto(r, label) == pc' = [pc EXCEPT ![r] = label]
-----------------------------------------------------------------------------
(* Tokens                                                                  *)

AccessExp(k) == issued[k].iat + AccessTtl
ResumeExp(k) == issued[k].iat + Lifetime

\* exists: a key of the store is gone when its time to live is over.
IsRevoked(until) == now < until

\* ttl = max(1, exp - now)
KeyUntil(exp) == IF exp > now THEN exp ELSE now + 1

\* decode_widget_token
AccessAccepted(k) == now < AccessExp(k) + Skew /\ ~IsRevoked(accessUntil[k])

\* Mutant: a resume token is checked without the access token of its pair.
ResumeAcceptedAlone(k) == now < ResumeExp(k) + Skew /\ ~IsRevoked(resumeUntil[k])

\* decode_widget_resume_token
ResumeAccepted(k) ==
    /\ now < ResumeExp(k) + Skew
    /\ ~IsRevoked(resumeUntil[k])
    /\ ~IsRevoked(accessUntil[k])

\* What a request does first, once its token is accepted.
FirstStep == [resume |-> "check", refresh |-> "revoke", chat |-> "touch",
              consent |-> "record", end |-> "close"]

\* WidgetAuthMiddleware, or the decoding in initialize and refresh.
Receive(r) ==
    /\ pc[r] = "idle"
    /\ \E d \in Kinds, k \in 1 .. Len(issued) :
        /\ IF d = "resume" THEN ResumeAccepted(k) ELSE AccessAccepted(k)
        /\ Goto(r, FirstStep[d])
        /\ kind' = [kind EXCEPT ![r] = d]
        /\ pair' = [pair EXCEPT ![r] = k]
    /\ since' = [since EXCEPT ![r] = now]
    /\ UNCHANGED <<now, row, issued, accessUntil, resumeUntil>>

\* A database or a store that cannot be reached fails the request.
Fail(r) ==
    /\ Busy(r)
    /\ Goto(r, "over")
    /\ UNCHANGED <<now, row, issued, accessUntil, resumeUntil, locals>>

\* _response_from_claims
Issue(r) ==
    /\ pc[r] = "issue"
    /\ Len(issued) < MaxPairs
    /\ issued' = Append(issued, [iat |-> now, from |-> kind[r], of |-> pair[r]])
    /\ Goto(r, "over")
    /\ UNCHANGED <<now, row, accessUntil, resumeUntil, locals>>
-----------------------------------------------------------------------------
(* initialize with a resume token                                          *)

\* The condition of can_resume_bound_session, validate_and_touch_session,
\* record_consent and has_valid_consent.
Open == row.kept /\ row.ended = 0 /\ row.expires > now
WithinLifetime == row.created > now - Lifetime

\* can_resume_bound_session
CanResume(r) ==
    /\ pc[r] = "check"
    /\ Goto(r, IF Open /\ WithinLifetime /\ row.bound THEN "consume" ELSE "over")
    /\ UNCHANGED <<now, row, issued, accessUntil, resumeUntil, locals>>

\* Mutant: the key is set whether or not it exists.
ConsumeAgain(r) ==
    /\ pc[r] = "consume"
    /\ resumeUntil' = [resumeUntil EXCEPT ![pair[r]] = KeyUntil(ResumeExp(pair[r]))]
    /\ Goto(r, "register")
    /\ UNCHANGED <<now, row, issued, accessUntil, locals>>

\* consume_widget_resume_token, SET NX
Consume(r) ==
    /\ pc[r] = "consume"
    /\ IF IsRevoked(resumeUntil[pair[r]])
       THEN Goto(r, "over") /\ UNCHANGED resumeUntil
       ELSE /\ resumeUntil' = [resumeUntil EXCEPT ![pair[r]] = KeyUntil(ResumeExp(pair[r]))]
            /\ Goto(r, "register")
    /\ UNCHANGED <<now, row, issued, accessUntil, locals>>

\* The condition of register_widget_session on a row it finds.
Mergeable == row.kept /\ row.ended = 0 /\ row.bound

\* register_widget_session: INSERT ... ON CONFLICT DO UPDATE ... WHERE
Register(r) ==
    /\ pc[r] = "register"
    /\ \/ ~row.kept /\ row' = [NewRow EXCEPT !.bound = TRUE]
       \/ Mergeable /\ row' = [row EXCEPT !.expires = now + SessionTtl]
       \/ row.kept /\ ~Mergeable /\ UNCHANGED row
    /\ Goto(r, "issue")
    /\ UNCHANGED <<now, issued, accessUntil, resumeUntil, locals>>
-----------------------------------------------------------------------------
(* refresh                                                                 *)

\* Mutant: a store that cannot be reached does not stop the refresh.
RevokeOrGoOn(r) ==
    /\ pc[r] = "revoke"
    /\ accessUntil' \in {accessUntil, [accessUntil EXCEPT ![pair[r]] = KeyUntil(AccessExp(pair[r]))]}
    /\ Goto(r, "issue")
    /\ UNCHANGED <<now, row, issued, resumeUntil, locals>>

\* revoke_widget_token
Revoke(r) ==
    /\ pc[r] = "revoke"
    /\ accessUntil' = [accessUntil EXCEPT ![pair[r]] = KeyUntil(AccessExp(pair[r]))]
    /\ Goto(r, "issue")
    /\ UNCHANGED <<now, row, issued, resumeUntil, locals>>
-----------------------------------------------------------------------------
(* consent, chat and end                                                   *)

\* Mutant: a closed session can be consented to.
RecordClosed(r) ==
    /\ pc[r] = "record"
    /\ row' = IF row.kept
              THEN [row EXCEPT !.consented = TRUE, !.expires = now + SessionTtl]
              ELSE [NewRow EXCEPT !.consented = TRUE]
    /\ Goto(r, "over")
    /\ UNCHANGED <<now, issued, accessUntil, resumeUntil, locals>>

\* record_consent: an upsert; a row that is closed or expired is an error.
Record(r) ==
    /\ pc[r] = "record"
    /\ \/ ~row.kept /\ row' = [NewRow EXCEPT !.consented = TRUE]
       \/ Open /\ row' = [row EXCEPT !.consented = TRUE, !.expires = now + SessionTtl]
       \/ row.kept /\ ~Open /\ UNCHANGED row
    /\ Goto(r, "over")
    /\ UNCHANGED <<now, issued, accessUntil, resumeUntil, locals>>

\* validate_and_touch_session: its SELECT ...
Touch(r) ==
    /\ pc[r] = "touch"
    /\ Goto(r, IF Open /\ WithinLifetime THEN "extend" ELSE "over")
    /\ UNCHANGED <<now, row, issued, accessUntil, resumeUntil, locals>>

\* ... and its UPDATE, which knows the session's id only.  The expiry it writes
\* was computed before the SELECT: it may replace a later one.
Extend(r) ==
    /\ pc[r] = "extend"
    /\ \/ row.kept /\ \E t \in since[r] .. now : row' = [row EXCEPT !.expires = t + SessionTtl]
       \/ ~row.kept /\ UNCHANGED row
    /\ Goto(r, "consent")
    /\ UNCHANGED <<now, issued, accessUntil, resumeUntil, locals>>

\* has_valid_consent
CheckConsent(r) ==
    /\ pc[r] = "consent"
    /\ Goto(r, IF Open /\ row.consented THEN "answer" ELSE "over")
    /\ UNCHANGED <<now, row, issued, accessUntil, resumeUntil, locals>>

\* append_session_turn, when the answer is ready: an upsert by the session's id.
AppendTurn(r) ==
    /\ pc[r] = "answer"
    /\ row' = IF row.kept THEN [row EXCEPT !.expires = now + SessionTtl] ELSE NewRow
    /\ Goto(r, "over")
    /\ UNCHANGED <<now, issued, accessUntil, resumeUntil, locals>>

\* close_session
Close(r) ==
    /\ pc[r] = "close"
    /\ row' = IF row.kept
              THEN [row EXCEPT !.ended = IF @ = 0 THEN now ELSE @,
                               !.expires = IF @ < now THEN @ ELSE now]
              ELSE row
    /\ Goto(r, "over")
    /\ UNCHANGED <<now, issued, accessUntil, resumeUntil, locals>>
-----------------------------------------------------------------------------
\* cleanup_expired_sessions
Cleanup ==
    /\ row.kept
    /\ row.expires < now - Retention
    /\ row' = NoRow
    /\ UNCHANGED <<now, issued, accessUntil, resumeUntil, pc, locals>>

Tick ==
    /\ now < MaxTime
    /\ \A r \in Requests : Busy(r) => now < since[r] + Slowest
    /\ now' = now + 1
    /\ UNCHANGED <<row, issued, accessUntil, resumeUntil, pc, locals>>

Next ==
    \/ \E r \in Requests :
        \/ Receive(r) \/ Fail(r) \/ Issue(r)
        \/ CanResume(r) \/ Consume(r) \/ Register(r) \/ Revoke(r)
        \/ Record(r) \/ Touch(r) \/ Extend(r) \/ CheckConsent(r) \/ AppendTurn(r) \/ Close(r)
    \/ Cleanup \/ Tick

Spec == Init /\ [][Next]_vars
-----------------------------------------------------------------------------
(* Properties *)

Refreshed(k) == \E n \in 1 .. Len(issued) : issued[n].from = "refresh" /\ issued[n].of = k

Resumed(k) ==
    \/ \E n \in 1 .. Len(issued) : issued[n].from = "resume" /\ issued[n].of = k
    \/ \E r \in Requests : kind[r] = "resume" /\ pair[r] = k /\ pc[r] \in {"register", "issue"}

\* A resume token opens its session again at most once, in whatever processes
\* and however late it is presented ("Atomically mark a resume capability as
\* used and reject replays."): the store forgets the token while the clock skew
\* still lets it pass, but by then the session is too old to be resumed.  Only
\* a request that was let in before the token expired and reaches the store
\* after that can be a second one.
ResumeOnce ==
    [][\A r \in Requests :
        pc[r] = "consume" /\ pc'[r] = "register" /\ Resumed(pair[r])
            => since[r] < ResumeExp(pair[r]) /\ now >= ResumeExp(pair[r])]_vars

\* No token pair succeeds another by a refresh before the store knows the old
\* access token as revoked until it expires: a refresh fails closed (refresh,
\* SHARED_SECURITY_STATE_REQUIRED).
RetiredBeforeIssued ==
    \A n \in 1 .. Len(issued) :
        issued[n].from = "refresh" => accessUntil[issued[n].of] >= AccessExp(issued[n].of)

\* Once a refresh has issued the successor of a pair, no request is let in with
\* a token of the old pair before its access token has expired
\* (decode_widget_token, decode_widget_resume_token).
AcceptedIsCurrent ==
    [][\A r \in Requests :
        pc[r] = "idle" /\ pc'[r] # "idle" /\ Refreshed(pair'[r]) => now >= AccessExp(pair'[r])]_vars

\* Only a chat that had been received before a session was closed still touches
\* its row; no chat that came later is answered, and nothing opens the
\* session again, while its transcript is kept (close_session, record_consent,
\* register_widget_session, append_session_turn).
ClosedIsLeftAlone ==
    [][row.kept /\ row.ended # 0 /\ row'.kept =>
        /\ row'.ended = row.ended
        /\ row'.expires > row.expires =>
            \E r \in Requests : kind[r] = "chat" /\ pc'[r] # pc[r] /\ since[r] <= row.ended]_vars
=============================================================================
