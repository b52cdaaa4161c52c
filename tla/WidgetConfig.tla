---------------------------- MODULE WidgetConfig ----------------------------
(***************************************************************************)
(* One widget's configuration: its row in widget_configs, the requests of  *)
(* the portal that change it, and the registration of one of its public    *)
(* keys as each API process caches it, with the version in Valkey by which *)
(* a process tells the others that its cache is stale.                     *)
(*                                                                         *)
(* Managed configurations are on (WIDGET_CONFIG_RUNTIME_ENABLED), so the   *)
(* registry reads the row.  A tick is the unit of the cache's life and of  *)
(* the grace of a rotated key; there is no clock, only what is left of a   *)
(* cache entry and how long ago a registration was last the true one.      *)
(***************************************************************************)
EXTENDS Integers, FiniteSets

CONSTANTS Contents,   \* what an administrator can submit
          Processes,  \* the API processes
          Readers,    \* threads that look the registration up
          Requests,   \* the portal's requests, each handled once
          ProcessOf,  \* the process a thread or a request runs in
          Ttl,        \* WIDGET_REGISTRY_CACHE_SECONDS, at most 30, in ticks
          Grace       \* WIDGET_KEY_ROTATION_GRACE_HOURS, in ticks

ASSUME ConfigAssumption ==
    /\ ProcessOf \in [Readers \cup Requests -> Processes]
    /\ Ttl \in Nat \ {0} /\ Grace \in Nat \ {0}

Statuses == {"active", "disabled"}
Ops == {"update", "stage", "publish", "rotate", "disable"}

\* get_widget by the public key: what the row says, or nothing.
NoView == [content |-> "none", status |-> "none"]
Views == [content : Contents, status : Statuses] \cup {NoView}

VARIABLES
    config,   \* the row: content, status, draft, whether the key is current or previous
    grace,    \* what is left of the previous key's grace
    age,      \* ticks since a view was last the true one, up to Ttl + 1
    version,  \* the registry's version in Valkey
    cache,    \* of each process: a view and what is left of its life
    known,    \* _distributed_version of each process; -1 is None
    rpc, rview, rleft,     \* a reader: its step, what it read, what is left since its "now"
    qpc, op, value, seen   \* a request: its step, operation, content, and the status it read

readers == <<rpc, rview, rleft>>
requests == <<qpc, op, value, seen>>
vars == <<config, grace, age, version, cache, known, readers, requests>>

TypeOK ==
    /\ config \in [content : Contents, status : Statuses, draft : Contents \cup {"none"},
                   key : {"current", "previous", "gone"}]
    /\ grace \in 0 .. Grace
    /\ age \in [Views -> 0 .. Ttl + 1]
    /\ version \in Nat
    /\ cache \in [Processes -> [view : Views, left : 0 .. Ttl]]
    /\ known \in [Processes -> Nat \cup {-1}]
    /\ \A p \in Processes : known[p] <= version
    /\ rpc \in [Readers -> {"idle", "clear", "look", "read", "store"}]
    /\ rview \in [Readers -> Views]
    /\ rleft \in [Readers -> 0 .. Ttl]
    /\ qpc \in [Requests -> {"idle", "write", "undraft", "clear", "incr", "over"}]
    /\ op \in [Requests -> Ops]
    /\ value \in [Requests -> Contents]
    /\ seen \in [Requests -> Statuses]

\* get_widget_config(public=True)
ViewOf(c, g) ==
    IF c.key = "current" \/ (c.key = "previous" /\ g > 0)
    THEN [content |-> c.content, status |-> c.status]
    ELSE NoView

View == ViewOf(config, grace)

NoEntry == [view |-> NoView, left |-> 0]

Init ==
    /\ \E c \in Contents :
        /\ config = [content |-> c, status |-> "active", draft |-> "none", key |-> "current"]
        /\ value = [q \in Requests |-> c]
    /\ grace = 0
    /\ age = [v \in Views |-> IF v = View THEN 0 ELSE Ttl + 1]
    /\ version = 0
    /\ cache = [p \in Processes |-> NoEntry]
    /\ known = [p \in Processes |-> -1]
    /\ rpc = [r \in Readers |-> "idle"]
    /\ rview = [r \in Readers |-> NoView]
    /\ rleft = [r \in Readers |-> 0]
    /\ qpc = [q \in Requests |-> "idle"]
    /\ op = [q \in Requests |-> "update"]
    /\ seen = [q \in Requests |-> "active"]
-----------------------------------------------------------------------------
(* WidgetRegistryService.get_widget                                        *)

\* _sync_distributed_invalidation: a version that cannot be read changes nothing.
Sync(r) ==
    /\ rpc[r] = "idle"
    /\ LET p == ProcessOf[r] IN
        \/ rpc' = [rpc EXCEPT ![r] = "look"] /\ UNCHANGED known
        \/ /\ known' = [known EXCEPT ![p] = version]
           /\ rpc' = [rpc EXCEPT ![r] = IF known[p] \in {-1, version} THEN "look" ELSE "clear"]
    /\ UNCHANGED <<config, grace, age, version, cache, rview, rleft, requests>>

\* The version is adopted before the cache is cleared.
ClearStale(r) ==
    /\ rpc[r] = "clear"
    /\ cache' = [cache EXCEPT ![ProcessOf[r]] = NoEntry]
    /\ rpc' = [rpc EXCEPT ![r] = "look"]
    /\ UNCHANGED <<config, grace, age, version, known, rview, rleft, requests>>

\* A live entry is the answer; otherwise the life of the next one starts here.
Look(r) ==
    /\ rpc[r] = "look"
    /\ IF cache[ProcessOf[r]].left > 0
       THEN rpc' = [rpc EXCEPT ![r] = "idle"] /\ UNCHANGED rleft
       ELSE /\ rpc' = [rpc EXCEPT ![r] = "read"]
            /\ rleft' = [rleft EXCEPT ![r] = Ttl]
    /\ UNCHANGED <<config, grace, age, version, cache, known, rview, requests>>

\* RdsWidgetRegistryProvider.get_widget; a query that fails stores nothing.
Read(r) ==
    /\ rpc[r] = "read"
    /\ \/ rview' = [rview EXCEPT ![r] = View] /\ rpc' = [rpc EXCEPT ![r] = "store"]
       \/ rpc' = [rpc EXCEPT ![r] = "idle"] /\ UNCHANGED rview
    /\ UNCHANGED <<config, grace, age, version, cache, known, rleft, requests>>

\* Mutant: the life of an entry starts when it is stored.
StoreWhole(r) ==
    /\ rpc[r] = "store"
    /\ cache' = [cache EXCEPT ![ProcessOf[r]] = [view |-> rview[r], left |-> Ttl]]
    /\ rpc' = [rpc EXCEPT ![r] = "idle"]
    /\ rview' = [rview EXCEPT ![r] = NoView]
    /\ rleft' = [rleft EXCEPT ![r] = 0]
    /\ UNCHANGED <<config, grace, age, version, known, requests>>

\* What is not there is cached as well.
Store(r) ==
    /\ rpc[r] = "store"
    /\ cache' = [cache EXCEPT ![ProcessOf[r]] = [view |-> rview[r], left |-> rleft[r]]]
    /\ rpc' = [rpc EXCEPT ![r] = "idle"]
    /\ rview' = [rview EXCEPT ![r] = NoView]
    /\ rleft' = [rleft EXCEPT ![r] = 0]
    /\ UNCHANGED <<config, grace, age, version, known, requests>>
-----------------------------------------------------------------------------
(* The portal's requests.  One that fails, or whose process dies, stops     *)
(* where it is.                                                            *)

\* A view that a request makes the true one is no ticks old.
Written(c, g) == [v \in Views |-> IF v = ViewOf(c, g) THEN 0 ELSE age[v]]

Goto(q, label) == qpc' = [qpc EXCEPT ![q] = label]

\* The reads of update_widget_config, stage_widget_config and publish_widget_config;
\* a publication without a draft is an error.
Begin(q) ==
    /\ qpc[q] = "idle"
    /\ \E o \in Ops, c \in Contents :
        /\ o = "publish" => c = config.draft
        /\ op' = [op EXCEPT ![q] = o]
        /\ value' = [value EXCEPT ![q] = c]
    /\ seen' = [seen EXCEPT ![q] = config.status]
    /\ Goto(q, "write")
    /\ UNCHANGED <<config, grace, age, version, cache, known, readers>>

\* Mutant: the whole of the merged configuration is written, its status too.
UpdateConfigWhole(q) ==
    /\ qpc[q] = "write" /\ op[q] \in {"update", "publish"}
    /\ config' = [config EXCEPT !.content = value[q], !.status = seen[q]]
    /\ Goto(q, IF op[q] = "publish" THEN "undraft" ELSE "clear")
    /\ age' = Written(config', grace)
    /\ UNCHANGED <<grace, version, cache, known, readers, op, value, seen>>

\* update_widget_config: every column an administrator can submit, no other.
UpdateConfig(q) ==
    /\ qpc[q] = "write" /\ op[q] \in {"update", "publish"}
    /\ config' = [config EXCEPT !.content = value[q]]
    /\ Goto(q, IF op[q] = "publish" THEN "undraft" ELSE "clear")
    /\ age' = Written(config', grace)
    /\ UNCHANGED <<grace, version, cache, known, readers, op, value, seen>>

\* publish_widget_config clears the draft in a transaction of its own.
ClearDraft(q) ==
    /\ qpc[q] = "undraft"
    /\ config' = [config EXCEPT !.draft = "none"]
    /\ Goto(q, "clear")
    /\ UNCHANGED <<grace, age, version, cache, known, readers, op, value, seen>>

\* stage_widget_config; the registry shows no draft and is not invalidated.
Stage(q) ==
    /\ qpc[q] = "write" /\ op[q] = "stage"
    /\ config' = [config EXCEPT !.draft = value[q]]
    /\ Goto(q, "over")
    /\ UNCHANGED <<grace, age, version, cache, known, readers, op, value, seen>>

\* rotate_widget_key: there is one previous key, and the next rotation forgets it.
Rotate(q) ==
    /\ qpc[q] = "write" /\ op[q] = "rotate"
    /\ config' = [config EXCEPT !.key = IF @ = "current" THEN "previous" ELSE "gone"]
    /\ grace' = IF config.key = "current" THEN Grace ELSE 0
    /\ Goto(q, "clear")
    /\ age' = Written(config', grace')
    /\ UNCHANGED <<version, cache, known, readers, op, value, seen>>

\* disable_widget_config
Disable(q) ==
    /\ qpc[q] = "write" /\ op[q] = "disable"
    /\ config' = [config EXCEPT !.status = "disabled"]
    /\ Goto(q, "clear")
    /\ age' = Written(config', grace)
    /\ UNCHANGED <<grace, version, cache, known, readers, op, value, seen>>

\* invalidate: the process's own cache first ...
Reload(q) ==
    /\ qpc[q] = "clear"
    /\ cache' = [cache EXCEPT ![ProcessOf[q]] = NoEntry]
    /\ Goto(q, "incr")
    /\ UNCHANGED <<config, grace, age, version, known, readers, op, value, seen>>

\* ... and then the version, which the process takes for its own.
Incr(q) ==
    /\ qpc[q] = "incr"
    /\ version' = version + 1
    /\ known' = [known EXCEPT ![ProcessOf[q]] = version + 1]
    /\ Goto(q, "over")
    /\ UNCHANGED <<config, grace, age, cache, readers, op, value, seen>>
-----------------------------------------------------------------------------
\* A life, or a grace, that is over does not go on.
Down(n) == IF n > 0 THEN n - 1 ELSE 0

Tick ==
    /\ grace' = Down(grace)
    /\ cache' = [p \in Processes |-> [cache[p] EXCEPT !.left = Down(@)]]
    /\ rleft' = [r \in Readers |-> Down(rleft[r])]
    /\ age' = [v \in Views |-> IF v = ViewOf(config, grace') THEN 0
                               ELSE IF age[v] <= Ttl THEN age[v] + 1 ELSE age[v]]
    /\ UNCHANGED <<config, version, known, rpc, rview, requests>>

Next ==
    \/ \E r \in Readers : Sync(r) \/ ClearStale(r) \/ Look(r) \/ Read(r) \/ Store(r)
    \/ \E q \in Requests :
        \/ Begin(q) \/ UpdateConfig(q) \/ ClearDraft(q) \/ Stage(q) \/ Rotate(q) \/ Disable(q)
        \/ Reload(q) \/ Incr(q)
    \/ Tick

Spec == Init /\ [][Next]_vars
-----------------------------------------------------------------------------
(* Properties *)

\* However long a thread takes between looking in the cache and storing what it
\* read, and whichever invalidations it misses, a process answers from its cache
\* with nothing that ceased to be true longer ago than the life of an entry: the
\* life counts from before the read (get_widget, "now" at line 87).
CachedIsRecent ==
    \A p \in Processes :
        cache[p].left > 0 => age[cache[p].view] + cache[p].left <= Ttl

\* A widget that was disabled stays so, whatever updates and publications had
\* read its row before: they write back what an administrator can submit and
\* not the configuration they merged it with (update_widget_config).
DisabledIsFinal ==
    [][config.status = "disabled" => config'.status = "disabled"]_vars
=============================================================================
