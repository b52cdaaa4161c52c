--------------------------- MODULE AdminLifecycle ---------------------------
(***************************************************************************)
(* The portal's administrators: their rows in admin_users and their logins *)
(* in Cognito, under concurrent requests that sign in, create, change,     *)
(* enable and disable them.                                                *)
(*                                                                         *)
(* A request stands for one of the calls that are made with an access      *)
(* token or with the API key; a token outlives the disabling of its login, *)
(* so any login that exists may present one.  Transactions that take the   *)
(* advisory lock of the lifecycle are two steps, what they read and what   *)
(* they write; Cognito is called outside of them.  A call or a transaction *)
(* may fail at any step, a transaction then without effect.                *)
(***************************************************************************)
EXTENDS FiniteSets

CONSTANTS Users,      \* people, each with one e-mail address and one subject
          Bootstrap,  \* ADMIN_BOOTSTRAP_SUPER_ADMIN_EMAIL
          Operator,   \* api-key-operator, who has no row; of an idle request, nobody
          Requests,
          Free,       \* no request holds the lock
          Admission   \* how a request may be admitted

\* By the role of a row; with the API key, where that is allowed; or, where
\* ADMIN_RBAC_ENABLED is off, with any access token.
ASSUME LifecycleAssumption ==
    /\ Bootstrap \in Users /\ Operator \notin Users
    /\ Free \notin Requests
    /\ Admission \subseteq {"role", "key", "token"}

Roles == {"super_admin", "other"}

Labels == {"idle", "sync", "sync_first", "principal", "create", "insert", "compensate", "update", "role",
           "enable", "enable_row", "disable", "disable_row", "disable_login"}

VARIABLES
    role, status,    \* the rows; status "none" where there is none
    cognito,         \* the logins
    lock,            \* pg_advisory_xact_lock(askvera_admin_lifecycle)
    pc, actor, target, newRole,   \* a request
    unsure           \* users whom an enabling or disabling left half done

request == <<pc, actor, target, newRole>>
vars == <<role, status, cognito, lock, request, unsure>>

TypeOK ==
    /\ role \in [Users -> Roles]
    /\ status \in [Users -> {"none", "invited", "active", "disabled"}]
    /\ cognito \in [Users -> {"none", "enabled", "disabled"}]
    /\ lock \in Requests \cup {Free}
    /\ pc \in [Requests -> Labels]
    /\ actor \in [Requests -> Users \cup {Operator}]
    /\ target \in [Requests -> Users]
    /\ newRole \in [Requests -> Roles]
    /\ unsure \subseteq Users
    /\ lock # Free => pc[lock] \in {"sync", "sync_first", "role", "disable_row"}

Init ==
    /\ role = [u \in Users |-> "other"]
    /\ status = [u \in Users |-> "none"]
    /\ cognito \in [Users -> {"none", "enabled"}] /\ cognito[Bootstrap] = "enabled"
    /\ lock = Free
    /\ pc = [r \in Requests |-> "idle"]
    /\ actor = [r \in Requests |-> Operator]
    /\ target = [r \in Requests |-> Bootstrap]
    /\ newRole = [r \in Requests |-> "other"]
    /\ unsure = {}

Goto(r, label) == pc' = [pc EXCEPT ![r] = label] /\ UNCHANGED <<actor, target, newRole>>

\* The request is answered, and its slot is as it was.
End(r) ==
    /\ pc' = [pc EXCEPT ![r] = "idle"]
    /\ actor' = [actor EXCEPT ![r] = Operator]
    /\ target' = [target EXCEPT ![r] = Bootstrap]
    /\ newRole' = [newRole EXCEPT ![r] = "other"]

\* _lock_admin_lifecycle, and the end of the transaction that called it.
Acquire(r) == lock = Free /\ lock' = r
Release == lock' = Free

NoRows == \A u \in Users : status[u] = "none"

IsSuper(u) == role[u] = "super_admin" /\ status[u] = "active"

\* _active_super_admins_other_than(connection, user_id) == 0
IsLastSuper(u) == IsSuper(u) /\ \A v \in Users \ {u} : ~IsSuper(v)
-----------------------------------------------------------------------------
(* Signing in: build_principal                                             *)

\* Mutant: the row is read without the lock.
SyncUnlocked(r) ==
    /\ "role" \in Admission
    /\ pc[r] = "idle"
    /\ \E u \in Users :
        /\ cognito[u] # "none"
        /\ actor' = [actor EXCEPT ![r] = u]
        /\ \/ status[u] \in {"invited", "active"} /\ pc' = [pc EXCEPT ![r] = "sync"]
           \/ NoRows /\ u = Bootstrap /\ pc' = [pc EXCEPT ![r] = "sync_first"]
    /\ UNCHANGED <<role, status, cognito, lock, target, newRole, unsure>>

\* sync_admin_identity: an administrator who is disabled, or was never
\* assigned, is turned away; the first may only be the bootstrap one.
Sync(r) ==
    /\ "role" \in Admission
    /\ pc[r] = "idle"
    /\ Acquire(r)
    /\ \E u \in Users :
        /\ cognito[u] # "none"
        /\ actor' = [actor EXCEPT ![r] = u]
        /\ \/ status[u] \in {"invited", "active"} /\ pc' = [pc EXCEPT ![r] = "sync"]
           \/ NoRows /\ u = Bootstrap /\ pc' = [pc EXCEPT ![r] = "sync_first"]
    /\ UNCHANGED <<role, status, cognito, target, newRole, unsure>>

\* Subject and address are unique: the INSERT fails if a creation, which takes
\* no lock, has come between.
SyncRow(r) ==
    /\ \/ pc[r] = "sync" /\ UNCHANGED role
       \/ /\ pc[r] = "sync_first"
          /\ status[actor[r]] = "none"
          /\ role' = [role EXCEPT ![actor[r]] = "super_admin"]
    /\ status' = [status EXCEPT ![actor[r]] = "active"]
    /\ Release
    /\ Goto(r, "principal")
    /\ UNCHANGED <<cognito, unsure>>

\* What a principal who may manage administrators asks for.
Ask(r) ==
    \E op \in {"create", "update", "enable", "disable"}, u \in Users, n \in Roles :
        /\ op \in {"enable", "disable"} => n = "other"
        /\ pc' = [pc EXCEPT ![r] = op]
        /\ target' = [target EXCEPT ![r] = u]
        /\ newRole' = [newRole EXCEPT ![r] = n]

\* The profile is read again, and decides what the request may do: only a super
\* administrator manages administrators (_validate_role_scopes gives nobody
\* else the permission).
Admit(r) ==
    /\ pc[r] = "principal"
    /\ \/ IsSuper(actor[r]) /\ Ask(r) /\ UNCHANGED actor
       \/ End(r)
    /\ UNCHANGED <<role, status, cognito, lock, unsure>>

\* Those who are taken for a super administrator without a look at their row.
Unread == {a \in Users \cup {Operator} :
              IF a = Operator THEN "key" \in Admission
                              ELSE "token" \in Admission /\ cognito[a] # "none"}

AdmitUnread(r) ==
    /\ pc[r] = "idle"
    /\ \E a \in Unread : actor' = [actor EXCEPT ![r] = a]
    /\ Ask(r)
    /\ UNCHANGED <<role, status, cognito, lock, unsure>>
-----------------------------------------------------------------------------
(* create_admin_user                                                       *)

\* Mutant: a creation that failed is undone, whoever created the login.
CreateLoginOrUndo(r) ==
    /\ pc[r] = "create"
    /\ IF cognito[target[r]] = "none"
       THEN cognito' = [cognito EXCEPT ![target[r]] = "enabled"] /\ Goto(r, "insert")
       ELSE Goto(r, "compensate") /\ UNCHANGED cognito
    /\ UNCHANGED <<role, status, lock, unsure>>

\* admin_create_user; a name that exists is an error and nothing to undo.
CreateLogin(r) ==
    /\ pc[r] = "create"
    /\ IF cognito[target[r]] = "none"
       THEN cognito' = [cognito EXCEPT ![target[r]] = "enabled"] /\ Goto(r, "insert")
       ELSE End(r) /\ UNCHANGED cognito
    /\ UNCHANGED <<role, status, lock, unsure>>

\* The group and the row; when either fails the login is deleted.
Insert(r) ==
    /\ pc[r] = "insert"
    /\ \/ /\ status[target[r]] = "none"
          /\ status' = [status EXCEPT ![target[r]] = "invited"]
          /\ role' = [role EXCEPT ![target[r]] = newRole[r]]
          /\ End(r)
       \/ Goto(r, "compensate") /\ UNCHANGED <<role, status>>
    /\ UNCHANGED <<cognito, lock, unsure>>

\* admin_delete_user
Compensate(r) ==
    /\ pc[r] = "compensate"
    /\ cognito' = [cognito EXCEPT ![target[r]] = "none"]
    /\ End(r)
    /\ UNCHANGED <<role, status, lock, unsure>>
-----------------------------------------------------------------------------
(* update_admin_user                                                       *)

\* Nobody demotes themselves or the last active super administrator.
Demotable(r, u) == role[u] = "super_admin" => u # actor[r] /\ ~IsLastSuper(u)

\* Mutant: two transactions may count the others at the same time.
ReadRoleUnlocked(r) ==
    /\ pc[r] = "update"
    /\ IF status[target[r]] # "none" /\ (newRole[r] = "super_admin" \/ Demotable(r, target[r]))
       THEN Goto(r, "role") ELSE End(r)
    /\ UNCHANGED <<role, status, cognito, lock, unsure>>

ReadRole(r) ==
    /\ pc[r] = "update"
    /\ IF status[target[r]] # "none" /\ (newRole[r] = "super_admin" \/ Demotable(r, target[r]))
       THEN Acquire(r) /\ Goto(r, "role")
       ELSE lock = Free /\ End(r) /\ UNCHANGED lock
    /\ UNCHANGED <<role, status, cognito, unsure>>

WriteRole(r) ==
    /\ pc[r] = "role"
    /\ role' = [role EXCEPT ![target[r]] = newRole[r]]
    /\ Release
    /\ End(r)
    /\ UNCHANGED <<status, cognito, unsure>>
-----------------------------------------------------------------------------
(* set_admin_user_enabled                                                  *)

\* The row a transaction has read FOR UPDATE.
RowLocked(u) == \E q \in Requests : pc[q] \in {"role", "disable_row"} /\ target[q] = u

\* Enabling: admin_enable_user ...
EnableLogin(r) ==
    /\ pc[r] = "enable"
    /\ IF status[target[r]] # "none" /\ cognito[target[r]] # "none"
       THEN cognito' = [cognito EXCEPT ![target[r]] = "enabled"] /\ Goto(r, "enable_row")
       ELSE End(r) /\ UNCHANGED cognito
    /\ UNCHANGED <<role, status, lock, unsure>>

\* ... and then the row, without the lock of the lifecycle.
EnableRow(r) ==
    /\ pc[r] = "enable_row"
    /\ ~RowLocked(target[r])
    /\ status' = [status EXCEPT ![target[r]] = "active"]
    /\ End(r)
    /\ UNCHANGED <<role, cognito, lock, unsure>>

\* Disabling: the row, under the lock ...
ReadStatus(r) ==
    /\ pc[r] = "disable"
    /\ IF status[target[r]] # "none" /\ target[r] # actor[r] /\ ~IsLastSuper(target[r])
       THEN Acquire(r) /\ Goto(r, "disable_row")
       ELSE lock = Free /\ End(r) /\ UNCHANGED lock
    /\ UNCHANGED <<role, status, cognito, unsure>>

DisableRow(r) ==
    /\ pc[r] = "disable_row"
    /\ status' = [status EXCEPT ![target[r]] = "disabled"]
    /\ Release
    /\ Goto(r, "disable_login")
    /\ UNCHANGED <<role, cognito, unsure>>

\* Mutant: a Cognito that cannot be reached is not an error.
DisableLoginOrNot(r) ==
    /\ pc[r] = "disable_login"
    /\ cognito' \in {cognito, [cognito EXCEPT ![target[r]] = "disabled"]}
    /\ unsure' = unsure \ {target[r]}
    /\ End(r)
    /\ UNCHANGED <<role, status, lock>>

\* ... and then admin_disable_user.
DisableLogin(r) ==
    /\ pc[r] = "disable_login"
    /\ cognito[target[r]] # "none"
    /\ cognito' = [cognito EXCEPT ![target[r]] = "disabled"]
    /\ unsure' = unsure \ {target[r]}
    /\ End(r)
    /\ UNCHANGED <<role, status, lock>>
-----------------------------------------------------------------------------
\* A call that fails, a request that is refused inside its transaction, or a
\* process that dies: the transaction is rolled back and its lock released.
Fail(r) ==
    /\ pc[r] # "idle"
    /\ lock' = IF lock = r THEN Free ELSE lock
    /\ unsure' = IF pc[r] \in {"enable_row", "disable_login"} THEN unsure \cup {target[r]} ELSE unsure
    /\ End(r)
    /\ UNCHANGED <<role, status, cognito>>

Next == \E r \in Requests :
    \/ Sync(r) \/ SyncRow(r) \/ Admit(r) \/ AdmitUnread(r)
    \/ CreateLogin(r) \/ Insert(r) \/ Compensate(r)
    \/ ReadRole(r) \/ WriteRole(r)
    \/ EnableLogin(r) \/ EnableRow(r) \/ ReadStatus(r) \/ DisableRow(r) \/ DisableLogin(r)
    \/ Fail(r)

Spec == Init /\ [][Next]_vars
-----------------------------------------------------------------------------
(* Properties *)

\* The last active super administrator stays, whatever two requests do to each
\* other at the same time, those without a row included: the check and the
\* write that it allows are one turn of the lock, and what runs without the lock
\* takes nobody's access away (update_admin_user, set_admin_user_enabled).
SuperAdminRemains ==
    [][(\E u \in Users : IsSuper(u)) => \E u \in Users : IsSuper(u)']_vars

\* Where only roles admit, there is one from the first row on: the bootstrap one.
SuperAdminFirst == ~NoRows => \E u \in Users : IsSuper(u)

\* Only enabling brings a disabled administrator back; a sign-in that had begun
\* before the disabling does not (sync_admin_identity).
DisabledIsNotRevived ==
    [][\A u \in Users :
        status[u] = "disabled" /\ status'[u] # "disabled" =>
            \E r \in Requests : pc[r] = "enable_row" /\ target[r] = u /\ pc'[r] # pc[r]]_vars

\* When nobody is at work on an administrator and no enabling or disabling of
\* theirs was left half done, one who is disabled here is disabled in Cognito
\* too, in whatever order enabling and disabling met: enabling writes Cognito
\* before the row, disabling the row before Cognito.
BlockedInBoth ==
    \A u \in Users \ unsure :
        /\ status[u] = "disabled"
        /\ \A r \in Requests : pc[r] \in {"enable_row", "disable_login"} => target[r] # u
        => cognito[u] = "disabled"

\* No administrator with a row is without a login: what a failed creation
\* deletes is the login it created and never another's (cognito_user_created).
RowHasLogin == \A u \in Users : status[u] # "none" => cognito[u] # "none"
=============================================================================
