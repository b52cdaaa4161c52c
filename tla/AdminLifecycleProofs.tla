------------------------ MODULE AdminLifecycleProofs ------------------------
(***************************************************************************)
(* Safety of AdminLifecycle for any people and any number of concurrent    *)
(* requests.  The lock is what the argument turns on: from what a request  *)
(* has read under it until what it writes, nobody else takes an active     *)
(* super administrator away (TurnIsSafe) or disables whoever is signing in *)
(* (SignInIsSound); the rest is that a creation owns the login it made.    *)
(***************************************************************************)
EXTENDS AdminLifecycle, TLAPS

USE LifecycleAssumption

LEMMA TypeInit == Init => TypeOK
BY DEF Init, TypeOK, Roles, Labels

LEMMA TypeNext == TypeOK /\ [Next]_vars => TypeOK'
<1> SUFFICES ASSUME TypeOK, [Next]_vars PROVE TypeOK'
  OBVIOUS
<1> USE DEF TypeOK, Roles, Labels, Goto, End, Ask, Acquire, Release, vars, request
<1>1. ASSUME NEW r \in Requests, Sync(r) \/ SyncRow(r) \/ Admit(r) \/ AdmitUnread(r) PROVE TypeOK'
  BY <1>1 DEF Sync, SyncRow, Admit, AdmitUnread, Unread
<1>2. ASSUME NEW r \in Requests, CreateLogin(r) \/ Insert(r) \/ Compensate(r) PROVE TypeOK'
  BY <1>2 DEF CreateLogin, Insert, Compensate
<1>3. ASSUME NEW r \in Requests, ReadRole(r) \/ WriteRole(r) PROVE TypeOK'
  BY <1>3 DEF ReadRole, WriteRole
<1>4. ASSUME NEW r \in Requests, EnableLogin(r) \/ EnableRow(r) PROVE TypeOK'
  BY <1>4 DEF EnableLogin, EnableRow
<1>5. ASSUME NEW r \in Requests, ReadStatus(r) \/ DisableRow(r) \/ DisableLogin(r) PROVE TypeOK'
  BY <1>5 DEF ReadStatus, DisableRow, DisableLogin
<1>6. ASSUME NEW r \in Requests, Fail(r) PROVE TypeOK'
  BY <1>6 DEF Fail
<1>7. CASE UNCHANGED vars
  BY <1>7
<1> QED BY <1>1, <1>2, <1>3, <1>4, <1>5, <1>6, <1>7 DEF Next

\* Every variable keeps its type.
THEOREM LifecycleTypeCorrect == Spec => []TypeOK
BY TypeInit, TypeNext, PTL DEF Spec
-----------------------------------------------------------------------------
\* A request is between the two steps of a transaction when it holds the lock.
LockIsHeld ==
    \A r \in Requests :
        pc[r] \in {"sync", "sync_first", "role", "disable_row"} <=> lock = r

\* Who signs in was not disabled, or is the first, whose login nobody deletes.
SignInIsSound ==
    /\ \A r \in Requests :
        /\ pc[r] \in {"sync", "principal"} => actor[r] \in Users
        /\ pc[r] = "sync" => status[actor[r]] \in {"invited", "active"}
        /\ pc[r] = "sync_first" => actor[r] = Bootstrap
    /\ cognito[Bootstrap] # "none"

\* A request that was admitted changes rows that exist; a creation owns the
\* login it made, which has no row yet and is not that of the bootstrap.
WorkIsSound ==
    /\ \A r \in Requests :
        pc[r] \in {"role", "enable_row", "disable_row", "disable_login"} =>
            status[target[r]] # "none"
    /\ \A r \in Requests : pc[r] \in {"insert", "compensate"} =>
        status[target[r]] = "none" /\ cognito[target[r]] # "none" /\ target[r] # Bootstrap
    /\ \A q, r \in Requests :
        pc[q] \in {"insert", "compensate"} /\ pc[r] \in {"insert", "compensate"}
            /\ target[q] = target[r] => q = r

\* The write that a check has allowed leaves another active super administrator.
TurnIsSafe ==
    \A r \in Requests :
        ((pc[r] = "role" /\ newRole[r] # "super_admin") \/ pc[r] = "disable_row")
            /\ IsSuper(target[r])
        => \E v \in Users \ {target[r]} : IsSuper(v)

IInv == TypeOK /\ LockIsHeld /\ SignInIsSound /\ WorkIsSound /\ TurnIsSafe
            /\ RowHasLogin /\ BlockedInBoth

LEMMA InvInit == Init => IInv
<1> SUFFICES ASSUME Init PROVE IInv
  OBVIOUS
<1>1. TypeOK
  BY TypeInit
<1> QED
  BY <1>1 DEF Init, IInv, LockIsHeld, SignInIsSound, WorkIsSound, TurnIsSafe,
              RowHasLogin, BlockedInBoth, NoRows

LEMMA LockNext == IInv /\ [Next]_vars => LockIsHeld'
<1> SUFFICES ASSUME IInv, [Next]_vars PROVE LockIsHeld'
  OBVIOUS
<1> USE DEF IInv, TypeOK, LockIsHeld, Goto, End, Ask, Acquire, Release, vars, request
<1>1. ASSUME NEW r \in Requests, Sync(r) \/ SyncRow(r) \/ Admit(r) \/ AdmitUnread(r) PROVE LockIsHeld'
  BY <1>1 DEF Sync, SyncRow, Admit, AdmitUnread, Unread
<1>2. ASSUME NEW r \in Requests, CreateLogin(r) \/ Insert(r) \/ Compensate(r) PROVE LockIsHeld'
  BY <1>2 DEF CreateLogin, Insert, Compensate
<1>3. ASSUME NEW r \in Requests, ReadRole(r) \/ WriteRole(r) PROVE LockIsHeld'
  BY <1>3 DEF ReadRole, WriteRole
<1>4. ASSUME NEW r \in Requests, EnableLogin(r) \/ EnableRow(r) PROVE LockIsHeld'
  BY <1>4 DEF EnableLogin, EnableRow
<1>5. ASSUME NEW r \in Requests, ReadStatus(r) \/ DisableRow(r) \/ DisableLogin(r) PROVE LockIsHeld'
  BY <1>5 DEF ReadStatus, DisableRow, DisableLogin
<1>6. ASSUME NEW r \in Requests, Fail(r) PROVE LockIsHeld'
  BY <1>6 DEF Fail
<1>7. CASE UNCHANGED vars
  BY <1>7
<1> QED BY <1>1, <1>2, <1>3, <1>4, <1>5, <1>6, <1>7 DEF Next

LEMMA SignInNext == IInv /\ [Next]_vars => SignInIsSound'
<1> SUFFICES ASSUME IInv, [Next]_vars PROVE SignInIsSound'
  OBVIOUS
<1> USE DEF IInv, TypeOK, LockIsHeld, SignInIsSound, WorkIsSound, NoRows,
            Goto, End, Ask, Acquire, Release, vars, request
<1>1. ASSUME NEW r \in Requests, Sync(r) \/ SyncRow(r) \/ Admit(r) \/ AdmitUnread(r) PROVE SignInIsSound'
  BY <1>1 DEF Sync, SyncRow, Admit, AdmitUnread, Unread
<1>2. ASSUME NEW r \in Requests, CreateLogin(r) \/ Insert(r) \/ Compensate(r) PROVE SignInIsSound'
  BY <1>2 DEF CreateLogin, Insert, Compensate
<1>3. ASSUME NEW r \in Requests, ReadRole(r) \/ WriteRole(r) PROVE SignInIsSound'
  BY <1>3 DEF ReadRole, WriteRole
<1>4. ASSUME NEW r \in Requests, EnableLogin(r) \/ EnableRow(r) PROVE SignInIsSound'
  BY <1>4 DEF EnableLogin, EnableRow
<1>5. ASSUME NEW r \in Requests, ReadStatus(r) \/ DisableRow(r) \/ DisableLogin(r) PROVE SignInIsSound'
  BY <1>5 DEF ReadStatus, DisableRow, DisableLogin
<1>6. ASSUME NEW r \in Requests, Fail(r) PROVE SignInIsSound'
  BY <1>6 DEF Fail
<1>7. CASE UNCHANGED vars
  BY <1>7
<1> QED BY <1>1, <1>2, <1>3, <1>4, <1>5, <1>6, <1>7 DEF Next

LEMMA WorkNext == IInv /\ [Next]_vars => WorkIsSound'
<1> SUFFICES ASSUME IInv, [Next]_vars PROVE WorkIsSound'
  OBVIOUS
<1> USE DEF IInv, TypeOK, LockIsHeld, SignInIsSound, WorkIsSound, RowHasLogin, NoRows, IsSuper,
            Goto, End, Ask, Acquire, Release, vars, request
<1>1. ASSUME NEW r \in Requests, Sync(r) \/ SyncRow(r) PROVE WorkIsSound'
  BY <1>1 DEF Sync, SyncRow
<1>2. ASSUME NEW r \in Requests, Admit(r) \/ AdmitUnread(r) PROVE WorkIsSound'
  BY <1>2 DEF Admit, AdmitUnread, Unread
<1>3. ASSUME NEW r \in Requests, CreateLogin(r) PROVE WorkIsSound'
  BY <1>3 DEF CreateLogin
<1>4. ASSUME NEW r \in Requests, Insert(r) \/ Compensate(r) PROVE WorkIsSound'
  BY <1>4 DEF Insert, Compensate
<1>5. ASSUME NEW r \in Requests, ReadRole(r) \/ WriteRole(r) PROVE WorkIsSound'
  BY <1>5 DEF ReadRole, WriteRole
<1>6. ASSUME NEW r \in Requests, EnableLogin(r) \/ EnableRow(r) PROVE WorkIsSound'
  BY <1>6 DEF EnableLogin, EnableRow
<1>7. ASSUME NEW r \in Requests, ReadStatus(r) \/ DisableRow(r) \/ DisableLogin(r) PROVE WorkIsSound'
  BY <1>7 DEF ReadStatus, DisableRow, DisableLogin
<1>8. ASSUME NEW r \in Requests, Fail(r) PROVE WorkIsSound'
  BY <1>8 DEF Fail
<1>9. CASE UNCHANGED vars
  BY <1>9
<1> QED BY <1>1, <1>2, <1>3, <1>4, <1>5, <1>6, <1>7, <1>8, <1>9 DEF Next

LEMMA TurnNext == IInv /\ [Next]_vars => TurnIsSafe'
<1> SUFFICES ASSUME IInv, [Next]_vars PROVE TurnIsSafe'
  OBVIOUS
<1> USE DEF TurnIsSafe, IsLastSuper, Demotable, RowLocked, Roles, IInv, TypeOK, LockIsHeld, WorkIsSound, IsSuper,
            Goto, End, Ask, Acquire, Release, vars, request
<1>1. ASSUME NEW r \in Requests, Sync(r) PROVE TurnIsSafe'
  BY <1>1 DEF Sync
<1>2. ASSUME NEW r \in Requests, SyncRow(r) PROVE TurnIsSafe'
  BY <1>2 DEF SyncRow
<1>3. ASSUME NEW r \in Requests, Admit(r) \/ AdmitUnread(r) PROVE TurnIsSafe'
  BY <1>3 DEF Admit, AdmitUnread, Unread
<1>4. ASSUME NEW r \in Requests, CreateLogin(r) \/ Compensate(r) PROVE TurnIsSafe'
  BY <1>4 DEF CreateLogin, Compensate
<1>5. ASSUME NEW r \in Requests, Insert(r) PROVE TurnIsSafe'
  BY <1>5 DEF Insert
<1>6. ASSUME NEW r \in Requests, ReadRole(r) PROVE TurnIsSafe'
  BY <1>6 DEF ReadRole
<1>7. ASSUME NEW r \in Requests, WriteRole(r) PROVE TurnIsSafe'
  BY <1>7 DEF WriteRole
<1>8. ASSUME NEW r \in Requests, EnableLogin(r) PROVE TurnIsSafe'
  BY <1>8 DEF EnableLogin
<1>9. ASSUME NEW r \in Requests, EnableRow(r) PROVE TurnIsSafe'
  BY <1>9 DEF EnableRow
<1>10. ASSUME NEW r \in Requests, ReadStatus(r) PROVE TurnIsSafe'
  BY <1>10 DEF ReadStatus
<1>11. ASSUME NEW r \in Requests, DisableRow(r) PROVE TurnIsSafe'
  BY <1>11 DEF DisableRow
<1>12. ASSUME NEW r \in Requests, DisableLogin(r) PROVE TurnIsSafe'
  BY <1>12 DEF DisableLogin
<1>13. ASSUME NEW r \in Requests, Fail(r) PROVE TurnIsSafe'
  BY <1>13 DEF Fail
<1>14. CASE UNCHANGED vars
  BY <1>14
<1> QED BY <1>1, <1>2, <1>3, <1>4, <1>5, <1>6, <1>7, <1>8, <1>9, <1>10, <1>11, <1>12, <1>13, <1>14 DEF Next

LEMMA LoginNext == IInv /\ [Next]_vars => RowHasLogin'
<1> SUFFICES ASSUME IInv, [Next]_vars PROVE RowHasLogin'
  OBVIOUS
<1> USE DEF RowHasLogin, SignInIsSound, IInv, TypeOK, LockIsHeld, WorkIsSound, IsSuper,
            Goto, End, Ask, Acquire, Release, vars, request
<1>1. ASSUME NEW r \in Requests, Sync(r) PROVE RowHasLogin'
  BY <1>1 DEF Sync
<1>2. ASSUME NEW r \in Requests, SyncRow(r) PROVE RowHasLogin'
  BY <1>2 DEF SyncRow
<1>3. ASSUME NEW r \in Requests, Admit(r) \/ AdmitUnread(r) PROVE RowHasLogin'
  BY <1>3 DEF Admit, AdmitUnread, Unread
<1>4. ASSUME NEW r \in Requests, CreateLogin(r) \/ Compensate(r) PROVE RowHasLogin'
  BY <1>4 DEF CreateLogin, Compensate
<1>5. ASSUME NEW r \in Requests, Insert(r) PROVE RowHasLogin'
  BY <1>5 DEF Insert
<1>6. ASSUME NEW r \in Requests, ReadRole(r) PROVE RowHasLogin'
  BY <1>6 DEF ReadRole
<1>7. ASSUME NEW r \in Requests, WriteRole(r) PROVE RowHasLogin'
  BY <1>7 DEF WriteRole
<1>8. ASSUME NEW r \in Requests, EnableLogin(r) PROVE RowHasLogin'
  BY <1>8 DEF EnableLogin
<1>9. ASSUME NEW r \in Requests, EnableRow(r) PROVE RowHasLogin'
  BY <1>9 DEF EnableRow
<1>10. ASSUME NEW r \in Requests, ReadStatus(r) PROVE RowHasLogin'
  BY <1>10 DEF ReadStatus
<1>11. ASSUME NEW r \in Requests, DisableRow(r) PROVE RowHasLogin'
  BY <1>11 DEF DisableRow
<1>12. ASSUME NEW r \in Requests, DisableLogin(r) PROVE RowHasLogin'
  BY <1>12 DEF DisableLogin
<1>13. ASSUME NEW r \in Requests, Fail(r) PROVE RowHasLogin'
  BY <1>13 DEF Fail
<1>14. CASE UNCHANGED vars
  BY <1>14
<1> QED BY <1>1, <1>2, <1>3, <1>4, <1>5, <1>6, <1>7, <1>8, <1>9, <1>10, <1>11, <1>12, <1>13, <1>14 DEF Next

LEMMA BlockedNext == IInv /\ [Next]_vars => BlockedInBoth'
<1> SUFFICES ASSUME IInv, [Next]_vars PROVE BlockedInBoth'
  OBVIOUS
<1> USE DEF BlockedInBoth, RowHasLogin, SignInIsSound, IInv, TypeOK, LockIsHeld, WorkIsSound, IsSuper,
            Goto, End, Ask, Acquire, Release, vars, request
<1>1. ASSUME NEW r \in Requests, Sync(r) PROVE BlockedInBoth'
  BY <1>1 DEF Sync
<1>2. ASSUME NEW r \in Requests, SyncRow(r) PROVE BlockedInBoth'
  BY <1>2 DEF SyncRow
<1>3. ASSUME NEW r \in Requests, Admit(r) \/ AdmitUnread(r) PROVE BlockedInBoth'
  BY <1>3 DEF Admit, AdmitUnread, Unread
<1>4. ASSUME NEW r \in Requests, CreateLogin(r) \/ Compensate(r) PROVE BlockedInBoth'
  BY <1>4 DEF CreateLogin, Compensate
<1>5. ASSUME NEW r \in Requests, Insert(r) PROVE BlockedInBoth'
  BY <1>5 DEF Insert
<1>6. ASSUME NEW r \in Requests, ReadRole(r) PROVE BlockedInBoth'
  BY <1>6 DEF ReadRole
<1>7. ASSUME NEW r \in Requests, WriteRole(r) PROVE BlockedInBoth'
  BY <1>7 DEF WriteRole
<1>8. ASSUME NEW r \in Requests, EnableLogin(r) PROVE BlockedInBoth'
  BY <1>8 DEF EnableLogin
<1>9. ASSUME NEW r \in Requests, EnableRow(r) PROVE BlockedInBoth'
  BY <1>9 DEF EnableRow
<1>10. ASSUME NEW r \in Requests, ReadStatus(r) PROVE BlockedInBoth'
  BY <1>10 DEF ReadStatus
<1>11. ASSUME NEW r \in Requests, DisableRow(r) PROVE BlockedInBoth'
  BY <1>11 DEF DisableRow
<1>12. ASSUME NEW r \in Requests, DisableLogin(r) PROVE BlockedInBoth'
  BY <1>12 DEF DisableLogin
<1>13. ASSUME NEW r \in Requests, Fail(r) PROVE BlockedInBoth'
  BY <1>13 DEF Fail
<1>14. CASE UNCHANGED vars
  BY <1>14
<1> QED BY <1>1, <1>2, <1>3, <1>4, <1>5, <1>6, <1>7, <1>8, <1>9, <1>10, <1>11, <1>12, <1>13, <1>14 DEF Next

LEMMA InvNext == IInv /\ [Next]_vars => IInv'
BY TypeNext, LockNext, SignInNext, WorkNext, TurnNext, LoginNext, BlockedNext DEF IInv

LEMMA LifecycleInvariant == Spec => []IInv
BY InvInit, InvNext, PTL DEF Spec
-----------------------------------------------------------------------------
SuperStays == (\E u \in Users : IsSuper(u)) => \E u \in Users : IsSuper(u)'

LEMMA SuperNext == IInv /\ [Next]_vars => SuperStays
<1> SUFFICES ASSUME IInv, [Next]_vars PROVE SuperStays
  OBVIOUS
<1> USE DEF TurnIsSafe, SuperStays, Roles, IInv, TypeOK, LockIsHeld, SignInIsSound, WorkIsSound,
            IsSuper, Goto, End, Ask, Acquire, Release, vars, request
<1>1. ASSUME NEW r \in Requests, Sync(r) PROVE SuperStays
  BY <1>1 DEF Sync
<1>2. ASSUME NEW r \in Requests, SyncRow(r) PROVE SuperStays
  BY <1>2 DEF SyncRow
<1>3. ASSUME NEW r \in Requests, Admit(r) \/ AdmitUnread(r) PROVE SuperStays
  BY <1>3 DEF Admit, AdmitUnread, Unread
<1>4. ASSUME NEW r \in Requests, CreateLogin(r) \/ Compensate(r) PROVE SuperStays
  BY <1>4 DEF CreateLogin, Compensate
<1>5. ASSUME NEW r \in Requests, Insert(r) PROVE SuperStays
  BY <1>5 DEF Insert
<1>6. ASSUME NEW r \in Requests, ReadRole(r) PROVE SuperStays
  BY <1>6 DEF ReadRole
<1>7. ASSUME NEW r \in Requests, WriteRole(r) PROVE SuperStays
  BY <1>7 DEF WriteRole
<1>8. ASSUME NEW r \in Requests, EnableLogin(r) PROVE SuperStays
  BY <1>8 DEF EnableLogin
<1>9. ASSUME NEW r \in Requests, EnableRow(r) PROVE SuperStays
  BY <1>9 DEF EnableRow
<1>10. ASSUME NEW r \in Requests, ReadStatus(r) PROVE SuperStays
  BY <1>10 DEF ReadStatus
<1>11. ASSUME NEW r \in Requests, DisableRow(r) PROVE SuperStays
  BY <1>11 DEF DisableRow
<1>12. ASSUME NEW r \in Requests, DisableLogin(r) PROVE SuperStays
  BY <1>12 DEF DisableLogin
<1>13. ASSUME NEW r \in Requests, Fail(r) PROVE SuperStays
  BY <1>13 DEF Fail
<1>14. CASE UNCHANGED vars
  BY <1>14
<1> QED BY <1>1, <1>2, <1>3, <1>4, <1>5, <1>6, <1>7, <1>8, <1>9, <1>10, <1>11, <1>12, <1>13, <1>14 DEF Next

\* The last active super administrator stays, whoever is admitted and however.
THEOREM SuperAdminRemainsHolds == Spec => SuperAdminRemains
<1>1. IInv /\ [Next]_vars => [SuperStays]_vars
  BY SuperNext
<1> QED BY <1>1, LifecycleInvariant, PTL DEF Spec, SuperAdminRemains, SuperStays

\* No administrator with a row is without a login.
THEOREM RowHasLoginHolds == Spec => []RowHasLogin
<1>1. IInv => RowHasLogin
  BY DEF IInv
<1> QED BY <1>1, LifecycleInvariant, PTL

\* Who is disabled here is disabled in Cognito, when nothing is under way.
THEOREM BlockedInBothHolds == Spec => []BlockedInBoth
<1>1. IInv => BlockedInBoth
  BY DEF IInv
<1> QED BY <1>1, LifecycleInvariant, PTL

\* Only enabling brings a disabled administrator back.
THEOREM DisabledIsNotRevivedHolds == Spec => DisabledIsNotRevived
<1> DEFINE Step == \A u \in Users :
        status[u] = "disabled" /\ status'[u] # "disabled" =>
            \E r \in Requests : pc[r] = "enable_row" /\ target[r] = u /\ pc'[r] # pc[r]
<1>1. IInv /\ [Next]_vars => [Step]_vars
  <2> SUFFICES ASSUME IInv, Next PROVE Step
    BY DEF vars, request
  <2> USE DEF IInv, TypeOK, SignInIsSound, WorkIsSound, Goto, End, Ask, vars, request
  <2>1. ASSUME NEW r \in Requests, SyncRow(r) \/ DisableRow(r) PROVE Step
    BY <2>1 DEF SyncRow, DisableRow
  <2>2. ASSUME NEW r \in Requests, EnableRow(r) \/ Insert(r) PROVE Step
    BY <2>2 DEF EnableRow, Insert
  <2>3. ASSUME NEW r \in Requests,
               \/ Sync(r) \/ Admit(r) \/ AdmitUnread(r) \/ CreateLogin(r) \/ Compensate(r) \/ ReadRole(r)
               \/ WriteRole(r) \/ EnableLogin(r) \/ ReadStatus(r) \/ DisableLogin(r) \/ Fail(r)
        PROVE  Step
    BY <2>3 DEF Sync, Admit, AdmitUnread, CreateLogin, Compensate, ReadRole, WriteRole, EnableLogin,
                ReadStatus, DisableLogin, Fail
  <2> QED BY <2>1, <2>2, <2>3 DEF Next
<1> QED BY <1>1, LifecycleInvariant, PTL DEF Spec, DisabledIsNotRevived
-----------------------------------------------------------------------------
\* Where only roles admit, nobody creates an administrator before the first.
FirstInv ==
    /\ SuperAdminFirst
    /\ \A r \in Requests :
          /\ pc[r] = "sync_first" => NoRows
          /\ pc[r] \in {"create", "insert", "compensate"} => ~NoRows

LEMMA FirstNext ==
    ASSUME Admission = {"role"}, IInv, IInv', FirstInv, [Next]_vars
    PROVE  FirstInv'
<1>1. SuperStays
  BY SuperNext
<1> USE DEF FirstInv, SuperAdminFirst, NoRows, IInv, TypeOK, SignInIsSound, WorkIsSound, Goto, End,
            Ask, vars, request
<1>2. ASSUME NEW r \in Requests, SyncRow(r) PROVE FirstInv'
  <2>1. SuperAdminFirst'
    <3>1. CASE pc[r] = "sync"
      BY <1>2, <1>1, <3>1 DEF SyncRow, SuperStays
    <3>2. CASE pc[r] = "sync_first"
      BY <1>2, <3>2 DEF SyncRow, IsSuper
    <3> QED BY <1>2, <3>1, <3>2 DEF SyncRow
  <2>2. ~NoRows' /\ pc'[r] = "principal"
    BY <1>2 DEF SyncRow
  <2>3. \A q \in Requests \ {r} : pc'[q] = pc[q] /\ pc[q] # "sync_first"
    BY <1>2 DEF SyncRow, LockIsHeld
  <2> QED BY <2>1, <2>2, <2>3
<1>3. ASSUME NEW r \in Requests, Insert(r) PROVE FirstInv'
  BY <1>3, <1>1 DEF Insert, SuperStays
<1>4. ASSUME NEW r \in Requests, Sync(r) \/ Admit(r) PROVE FirstInv'
  <2>1. (NoRows' <=> NoRows) /\ (SuperAdminFirst => SuperAdminFirst')
    BY <1>4, <1>1 DEF Sync, Admit, SuperStays
  <2>2. CASE Sync(r)
    BY <2>2, <2>1 DEF Sync
  <2>3. CASE Admit(r)
    <3>1. pc'[r] # "idle" => ~NoRows
      BY <2>3 DEF Admit, IsSuper
    <3>2. \A q \in Requests \ {r} : pc'[q] = pc[q]
      BY <2>3 DEF Admit
    <3>3. pc'[r] # "sync_first"
      BY <2>3 DEF Admit
    <3> QED BY <3>1, <3>2, <3>3, <2>1
  <2> QED BY <1>4, <2>2, <2>3
<1>8. ASSUME NEW r \in Requests PROVE ~AdmitUnread(r)
  BY DEF AdmitUnread, Unread
<1>5. ASSUME NEW r \in Requests, EnableRow(r) \/ DisableRow(r) PROVE FirstInv'
  <2>1. NoRows' <=> NoRows
    BY <1>5 DEF EnableRow, DisableRow
  <2> QED BY <1>5, <1>1, <2>1 DEF EnableRow, DisableRow, SuperStays
<1>6. ASSUME NEW r \in Requests,
             \/ CreateLogin(r) \/ Compensate(r) \/ ReadRole(r) \/ WriteRole(r) \/ EnableLogin(r)
             \/ ReadStatus(r) \/ DisableLogin(r) \/ Fail(r)
      PROVE  FirstInv'
  BY <1>6, <1>1 DEF CreateLogin, Compensate, ReadRole, WriteRole, EnableLogin, ReadStatus,
     DisableLogin, Fail, SuperStays
<1>7. CASE UNCHANGED vars
  BY <1>7, <1>1 DEF SuperStays
<1> QED BY <1>2, <1>3, <1>4, <1>5, <1>6, <1>7, <1>8 DEF Next

\* Where only roles admit, as the hardened security profile has it, there is an active super
\* administrator whenever there is a row (sync_admin_identity).
THEOREM SuperAdminFirstHolds ==
    ASSUME Admission = {"role"}
    PROVE  Spec => []SuperAdminFirst
<1>1. Init => FirstInv
  BY DEF Init, FirstInv, SuperAdminFirst, NoRows
<1>2. IInv /\ FirstInv /\ [Next]_vars => IInv' /\ FirstInv'
  BY InvNext, FirstNext
<1>3. FirstInv => SuperAdminFirst
  BY DEF FirstInv
<1> QED BY <1>1, <1>2, <1>3, InvInit, PTL DEF Spec
=============================================================================
