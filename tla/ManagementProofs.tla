--------------------------- MODULE ManagementProofs ---------------------------
(***************************************************************************)
(* Proofs about the parts that run beside the relay: the console's         *)
(* sessions (AdminConsole), the stop of a server (ServerRuntime), the      *)
(* secret files (StoreFile), the runs of a Pal (ClientRuntime), the        *)
(* sessions of dsh (DshBackend), the limit on a user's inputs              *)
(* (UserRateLimiter), the protection of the login (LoginGuard) and the     *)
(* audit log's queue (AsyncAuditor), for any administrators, requests,     *)
(* sessions, timeouts, identifiers, runs, agents, commands, limits,        *)
(* windows, sizes, capacities and number of faults.                        *)
(***************************************************************************)
EXTENDS AdminConsole, ServerRuntime, StoreFile, ClientRuntime, DshBackend,
        UserRateLimiter, LoginGuard, AsyncAuditor, FiniteSetTheorems, SequenceTheorems, TLAPS

----------------------------------------------------------------------------
(* AdminConsole.                                                           *)

ConsoleSteps ==
    {"idle", "login", "verified", "sent", "got", "csrf", "handler", "revoke"}
ConsoleUsers == AdminNames \cup {NoAdmin}
ConsoleRequests ==
    [step : ConsoleSteps, op : (UNION Offers) \cup {"none"}, id : Nat, user : ConsoleUsers,
     target : ConsoleUsers]

ConsoleTypeOK ==
    /\ admins \in [AdminNames -> {"absent", "set", "initial"}]
    /\ sessions \in [SessionIDs -> SessionRecords \cup {NoSession}]
    /\ lastID \in Nat /\ now \in Nat /\ offer \in Offers
    /\ requests \in [Requests -> ConsoleRequests]

(* Identifiers are issued in order: there is no session above the last one,*)
(* and no browser knows such an identifier.                                *)
IssuedInOrder ==
    /\ 1..lastID \subseteq SessionIDs
    /\ \A i \in SessionIDs : Exists(i) => i \in 1..lastID
    /\ \A r \in Requests : requests[r].step \in {"idle", "login", "verified"}
                           \/ requests[r].id \in 1..lastID

(* However often it was rotated, a session's end was set at its login.     *)
LifetimeFromLogin ==
    \A i \in SessionIDs : Exists(i) =>
        sessions[i].absoluteExpiresAt = sessions[i].createdAt + AbsoluteTimeout

ConsoleInv == ConsoleTypeOK /\ IssuedInOrder /\ LifetimeFromLogin /\ NoSessionOutlivesChange

LEMMA ConsoleStart == ConsoleInit => ConsoleInv
  <1> SUFFICES ASSUME ConsoleInit PROVE ConsoleInv
    OBVIOUS
  <1>1. ConsoleTypeOK
    <2>1. NoRequest \in ConsoleRequests
      BY DEF NoRequest, ConsoleRequests, ConsoleUsers, ConsoleSteps
    <2> QED
      BY <2>1, AdminConsoleAssumption DEF ConsoleInit, ConsoleTypeOK
  <1>2. \A i \in SessionIDs : ~Exists(i)
    BY DEF ConsoleInit, Exists
  <1>3. IssuedInOrder
    BY <1>2 DEF ConsoleInit, IssuedInOrder, NoRequest
  <1> QED
    BY <1>1, <1>2, <1>3 DEF ConsoleInv, LifetimeFromLogin, NoSessionOutlivesChange

(* A session that is there is a record of its user and its times.          *)
LEMMA SessionIsRecord ==
    ASSUME ConsoleTypeOK, NEW i \in SessionIDs, Exists(i)
    PROVE  sessions[i] \in SessionRecords
  BY DEF ConsoleTypeOK, Exists

(* Types are kept by every step.                                           *)
LEMMA ConsoleTypes ==
    ASSUME ConsoleTypeOK, IssuedInOrder, [ConsoleNext]_consoleVars
    PROVE  ConsoleTypeOK'
  <1> USE DEF ConsoleTypeOK
  <1>a. NoRequest \in ConsoleRequests
    BY DEF NoRequest, ConsoleRequests, ConsoleUsers, ConsoleSteps
  <1>b. \A i : Drop(i) => sessions' \in [SessionIDs -> SessionRecords \cup {NoSession}]
    BY DEF Drop
  <1>c. \A r \in Requests : End(r) => requests' \in [Requests -> ConsoleRequests]
    BY <1>a DEF End
  <1>d. \A r \in Requests, step \in ConsoleSteps :
            To(r, step) => requests' \in [Requests -> ConsoleRequests]
    BY DEF To, ConsoleRequests
  <1>e. ASSUME NEW r \in Requests, NEW step \in ConsoleSteps, NEW user \in ConsoleUsers,
               requests' = [requests EXCEPT ![r].step = step, ![r].user = user]
        PROVE  requests' \in [Requests -> ConsoleRequests]
    <2>1. [[requests[r] EXCEPT !.step = step] EXCEPT !.user = user] \in ConsoleRequests
      BY DEF ConsoleRequests
    <2>2. requests' = [requests EXCEPT ![r] = [[requests[r] EXCEPT !.step = step] EXCEPT !.user = user]]
      BY <1>e
    <2> QED
      BY <2>1, <2>2
  <1>f. ASSUME NEW r \in Requests, NEW step \in ConsoleSteps, NEW user \in ConsoleUsers,
               requests' = [requests EXCEPT ![r].step = step, ![r].target = user]
        PROVE  requests' \in [Requests -> ConsoleRequests]
    <2>1. [[requests[r] EXCEPT !.step = step] EXCEPT !.target = user] \in ConsoleRequests
      BY DEF ConsoleRequests
    <2>2. requests' = [requests EXCEPT ![r] = [[requests[r] EXCEPT !.step = step] EXCEPT !.target = user]]
      BY <1>f
    <2> QED
      BY <2>1, <2>2
  <1>1. ASSUME NEW r \in Requests, SendLogin(r) \/ Authenticate(r)
        PROVE  ConsoleTypeOK'
    <2>1. CASE SendLogin(r)
      <3>1. PICK a \in AdminNames :
               requests' = [requests EXCEPT ![r] = [NoRequest EXCEPT !.step = "login", !.user = a]]
        BY <2>1 DEF SendLogin
      <3>2. [NoRequest EXCEPT !.step = "login", !.user = a] \in ConsoleRequests
        BY <1>a DEF ConsoleRequests, ConsoleUsers, ConsoleSteps
      <3> QED
        BY <2>1, <3>1, <3>2 DEF SendLogin
    <2>2. CASE Authenticate(r)
      BY <2>2, <1>c, <1>d DEF Authenticate, ConsoleSteps
    <2> QED
      BY <1>1, <2>1, <2>2
  <1>2. ASSUME NEW r \in Requests, CreateSession(r)
        PROVE  ConsoleTypeOK'
    <2>1. Created(requests[r].user) \in SessionRecords
      BY AdminConsoleAssumption DEF Created, SessionRecords, ConsoleRequests, ConsoleUsers
    <2> QED
      BY <1>2, <2>1, <1>c DEF CreateSession
  <1>3. ASSUME NEW r \in Requests, NEW i \in 1..lastID, NEW op \in offer, NEW a \in AdminNames,
               Send(r, op, i, a)
        PROVE  ConsoleTypeOK'
    <2>1. op \in (UNION Offers) \cup {"none"} /\ i \in Nat
      OBVIOUS
    <2> QED
      BY <1>3, <2>1 DEF Send, ConsoleRequests, ConsoleUsers, ConsoleSteps
  <1>4. ASSUME NEW r \in Requests, Get(r)
        PROVE  ConsoleTypeOK'
    <2> DEFINE i == requests[r].id
    <2>1. CASE Valid(i)
      <3>1. i \in SessionIDs
        BY <1>4 DEF Get, AtStep, IssuedInOrder
      <3>2. sessions[i] \in SessionRecords
        BY <2>1, <3>1, SessionIsRecord DEF Valid
      <3>3. [sessions[i] EXCEPT !.lastActive = now] \in SessionRecords
        BY <3>2 DEF SessionRecords
      <3>4. sessions' \in [SessionIDs -> SessionRecords \cup {NoSession}]
        BY <1>4, <2>1, <3>3 DEF Get
      <3>5. requests' \in [Requests -> ConsoleRequests]
        <4>1. sessions[i].user \in ConsoleUsers
          BY <3>2 DEF SessionRecords, ConsoleUsers
        <4> QED
          BY <1>4, <2>1, <4>1, <1>e DEF Get, ConsoleSteps
      <3> QED
        BY <1>4, <3>4, <3>5 DEF Get, SessionsOnly
    <2> QED
      BY <1>4, <2>1, <1>b, <1>c DEF Get, SessionsOnly
  <1>5. ASSUME NEW r \in Requests, CheckAdmin(r)
        PROVE  ConsoleTypeOK'
    BY <1>5, <1>b, <1>c, <1>d DEF CheckAdmin, SessionsOnly, ConsoleSteps
  <1>6. ASSUME NEW r \in Requests, VerifyCSRF(r)
        PROVE  ConsoleTypeOK'
    BY <1>6, <1>b, <1>c, <1>d DEF VerifyCSRF, SessionsOnly, ConsoleSteps
  <1>7. ASSUME NEW r \in Requests, CurrentSession(r)
        PROVE  ConsoleTypeOK'
    <2> DEFINE i == requests[r].id
    <2>1. CASE Valid(i)
      <3>1. i \in SessionIDs
        BY <1>7 DEF CurrentSession, Handles, AtStep, IssuedInOrder
      <3>2. Rotated(sessions[i]) \in SessionRecords
        BY <2>1, <3>1, SessionIsRecord DEF Valid, Rotated, SessionRecords
      <3> QED
        BY <1>7, <2>1, <3>2, <1>c DEF CurrentSession
    <2> QED
      BY <1>7, <2>1, <1>b, <1>c DEF CurrentSession
  <1>8. ASSUME NEW r \in Requests, Logout(r) \/ ListAdministrators(r) \/ Refuse(r)
        PROVE  ConsoleTypeOK'
    BY <1>8, <1>b, <1>c DEF Logout, ListAdministrators, Refuse, SessionsOnly
  <1>9. ASSUME NEW r \in Requests, CreateAdministrator(r)
        PROVE  ConsoleTypeOK'
    BY <1>9, <1>c DEF CreateAdministrator, StoreOnly
  <1>10. ASSUME NEW r \in Requests, NEW user \in ConsoleUsers,
                NEW to \in {"absent", "set", "initial"}, Change(r, user, to)
         PROVE  ConsoleTypeOK'
    <2>1. \A i \in SessionIDs : Exists(i) =>
             [sessions[i] EXCEPT !.stale = TRUE] \in SessionRecords
      BY SessionIsRecord DEF SessionRecords
    <2>2. sessions' \in [SessionIDs -> SessionRecords \cup {NoSession}]
      BY <1>10, <2>1 DEF Change
    <2>3. requests' \in [Requests -> ConsoleRequests]
      BY <1>10, <1>f DEF Change, ConsoleSteps
    <2> QED
      BY <1>10, <2>2, <2>3 DEF Change
  <1>11. ASSUME NEW r \in Requests, RevokeUser(r)
         PROVE  ConsoleTypeOK'
    BY <1>11, <1>c DEF RevokeUser, SessionsOnly
  <1>12. CASE Tick \/ Restart
    BY <1>12, <1>a DEF Tick, Restart
  <1>13. CASE UNCHANGED consoleVars
    BY <1>13 DEF consoleVars
  <1>14. \A r \in Requests : requests[r].user \in ConsoleUsers /\ requests[r].target \in ConsoleUsers
    BY DEF ConsoleRequests
  <1>15. ASSUME NEW r \in Requests,
                \/ ChangePassword(r) \/ ResetAdministratorPassword(r) \/ DeleteAdministrator(r)
         PROVE  ConsoleTypeOK'
    BY <1>15, <1>10, <1>14
       DEF ChangePassword, ResetAdministratorPassword, DeleteAdministrator
  <1> QED
    BY <1>1, <1>2, <1>3, <1>4, <1>5, <1>6, <1>7, <1>8, <1>9, <1>11, <1>12, <1>13, <1>15
       DEF ConsoleNext
(* Sessions that a step keeps, drops or marks cannot break the order of the *)
(* identifiers, nor requests that end or go on with the identifier sent.   *)
LEMMA IssuedKept ==
    ASSUME ConsoleTypeOK, IssuedInOrder, lastID' = lastID,
           \A i \in SessionIDs : Exists(i)' => Exists(i),
           \A r \in Requests : \/ requests'[r] = NoRequest
                               \/ requests'[r].step \in {"idle", "login", "verified"}
                               \/ /\ requests'[r].id = requests[r].id
                                  /\ requests[r].step \notin {"idle", "login", "verified"}
    PROVE  IssuedInOrder'
  <1>1. NoRequest.step = "idle"
    BY DEF NoRequest
  <1> QED
    BY <1>1 DEF IssuedInOrder

LEMMA ConsoleIssued ==
    ASSUME ConsoleTypeOK, IssuedInOrder, [ConsoleNext]_consoleVars
    PROVE  IssuedInOrder'
  <1>a. \A r \in Requests : End(r) => \A q \in Requests :
            requests'[q] = NoRequest \/ requests'[q] = requests[q]
    BY DEF End, ConsoleTypeOK
  <1>b. \A r \in Requests : \A step : To(r, step) => \A q \in Requests :
            /\ requests'[q].id = requests[q].id
            /\ q # r => requests'[q] = requests[q]
            /\ requests'[r].step = step
    BY DEF To, ConsoleTypeOK, ConsoleRequests
  <1>c. \A i, j \in SessionIDs : Drop(i) => (Exists(j)' => Exists(j))
    BY DEF Drop, Exists, ConsoleTypeOK
  <1>d. ASSUME \A i \in SessionIDs : Exists(i)' => Exists(i), lastID' = lastID,
               \A q \in Requests : requests'[q] = NoRequest \/ requests'[q] = requests[q]
        PROVE  IssuedInOrder'
    BY <1>d, IssuedKept DEF IssuedInOrder
  <1>e. ASSUME \A i \in SessionIDs : Exists(i)' => Exists(i), lastID' = lastID,
               NEW r \in Requests, NEW step, To(r, step),
               requests[r].step \in {"idle", "login", "verified"} =>
                   step \in {"idle", "login", "verified"}
        PROVE  IssuedInOrder'
    BY <1>e, <1>b, IssuedKept
  <1>1. ASSUME NEW r \in Requests, SendLogin(r)
        PROVE  IssuedInOrder'
    <2>1. PICK a \in AdminNames :
             requests' = [requests EXCEPT ![r] = [NoRequest EXCEPT !.step = "login", !.user = a]]
      BY <1>1 DEF SendLogin
    <2>2. requests'[r].step = "login"
      BY <2>1 DEF NoRequest, ConsoleTypeOK
    <2> QED
      BY <1>1, <2>1, <2>2, IssuedKept DEF SendLogin, Exists, ConsoleTypeOK
  <1>2. ASSUME NEW r \in Requests, Authenticate(r)
        PROVE  IssuedInOrder'
    BY <1>2, <1>a, <1>d, <1>e DEF Authenticate, AtStep, Exists
  <1>3. ASSUME NEW r \in Requests, CreateSession(r)
        PROVE  IssuedInOrder'
    BY <1>3, <1>a DEF CreateSession, Valid, Exists, IssuedInOrder, NoRequest, ConsoleTypeOK
  <1>4. ASSUME NEW r \in Requests, NEW i \in 1..lastID, NEW op \in offer, NEW a \in AdminNames,
               Send(r, op, i, a)
        PROVE  IssuedInOrder'
    <2>1. requests'[r].id = i /\ \A q \in Requests \ {r} : requests'[q] = requests[q]
      BY <1>4 DEF Send, ConsoleTypeOK
    <2> QED
      BY <1>4, <2>1 DEF Send, IssuedInOrder, Exists
  <1>5. ASSUME NEW r \in Requests, Get(r)
        PROVE  IssuedInOrder'
    <2> DEFINE i == requests[r].id
    <2>1. i \in SessionIDs
      BY <1>5 DEF Get, AtStep, IssuedInOrder
    <2>2. CASE Valid(i)
      <3>1. \A j \in SessionIDs : Exists(j)' => Exists(j)
        BY <1>5, <2>1, <2>2 DEF Get, Valid, Exists, ConsoleTypeOK
      <3>2. \A q \in Requests : requests'[q].id = requests[q].id /\ (q # r => requests'[q] = requests[q])
        BY <1>5, <2>2 DEF Get, ConsoleTypeOK, ConsoleRequests
      <3> QED
        BY <1>5, <3>1, <3>2, IssuedKept DEF Get, AtStep, SessionsOnly, IssuedInOrder
    <2> QED
      BY <1>5, <2>1, <2>2, <1>a, <1>c, <1>d DEF Get, SessionsOnly
  <1>6. ASSUME NEW r \in Requests, CheckAdmin(r)
        PROVE  IssuedInOrder'
    <2>1. requests[r].id \in SessionIDs
      BY <1>6 DEF CheckAdmin, AtStep, IssuedInOrder
    <2>2. \A i \in SessionIDs : Exists(i)' => Exists(i)
      BY <1>6, <2>1, <1>c DEF CheckAdmin, Exists
    <2> QED
      BY <1>6, <2>2, <1>a, <1>d, <1>e DEF CheckAdmin, SessionsOnly, AtStep
  <1>7. ASSUME NEW r \in Requests, VerifyCSRF(r)
        PROVE  IssuedInOrder'
    <2>1. requests[r].id \in SessionIDs
      BY <1>7 DEF VerifyCSRF, AtStep, IssuedInOrder
    <2>2. \A i \in SessionIDs : Exists(i)' => Exists(i)
      BY <1>7, <2>1, <1>c DEF VerifyCSRF, Exists
    <2> QED
      BY <1>7, <2>2, <1>a, <1>d, <1>e DEF VerifyCSRF, SessionsOnly, AtStep
  <1>8. ASSUME NEW r \in Requests, CurrentSession(r)
        PROVE  IssuedInOrder'
    <2>1. requests[r].id \in SessionIDs
      BY <1>8 DEF CurrentSession, Handles, AtStep, IssuedInOrder
    <2>2. CASE Valid(requests[r].id)
      <3>1. lastID' = lastID + 1 /\ lastID + 1 \in SessionIDs
        BY <1>8, <2>2 DEF CurrentSession
      <3>2. \A i \in SessionIDs : Exists(i)' => Exists(i) \/ i = lastID + 1
        BY <1>8, <2>1, <2>2 DEF CurrentSession, Exists, ConsoleTypeOK
      <3>3. \A q \in Requests : requests'[q] = NoRequest \/ requests'[q] = requests[q]
        BY <1>8, <1>a DEF CurrentSession
      <3> QED
        BY <3>1, <3>2, <3>3 DEF IssuedInOrder, NoRequest, ConsoleTypeOK
    <2> QED
      BY <1>8, <2>1, <2>2, <1>a, <1>c, <1>d DEF CurrentSession
  <1>9. ASSUME NEW r \in Requests, Logout(r)
        PROVE  IssuedInOrder'
    <2>1. requests[r].id \in SessionIDs
      BY <1>9 DEF Logout, Handles, AtStep, IssuedInOrder
    <2> QED
      BY <1>9, <2>1, <1>a, <1>c, <1>d DEF Logout, SessionsOnly
  <1>10. ASSUME NEW r \in Requests,
                ListAdministrators(r) \/ Refuse(r) \/ CreateAdministrator(r)
         PROVE  IssuedInOrder'
    BY <1>10, <1>a, <1>d DEF ListAdministrators, Refuse, CreateAdministrator, StoreOnly, Exists
  <1>11. ASSUME NEW r \in Requests, NEW user, NEW to, AtStep(r, "handler"), Change(r, user, to)
         PROVE  IssuedInOrder'
    <2>1. \A i \in SessionIDs : Exists(i)' => Exists(i)
      BY <1>11 DEF Change, Exists
    <2>2. \A q \in Requests : requests'[q].id = requests[q].id /\ (q # r => requests'[q] = requests[q])
      BY <1>11 DEF Change, ConsoleTypeOK, ConsoleRequests
    <2> QED
      BY <1>11, <2>1, <2>2, IssuedKept DEF Change, AtStep, IssuedInOrder
  <1>12. ASSUME NEW r \in Requests,
                ChangePassword(r) \/ ResetAdministratorPassword(r) \/ DeleteAdministrator(r)
         PROVE  IssuedInOrder'
    BY <1>11, <1>12
       DEF ChangePassword, ResetAdministratorPassword, DeleteAdministrator, Handles
  <1>13. ASSUME NEW r \in Requests, RevokeUser(r)
         PROVE  IssuedInOrder'
    BY <1>13, <1>a, <1>d DEF RevokeUser, Revoked, SessionsOnly, Exists
  <1>14. CASE Tick \/ Restart \/ UNCHANGED consoleVars
    BY <1>14, <1>d DEF Tick, Restart, consoleVars, Exists
  <1> QED
    BY <1>1, <1>2, <1>3, <1>4, <1>5, <1>6, <1>7, <1>8, <1>9, <1>10, <1>12, <1>13, <1>14
       DEF ConsoleNext
(* All steps but six leave every session as it is or drop it.             *)
SessionsKept == \A i \in SessionIDs : sessions'[i] \in {sessions[i], NoSession}
TouchesSessions(r) ==
    \/ CreateSession(r) \/ Get(r) \/ CurrentSession(r)
    \/ ChangePassword(r) \/ ResetAdministratorPassword(r) \/ DeleteAdministrator(r)

LEMMA OthersKeepSessions ==
    ASSUME ConsoleTypeOK, [ConsoleNext]_consoleVars, \A r \in Requests : ~TouchesSessions(r)
    PROVE  SessionsKept
  <1>1. \A i : Drop(i) => SessionsKept
    BY DEF Drop, SessionsKept, ConsoleTypeOK
  <1>2. ASSUME NEW r \in Requests,
               CheckAdmin(r) \/ VerifyCSRF(r) \/ Logout(r)
        PROVE  SessionsKept
    BY <1>1, <1>2 DEF CheckAdmin, VerifyCSRF, Logout, SessionsKept
  <1>3. ASSUME NEW r \in Requests,
               SendLogin(r) \/ Authenticate(r) \/ ListAdministrators(r) \/ Refuse(r)
                 \/ CreateAdministrator(r)
        PROVE  SessionsKept
    BY <1>3 DEF SendLogin, Authenticate, ListAdministrators, Refuse, CreateAdministrator,
                StoreOnly, SessionsKept
  <1>4. ASSUME NEW r \in Requests, RevokeUser(r)
        PROVE  SessionsKept
    BY <1>4 DEF RevokeUser, SessionsKept
  <1>5. ASSUME NEW r \in Requests, NEW i \in 1..lastID, NEW op \in offer, NEW a \in AdminNames,
               Send(r, op, i, a)
        PROVE  SessionsKept
    BY <1>5 DEF Send, SessionsKept
  <1>6. CASE Tick \/ Restart \/ UNCHANGED consoleVars
    BY <1>6 DEF Tick, Restart, consoleVars, SessionsKept
  <1> QED
    BY <1>2, <1>3, <1>4, <1>5, <1>6 DEF ConsoleNext, TouchesSessions

(* What the six do to a session.                                          *)
LEMMA CreateDoes ==
    ASSUME ConsoleTypeOK, IssuedInOrder, NEW r \in Requests, CreateSession(r),
           NEW i \in SessionIDs
    PROVE  IF i = lastID + 1 THEN sessions'[i] = Created(requests[r].user) /\ ~Exists(i)
           ELSE sessions'[i] \in {sessions[i], NoSession}
  BY DEF CreateSession, IssuedInOrder, ConsoleTypeOK

LEMMA GetDoes ==
    ASSUME ConsoleTypeOK, IssuedInOrder, NEW r \in Requests, Get(r), NEW i \in SessionIDs
    PROVE  \/ sessions'[i] \in {sessions[i], NoSession}
           \/ Valid(i) /\ sessions'[i] = Rotated(sessions[i])
  <1>1. requests[r].id \in SessionIDs
    BY DEF Get, AtStep, IssuedInOrder
  <1> QED
    BY <1>1 DEF Get, Drop, Rotated, ConsoleTypeOK

LEMMA RotateDoes ==
    ASSUME ConsoleTypeOK, IssuedInOrder, NEW r \in Requests, CurrentSession(r),
           NEW i \in SessionIDs
    PROVE  \/ sessions'[i] \in {sessions[i], NoSession}
           \/ /\ i = lastID + 1 /\ ~Exists(i)
              /\ \E j \in SessionIDs : Valid(j) /\ sessions'[i] = Rotated(sessions[j])
  <1>1. requests[r].id \in SessionIDs
    BY DEF CurrentSession, Handles, AtStep, IssuedInOrder
  <1>2. CASE Valid(requests[r].id)
    <2>1. sessions' = [sessions EXCEPT ![requests[r].id] = NoSession,
                                       ![lastID + 1] = Rotated(sessions[requests[r].id])]
      BY <1>2 DEF CurrentSession
    <2>2. requests[r].id # lastID + 1 /\ ~Exists(lastID + 1)
      BY <1>2 DEF IssuedInOrder, ConsoleTypeOK, Valid, CurrentSession
    <2> QED
      BY <1>1, <1>2, <2>1, <2>2 DEF ConsoleTypeOK
  <1> QED
    BY <1>1, <1>2 DEF CurrentSession, Drop, ConsoleTypeOK

LEMMA ChangeDoes ==
    ASSUME ConsoleTypeOK, NEW r \in Requests,
           ChangePassword(r) \/ ResetAdministratorPassword(r) \/ DeleteAdministrator(r)
    PROVE  \E user, to :
              /\ AtStep(r, "handler") /\ Change(r, user, to)
              /\ requests'[r].step = "revoke" /\ requests'[r].target = user
              /\ \A q \in Requests \ {r} : requests'[q] = requests[q]
              /\ \A i \in SessionIDs :
                    sessions'[i] = IF Exists(i) /\ sessions[i].user = user
                                   THEN [sessions[i] EXCEPT !.stale = TRUE] ELSE sessions[i]
  <1>1. ASSUME NEW user, NEW to, Change(r, user, to)
        PROVE  /\ requests'[r].step = "revoke" /\ requests'[r].target = user
               /\ \A q \in Requests \ {r} : requests'[q] = requests[q]
               /\ \A i \in SessionIDs :
                    sessions'[i] = IF Exists(i) /\ sessions[i].user = user
                                   THEN [sessions[i] EXCEPT !.stale = TRUE] ELSE sessions[i]
    BY <1>1 DEF Change, ConsoleTypeOK, ConsoleRequests
  <1> QED
    BY <1>1 DEF ChangePassword, ResetAdministratorPassword, DeleteAdministrator, Handles

LEMMA RotatedKeeps ==
    ASSUME NEW record \in SessionRecords
    PROVE  /\ Rotated(record).user = record.user
           /\ Rotated(record).stale = record.stale
           /\ Rotated(record).createdAt = record.createdAt
           /\ Rotated(record).absoluteExpiresAt = record.absoluteExpiresAt
           /\ Rotated(record).lastActive = now
  BY DEF Rotated, SessionRecords

LEMMA CreatedAnew ==
    ASSUME NEW user
    PROVE  /\ Created(user).user = user /\ Created(user).stale = FALSE
           /\ Created(user).createdAt = now
           /\ Created(user).absoluteExpiresAt = now + AbsoluteTimeout
  BY DEF Created

LEMMA ConsoleLifetime ==
    ASSUME ConsoleTypeOK, IssuedInOrder, LifetimeFromLogin, [ConsoleNext]_consoleVars
    PROVE  LifetimeFromLogin'
  <1>1. CASE \A r \in Requests : ~TouchesSessions(r)
    BY <1>1, OthersKeepSessions DEF SessionsKept, LifetimeFromLogin, Exists
  <1>2. ASSUME NEW r \in Requests, CreateSession(r)
        PROVE  LifetimeFromLogin'
    <2> SUFFICES ASSUME NEW i \in SessionIDs, Exists(i)'
                 PROVE  sessions'[i].absoluteExpiresAt = sessions'[i].createdAt + AbsoluteTimeout
      BY DEF LifetimeFromLogin
    <2>1. CASE i = lastID + 1
      <3>1. sessions'[i] = Created(requests[r].user)
        BY <1>2, <2>1, CreateDoes
      <3> QED
        BY <3>1, CreatedAnew
    <2>2. CASE i # lastID + 1
      BY <1>2, <2>2, CreateDoes DEF LifetimeFromLogin, Exists
    <2> QED
      BY <2>1, <2>2
  <1>3. ASSUME NEW r \in Requests, Get(r)
        PROVE  LifetimeFromLogin'
    BY <1>3, GetDoes, SessionIsRecord, RotatedKeeps DEF LifetimeFromLogin, Exists, Valid
  <1>4. ASSUME NEW r \in Requests, CurrentSession(r)
        PROVE  LifetimeFromLogin'
    BY <1>4, RotateDoes, SessionIsRecord, RotatedKeeps DEF LifetimeFromLogin, Exists, Valid
  <1>5. ASSUME NEW r \in Requests,
               ChangePassword(r) \/ ResetAdministratorPassword(r) \/ DeleteAdministrator(r)
        PROVE  LifetimeFromLogin'
    <2>1. ASSUME NEW i \in SessionIDs, Exists(i)'
          PROVE  /\ Exists(i)
                 /\ sessions'[i].createdAt = sessions[i].createdAt
                 /\ sessions'[i].absoluteExpiresAt = sessions[i].absoluteExpiresAt
      BY <1>5, <2>1, ChangeDoes, SessionIsRecord DEF Exists, SessionRecords
    <2> QED
      BY <2>1 DEF LifetimeFromLogin
  <1> QED
    BY <1>1, <1>2, <1>3, <1>4, <1>5 DEF TouchesSessions

(* A request that is to revoke goes on until it does, and a session of its *)
(* user is made only by a login, unmarked, or out of a marked one.         *)
LEMMA RevokersStay ==
    ASSUME ConsoleTypeOK, [ConsoleNext]_consoleVars, NEW r \in Requests, AtStep(r, "revoke"),
           ~RevokeUser(r), ~Restart
    PROVE  AtStep(r, "revoke")' /\ requests'[r].target = requests[r].target
  <1>a. \A q \in Requests : End(q) => \A p \in Requests \ {q} : requests'[p] = requests[p]
    BY DEF End, ConsoleTypeOK
  <1>b. \A q \in Requests : \A step : To(q, step) => \A p \in Requests \ {q} : requests'[p] = requests[p]
    BY DEF To, ConsoleTypeOK
  <1>c. \A q \in Requests : ~AtStep(q, "revoke") => q # r
    OBVIOUS
  <1>1. ASSUME NEW q \in Requests, SendLogin(q) \/ Authenticate(q) \/ CreateSession(q)
        PROVE  requests'[r] = requests[r]
    BY <1>1, <1>a, <1>b DEF SendLogin, Authenticate, CreateSession, AtStep, ConsoleTypeOK
  <1>2. ASSUME NEW q \in Requests, NEW i \in 1..lastID, NEW op \in offer, NEW a \in AdminNames,
               Send(q, op, i, a)
        PROVE  requests'[r] = requests[r]
    BY <1>2 DEF Send, AtStep, ConsoleTypeOK
  <1>3. ASSUME NEW q \in Requests, Get(q) \/ CheckAdmin(q) \/ VerifyCSRF(q)
        PROVE  requests'[r] = requests[r]
    BY <1>3, <1>a, <1>b DEF Get, CheckAdmin, VerifyCSRF, AtStep, ConsoleTypeOK
  <1>4. ASSUME NEW q \in Requests, CurrentSession(q) \/ Logout(q) \/ ListAdministrators(q)
                                   \/ Refuse(q) \/ CreateAdministrator(q)
        PROVE  requests'[r] = requests[r]
    BY <1>4, <1>a DEF CurrentSession, Logout, ListAdministrators, Refuse, CreateAdministrator,
                      Handles, AtStep
  <1>5. ASSUME NEW q \in Requests,
               ChangePassword(q) \/ ResetAdministratorPassword(q) \/ DeleteAdministrator(q)
        PROVE  requests'[r] = requests[r]
    BY <1>5, ChangeDoes DEF AtStep
  <1>6. ASSUME NEW q \in Requests, RevokeUser(q)
        PROVE  requests'[r] = requests[r]
    BY <1>6, <1>a DEF RevokeUser
  <1>7. CASE Tick \/ UNCHANGED consoleVars
    BY <1>7 DEF Tick, consoleVars, AtStep
  <1> QED
    BY <1>1, <1>2, <1>3, <1>4, <1>5, <1>6, <1>7 DEF ConsoleNext, AtStep

LEMMA ConsoleStale ==
    ASSUME ConsoleTypeOK, IssuedInOrder, NoSessionOutlivesChange, [ConsoleNext]_consoleVars
    PROVE  NoSessionOutlivesChange'
  <1> SUFFICES ASSUME NEW i \in SessionIDs, Exists(i)', sessions'[i].stale
               PROVE  \E r \in Requests : AtStep(r, "revoke")' /\ requests'[r].target = sessions'[i].user
    BY DEF NoSessionOutlivesChange
  <1>a. ~Restart
    BY DEF Restart, Exists
  <1>b. ASSUME NEW j \in SessionIDs, Exists(j), sessions[j].stale,
               sessions'[i].user = sessions[j].user, \A r \in Requests : ~RevokeUser(r)
        PROVE  \E r \in Requests : AtStep(r, "revoke")' /\ requests'[r].target = sessions'[i].user
    BY <1>a, <1>b, RevokersStay DEF NoSessionOutlivesChange
  <1>1. ASSUME NEW q \in Requests, RevokeUser(q)
        PROVE  \E r \in Requests : AtStep(r, "revoke")' /\ requests'[r].target = sessions'[i].user
    <2>1. sessions'[i] = sessions[i] /\ sessions[i].user # requests[q].target /\ Exists(i)
      BY <1>1 DEF RevokeUser, Revoked, Exists
    <2>2. PICK r \in Requests : AtStep(r, "revoke") /\ requests[r].target = sessions[i].user
      BY <2>1 DEF NoSessionOutlivesChange
    <2>3. requests'[r] = requests[r]
      BY <1>1, <2>1, <2>2 DEF RevokeUser, End, ConsoleTypeOK
    <2> QED
      BY <2>1, <2>2, <2>3 DEF AtStep
  <1>2. ASSUME NEW q \in Requests, ChangePassword(q) \/ ResetAdministratorPassword(q) \/ DeleteAdministrator(q),
               \A r \in Requests : ~RevokeUser(r)
        PROVE  \E r \in Requests : AtStep(r, "revoke")' /\ requests'[r].target = sessions'[i].user
    <2>1. PICK user, to :
              /\ AtStep(q, "handler") /\ Change(q, user, to)
              /\ requests'[q].step = "revoke" /\ requests'[q].target = user
              /\ \A r \in Requests \ {q} : requests'[r] = requests[r]
              /\ \A j \in SessionIDs :
                    sessions'[j] = IF Exists(j) /\ sessions[j].user = user
                                   THEN [sessions[j] EXCEPT !.stale = TRUE] ELSE sessions[j]
      BY <1>2, ChangeDoes
    <2>2. Exists(i)
      BY <2>1 DEF Exists
    <2>3. CASE sessions[i].user = user
      <3>1. sessions'[i].user = user
        BY <2>1, <2>2, <2>3, SessionIsRecord DEF SessionRecords
      <3> QED
        BY <2>1, <3>1 DEF AtStep
    <2>4. CASE sessions[i].user # user
      BY <1>2, <1>b, <2>1, <2>2, <2>4
    <2> QED
      BY <2>3, <2>4
  <1>3. ASSUME NEW q \in Requests, CreateSession(q), \A r \in Requests : ~RevokeUser(r)
        PROVE  \E r \in Requests : AtStep(r, "revoke")' /\ requests'[r].target = sessions'[i].user
    BY <1>3, <1>b, CreateDoes, CreatedAnew DEF Exists
  <1>4. ASSUME NEW q \in Requests, Get(q), \A r \in Requests : ~RevokeUser(r)
        PROVE  \E r \in Requests : AtStep(r, "revoke")' /\ requests'[r].target = sessions'[i].user
    BY <1>4, <1>b, GetDoes, SessionIsRecord, RotatedKeeps DEF Exists, Valid
  <1>5. ASSUME NEW q \in Requests, CurrentSession(q), \A r \in Requests : ~RevokeUser(r)
        PROVE  \E r \in Requests : AtStep(r, "revoke")' /\ requests'[r].target = sessions'[i].user
    BY <1>5, <1>b, RotateDoes, SessionIsRecord, RotatedKeeps DEF Exists, Valid
  <1>6. CASE \A r \in Requests : ~RevokeUser(r) /\ ~TouchesSessions(r)
    BY <1>6, <1>b, OthersKeepSessions DEF SessionsKept, Exists
  <1> QED
    BY <1>1, <1>2, <1>3, <1>4, <1>5, <1>6 DEF TouchesSessions

LEMMA ConsoleStep == ConsoleInv /\ [ConsoleNext]_consoleVars => ConsoleInv'
  BY ConsoleTypes, ConsoleIssued, ConsoleLifetime, ConsoleStale DEF ConsoleInv

(* A session is used within its lifetime and before it was idle too long.  *)
LEMMA UsedInTime ==
    ASSUME ConsoleInv, [ConsoleNext]_consoleVars, NEW i \in SessionIDs, Used(i)
    PROVE  /\ now < sessions'[i].createdAt + AbsoluteTimeout
           /\ Exists(i) => now < sessions[i].lastActive + IdleTimeout
  <1> USE DEF ConsoleInv
  <1>1. ASSUME NEW j \in SessionIDs, Valid(j)
        PROVE  /\ sessions[j] \in SessionRecords
               /\ now < sessions[j].createdAt + AbsoluteTimeout
               /\ now < sessions[j].lastActive + IdleTimeout
    <2>1. sessions[j] \in SessionRecords
      BY <1>1, SessionIsRecord DEF Valid
    <2>2. sessions[j].absoluteExpiresAt = sessions[j].createdAt + AbsoluteTimeout
      BY <1>1 DEF Valid, LifetimeFromLogin
    <2>3. /\ sessions[j].createdAt \in Nat /\ sessions[j].lastActive \in Nat
          /\ sessions[j].absoluteExpiresAt \in Nat /\ now \in Nat
      BY <2>1 DEF SessionRecords, ConsoleTypeOK
    <2> QED
      BY <1>1, <2>1, <2>2, <2>3, AdminConsoleAssumption DEF Valid, SessionExpired
  <1>2. sessions'[i] \notin {sessions[i], NoSession}
    BY DEF Used, Exists
  <1>3. ASSUME NEW r \in Requests, CreateSession(r)
        PROVE  sessions'[i] = Created(requests[r].user) /\ ~Exists(i)
    BY <1>2, <1>3, CreateDoes
  <1>4. ASSUME NEW r \in Requests, CreateSession(r)
        PROVE  now < sessions'[i].createdAt + AbsoluteTimeout
    <2>0. Created(requests[r].user).createdAt = now
      BY CreatedAnew
    <2>1. sessions'[i].createdAt = now
      BY <1>3, <1>4, <2>0
    <2> QED
      BY <2>1, AdminConsoleAssumption DEF ConsoleTypeOK
  <1>5. ASSUME NEW r \in Requests, Get(r)
        PROVE  /\ now < sessions'[i].createdAt + AbsoluteTimeout
               /\ now < sessions[i].lastActive + IdleTimeout
    BY <1>1, <1>2, <1>5, GetDoes, RotatedKeeps
  <1>6. ASSUME NEW r \in Requests, CurrentSession(r)
        PROVE  now < sessions'[i].createdAt + AbsoluteTimeout /\ ~Exists(i)
    BY <1>1, <1>2, <1>6, RotateDoes, RotatedKeeps
  <1>7. ASSUME NEW r \in Requests,
               ChangePassword(r) \/ ResetAdministratorPassword(r) \/ DeleteAdministrator(r)
        PROVE  FALSE
    BY <1>2, <1>7, ChangeDoes, SessionIsRecord DEF Used, SessionRecords
  <1> QED
    BY <1>2, <1>3, <1>4, <1>5, <1>6, <1>7, OthersKeepSessions DEF TouchesSessions, SessionsKept

(* A record goes only by DeleteAdmin, which another administrator asked for.*)
LEMMA RemovedSo ==
    ASSUME ConsoleTypeOK, [ConsoleNext]_consoleVars, NEW a \in Present, admins'[a] = "absent"
    PROVE  \E r \in Requests : /\ requests[r].op = "delete" /\ requests[r].target = a
                               /\ requests[r].user \in Present \ {a}
  <1>1. admins' # admins
    BY DEF Present
  <1>2. \A r \in Requests : Get(r) \/ CheckAdmin(r) \/ VerifyCSRF(r) \/ Logout(r) \/ RevokeUser(r)
                            => admins' = admins
    BY DEF Get, CheckAdmin, VerifyCSRF, Logout, RevokeUser, SessionsOnly
  <1>3. \A r \in Requests : SendLogin(r) \/ Authenticate(r) \/ CreateSession(r) \/ CurrentSession(r)
                            \/ ListAdministrators(r) \/ Refuse(r) => admins' = admins
    BY DEF SendLogin, Authenticate, CreateSession, CurrentSession, ListAdministrators, Refuse
  <1>4. \A r \in Requests, i \in 1..lastID, op \in offer, b \in AdminNames :
            Send(r, op, i, b) => admins' = admins
    BY DEF Send
  <1>5. Tick \/ Restart \/ UNCHANGED consoleVars => admins' = admins
    BY DEF Tick, Restart, consoleVars
  <1>6. \A r \in Requests : ~CreateAdministrator(r) /\ ~ChangePassword(r)
                            /\ ~ResetAdministratorPassword(r)
    BY <1>1 DEF CreateAdministrator, ChangePassword, ResetAdministratorPassword, Change,
                ConsoleTypeOK, Present
  <1>7. \A r \in Requests : DeleteAdministrator(r) =>
            /\ requests[r].op = "delete" /\ requests[r].target = a
            /\ requests[r].user \in Present \ {a}
    BY DEF DeleteAdministrator, MayDelete, Change, Handles, ConsoleTypeOK, Present
  <1> QED
    BY <1>1, <1>2, <1>3, <1>4, <1>5, <1>6, <1>7 DEF ConsoleNext

(* Access to the console ends when it must, and never for everyone: for    *)
(* any administrators, sessions, timeouts and requests at once.            *)
THEOREM ConsoleAccess == ConsoleSpec => AccessEnds
  <1>1. ConsoleInv => NoSessionOutlivesChange
    BY DEF ConsoleInv
  <1>2. ConsoleInv /\ [ConsoleNext]_consoleVars =>
           [\A i \in SessionIDs : Used(i) =>
              /\ now < sessions'[i].createdAt + AbsoluteTimeout
              /\ Exists(i) => now < sessions[i].lastActive + IdleTimeout]_consoleVars
    BY UsedInTime
  <1>3. ConsoleInv /\ [ConsoleNext]_consoleVars =>
           [\A a \in Present : admins'[a] = "absent" =>
              \E r \in Requests : /\ requests[r].op = "delete" /\ requests[r].target = a
                                  /\ requests[r].user \in Present \ {a}]_consoleVars
    BY RemovedSo DEF ConsoleInv
  <1> QED
    BY ConsoleStart, ConsoleStep, <1>1, <1>2, <1>3, PTL
       DEF ConsoleSpec, AccessEnds, SessionsExpire, RemovedByAnother

----------------------------------------------------------------------------
(* ServerRuntime.                                                          *)

Holds(s) == stops[s].step \in {"reserved", "answered", "committed"}
Runners == {"select", "web", "relay", "drain", "returned"}

ServerTypeOK ==
    /\ parentDone \in BOOLEAN /\ stopping \in BOOLEAN /\ stopRequested \in BOOLEAN
    /\ stops \in [Stops -> [step : {"unsent", "busy", "reserved", "answered", "failed", "committed"},
                            by : {"none", "socket", "web"}]]
    /\ components \in [ComponentNames -> {"running", "draining", "ended"}]
    /\ runner \in Runners /\ normalStop \in BOOLEAN
    /\ returned \in {"none", "nil", "context", "component", "timeout"}

(* The flag is the reservation of one request, which is told or will be,   *)
(* and only a request that was told closes the channel.                    *)
OneReservation ==
    /\ stopping <=> \E s \in Stops : Holds(s)
    /\ \A s, t \in Stops : Holds(s) /\ Holds(t) => s = t
    /\ stopRequested => \E s \in Stops : Is(s, "committed")

(* The result that was sent first is that of a component that has ended,   *)
(* and a run that ends with no stop asked for has selected such a result.  *)
EndsExplained ==
    /\ earliest # NoComponent => earliest \in ComponentNames /\ components[earliest] = "ended"
    /\ runner # "select" /\ ~normalStop => blamed \in ComponentNames /\ components[blamed] = "ended"
    /\ normalStop => parentDone \/ stopRequested
    /\ returned = "nil" => stopRequested

ServerInv == ServerTypeOK /\ OneReservation /\ EndsExplained

LEMMA ServerStart == ServerInit => ServerInv
  <1> SUFFICES ASSUME ServerInit PROVE ServerInv
    OBVIOUS
  <1>1. ServerTypeOK
    BY DEF ServerInit, ServerTypeOK, Unsent, Runners
  <1>2. \A s \in Stops : stops[s].step = "unsent"
    BY DEF ServerInit, Unsent
  <1>3. OneReservation
    BY <1>2 DEF ServerInit, OneReservation, Holds, Is
  <1> QED
    BY <1>1, <1>3 DEF ServerInit, ServerInv, EndsExplained

LEMMA ServerTypes ==
    ASSUME ServerTypeOK, [ServerNext]_serverVars
    PROVE  ServerTypeOK'
  <1> USE DEF ServerTypeOK, StopParts, RunnerParts, ComponentParts, Runners
  <1>1. ASSUME NEW s \in Stops, NEW by \in {"socket", "web"}, Reserve(s, by)
        PROVE  ServerTypeOK'
    BY <1>1 DEF Reserve
  <1>2. ASSUME NEW s \in Stops, Answer(s) \/ AnswerFails(s) \/ Commit(s)
        PROVE  ServerTypeOK'
    <2>1. CASE Answer(s)
      BY <2>1 DEF Answer
    <2>2. CASE AnswerFails(s)
      BY <2>2 DEF AnswerFails, Released
    <2>3. CASE Commit(s)
      BY <2>3 DEF Commit
    <2> QED
      BY <1>2, <2>1, <2>2, <2>3
  <1>3. CASE ParentDone \/ AdminStopsAccepting \/ \E c \in ComponentNames : ComponentEnds(c)
    <2>1. CASE ParentDone
      BY <2>1 DEF ParentDone
    <2>2. CASE AdminStopsAccepting
      BY <2>2 DEF AdminStopsAccepting
    <2>3. ASSUME NEW c \in ComponentNames, ComponentEnds(c)
          PROVE  ServerTypeOK'
      BY <2>3 DEF ComponentEnds
    <2> QED
      BY <1>3, <2>1, <2>2, <2>3
  <1>4. CASE SelectStop \/ SelectComponent \/ ShutdownWeb \/ ShutdownRelay
    BY <1>4 DEF SelectStop, SelectComponent, ShutdownWeb, ShutdownRelay, Asked
  <1>5. CASE Return
    BY <1>5 DEF Return
  <1>6. CASE UNCHANGED serverVars
    BY <1>6 DEF serverVars
  <1> QED
    BY <1>1, <1>2, <1>3, <1>4, <1>5, <1>6 DEF ServerNext

LEMMA ServerReservation ==
    ASSUME ServerTypeOK, OneReservation, [ServerNext]_serverVars
    PROVE  OneReservation'
  <1> USE DEF ServerTypeOK, Holds, Is, OneReservation
  <1>1. ASSUME NEW s \in Stops, NEW by \in {"socket", "web"}, Reserve(s, by)
        PROVE  OneReservation'
    BY <1>1 DEF Reserve
  <1>2. ASSUME NEW s \in Stops, Answer(s)
        PROVE  OneReservation'
    BY <1>2 DEF Answer
  <1>3. ASSUME NEW s \in Stops, AnswerFails(s)
        PROVE  OneReservation'
    <2>1. stopping' = FALSE /\ stopRequested' = stopRequested
      BY <1>3 DEF AnswerFails, Released, AnswerFailures
    <2> QED
      BY <1>3, <2>1 DEF AnswerFails
  <1>4. ASSUME NEW s \in Stops, Commit(s)
        PROVE  OneReservation'
    BY <1>4 DEF Commit
  <1>5. CASE UNCHANGED StopParts
    BY <1>5 DEF StopParts
  <1>6. ParentDone \/ AdminStopsAccepting \/ (\E c \in ComponentNames : ComponentEnds(c))
          \/ SelectStop \/ SelectComponent \/ ShutdownWeb \/ ShutdownRelay \/ Return
          \/ UNCHANGED serverVars => UNCHANGED StopParts
    BY DEF ParentDone, AdminStopsAccepting, ComponentEnds, SelectStop, SelectComponent,
           ShutdownWeb, ShutdownRelay, Return, StopParts, serverVars
  <1> QED
    BY <1>1, <1>2, <1>3, <1>4, <1>5, <1>6 DEF ServerNext

LEMMA ServerExplained ==
    ASSUME ServerTypeOK, EndsExplained, [ServerNext]_serverVars
    PROVE  EndsExplained'
  <1> USE DEF ServerTypeOK, EndsExplained, StopParts, RunnerParts, ComponentParts, Runners
  <1>1. ASSUME NEW s \in Stops, NEW by \in {"socket", "web"}, Reserve(s, by)
        PROVE  EndsExplained'
    BY <1>1 DEF Reserve
  <1>2. ASSUME NEW s \in Stops, Answer(s) \/ AnswerFails(s) \/ Commit(s)
        PROVE  EndsExplained'
    <2>1. UNCHANGED RunnerParts /\ UNCHANGED ComponentParts /\ UNCHANGED parentDone
      BY <1>2 DEF Answer, AnswerFails, Commit
    <2>2. stopRequested => stopRequested'
      BY <1>2 DEF Answer, AnswerFails, Commit
    <2> QED
      BY <2>1, <2>2
  <1>3. CASE ParentDone
    BY <1>3 DEF ParentDone
  <1>4. CASE AdminStopsAccepting
    BY <1>4 DEF AdminStopsAccepting
  <1>5. ASSUME NEW c \in ComponentNames, ComponentEnds(c)
        PROVE  EndsExplained'
    <2>1. components'[c] = "ended" /\ \A d \in ComponentNames : components[d] = "ended" => components'[d] = "ended"
      BY <1>5 DEF ComponentEnds
    <2> QED
      BY <1>5, <2>1 DEF ComponentEnds
  <1>6. CASE SelectStop
    BY <1>6 DEF SelectStop
  <1>7. CASE SelectComponent
    BY <1>7 DEF SelectComponent, Asked
  <1>8. CASE ShutdownWeb \/ ShutdownRelay
    BY <1>8 DEF ShutdownWeb, ShutdownRelay
  <1>9. CASE Return
    BY <1>9 DEF Return
  <1>10. CASE UNCHANGED serverVars
    BY <1>10 DEF serverVars
  <1> QED
    BY <1>1, <1>2, <1>3, <1>4, <1>5, <1>6, <1>7, <1>8, <1>9, <1>10 DEF ServerNext

LEMMA ServerStep == ServerInv /\ [ServerNext]_serverVars => ServerInv'
  BY ServerTypes, ServerReservation, ServerExplained DEF ServerInv

LEMMA ReservedMeansPromised == ServerInv => StopReserved
  <1> SUFFICES ASSUME ServerInv PROVE StopReserved
    OBVIOUS
  <1> DEFINE promised == {s \in Stops : stops[s].step \in {"answered", "committed"}}
  <1>1. \A s, t \in promised : s = t
    BY DEF ServerInv, OneReservation, Holds
  <1>2. Cardinality(promised) <= 1
    <2>1. CASE promised = {}
      BY <2>1, FS_EmptySet
    <2>2. ASSUME NEW s \in promised
          PROVE  Cardinality(promised) <= 1
      <3>1. promised = {s}
        BY <1>1, <2>2
      <3> HIDE DEF promised
      <3> QED
        BY <3>1, FS_Singleton
    <2> QED
      BY <2>1, <2>2
  <1>3. stopRequested => promised # {}
    BY DEF ServerInv, OneReservation, Is
  <1>4. stopping => promised # {} \/ \E s \in Stops : Is(s, "reserved")
    BY DEF ServerInv, OneReservation, Holds, Is
  <1> QED
    BY <1>2, <1>3, <1>4 DEF StopReserved

(* Each step of a run blames and answers as it should.                     *)
LEMMA ExplainedStep ==
    ASSUME ServerInv, [ServerNext]_serverVars
    PROVE  /\ blamed' # blamed /\ (parentDone \/ stopRequested) => normalStop'
           /\ returned' = "nil" => stopRequested
           /\ returned' # returned /\ returned' = "component" =>
                 components[blamed] = "ended" /\ ~normalStop
  <1> USE DEF ServerInv, ServerTypeOK, EndsExplained
  <1>1. CASE SelectComponent
    BY <1>1 DEF SelectComponent, Asked
  <1>2. CASE Return
    BY <1>2 DEF Return
  <1>3. \A s \in Stops : Answer(s) \/ AnswerFails(s) \/ Commit(s) => UNCHANGED <<blamed, returned>>
    BY DEF Answer, AnswerFails, Commit, RunnerParts
  <1>4. \A s \in Stops, by \in {"socket", "web"} : Reserve(s, by) => UNCHANGED <<blamed, returned>>
    BY DEF Reserve, RunnerParts
  <1>5. ParentDone \/ AdminStopsAccepting \/ (\E c \in ComponentNames : ComponentEnds(c))
          \/ SelectStop \/ ShutdownWeb \/ ShutdownRelay \/ UNCHANGED serverVars
          => UNCHANGED <<blamed, returned>>
    BY DEF ParentDone, AdminStopsAccepting, ComponentEnds, SelectStop, ShutdownWeb,
           ShutdownRelay, RunnerParts, serverVars
  <1> QED
    BY <1>1, <1>2, <1>3, <1>4, <1>5 DEF ServerNext

(* A stop is promised to one administrator at most, only a promise that    *)
(* was told is kept, and Run's answer tells why it ended, for any number   *)
(* of requests over both adapters.                                         *)
THEOREM ServerStop == ServerSpec => StopKept
  <1>1. ServerInv /\ [ServerNext]_serverVars =>
           [/\ blamed' # blamed /\ (parentDone \/ stopRequested) => normalStop'
            /\ returned' = "nil" => stopRequested
            /\ returned' # returned /\ returned' = "component" =>
                  components[blamed] = "ended" /\ ~normalStop]_serverVars
    BY ExplainedStep
  <1> QED
    BY ServerStart, ServerStep, ReservedMeansPromised, <1>1, PTL
       DEF ServerSpec, StopKept, RunExplained

----------------------------------------------------------------------------
(* StoreFile.                                                              *)

File == IF name = Absent THEN NoRecords ELSE name
StoreKeys == [id : IDs, secret : Nat]
BeforeRename == {"locked", "created", "written", "synced", "closed"}
Known(records) == \A id \in IDs : records[id].secret <= generated

StoreTypeOK ==
    /\ serving \in BOOLEAN /\ flushed \in BOOLEAN /\ generated \in Nat
    /\ writing \in BeforeRename \cup {"none", "renamed"}
    /\ memory \in Records /\ candidate \in Records /\ acknowledged \in Records
    /\ name \in Records \cup {Absent} /\ durable \subseteq Records \cup {Absent}
    /\ removed \subseteq StoreKeys

(* No secret is in use that was not generated.                             *)
SecretsGenerated ==
    /\ Known(memory) /\ Known(candidate) /\ Known(File)
    /\ \A records \in durable \ {Absent} : Known(records)
    /\ \A key \in removed : key.secret <= generated

(* Only a synced temporary file is renamed.                                *)
SyncedBeforeRename == writing \in {"synced", "closed"} => flushed

(* Until the rename the file is what memory holds and callers were told,   *)
(* from then on it is what was written.                                    *)
CommitPoint ==
    /\ serving /\ writing \in BeforeRename \cup {"none"} => memory = File /\ acknowledged = File
    /\ writing = "renamed" => File = candidate
    /\ writing # "none" => serving
    /\ File \in {acknowledged, candidate}

(* Removed keys are in none of the records that may become memory.         *)
RemovedNowhere ==
    /\ removed \cap KeysOf(File) = {}
    /\ serving => removed \cap KeysOf(memory) = {}
    /\ writing # "none" => removed \cap KeysOf(candidate) = {}

StoreInv == StoreTypeOK /\ SecretsGenerated /\ SyncedBeforeRename /\ CommitPoint /\ RemovedNowhere

LEMMA NoRecordsIsRecords == NoRecords \in Records /\ NoRecord \in [secret : Nat, enabled : BOOLEAN]
  BY DEF NoRecords, NoRecord, Records

LEMMA FileIsRecords == StoreTypeOK => File \in Records
  BY NoRecordsIsRecords DEF StoreTypeOK, File

LEMMA StoreStart == StoreInit => StoreInv
  <1> SUFFICES ASSUME StoreInit PROVE StoreInv
    OBVIOUS
  <1>1. StoreTypeOK
    BY NoRecordsIsRecords DEF StoreInit, StoreTypeOK
  <1>2. Known(NoRecords)
    BY DEF StoreInit, Known, NoRecords, NoRecord
  <1>3. File = NoRecords
    BY DEF StoreInit, File
  <1> QED
    BY <1>1, <1>2, <1>3
       DEF StoreInit, StoreInv, SecretsGenerated, SyncedBeforeRename, CommitPoint, RemovedNowhere

(* A change writes records that hold memory's keys, and at most one more,  *)
(* whose secret was generated for it.                                      *)
Successor(records) ==
    /\ records \in Records
    /\ \A id \in Stored(records) :
          \/ records[id].secret = generated' /\ generated' = generated + 1
          \/ records[id].secret = memory[id].secret /\ id \in Stored(memory)

LEMMA FreshIsSuccessor ==
    ASSUME StoreTypeOK, NEW id \in IDs, generated' = generated + 1
    PROVE  Successor(Fresh(memory, id))
  BY DEF StoreTypeOK, Successor, Fresh, Records, Stored

LEMMA ChangesWriteSuccessors ==
    ASSUME StoreTypeOK,
           \/ Issue
           \/ \E id \in IDs :
                 \/ CreateRequest(id) \/ CreateAdmin(id) \/ RotateAutomationToken(id)
                 \/ DeleteRecord(id) \/ DeleteRequest(id) \/ DeleteAdmin(id)
                 \/ \E enabled \in BOOLEAN : SetEnabled(id, enabled) \/ SetAutomationTokenEnabled(id, enabled)
    PROVE  \E records : Changes(records) /\ Successor(records) /\ generated' \in {generated, generated + 1}
  <1>1. CASE Issue
    BY <1>1, FreshIsSuccessor DEF Issue, Generates
  <1>2. ASSUME NEW id \in IDs, CreateRequest(id) \/ CreateAdmin(id)
        PROVE  \E records : Changes(records) /\ Successor(records) /\ generated' \in {generated, generated + 1}
    BY <1>2, FreshIsSuccessor DEF CreateRequest, CreateAdmin, Generates
  <1>3. ASSUME NEW id \in IDs, RotateAutomationToken(id)
        PROVE  \E records : Changes(records) /\ Successor(records) /\ generated' \in {generated, generated + 1}
    <2> DEFINE records == [Fresh(memory, id) EXCEPT ![id].enabled = memory[id].enabled]
    <2>1. generated' = generated + 1 /\ Changes(records)
      BY <1>3 DEF RotateAutomationToken, Generates
    <2>2. /\ Fresh(memory, id) \in Records /\ Fresh(memory, id)[id].secret = generated + 1
          /\ \A j \in IDs \ {id} : Fresh(memory, id)[j] = memory[j]
      BY DEF Fresh, StoreTypeOK, Records
    <2>3. /\ records \in Records
          /\ \A j \in IDs : /\ records[j].secret = Fresh(memory, id)[j].secret
                            /\ j # id => records[j] = memory[j]
      BY <2>2 DEF StoreTypeOK, Records
    <2>4. Successor(records)
      BY <2>1, <2>2, <2>3 DEF Successor, Stored
    <2> QED
      BY <2>1, <2>4
  <1>4. ASSUME NEW id \in IDs, DeleteRecord(id) \/ DeleteRequest(id) \/ DeleteAdmin(id)
        PROVE  \E records : Changes(records) /\ Successor(records) /\ generated' \in {generated, generated + 1}
    <2> DEFINE records == [memory EXCEPT ![id] = NoRecord]
    <2>1. generated' = generated /\ Changes(records)
      BY <1>4 DEF DeleteRecord, DeleteRequest, DeleteAdmin
    <2>2. records \in Records /\ \A j \in IDs : records[j] = IF j = id THEN NoRecord ELSE memory[j]
      BY NoRecordsIsRecords DEF StoreTypeOK, Records
    <2>3. Successor(records)
      BY <2>2 DEF Successor, Stored
    <2> QED
      BY <2>1, <2>3
  <1>5. ASSUME NEW id \in IDs, NEW enabled \in BOOLEAN,
               SetEnabled(id, enabled) \/ SetAutomationTokenEnabled(id, enabled)
        PROVE  \E records : Changes(records) /\ Successor(records) /\ generated' \in {generated, generated + 1}
    <2> DEFINE records == [memory EXCEPT ![id].enabled = enabled]
    <2>1. generated' = generated /\ Changes(records) /\ id \in Stored(memory)
      BY <1>5 DEF SetEnabled, SetAutomationTokenEnabled
    <2>2. /\ records \in Records
          /\ \A j \in IDs : /\ records[j].secret = memory[j].secret
                            /\ j # id => records[j] = memory[j]
      BY DEF StoreTypeOK, Records
    <2>3. Successor(records)
      BY <2>1, <2>2 DEF Successor, Stored
    <2> QED
      BY <2>1, <2>3
  <1> QED
    BY <1>1, <1>2, <1>3, <1>4, <1>5

LEMMA StoreChange ==
    ASSUME StoreInv, NEW records, Changes(records), Successor(records),
           generated' \in {generated, generated + 1}
    PROVE  StoreInv'
  <1> USE DEF StoreInv
  <1>1. /\ serving /\ writing = "none" /\ writing' = "locked" /\ candidate' = records
        /\ UNCHANGED <<serving, memory, name, durable, acknowledged, removed>> /\ flushed' = FALSE
    BY DEF Changes, Persist
  <1>2. generated \in Nat /\ generated' \in Nat /\ generated <= generated'
    BY DEF StoreTypeOK
  <1>3. StoreTypeOK'
    BY <1>1, <1>2 DEF StoreTypeOK, Successor, BeforeRename
  <1>4. File' = File /\ KeysOf(File)' = KeysOf(File) /\ KeysOf(memory)' = KeysOf(memory)
    BY <1>1 DEF File, KeysOf, Key, Stored
  <1>5. \A id \in IDs : records[id].secret <= generated'
    <2> SUFFICES ASSUME NEW id \in IDs PROVE records[id].secret <= generated'
      OBVIOUS
    <2>1. CASE id \in Stored(records)
      BY <1>2, <2>1 DEF Successor, SecretsGenerated, Known, StoreTypeOK, Records
    <2>2. CASE id \notin Stored(records)
      BY <1>2, <2>2 DEF Stored, NoRecord
    <2> QED
      BY <2>1, <2>2
  <1>6. \A other \in Records : Known(other) => Known(other)'
    BY <1>2 DEF Known, Records
  <1>7. SecretsGenerated'
    <2>1. Known(memory)' /\ Known(File)' /\ \A other \in durable' \ {Absent} : Known(other)'
      BY <1>1, <1>4, <1>6, FileIsRecords DEF SecretsGenerated, StoreTypeOK
    <2>2. \A key \in removed' : key.secret <= generated'
      BY <1>1, <1>2 DEF SecretsGenerated, StoreTypeOK, StoreKeys
    <2> QED
      BY <1>1, <1>5, <2>1, <2>2 DEF SecretsGenerated, Known
  <1>8. removed \cap KeysOf(records) = {}
    <2> SUFFICES ASSUME NEW id \in Stored(records), Key(id, records) \in removed PROVE FALSE
      BY DEF KeysOf
    <2>1. records[id].secret <= generated
      BY DEF Key, SecretsGenerated
    <2>2. records[id].secret = memory[id].secret /\ id \in Stored(memory)
      BY <1>2, <2>1 DEF Successor
    <2>3. Key(id, records) = Key(id, memory)
      BY <2>2 DEF Key
    <2> QED
      BY <1>1, <2>2, <2>3 DEF RemovedNowhere, KeysOf
  <1>9. CommitPoint'
    BY <1>1, <1>4 DEF CommitPoint, BeforeRename
  <1>10. RemovedNowhere'
    BY <1>1, <1>4, <1>8 DEF RemovedNowhere
  <1> QED
    BY <1>1, <1>3, <1>7, <1>9, <1>10 DEF SyncedBeforeRename

(* What a step of persistLocked leaves alone.                              *)
LEMMA StoreKept ==
    ASSUME UNCHANGED <<memory, name, durable, generated, removed, candidate>>
    PROVE  /\ File' = File /\ KeysOf(File)' = KeysOf(File) /\ KeysOf(memory)' = KeysOf(memory)
           /\ SecretsGenerated => SecretsGenerated'
  BY DEF File, KeysOf, Key, Stored, SecretsGenerated, Known

LEMMA StoreWrites ==
    ASSUME StoreInv, CreateTemp \/ WriteTemp \/ SyncTemp \/ CloseTemp \/ PersistFails
    PROVE  StoreInv'
  <1> USE DEF StoreInv
  <1>1. UNCHANGED <<memory, name, durable, generated, removed, acknowledged, candidate>>
    BY DEF CreateTemp, WriteTemp, SyncTemp, CloseTemp, PersistFails, Advance
  <1>2. /\ writing \in BeforeRename /\ writing' \in BeforeRename \cup {"none"} /\ serving
        /\ serving' \in BOOLEAN /\ (writing' # "none" => serving')
    BY DEF CreateTemp, WriteTemp, SyncTemp, CloseTemp, PersistFails, Advance, BeforeRename, CommitPoint,
           StoreTypeOK
  <1>3. flushed' \in BOOLEAN /\ SyncedBeforeRename'
    BY DEF CreateTemp, WriteTemp, SyncTemp, CloseTemp, PersistFails, Advance, SyncedBeforeRename,
           StoreTypeOK
  <1>4. StoreTypeOK'
    BY <1>1, <1>2, <1>3 DEF StoreTypeOK
  <1>5. CommitPoint' /\ RemovedNowhere'
    BY <1>1, <1>2, StoreKept DEF CommitPoint, RemovedNowhere, BeforeRename, KeysOf, Key, Stored
  <1> QED
    BY <1>1, <1>3, <1>4, <1>5, StoreKept

LEMMA StoreRename ==
    ASSUME StoreInv, Rename
    PROVE  StoreInv'
  <1> USE DEF StoreInv
  <1>1. /\ writing = "closed" /\ writing' = "renamed" /\ flushed /\ name' = candidate
        /\ durable' = durable \cup {candidate}
        /\ UNCHANGED <<serving, memory, candidate, generated, acknowledged, removed, flushed>>
    BY DEF Rename, Advance, SyncedBeforeRename
  <1>2. candidate # Absent
    BY StoreAssumption DEF StoreTypeOK
  <1>3. File' = candidate /\ serving
    BY <1>1, <1>2 DEF File, CommitPoint
  <1>4. StoreTypeOK'
    BY <1>1 DEF StoreTypeOK
  <1>5. SecretsGenerated'
    BY <1>1, <1>3 DEF SecretsGenerated, Known
  <1>6. KeysOf(File)' = KeysOf(candidate) /\ KeysOf(memory)' = KeysOf(memory) /\ KeysOf(candidate)' = KeysOf(candidate)
    BY <1>1, <1>3 DEF KeysOf, Key, Stored
  <1>7. RemovedNowhere'
    BY <1>1, <1>6 DEF RemovedNowhere
  <1> QED
    BY <1>1, <1>3, <1>4, <1>5, <1>7 DEF SyncedBeforeRename, CommitPoint, BeforeRename

LEMMA StoreSync ==
    ASSUME StoreInv, NEW synced \in BOOLEAN, SyncDirectory(synced)
    PROVE  StoreInv'
  <1> USE DEF StoreInv
  <1>1. /\ writing = "renamed" /\ writing' = "none" /\ File = candidate /\ serving
        /\ memory' = candidate /\ acknowledged' = candidate
        /\ removed' = removed \cup (KeysOf(memory) \ KeysOf(candidate))
        /\ durable' \in {{name}, durable}
        /\ UNCHANGED <<serving, candidate, flushed, name, generated>>
    BY DEF SyncDirectory, Returned, Commits, CommitPoint
  <1>2. File' = File /\ KeysOf(File)' = KeysOf(candidate) /\ KeysOf(memory)' = KeysOf(candidate)
    BY <1>1 DEF File, KeysOf, Key, Stored
  <1>3. StoreTypeOK'
    <2>1. KeysOf(memory) \subseteq StoreKeys
      BY DEF KeysOf, Key, Stored, StoreKeys, StoreTypeOK, Records
    <2> QED
      BY <1>1, <2>1 DEF StoreTypeOK
  <1>4. SecretsGenerated'
    <2>1. \A key \in KeysOf(memory) : key.secret <= generated
      BY DEF KeysOf, Key, Stored, SecretsGenerated, Known
    <2>2. name # Absent => Known(name)
      BY DEF SecretsGenerated, File
    <2> QED
      BY <1>1, <1>2, <2>1, <2>2 DEF SecretsGenerated, Known
  <1>5. RemovedNowhere'
    BY <1>1, <1>2 DEF RemovedNowhere
  <1> QED
    BY <1>1, <1>2, <1>3, <1>4, <1>5 DEF SyncedBeforeRename, CommitPoint

LEMMA StoreBegins ==
    ASSUME StoreInv, Load \/ Bootstrap
    PROVE  StoreInv'
  <1> USE DEF StoreInv
  <1>1. CASE Load
    <2>1. /\ writing = "none" /\ writing' = "none" /\ serving' /\ memory' = File /\ acknowledged' = File
          /\ UNCHANGED <<candidate, flushed, name, durable, generated, removed>>
      BY <1>1 DEF Load, Loaded, File
    <2>2. File' = File /\ KeysOf(File)' = KeysOf(File) /\ KeysOf(memory)' = KeysOf(File)
      BY <2>1 DEF File, KeysOf, Key, Stored
    <2>3. StoreTypeOK'
      BY <1>1, <2>1, FileIsRecords DEF StoreTypeOK, Load
    <2>4. SecretsGenerated'
      BY <2>1, <2>2 DEF SecretsGenerated, Known
    <2> QED
      BY <2>1, <2>2, <2>3, <2>4 DEF SyncedBeforeRename, CommitPoint, RemovedNowhere
  <1>2. CASE Bootstrap
    <2>1. PICK records :
          /\ records = Fresh(NoRecords, 1)
          /\ writing' = "locked" /\ candidate' = records /\ flushed' = FALSE /\ serving' = TRUE
          /\ memory' = NoRecords /\ acknowledged' = NoRecords /\ generated' = generated + 1
          /\ name = Absent /\ UNCHANGED <<name, durable, removed>>
      BY <1>2 DEF Bootstrap, Persist, Generates
    <2>2. 1 \in IDs
      BY StoreAssumption DEF IDs
    <2>3. records \in Records /\ \A id \in IDs : records[id] = IF id = 1 THEN [secret |-> generated + 1, enabled |-> TRUE] ELSE NoRecord
      BY <2>1, <2>2, NoRecordsIsRecords DEF Fresh, NoRecords, Records, StoreTypeOK
    <2>4. File = NoRecords /\ File' = NoRecords
      BY <2>1 DEF File
    <2>5. KeysOf(NoRecords) = {} /\ KeysOf(NoRecords)' = {}
      BY DEF KeysOf, Stored, NoRecords
    <2>6. KeysOf(records) = {[id |-> 1, secret |-> generated + 1]}
      <3>1. Stored(records) = {1}
        BY <2>2, <2>3 DEF Stored, NoRecord
      <3> QED
        BY <2>2, <2>3, <3>1 DEF KeysOf, Key
    <2>7. StoreTypeOK'
      <3>1. generated + 1 \in Nat
        BY DEF StoreTypeOK
      <3> QED
        BY <2>1, <2>3, <3>1, NoRecordsIsRecords DEF StoreTypeOK, BeforeRename
    <2>8. SecretsGenerated'
      <3>1. Known(NoRecords)'
        BY <2>1 DEF Known, NoRecords, NoRecord, StoreTypeOK
      <3>2. Known(records)'
        BY <2>1, <2>3 DEF Known, NoRecord, StoreTypeOK
      <3>3. \A other \in durable' \ {Absent} : Known(other)'
        BY <2>1 DEF SecretsGenerated, Known, StoreTypeOK, Records
      <3>4. \A key \in removed' : key.secret <= generated'
        BY <2>1 DEF SecretsGenerated, StoreTypeOK, StoreKeys
      <3> QED
        BY <2>1, <2>4, <3>1, <3>2, <3>3, <3>4 DEF SecretsGenerated
    <2>9. removed' \cap KeysOf(records) = {}
      <3>1. \A key \in removed : key.secret <= generated /\ generated \in Nat
        BY DEF SecretsGenerated, StoreTypeOK
      <3>2. [id |-> 1, secret |-> generated + 1] \notin removed
        BY <3>1
      <3> QED
        BY <2>1, <2>6, <3>2
    <2>10. KeysOf(candidate)' = KeysOf(records)
      BY <2>1 DEF KeysOf, Key, Stored
    <2> QED
      BY <2>1, <2>4, <2>5, <2>7, <2>8, <2>9, <2>10
         DEF SyncedBeforeRename, CommitPoint, RemovedNowhere, BeforeRename
  <1> QED
    BY <1>1, <1>2

(* A kill leaves the file; a power failure leads to an older one, whose    *)
(* keys are taken off the list of those that callers know are gone.        *)
LEMMA StoreFaults ==
    ASSUME StoreInv, Killed \/ PowerFails
    PROVE  StoreInv'
  <1> USE DEF StoreInv
  <1>1. /\ serving' = FALSE /\ writing' = "none"
        /\ UNCHANGED <<memory, candidate, flushed, generated>>
    BY DEF Killed, PowerFails, Faults
  <1>2. CASE Killed
    <2>1. UNCHANGED <<name, durable, acknowledged, removed>>
      BY <1>2 DEF Killed
    <2>2. File' = File /\ KeysOf(File)' = KeysOf(File)
      BY <2>1 DEF File, KeysOf, Key, Stored
    <2> QED
      BY <1>1, <2>1, <2>2, StoreKept
         DEF StoreTypeOK, SyncedBeforeRename, CommitPoint, RemovedNowhere
  <1>3. CASE PowerFails
    <2>1. PICK content \in durable :
             /\ name' = content /\ durable' = {content}
             /\ IF content \in {name, Torn} THEN UNCHANGED <<acknowledged, removed>>
                ELSE LET records == IF content = Absent THEN NoRecords ELSE content
                     IN  /\ acknowledged' = records
                         /\ removed' = removed \ KeysOf(records)
      BY <1>3 DEF PowerFails
    <2>2. PICK records : records = IF content = Absent THEN NoRecords ELSE content
      OBVIOUS
    <2>3. content # Torn /\ content \in Records \cup {Absent} /\ records \in Records
      BY <2>2, StoreAssumption, NoRecordsIsRecords DEF StoreTypeOK
    <2>4. File' = records /\ KeysOf(File)' = KeysOf(records)
      BY <2>1, <2>2 DEF File, KeysOf, Key, Stored
    <2>5. content = name => File = records
      BY <2>2 DEF File
    <2>6. removed' \subseteq removed /\ removed' \cap KeysOf(records) = {}
      BY <2>1, <2>2, <2>3, <2>5 DEF RemovedNowhere
    <2>7. acknowledged' \in {acknowledged, records}
          /\ (acknowledged' = records \/ content = name)
      BY <2>1, <2>2, <2>3
    <2>8. StoreTypeOK'
      BY <1>1, <2>1, <2>3, <2>6, <2>7 DEF StoreTypeOK
    <2>9. Known(records)
      <3>1. CASE content = Absent
        BY <2>2, <3>1 DEF Known, NoRecords, NoRecord, StoreTypeOK
      <3>2. CASE content # Absent
        BY <2>2, <3>2 DEF SecretsGenerated
      <3> QED
        BY <3>1, <3>2
    <2>10. SecretsGenerated'
      <3>1. Known(memory)' /\ Known(candidate)' /\ Known(File)'
        BY <1>1, <2>4, <2>9 DEF SecretsGenerated, Known
      <3>2. \A other \in durable' \ {Absent} : Known(other)'
        BY <1>1, <2>1, <2>2, <2>9 DEF Known
      <3> QED
        BY <1>1, <2>6, <3>1, <3>2 DEF SecretsGenerated
    <2>11. CommitPoint'
      BY <1>1, <2>4, <2>5, <2>7 DEF CommitPoint
    <2>12. RemovedNowhere'
      BY <1>1, <2>4, <2>6 DEF RemovedNowhere
    <2> QED
      BY <1>1, <2>8, <2>10, <2>11, <2>12 DEF SyncedBeforeRename
  <1> QED
    BY <1>2, <1>3

LEMMA StoreStep == StoreInv /\ [StoreNext]_storeVars => StoreInv'
  <1> SUFFICES ASSUME StoreInv, [StoreNext]_storeVars PROVE StoreInv'
    OBVIOUS
  <1>1. CASE UNCHANGED storeVars
    BY <1>1, StoreKept
       DEF storeVars, StoreInv, StoreTypeOK, SyncedBeforeRename, CommitPoint, RemovedNowhere, KeysOf,
           Key, Stored
  <1> QED
    BY <1>1, ChangesWriteSuccessors, StoreChange, StoreWrites, StoreRename, StoreSync, StoreBegins,
       StoreFaults
       DEF StoreNext, StoreInv

LEMMA StoreIsDurable == StoreInv => StoreDurable
  <1> SUFFICES ASSUME StoreInv PROVE StoreDurable
    OBVIOUS
  <1> USE DEF StoreInv
  <1>1. WholeFile
    BY StoreAssumption DEF WholeFile, StoreTypeOK
  <1>2. StoreCommits
    BY DEF StoreCommits, CommitPoint, File
  <1>3. RemovedStaysOut
    <2> SUFFICES ASSUME NEW key \in removed, AcceptsKey(key) PROVE FALSE
      BY DEF RemovedStaysOut
    <2>1. key \in StoreKeys /\ serving /\ memory[key.id] = [secret |-> key.secret, enabled |-> TRUE]
      BY DEF AcceptsKey, StoreTypeOK
    <2>2. key.id \in Stored(memory) /\ Key(key.id, memory) = key
      BY <2>1 DEF Stored, Key, StoreKeys, NoRecord
    <2> QED
      BY <2>1, <2>2 DEF KeysOf, RemovedNowhere
  <1> QED
    BY <1>1, <1>2, <1>3 DEF StoreDurable

(* What a store's callers were told lasts across kills and power failures, *)
(* for any number of records, secrets and faults.                          *)
THEOREM StoreKeepsPromises == StoreSpec => []StoreDurable
<1> QED
  BY StoreStart, StoreStep, StoreIsDurable, PTL DEF StoreSpec

----------------------------------------------------------------------------
(* ClientRuntime.                                                          *)

RunSteps == {"idle", "locked", "leased", "running", "stopping", "closing", "unlock", "done"}
LoopStates == {"off", "running", "ending", "ended"}
ErrorClasses == {"none", "failed", "context", "closed"}
Causes == {"none", "parent", "normal im", "component"}
OutcomeClasses ==
    {"failed", "closed", "stopped", "canceled", "timeout", "cleanup", "release", "already running"}
LoopNames == {"im", "herdr", "messages", "relay", "dsh"}
RunResults == [name : LoopNames, error : ErrorClasses]

RuntimeTypes ==
    /\ kind \in RunKinds /\ at \in [Runs -> RunSteps] /\ holder \in Runs \cup {NoRun}
    /\ lease \in [Runs -> {"none", "open", "closed"}] /\ caller \in [Runs -> BOOLEAN]
    /\ loops \in [Runs -> [Loops -> LoopStates]]
    /\ firstBackend \in [Runs -> ErrorClasses]
    /\ results \in [Runs -> Seq(RunResults)] /\ collected \in [Runs -> Seq(RunResults)]
    /\ cause \in [Runs -> Causes]
    /\ outcome \in [Runs -> SUBSET OutcomeClasses]

(* Where a run stands tells who holds the lock and the lease: a run that   *)
(* has not timed out leaves no loop behind.                                *)
Live(r) == \E l \in Loops : loops[r][l] \in {"running", "ending"}
Early(r) == at[r] \in {"idle", "locked", "leased"}
Held(r) ==
    /\ at[r] \in RunSteps \ {"idle", "done"} => holder = r
    /\ at[r] = "done" /\ Live(r) => holder = r
    /\ Early(r) => \A l \in Loops : loops[r][l] = "off"
    /\ Early(r) \/ at[r] \in {"running", "stopping"} => outcome[r] = {}
    /\ HasLease /\ at[r] \in {"leased", "running", "stopping", "closing"} => lease[r] = "open"
    /\ HasLease /\ at[r] \in {"unlock", "done"} /\ Live(r) => lease[r] = "open"
    /\ at[r] \in {"closing", "unlock", "done"} /\ Live(r) => TimedOut(r)

(* Until Run has returned, every component that ended has one result, sent *)
(* or collected, and the input at most one.                                *)
Reported(r) ==
    {c \in Components : loops[r][c] = "ended" /\ \A k \in Backends : c \in Backends => loops[r][k] = "ended"}
SentBy(r) == collected[r] \o results[r]
OfInput(q) == {i \in 1..Len(q) : q[i].name = "im"}
Counted(r) ==
    /\ at[r] # "done" => Len(SentBy(r)) = Cardinality(Reported(r))
    /\ at[r] = "done" => SentBy(r) = <<>>
    /\ ~IsRelay /\ OfInput(SentBy(r)) # {} => loops[r]["im"] = "ended"
    /\ \A i, j \in OfInput(SentBy(r)) : i = j

(* Why it stops: before the stop a cancelled context is the caller's, and  *)
(* the result that was selected is the first that was collected.           *)
Caused(r) ==
    /\ Early(r) \/ at[r] = "running" => cause[r] = "none" /\ collected[r] = <<>>
    /\ Early(r) \/ at[r] = "running" =>
         /\ firstBackend[r] = "context" => caller[r]
         /\ \A i \in 1..Len(results[r]) : results[r][i].error = "context" => caller[r]
    /\ at[r] = "stopping" => cause[r] # "none"
    /\ cause[r] = "parent" => caller[r]
    /\ cause[r] # "none" /\ (IsRelay \/ cause[r] # "parent") =>
         /\ collected[r] # <<>>
         /\ collected[r][1].error = "context" => caller[r]
    /\ cause[r] = "normal im" => kind = "interactive" /\ collected[r][1] = Result("im", "closed")
    /\ at[r] = "done" => cause[r] = "none"

RunOK(r) == Held(r) /\ Counted(r) /\ Caused(r) /\ Explained(r)
RuntimeInv == RuntimeTypes /\ \A r \in Runs : RunOK(r)

LEMMA Alternatives ==
    ASSUME kind \in RunKinds
    PROVE  /\ Loops \subseteq LoopNames /\ Components \subseteq Loops /\ Backends \subseteq Loops
           /\ IsFiniteSet(Components) /\ Cardinality({}) = 0
           /\ "im" \in Loops <=> ~IsRelay
  <1>1. IsFiniteSet({}) /\ Cardinality({}) = 0
    BY FS_EmptySet
  <1>2. IsFiniteSet({"im", "herdr", "messages"}) /\ IsFiniteSet({"relay", "herdr"})
    <2>1. \A x : IsFiniteSet({x})
      BY <1>1, FS_AddElement
    <2>2. IsFiniteSet({"im"} \cup {"herdr"}) /\ IsFiniteSet({"relay"} \cup {"herdr"})
      BY <2>1, FS_AddElement
    <2>3. IsFiniteSet(({"im"} \cup {"herdr"}) \cup {"messages"})
      BY <2>2, FS_AddElement
    <2>4. /\ ({"im"} \cup {"herdr"}) \cup {"messages"} = {"im", "herdr", "messages"}
          /\ {"relay"} \cup {"herdr"} = {"relay", "herdr"}
      OBVIOUS
    <2> QED
      BY <2>2, <2>3, <2>4
  <1> QED
    BY <1>1, <1>2 DEF Loops, Components, Backends, IsRelay, RunKinds, LoopNames

LEMMA SameKind ==
    ASSUME kind' = kind
    PROVE  /\ Loops' = Loops /\ Components' = Components /\ Backends' = Backends
           /\ IsRelay' = IsRelay /\ HasLease' = HasLease
  BY DEF Loops, Components, Backends, IsRelay, HasLease

(* What a run has of its own.                                              *)
RunKept(q) ==
    /\ at'[q] = at[q] /\ lease'[q] = lease[q] /\ caller'[q] = caller[q] /\ loops'[q] = loops[q]
    /\ firstBackend'[q] = firstBackend[q] /\ results'[q] = results[q]
    /\ collected'[q] = collected[q] /\ cause'[q] = cause[q] /\ outcome'[q] = outcome[q]

LEMMA SameCounted ==
    ASSUME NEW r \in Runs, Counted(r), kind' = kind, loops'[r] = loops[r], results'[r] = results[r],
           collected'[r] = collected[r], at'[r] = "done" <=> at[r] = "done"
    PROVE  Counted(r)'
  <1>1. SentBy(r)' = SentBy(r) /\ Reported(r)' = Reported(r)
    BY SameKind DEF SentBy, Reported
  <1>2. OfInput(SentBy(r))' = OfInput(SentBy(r))
    BY <1>1 DEF OfInput
  <1> QED
    BY <1>1, <1>2, SameKind DEF Counted

LEMMA SameExplained ==
    ASSUME NEW r \in Runs, Explained(r), kind' = kind, caller'[r] = caller[r], cause'[r] = cause[r],
           collected'[r] = collected[r], outcome[r] \subseteq outcome'[r],
           at'[r] \in {"closing", "unlock"} => at[r] \in {"closing", "unlock"}
    PROVE  Explained(r)'
  <1>1. InputEnded(r)' = InputEnded(r) /\ PrimaryFailures(r)' = PrimaryFailures(r)
    BY DEF InputEnded, PrimaryFailures, Failures, Primary
  <1> QED
    BY <1>1, SameKind DEF Explained

LEMMA OtherRun ==
    ASSUME NEW q \in Runs, RunOK(q), kind' = kind, RunKept(q), holder' = holder \/ holder # q
    PROVE  RunOK(q)'
  <1>1. Counted(q)' /\ Explained(q)'
    BY SameCounted, SameExplained DEF RunOK, RunKept
  <1>2. Caused(q)'
    <2>1. Caused(q) /\ Early(q)' = Early(q) /\ IsRelay' = IsRelay
      BY SameKind DEF RunOK, Early, RunKept
    <2> QED
      BY <2>1 DEF Caused, RunKept, Result
  <1>3. Held(q)'
    BY SameKind DEF RunOK, Held, Early, Live, TimedOut, RunKept
  <1> QED
    BY <1>1, <1>2, <1>3 DEF RunOK

LEMMA OneRun ==
    ASSUME RuntimeInv, RuntimeTypes', kind' = kind, NEW r \in Runs, RunOK(r)',
           \A q \in Runs \ {r} : RunKept(q), holder' = holder \/ holder \in {r, NoRun}
    PROVE  RuntimeInv'
  <1>1. ASSUME NEW q \in Runs \ {r} PROVE RunOK(q)'
    BY <1>1, OtherRun, RuntimeAssumption DEF RuntimeInv
  <1> QED
    BY <1>1 DEF RuntimeInv

LEMMA EarlyEmpty ==
    ASSUME RuntimeTypes, NEW r \in Runs, RunOK(r), Early(r)
    PROVE  /\ Reported(r) = {} /\ results[r] = <<>> /\ collected[r] = <<>>
           /\ ~Live(r) /\ outcome[r] = {} /\ cause[r] = "none"
  <1>1. Held(r) /\ Counted(r) /\ Caused(r) /\ at[r] # "done"
    BY DEF RunOK, Early
  <1>2. collected[r] = <<>> /\ outcome[r] = {} /\ cause[r] = "none" /\ ~Live(r)
    BY <1>1 DEF Held, Caused, Live
  <1>3. Reported(r) = {}
    BY <1>1, Alternatives DEF Reported, Held, RuntimeTypes
  <1>4. results[r] \in Seq(RunResults) /\ Len(<<>> \o results[r]) = 0
    BY <1>1, <1>2, <1>3, Alternatives DEF Counted, SentBy, RuntimeTypes
  <1>5. results[r] = <<>>
    BY <1>4, EmptySeq, ConcatEmptySeq
  <1> QED
    BY <1>2, <1>3, <1>5

LEMMA NothingSent ==
    ASSUME RuntimeTypes, NEW r \in Runs, results'[r] = <<>>, collected'[r] = <<>>, Reported(r)' = {}
    PROVE  Counted(r)'
  <1>1. SentBy(r)' = <<>> /\ Cardinality({}) = 0
    BY Alternatives DEF SentBy, RuntimeTypes
  <1>2. OfInput(SentBy(r)') = {}
    BY <1>1 DEF OfInput
  <1> QED
    BY <1>1, <1>2 DEF Counted

LEMMA NextTypes ==
    ASSUME RuntimeTypes, kind' = kind, holder' \in Runs \cup {NoRun}, at' \in [Runs -> RunSteps],
           lease' \in [Runs -> {"none", "open", "closed"}], outcome' \in [Runs -> SUBSET OutcomeClasses],
           loops' \in [Runs -> [Loops -> LoopStates]],
           UNCHANGED <<caller, firstBackend, results, collected, cause>>
    PROVE  RuntimeTypes'
  BY SameKind DEF RuntimeTypes

LEMMA AcquireLockRuns == ASSUME RuntimeInv, NEW r \in Runs, AcquireLock(r) PROVE RuntimeInv'
  <1>1. RuntimeTypes /\ RunOK(r) /\ Held(r) /\ Caused(r)
    BY DEF RuntimeInv, RunOK
  <1>2. PICK a \in {"locked", "done"}, o \in {{}, {"already running"}} :
           /\ at[r] = "idle" /\ kind' = kind /\ at' = [at EXCEPT ![r] = a]
           /\ outcome' = [outcome EXCEPT ![r] = @ \cup o]
           /\ \/ a = "locked" /\ o = {} /\ holder' = r
              \/ a = "done" /\ holder' = holder
           /\ holder' = holder \/ holder = NoRun
           /\ UNCHANGED <<lease, caller, loops, firstBackend, results, collected, cause>>
    <2>1. outcome = [outcome EXCEPT ![r] = @ \cup {}]
      BY <1>1 DEF RuntimeTypes
    <2> QED
      BY <2>1 DEF AcquireLock, Move, AddError, LoopQuiet
  <1>3. Early(r) /\ Reported(r) = {} /\ results[r] = <<>> /\ collected[r] = <<>> /\ ~Live(r) /\ outcome[r] = {}
    BY <1>1, <1>2, EarlyEmpty DEF Early
  <1>4. outcome' = [outcome EXCEPT ![r] = o] /\ o \in SUBSET OutcomeClasses /\ a \in RunSteps
    BY <1>2, <1>3 DEF OutcomeClasses, RunSteps
  <1>5. at' \in [Runs -> RunSteps] /\ at'[r] = a
        /\ outcome' \in [Runs -> SUBSET OutcomeClasses] /\ outcome'[r] = o
    BY <1>1, <1>2, <1>4 DEF RuntimeTypes
  <1>6. RuntimeTypes'
    <2>1. lease' \in [Runs -> {"none", "open", "closed"}] /\ holder' \in Runs \cup {NoRun}
          /\ loops' \in [Runs -> [Loops -> LoopStates]]
      BY <1>1, <1>2 DEF RuntimeTypes
    <2> QED
      BY <1>1, <1>2, <1>5, <2>1, NextTypes
  <1>7. Reported(r)' = {} /\ Live(r)' = Live(r) /\ HasLease' = HasLease /\ IsRelay' = IsRelay
    BY <1>2, <1>3, SameKind DEF Live, Reported
  <1>8. Held(r)'
    BY <1>1, <1>2, <1>3, <1>5, <1>7, SameKind DEF Held, Early
  <1>9. Counted(r)'
    BY <1>1, <1>2, <1>3, <1>7, NothingSent
  <1>10. Caused(r)'
    BY <1>1, <1>2, <1>3, <1>5, <1>7 DEF Caused, Early
  <1>11. Explained(r)'
    BY <1>2, <1>5 DEF Explained
  <1>12. \A q \in Runs \ {r} : RunKept(q)
    BY <1>1, <1>2 DEF RunKept, RuntimeTypes
  <1> QED
    BY <1>2, <1>6, <1>8, <1>9, <1>10, <1>11, <1>12, OneRun DEF RunOK

LEMMA PrepareDialPathRuns == ASSUME RuntimeInv, NEW r \in Runs, PrepareDialPath(r) PROVE RuntimeInv'
  <1>1. RuntimeTypes /\ RunOK(r) /\ Held(r) /\ Counted(r) /\ Caused(r)
    BY DEF RuntimeInv, RunOK
  <1>2. PICK a \in {"leased", "unlock"}, l \in {"none", "open", "closed"}, o \in {{}, {"failed"}} :
           /\ at[r] = "locked" /\ kind' = kind /\ at' = [at EXCEPT ![r] = a]
           /\ lease' = [lease EXCEPT ![r] = l] /\ outcome' = [outcome EXCEPT ![r] = @ \cup o]
           /\ a = "leased" => o = {} /\ (HasLease => l = "open")
           /\ UNCHANGED <<holder, caller, loops, firstBackend, results, collected, cause>>
    <2>1. outcome = [outcome EXCEPT ![r] = @ \cup {}] /\ lease = [lease EXCEPT ![r] = lease[r]]
          /\ lease[r] \in {"none", "open", "closed"}
      BY <1>1 DEF RuntimeTypes
    <2>2. CASE lease' = [lease EXCEPT ![r] = IF HasLease THEN "open" ELSE "none"] /\ Move(r, "leased") /\ UNCHANGED outcome
      BY <2>1, <2>2 DEF PrepareDialPath, Move, LoopQuiet
    <2>3. CASE HasLease /\ Move(r, "unlock") /\ AddError(r, {"failed"}) /\ UNCHANGED lease
      BY <2>1, <2>3 DEF PrepareDialPath, Move, AddError, LoopQuiet
    <2> QED
      BY <2>2, <2>3 DEF PrepareDialPath
  <1>3. Early(r) /\ ~Live(r) /\ outcome[r] = {} /\ cause[r] = "none" /\ collected[r] = <<>> /\ holder = r
    BY <1>1, <1>2, EarlyEmpty DEF Early, Held, RunSteps
  <1>4. outcome' = [outcome EXCEPT ![r] = o] /\ o \in SUBSET OutcomeClasses /\ a \in RunSteps
    BY <1>2, <1>3 DEF OutcomeClasses, RunSteps
  <1>5. RuntimeTypes' /\ at'[r] = a /\ outcome'[r] = o /\ lease'[r] = l
    <2>1. holder' \in Runs \cup {NoRun} /\ loops' \in [Runs -> [Loops -> LoopStates]]
      BY <1>1, <1>2 DEF RuntimeTypes
    <2>2. /\ at' \in [Runs -> RunSteps] /\ at'[r] = a
          /\ lease' \in [Runs -> {"none", "open", "closed"}] /\ lease'[r] = l
      BY <1>1, <1>2, <1>4 DEF RuntimeTypes
    <2>3. outcome' \in [Runs -> SUBSET OutcomeClasses] /\ outcome'[r] = o
      BY <1>1, <1>4 DEF RuntimeTypes
    <2>4. UNCHANGED <<caller, firstBackend, results, collected, cause>> /\ kind' = kind
      BY <1>2
    <2> QED
      BY <1>1, <2>1, <2>2, <2>3, <2>4, NextTypes
  <1>6. Live(r)' = Live(r) /\ HasLease' = HasLease /\ IsRelay' = IsRelay
    BY <1>2, SameKind DEF Live
  <1>7. Held(r)'
    BY <1>1, <1>2, <1>3, <1>5, <1>6, SameKind DEF Held, Early
  <1>8. Counted(r)'
    BY <1>1, <1>2, <1>5, SameCounted
  <1>9. Caused(r)'
    BY <1>1, <1>2, <1>3, <1>5, <1>6 DEF Caused, Early
  <1>10. Explained(r)'
    BY <1>2, <1>3 DEF Explained
  <1>11. \A q \in Runs \ {r} : RunKept(q)
    BY <1>1, <1>2 DEF RunKept, RuntimeTypes
  <1> QED
    BY <1>2, <1>5, <1>7, <1>8, <1>9, <1>10, <1>11, OneRun DEF RunOK

LEMMA AssembleRuns == ASSUME RuntimeInv, NEW r \in Runs, Assemble(r) PROVE RuntimeInv'
  <1>1. RuntimeTypes /\ RunOK(r) /\ Held(r) /\ Caused(r)
    BY DEF RuntimeInv, RunOK
  <1>2. PICK a \in {"closing", "running"}, o \in {{}, {"failed"}} :
           /\ at[r] = "leased" /\ kind' = kind /\ at' = [at EXCEPT ![r] = a]
           /\ outcome' = [outcome EXCEPT ![r] = @ \cup o]
           /\ \/ a = "closing" /\ loops' = loops
              \/ a = "running" /\ o = {} /\ loops' = [loops EXCEPT ![r] = [l \in Loops |-> "running"]]
           /\ UNCHANGED <<holder, lease, caller, firstBackend, results, collected, cause>>
    <2>1. outcome = [outcome EXCEPT ![r] = @ \cup {}]
      BY <1>1 DEF RuntimeTypes
    <2> QED
      BY <2>1 DEF Assemble, Move, AddError
  <1>3. Early(r) /\ Reported(r) = {} /\ results[r] = <<>> /\ collected[r] = <<>> /\ ~Live(r) /\ outcome[r] = {}
        /\ cause[r] = "none" /\ holder = r /\ (HasLease => lease[r] = "open")
    BY <1>1, <1>2, EarlyEmpty DEF Early, Held, RunSteps
  <1>4. outcome' = [outcome EXCEPT ![r] = o] /\ o \in SUBSET OutcomeClasses /\ a \in RunSteps
    BY <1>2, <1>3 DEF OutcomeClasses, RunSteps
  <1>5. loops' \in [Runs -> [Loops -> LoopStates]] /\ loops'[r] \in {loops[r], [l \in Loops |-> "running"]}
        /\ (a = "closing" => loops'[r] = loops[r])
    <2>1. [l \in Loops |-> "running"] \in [Loops -> LoopStates] /\ loops \in [Runs -> [Loops -> LoopStates]]
      BY <1>1 DEF RuntimeTypes, LoopStates
    <2> QED
      BY <1>2, <2>1
  <1>6. RuntimeTypes' /\ at'[r] = a /\ outcome'[r] = o
    <2>1. lease' \in [Runs -> {"none", "open", "closed"}] /\ holder' \in Runs \cup {NoRun}
      BY <1>1, <1>2 DEF RuntimeTypes
    <2>2. at' \in [Runs -> RunSteps] /\ at'[r] = a
      BY <1>1, <1>2, <1>4 DEF RuntimeTypes
    <2>3. outcome' \in [Runs -> SUBSET OutcomeClasses] /\ outcome'[r] = o
      BY <1>1, <1>4 DEF RuntimeTypes
    <2>4. UNCHANGED <<caller, firstBackend, results, collected, cause>> /\ kind' = kind
      BY <1>2
    <2> QED
      BY <1>1, <1>5, <2>1, <2>2, <2>3, <2>4, NextTypes
  <1>7. HasLease' = HasLease /\ IsRelay' = IsRelay /\ (a = "closing" => ~Live(r)')
    BY <1>2, <1>3, <1>5, SameKind DEF Live
  <1>8. Reported(r)' = {}
    <2>1. \A c \in Components : c \in Loops /\ loops'[r][c] # "ended"
      BY <1>1, <1>3, <1>5, Alternatives DEF Held, RuntimeTypes
    <2> QED
      BY <1>2, <2>1, SameKind DEF Reported
  <1>9. Held(r)'
    BY <1>2, <1>3, <1>6, <1>7, SameKind DEF Held, Early
  <1>10. Counted(r)'
    BY <1>1, <1>2, <1>3, <1>8, NothingSent
  <1>11. Caused(r)'
    BY <1>1, <1>2, <1>3, <1>6, <1>7 DEF Caused, Early
  <1>12. Explained(r)'
    BY <1>2, <1>3 DEF Explained
  <1>13. \A q \in Runs \ {r} : RunKept(q)
    BY <1>1, <1>2 DEF RunKept, RuntimeTypes
  <1> QED
    BY <1>2, <1>6, <1>9, <1>10, <1>11, <1>12, <1>13, OneRun DEF RunOK

LEMMA CallerCancelsRuns == ASSUME RuntimeInv, NEW r \in Runs, CallerCancels(r) PROVE RuntimeInv'
  <1>1. RuntimeTypes /\ RunOK(r) /\ Held(r) /\ Counted(r) /\ Caused(r) /\ Explained(r)
    BY DEF RuntimeInv, RunOK
  <1>2. /\ kind' = kind /\ caller' = [caller EXCEPT ![r] = TRUE]
        /\ UNCHANGED <<at, holder, lease, outcome, loops, firstBackend, results, collected, cause>>
    BY DEF CallerCancels, LoopQuiet
  <1>3. RuntimeTypes' /\ caller'[r]
    BY <1>1, <1>2, SameKind DEF RuntimeTypes
  <1>4. Held(r)'
    BY <1>1, <1>2, SameKind DEF Held, Early, Live, TimedOut
  <1>5. Counted(r)'
    BY <1>1, <1>2, SameCounted
  <1>6. Caused(r)'
    <2>1. IsRelay' = IsRelay /\ Early(r)' = Early(r)
      BY <1>2, SameKind DEF Early
    <2> QED
      BY <1>1, <1>2, <1>3, <2>1 DEF Caused, Result
  <1>7. Explained(r)'
    BY <1>3 DEF Explained
  <1>8. \A q \in Runs \ {r} : RunKept(q)
    BY <1>1, <1>2 DEF RunKept, RuntimeTypes
  <1> QED
    BY <1>2, <1>3, <1>4, <1>5, <1>6, <1>7, <1>8, OneRun DEF RunOK

LEMMA ImClosesRuns == ASSUME RuntimeInv, NEW r \in Runs, ImCloses(r) PROVE RuntimeInv'
  <1>1. RuntimeTypes /\ RunOK(r) /\ Held(r) /\ Counted(r) /\ Caused(r) /\ Explained(r)
    BY DEF RuntimeInv, RunOK
  <1>2. /\ kind = "wecom" /\ loops[r]["im"] = "running" /\ loops' = [loops EXCEPT ![r]["im"] = "ending"]
        /\ UNCHANGED <<kind, at, holder, lease, caller, outcome, firstBackend, results, collected, cause>>
    BY DEF ImCloses
  <1>3. ~IsRelay /\ Loops = {"im", "herdr", "messages"} /\ Backends = {} /\ Components = Loops
    BY <1>2 DEF IsRelay, Loops, Backends, Components
  <1>4. RuntimeTypes'
    BY <1>1, <1>2, SameKind DEF RuntimeTypes, LoopStates
  <1>5. loops'[r] = [loops[r] EXCEPT !["im"] = "ending"] /\ loops[r] \in [Loops -> LoopStates]
    BY <1>1, <1>2 DEF RuntimeTypes
  <1>6. Live(r) /\ ~Early(r) /\ Early(r)' = Early(r)
    BY <1>1, <1>2, <1>3 DEF Live, Held, Early
  <1>7. Held(r)'
    BY <1>1, <1>2, <1>6, SameKind DEF Held, TimedOut
  <1>8. Reported(r)' = Reported(r)
    BY <1>2, <1>3, <1>5, SameKind DEF Reported
  <1>9. Counted(r)'
    <2>1. SentBy(r)' = SentBy(r) /\ OfInput(SentBy(r))' = OfInput(SentBy(r))
      BY <1>2 DEF SentBy, OfInput
    <2>2. OfInput(SentBy(r)) = {}
      BY <1>1, <1>2, <1>3 DEF Counted
    <2> QED
      BY <1>1, <1>2, <1>8, <2>1, <2>2 DEF Counted
  <1>10. Caused(r)'
    <2>1. IsRelay' = IsRelay
      BY <1>2, SameKind
    <2> QED
      BY <1>1, <1>2, <1>6, <2>1 DEF Caused, Result
  <1>11. Explained(r)'
    BY <1>1, <1>2, SameExplained
  <1>12. \A q \in Runs \ {r} : RunKept(q)
    BY <1>1, <1>2 DEF RunKept, RuntimeTypes
  <1> QED
    BY <1>2, <1>4, <1>7, <1>9, <1>10, <1>11, <1>12, OneRun DEF RunOK

(* A loop ends.  Its component is reported with it, unless it is the first *)
(* of two backends.                                                        *)
ComponentOf(l) == IF l \in Backends THEN "herdr" ELSE l

LEMMA ReportedGrows ==
    ASSUME RuntimeTypes, kind' = kind, NEW r \in Runs, NEW l \in Loops, loops[r][l] \in {"running", "ending"},
           loops' = [loops EXCEPT ![r][l] = "ended"]
    PROVE  IF Last(r, l)
           THEN Reported(r)' = Reported(r) \cup {ComponentOf(l)} /\ ComponentOf(l) \notin Reported(r)
           ELSE Reported(r)' = Reported(r)
  <1>1. PICK f \in [Loops -> LoopStates] : f = loops[r]
    BY DEF RuntimeTypes
  <1>2. loops'[r] = [f EXCEPT ![l] = "ended"] /\ f[l] # "ended"
    BY <1>1 DEF RuntimeTypes
  <1>3. /\ Reported(r)' = {c \in Components : loops'[r][c] = "ended"
                                /\ \A k \in Backends : c \in Backends => loops'[r][k] = "ended"}
        /\ Reported(r) = {c \in Components : f[c] = "ended" /\ \A k \in Backends : c \in Backends => f[k] = "ended"}
        /\ Last(r, l) <=> (l \in Backends => \A k \in Backends : k = l \/ f[k] = "ended")
    BY <1>1, SameKind DEF Reported, Last
  <1>4. CASE kind = "pair"
    <2>1. Loops = {"relay", "herdr", "dsh"} /\ Components = {"relay", "herdr"} /\ Backends = {"herdr", "dsh"}
      BY <1>4 DEF Loops, Components, Backends, IsRelay
    <2>2. CASE l = "relay"
      BY <2>1, <2>2, <1>2, <1>3 DEF ComponentOf
    <2>3. CASE l \in {"herdr", "dsh"}
      BY <2>1, <2>3, <1>2, <1>3 DEF ComponentOf
    <2> QED
      BY <2>1, <2>2, <2>3
  <1>5. CASE kind # "pair"
    <2>1. Components = Loops /\ Backends = {}
      BY <1>5 DEF Components, Backends
    <2> QED
      BY <2>1, <1>2, <1>3 DEF ComponentOf
  <1> QED
    BY <1>4, <1>5

LEMMA InputAppended ==
    ASSUME NEW q \in Seq(RunResults), NEW x \in RunResults, \A i, j \in OfInput(q) : i = j,
           x.name = "im" => OfInput(q) = {}
    PROVE  /\ \A i, j \in OfInput(Append(q, x)) : i = j
           /\ OfInput(Append(q, x)) # {} => x.name = "im" \/ OfInput(q) # {}
  <1>1. /\ Len(Append(q, x)) = Len(q) + 1 /\ Len(q) \in Nat /\ Append(q, x)[Len(q) + 1] = x
        /\ \A i \in 1..Len(q) : Append(q, x)[i] = q[i]
    BY AppendProperties
  <1>2. OfInput(Append(q, x)) = OfInput(q) \cup (IF x.name = "im" THEN {Len(q) + 1} ELSE {})
    BY <1>1 DEF OfInput
  <1> QED
    BY <1>2

LEMMA Joined ==
    ASSUME NEW c \in Seq(RunResults), NEW q \in Seq(RunResults), NEW x \in RunResults
    PROVE  /\ c \o q \in Seq(RunResults) /\ c \o Append(q, x) = Append(c \o q, x)
           /\ Append(q, x) \in Seq(RunResults) /\ Len(Append(c \o q, x)) = Len(c \o q) + 1
  OBVIOUS

LEMMA LoopEndsCounted ==
    ASSUME RuntimeTypes, NEW r \in Runs, Counted(r), NEW l \in Loops, LoopEnds(r, l), RuntimeTypes'
    PROVE  Counted(r)'
  <1>1. /\ kind' = kind /\ at' = at /\ collected' = collected /\ loops[r][l] \in {"running", "ending"}
        /\ loops' = [loops EXCEPT ![r][l] = "ended"]
    BY DEF LoopEnds
  <1>0. PICK c \in Seq(RunResults), q \in Seq(RunResults) : c = collected[r] /\ q = results[r]
    BY DEF RuntimeTypes
  <1>2. PICK s \in Seq(RunResults) : s = SentBy(r) /\ s = c \o q
    BY <1>0, ConcatProperties DEF SentBy
  <1>3. IsFiniteSet(Reported(r)) /\ Cardinality(Reported(r)) \in Nat
    <2>1. Reported(r) \in SUBSET Components
      BY DEF Reported
    <2> QED
      BY <2>1, FS_Subset, FS_CardinalityType, Alternatives DEF RuntimeTypes
  <1>4. loops'[r]["im"] = "ended" \/ loops'[r]["im"] = loops[r]["im"]
    BY <1>1 DEF RuntimeTypes
  <1>5. CASE at[r] = "done" \/ ~Last(r, l)
    <2>1. results' = results
      BY <1>5 DEF LoopEnds
    <2>2. SentBy(r)' = s /\ OfInput(SentBy(r))' = OfInput(s) /\ IsRelay' = IsRelay
      BY <1>1, <1>2, <2>1, SameKind DEF SentBy, OfInput
    <2>3. at[r] # "done" => Reported(r)' = Reported(r)
      BY <1>1, <1>5, ReportedGrows
    <2> QED
      BY <1>1, <1>2, <1>4, <2>2, <2>3 DEF Counted
  <1>6. CASE at[r] # "done" /\ Last(r, l)
    <2>1. PICK x \in RunResults : results' = [results EXCEPT ![r] = Append(@, x)] /\ x.name = ComponentOf(l)
      <3>1. PICK error \in ErrorClasses : error \in Errors(r, l)
              /\ results' = [results EXCEPT ![r] = Append(@,
                                 IF l \in Backends THEN Result("herdr", firstBackend[r]) ELSE Result(l, error))]
        <4>1. Errors(r, l) \subseteq ErrorClasses
          BY DEF Errors, ErrorClasses
        <4> QED
          BY <1>6, <4>1 DEF LoopEnds
      <3>2. l \in LoopNames /\ "herdr" \in LoopNames /\ firstBackend[r] \in ErrorClasses
        BY Alternatives DEF RuntimeTypes, LoopNames
      <3> DEFINE y == IF l \in Backends THEN Result("herdr", firstBackend[r]) ELSE Result(l, error)
      <3>3. y \in RunResults /\ y.name = ComponentOf(l)
        BY <3>1, <3>2 DEF ComponentOf, Result, RunResults
      <3> QED
        BY <3>1, <3>3
    <2>2. results'[r] = Append(q, x)
      BY <1>0, <2>1 DEF RuntimeTypes
    <2>3. SentBy(r)' = Append(s, x)
      <3>1. SentBy(r)' = c \o Append(q, x)
        BY <1>0, <1>1, <2>2 DEF SentBy
      <3> QED
        BY <1>2, <3>1, Joined
    <2>4. Len(s) = Cardinality(Reported(r)) /\ Len(Append(s, x)) = Len(s) + 1
      BY <1>2, <1>6, Joined DEF Counted
    <2>5. Reported(r)' = Reported(r) \cup {ComponentOf(l)} /\ ComponentOf(l) \notin Reported(r)
      BY <1>1, <1>6, ReportedGrows
    <2>6. Cardinality(Reported(r)') = Cardinality(Reported(r)) + 1
      BY <1>3, <2>5, FS_AddElement
    <2>7. x.name = "im" => l = "im" /\ ~IsRelay /\ OfInput(s) = {} /\ loops'[r]["im"] = "ended"
      <3>1. SUFFICES ASSUME x.name = "im" PROVE l = "im" /\ ~IsRelay /\ OfInput(s) = {} /\ loops'[r]["im"] = "ended"
        OBVIOUS
      <3>2. l = "im" /\ ~IsRelay
        BY <2>1, <3>1, Alternatives DEF ComponentOf, RuntimeTypes
      <3>3. loops'[r]["im"] = "ended"
        BY <1>1, <3>2 DEF RuntimeTypes
      <3> QED
        BY <1>1, <1>2, <3>2, <3>3 DEF Counted
    <2>8. \A i, j \in OfInput(s) : i = j
      BY <1>2 DEF Counted
    <2>9. /\ \A i, j \in OfInput(SentBy(r)') : i = j
          /\ OfInput(SentBy(r)') # {} => x.name = "im" \/ OfInput(s) # {}
      BY <2>3, <2>7, <2>8, InputAppended
    <2>10. ~IsRelay /\ OfInput(SentBy(r)') # {} => loops'[r]["im"] = "ended"
      BY <1>2, <1>4, <2>7, <2>9 DEF Counted
    <2>11. at'[r] # "done" /\ IsRelay' = IsRelay /\ Len(SentBy(r)') = Cardinality(Reported(r)')
      BY <1>1, <1>6, <2>3, <2>4, <2>6, SameKind
    <2> QED
      BY <2>9, <2>10, <2>11 DEF Counted
  <1> QED
    BY <1>5, <1>6

LEMMA LoopEndsRuns ==
    ASSUME RuntimeInv, NEW r \in Runs, NEW l \in Loops, LoopEnds(r, l) PROVE RuntimeInv'
  <1>1. RuntimeTypes /\ RunOK(r) /\ Held(r) /\ Counted(r) /\ Caused(r) /\ Explained(r)
    BY DEF RuntimeInv, RunOK
  <1>2. PICK error \in ErrorClasses :
           /\ error \in Errors(r, l)
           /\ firstBackend' = IF ~Last(r, l) THEN [firstBackend EXCEPT ![r] = error] ELSE firstBackend
           /\ results' = IF at[r] = "done" \/ ~Last(r, l) THEN results
                         ELSE [results EXCEPT ![r] = Append(@,
                                 IF l \in Backends THEN Result("herdr", firstBackend[r]) ELSE Result(l, error))]
    <2>1. Errors(r, l) \subseteq ErrorClasses
      BY DEF Errors, ErrorClasses
    <2> QED
      BY <2>1 DEF LoopEnds
  <1>3. /\ loops[r][l] \in {"running", "ending"} /\ loops' = [loops EXCEPT ![r][l] = "ended"]
        /\ UNCHANGED <<kind, at, holder, lease, caller, collected, cause, outcome>>
    BY DEF LoopEnds
  <1>4. PICK x \in RunResults : x = IF l \in Backends THEN Result("herdr", firstBackend[r]) ELSE Result(l, error)
    BY <1>1, <1>2, Alternatives DEF RuntimeTypes, LoopNames, Result, RunResults
  <1>5. RuntimeTypes'
    <2>1. loops' \in [Runs -> [Loops -> LoopStates]]
      BY <1>1, <1>3 DEF RuntimeTypes, LoopStates
    <2>2. firstBackend' \in [Runs -> ErrorClasses]
      BY <1>1, <1>2 DEF RuntimeTypes
    <2>3. results' \in [Runs -> Seq(RunResults)]
      <3>1. results[r] \in Seq(RunResults) /\ Append(results[r], x) \in Seq(RunResults)
        BY <1>1, AppendProperties DEF RuntimeTypes
      <3> QED
        BY <1>1, <1>2, <1>4, <3>1 DEF RuntimeTypes
    <2> QED
      BY <1>1, <1>3, <2>1, <2>2, <2>3, SameKind DEF RuntimeTypes
  <1>6. Live(r) /\ ~Early(r) /\ ~Early(r)'
    BY <1>1, <1>3 DEF Live, Held, Early
  <1>7. Held(r)'
    BY <1>1, <1>3, <1>6, SameKind DEF Held, TimedOut
  <1>8. Counted(r)'
    BY <1>1, <1>5, LoopEndsCounted
  <1>9. ASSUME at[r] = "running"
        PROVE  /\ firstBackend'[r] = "context" => caller[r]
               /\ results'[r] # results[r] /\ x.error = "context" => caller[r]
    <2>1. error = "context" => Stopped(r, l)
      BY <1>2 DEF Errors
    <2>2. Stopped(r, l) => caller[r] \/ (l \in Backends /\ Last(r, l))
      <3>1. \A k, j, m \in Backends : k = j \/ j = m \/ k = m
        BY DEF Backends
      <3>2. \A k \in Backends : k # l /\ loops[r][k] = "ended" => (l \in Backends => Last(r, l))
        BY <3>1 DEF Last
      <3> QED
        BY <1>9, <3>2 DEF Stopped, Selecting
    <2>3. firstBackend[r] = "context" => caller[r]
      BY <1>1, <1>9 DEF Caused
    <2>4. CASE Last(r, l)
      <3>1. firstBackend' = firstBackend
        BY <1>2, <2>4
      <3>2. l \in Backends => x.error = firstBackend[r]
        BY <1>4 DEF Result
      <3>3. l \notin Backends => x.error = error
        BY <1>4 DEF Result
      <3> QED
        BY <2>1, <2>2, <2>3, <3>1, <3>2, <3>3
    <2>5. CASE ~Last(r, l)
      <3>1. firstBackend'[r] = error /\ results' = results
        BY <1>1, <1>2, <2>5 DEF RuntimeTypes
      <3>2. error = "context" => caller[r]
        BY <2>1, <2>2, <2>5
      <3> QED
        BY <3>1, <3>2
    <2> QED
      BY <2>4, <2>5
  <1>10. ASSUME at[r] = "running", NEW i \in 1..Len(results'[r]), results'[r][i].error = "context" PROVE caller[r]
    <2>1. results'[r] = results[r] \/ results'[r] = Append(results[r], x)
      BY <1>1, <1>2, <1>4 DEF RuntimeTypes
    <2>2. PICK q \in Seq(RunResults) : q = results[r]
      BY <1>1 DEF RuntimeTypes
    <2>3. \A j \in 1..Len(q) : q[j].error = "context" => caller[r]
      BY <1>1, <1>10, <2>2 DEF Caused
    <2>4. CASE results'[r] = q
      BY <1>10, <2>3, <2>4
    <2>5. CASE results'[r] = Append(q, x) /\ results'[r] # q
      <3>1. /\ Len(Append(q, x)) = Len(q) + 1 /\ Len(q) \in Nat /\ Append(q, x)[Len(q) + 1] = x
            /\ \A j \in 1..Len(q) : Append(q, x)[j] = q[j]
        BY AppendProperties
      <3>2. i \in 1..Len(q) \/ i = Len(q) + 1
        BY <1>10, <2>5, <3>1
      <3>3. CASE i \in 1..Len(q)
        BY <1>10, <2>3, <2>5, <3>1, <3>3
      <3>4. CASE i = Len(q) + 1
        <4>1. results'[r][i] = x /\ results'[r] # results[r]
          BY <2>2, <2>5, <3>1, <3>4
        <4>2. x.error = "context"
          BY <1>10, <4>1
        <4> QED
          BY <1>9, <1>10, <4>1, <4>2
      <3> QED
        BY <3>2, <3>3, <3>4
    <2> QED
      BY <2>1, <2>2, <2>4, <2>5
  <1>11. Caused(r)'
    <2>1. IsRelay' = IsRelay
      BY <1>3, SameKind
    <2>2. at'[r] = at[r] /\ caller'[r] = caller[r] /\ cause'[r] = cause[r] /\ collected'[r] = collected[r] /\ kind' = kind
      BY <1>3
    <2>3. at'[r] = "running" =>
         /\ firstBackend'[r] = "context" => caller'[r]
         /\ \A i \in 1..Len(results'[r]) : results'[r][i].error = "context" => caller'[r]
      <3>1. ASSUME at[r] = "running" PROVE firstBackend'[r] = "context" => caller[r]
        BY <1>9, <3>1
      <3>2. ASSUME at[r] = "running" PROVE \A i \in 1..Len(results'[r]) : results'[r][i].error = "context" => caller[r]
        BY <1>10, <3>2
      <3> QED
        BY <2>2, <3>1, <3>2
    <2> QED
      BY <1>1, <1>6, <2>1, <2>2, <2>3 DEF Caused, Result
  <1>12. Explained(r)'
    BY <1>1, <1>3, SameExplained
  <1>13. \A q \in Runs \ {r} : RunKept(q)
    BY <1>1, <1>2, <1>3 DEF RunKept, RuntimeTypes
  <1> QED
    BY <1>3, <1>5, <1>7, <1>8, <1>11, <1>12, <1>13, OneRun DEF RunOK

LEMMA SelectCallerRuns == ASSUME RuntimeInv, NEW r \in Runs, SelectCaller(r) PROVE RuntimeInv'
  <1>1. RuntimeTypes /\ RunOK(r) /\ Held(r) /\ Counted(r) /\ Caused(r)
    BY DEF RuntimeInv, RunOK
  <1>2. /\ at[r] = "running" /\ ~IsRelay /\ caller[r] /\ cause' = [cause EXCEPT ![r] = "parent"]
        /\ at' = [at EXCEPT ![r] = "stopping"]
        /\ UNCHANGED <<kind, holder, lease, caller, loops, results, firstBackend, collected, outcome>>
    BY DEF SelectCaller, Selecting, Move
  <1>3. at'[r] = "stopping" /\ cause'[r] = "parent" /\ RuntimeTypes'
    BY <1>1, <1>2, SameKind DEF RuntimeTypes, RunSteps, Causes
  <1>4. Held(r)'
    BY <1>1, <1>2, <1>3, SameKind DEF Held, Early, Live, TimedOut, RunSteps
  <1>5. Counted(r)'
    BY <1>1, <1>2, <1>3, SameCounted
  <1>6. Caused(r)'
    <2>1. ~IsRelay' /\ ~Early(r)' /\ caller'[r]
      BY <1>2, <1>3, SameKind DEF Early
    <2> QED
      BY <1>3, <2>1 DEF Caused
  <1>7. Explained(r)'
    BY <1>3 DEF Explained
  <1>8. \A q \in Runs \ {r} : RunKept(q)
    BY <1>1, <1>2 DEF RunKept, RuntimeTypes
  <1> QED
    BY <1>2, <1>3, <1>4, <1>5, <1>6, <1>7, <1>8, OneRun DEF RunOK

(* A result is received.                                                   *)
LEMMA Received ==
    ASSUME NEW c \in Seq(RunResults), NEW q \in Seq(RunResults), q # <<>>
    PROVE  /\ Append(c, Head(q)) \o Tail(q) = c \o q /\ Append(c, Head(q)) \in Seq(RunResults)
           /\ Tail(q) \in Seq(RunResults) /\ Head(q) \in RunResults /\ Head(q) = q[1] /\ Len(q) >= 1
           /\ Append(c, Head(q)) # <<>>
           /\ Append(c, Head(q))[1] = IF c = <<>> THEN Head(q) ELSE c[1]
  <1>1. Head(q) \in RunResults /\ Tail(q) \in Seq(RunResults) /\ q = <<Head(q)>> \o Tail(q) /\ Head(q) = q[1]
        /\ Len(q) >= 1
    OBVIOUS
  <1>2. PICK x \in RunResults, t \in Seq(RunResults) : x = Head(q) /\ t = Tail(q)
    BY <1>1
  <1>3. Append(c, x) = c \o <<x>> /\ Append(c, x) \in Seq(RunResults) /\ Len(Append(c, x)) = Len(c) + 1
        /\ <<x>> \in Seq(RunResults) /\ Len(c) \in Nat
    OBVIOUS
  <1>4. (c \o <<x>>) \o t = c \o (<<x>> \o t)
    BY <1>3, ConcatAssociative
  <1>5. Append(c, x)[1] = IF c = <<>> THEN x ELSE c[1]
    <2>1. CASE c = <<>>
      BY <2>1
    <2>2. CASE c # <<>>
      BY <2>2, EmptySeq, AppendProperties
    <2> QED
      BY <2>1, <2>2
  <1> QED
    BY <1>1, <1>2, <1>3, <1>4, <1>5

LEMMA ReceiveRuns ==
    ASSUME RuntimeTypes, NEW r \in Runs, Counted(r), Receive(r), kind' = kind, loops' = loops,
           at'[r] = "done" <=> at[r] = "done"
    PROVE  /\ Counted(r)' /\ results[r] # <<>> /\ Head(results[r]) = results[r][1] /\ Len(results[r]) >= 1
           /\ Head(results[r]) \in RunResults
           /\ results' \in [Runs -> Seq(RunResults)] /\ collected' \in [Runs -> Seq(RunResults)]
           /\ collected'[r] # <<>>
           /\ collected'[r][1] = IF collected[r] = <<>> THEN Head(results[r]) ELSE collected[r][1]
           /\ \A q \in Runs \ {r} : results'[q] = results[q] /\ collected'[q] = collected[q]
  <1>1. PICK c \in Seq(RunResults), q \in Seq(RunResults) : c = collected[r] /\ q = results[r] /\ q # <<>>
    BY DEF RuntimeTypes, Receive
  <1>2. results'[r] = Tail(q) /\ collected'[r] = Append(c, Head(q))
    BY <1>1 DEF RuntimeTypes, Receive
  <1>3. SentBy(r)' = SentBy(r)
    <2>1. SentBy(r)' = Append(c, Head(q)) \o Tail(q) /\ SentBy(r) = c \o q
      BY <1>1, <1>2 DEF SentBy
    <2> QED
      BY <1>1, <2>1, Received
  <1>4. Counted(r)'
    <2>1. Reported(r)' = Reported(r) /\ OfInput(SentBy(r))' = OfInput(SentBy(r)) /\ IsRelay' = IsRelay
      BY <1>3, SameKind DEF Reported, OfInput
    <2> QED
      BY <1>3, <2>1 DEF Counted
  <1>5. results' \in [Runs -> Seq(RunResults)] /\ collected' \in [Runs -> Seq(RunResults)]
    <2>1. Tail(q) \in Seq(RunResults) /\ Append(c, Head(q)) \in Seq(RunResults)
      BY <1>1, Received
    <2> QED
      BY <1>1, <2>1 DEF RuntimeTypes, Receive
  <1>6. \A j \in Runs \ {r} : results'[j] = results[j] /\ collected'[j] = collected[j]
    BY DEF RuntimeTypes, Receive
  <1>7. /\ Head(q) \in RunResults /\ Head(q) = q[1] /\ Len(q) >= 1 /\ Append(c, Head(q)) # <<>>
        /\ Append(c, Head(q))[1] = IF c = <<>> THEN Head(q) ELSE c[1]
    BY <1>1, Received
  <1>8. /\ results[r] # <<>> /\ Head(results[r]) = results[r][1] /\ Len(results[r]) >= 1
        /\ Head(results[r]) \in RunResults /\ collected'[r] # <<>>
    BY <1>1, <1>2, <1>7
  <1>9. collected'[r][1] = IF collected[r] = <<>> THEN Head(results[r]) ELSE collected[r][1]
    BY <1>1, <1>2, <1>7
  <1> QED
    BY <1>4, <1>5, <1>6, <1>8, <1>9

LEMMA SelectResultRuns == ASSUME RuntimeInv, NEW r \in Runs, SelectResult(r) PROVE RuntimeInv'
  <1>1. RuntimeTypes /\ RunOK(r) /\ Held(r) /\ Counted(r) /\ Caused(r)
    BY DEF RuntimeInv, RunOK
  <1>2. /\ at[r] = "running" /\ Receive(r) /\ at' = [at EXCEPT ![r] = "stopping"]
        /\ cause' = [cause EXCEPT ![r] = CauseOf(r, Head(results[r]))]
        /\ UNCHANGED <<kind, holder, lease, caller, loops, firstBackend, outcome>>
    BY DEF SelectResult, Selecting, Move
  <1>3. at'[r] = "stopping" /\ at' \in [Runs -> RunSteps]
    BY <1>1, <1>2 DEF RuntimeTypes, RunSteps
  <1>4. PICK x \in RunResults : x = Head(results[r]) /\ x = results[r][1] /\ Len(results[r]) >= 1
    BY <1>1, <1>2, <1>3, ReceiveRuns
  <1>5. collected'[r] # <<>> /\ collected'[r][1] = x /\ Counted(r)'
    BY <1>1, <1>2, <1>3, <1>4, ReceiveRuns DEF Caused
  <1>6. cause'[r] = CauseOf(r, x) /\ CauseOf(r, x) \in Causes /\ cause' \in [Runs -> Causes]
    BY <1>1, <1>2, <1>4 DEF RuntimeTypes, CauseOf, Causes
  <1>7. RuntimeTypes'
    BY <1>1, <1>2, <1>3, <1>6, ReceiveRuns, SameKind DEF RuntimeTypes
  <1>8. Held(r)'
    BY <1>1, <1>2, <1>3, SameKind DEF Held, Early, Live, TimedOut, RunSteps
  <1>9. x.error = "context" => caller[r]
    BY <1>1, <1>2, <1>4 DEF Caused, RuntimeTypes
  <1>10. Caused(r)'
    <2>1. /\ CauseOf(r, x) # "none" /\ (CauseOf(r, x) = "parent" => caller[r])
          /\ CauseOf(r, x) = "normal im" => kind = "interactive" /\ x = Result("im", "closed")
      BY <1>4 DEF CauseOf, RunResults, Result
    <2>2. ~Early(r)' /\ at'[r] = "stopping" /\ caller'[r] = caller[r] /\ Result("im", "closed")' = Result("im", "closed")
      BY <1>2, <1>3 DEF Early, Result
    <2> QED
      BY <1>2, <1>5, <1>6, <1>9, <2>1, <2>2 DEF Caused
  <1>11. Explained(r)'
    BY <1>3 DEF Explained
  <1>12. \A q \in Runs \ {r} : RunKept(q)
    <2>1. \A q \in Runs \ {r} : results'[q] = results[q] /\ collected'[q] = collected[q]
      BY <1>1, <1>2, <1>3, ReceiveRuns
    <2> QED
      BY <1>1, <1>2, <2>1 DEF RunKept, RuntimeTypes
  <1> QED
    BY <1>2, <1>5, <1>7, <1>8, <1>10, <1>11, <1>12, OneRun DEF RunOK

LEMMA CollectRuns == ASSUME RuntimeInv, NEW r \in Runs, Collect(r) PROVE RuntimeInv'
  <1>1. RuntimeTypes /\ RunOK(r) /\ Held(r) /\ Counted(r) /\ Caused(r)
    BY DEF RuntimeInv, RunOK
  <1>2. at[r] = "stopping" /\ Receive(r)
        /\ UNCHANGED <<kind, at, holder, lease, caller, loops, firstBackend, cause, outcome>>
    BY DEF Collect
  <1>3. Counted(r)' /\ collected'[r] # <<>>
        /\ collected'[r][1] = IF collected[r] = <<>> THEN Head(results[r]) ELSE collected[r][1]
    BY <1>1, <1>2, ReceiveRuns
  <1>4. RuntimeTypes'
    BY <1>1, <1>2, ReceiveRuns, SameKind DEF RuntimeTypes
  <1>5. Held(r)'
    BY <1>1, <1>2, SameKind DEF Held, Early, Live, TimedOut
  <1>6. Caused(r)'
    <2>1. IsRelay' = IsRelay /\ ~Early(r)' /\ at'[r] = "stopping" /\ Result("im", "closed")' = Result("im", "closed")
      BY <1>2, SameKind DEF Early, Result
    <2>2. cause[r] # "none" /\ (cause[r] # "parent" \/ IsRelay) => collected'[r][1] = collected[r][1]
      BY <1>1, <1>3 DEF Caused
    <2> QED
      BY <1>1, <1>2, <1>3, <2>1, <2>2 DEF Caused
  <1>7. Explained(r)'
    BY <1>2 DEF Explained
  <1>8. \A q \in Runs \ {r} : RunKept(q)
    <2>1. \A q \in Runs \ {r} : results'[q] = results[q] /\ collected'[q] = collected[q]
      BY <1>1, <1>2, ReceiveRuns
    <2> QED
      BY <1>1, <1>2, <2>1 DEF RunKept, RuntimeTypes
  <1> QED
    BY <1>2, <1>3, <1>4, <1>5, <1>6, <1>7, <1>8, OneRun DEF RunOK

(* The stop: when every result is collected no loop runs, and the error    *)
(* that Run returns says why it stopped.                                   *)
LEMMA CollectedEnded ==
    ASSUME RuntimeTypes, NEW r \in Runs, Counted(r), at[r] # "done", AllCollected(r)
    PROVE  ~Live(r)
  <1>1. PICK c \in Seq(RunResults), q \in Seq(RunResults) : c = collected[r] /\ q = results[r]
    BY DEF RuntimeTypes
  <1>2. Len(c) + Len(q) = Cardinality(Reported(r)) /\ Len(c) = Cardinality(Components)
    BY <1>1, ConcatProperties DEF Counted, SentBy, AllCollected
  <1>3. Reported(r) \in SUBSET Components /\ IsFiniteSet(Components)
    BY Alternatives DEF Reported, RuntimeTypes
  <1>4. Cardinality(Reported(r)) <= Cardinality(Components) /\ Cardinality(Reported(r)) \in Nat
    BY <1>3, FS_Subset, FS_CardinalityType
  <1>5. Cardinality(Reported(r)) = Cardinality(Components)
    BY <1>2, <1>4, LenProperties
  <1>6. Reported(r) = Components
    BY <1>3, <1>5, FS_Subset
  <1>7. ASSUME NEW l \in Loops PROVE loops[r][l] = "ended"
    BY <1>6, <1>7 DEF Reported, Components, Backends, Loops, IsRelay
  <1> QED
    BY <1>7 DEF Live

LEMMA RootErrorIs ==
    ASSUME RuntimeTypes, NEW r \in Runs, at[r] = "stopping", Counted(r), Caused(r)
    PROVE  /\ RootError(r) \subseteq {"failed", "closed", "stopped"}
           /\ ~caller[r] => \/ InputEnded(r)
                            \/ RootError(r) # {}
           /\ ~caller[r] /\ ~IsRelay /\ (\E i \in PrimaryFailures(r) : collected[r][i].error = "failed")
                => "failed" \in RootError(r)
  <1>1. PICK c \in Seq(RunResults) : c = collected[r]
    BY DEF RuntimeTypes
  <1>2. \A i \in 1..Len(c) : c[i] \in RunResults /\ c[i].error \in ErrorClasses
    <2>1. \A i \in 1..Len(c) : c[i] \in RunResults
      BY ElementOfSeq
    <2> QED
      BY <2>1 DEF RunResults
  <1>3. PrimaryFailures(r) \subseteq Failures(r)
        /\ Failures(r) = {i \in 1..Len(c) : c[i].error \in {"failed", "closed"}}
    BY <1>1, <1>2 DEF PrimaryFailures, Failures, ErrorClasses
  <1>4. CASE IsRelay
    <2>1. c # <<>> /\ (c[1].error = "context" => caller[r])
      BY <1>1, <1>4 DEF Caused
    <2>2. Len(c) \in Nat \ {0}
      BY <2>1, EmptySeq
    <2>3. c[1].error \in ErrorClasses
      BY <1>2, <2>2
    <2> QED
      BY <1>1, <1>4, <2>1, <2>3 DEF RootError, RelayRootError, Derived, ErrorClasses
  <1>5. CASE ~IsRelay
    <2>1. CASE cause[r] = "parent"
      BY <1>5, <2>1 DEF RootError, RuntimeRootError, Caused
    <2>2. CASE cause[r] = "normal im"
      <3>1. kind = "interactive" /\ c[1] = Result("im", "closed") /\ c # <<>>
        BY <1>1, <2>2 DEF Caused
      <3>2. Head(c) = c[1] /\ InputEnded(r) /\ 1 \in 1..Len(c)
        BY <1>1, <3>1, EmptySeq DEF InputEnded
      <3>3. ASSUME NEW i \in PrimaryFailures(r), c[i].error = "failed" PROVE c[i].name # "im"
        <4>1. PICK q \in Seq(RunResults) : q = results[r]
          BY DEF RuntimeTypes
        <4>2. /\ Len(c \o q) = Len(c) + Len(q) /\ Len(c) \in Nat /\ Len(q) \in Nat
              /\ \A j \in 1..Len(c) : (c \o q)[j] = c[j]
          BY ConcatProperties, LenProperties
        <4>3. 1 \in OfInput(c \o q) /\ (c[i].name = "im" => i \in OfInput(c \o q)) /\ i \in 1..Len(c)
          BY <1>3, <3>1, <3>2, <4>2 DEF OfInput, Result
        <4>4. c[i].name = "im" => i = 1
          BY <1>1, <4>1, <4>3 DEF Counted, SentBy
        <4> QED
          BY <3>1, <3>3, <4>4 DEF Result
      <3>4. (\E i \in PrimaryFailures(r) : c[i].error = "failed") => "failed" \in RuntimeRootError(r)
        BY <1>1, <1>3, <2>2, <3>3 DEF RuntimeRootError
      <3>5. RuntimeRootError(r) \subseteq {"failed"}
        BY <2>2 DEF RuntimeRootError
      <3> QED
        BY <1>1, <1>5, <3>2, <3>4, <3>5 DEF RootError
    <2>3. CASE cause[r] = "component"
      <3>1. RootError(r) = IF PrimaryFailures(r) = {} THEN {"stopped"}
                           ELSE {c[i].error : i \in PrimaryFailures(r)}
        BY <1>1, <1>5, <2>3 DEF RootError, RuntimeRootError
      <3> QED
        <4>1. \A i \in PrimaryFailures(r) : c[i].error \in {"failed", "closed"}
          BY <1>3
        <4>2. RootError(r) \subseteq {"failed", "closed", "stopped"} /\ RootError(r) # {}
          BY <3>1, <4>1
        <4>3. (\E i \in PrimaryFailures(r) : c[i].error = "failed") => "failed" \in RootError(r)
          BY <3>1
        <4> QED
          BY <1>1, <4>2, <4>3
    <2> QED
      BY <2>1, <2>2, <2>3 DEF Caused, RuntimeTypes, Causes
  <1> QED
    BY <1>4, <1>5

LEMMA StopRuns ==
    ASSUME RuntimeInv, NEW r \in Runs, at[r] = "stopping", NEW o \in SUBSET OutcomeClasses,
           RootError(r) \subseteq o \/ caller[r], Live(r) => "timeout" \in o,
           at' = [at EXCEPT ![r] = "closing"], outcome' = [outcome EXCEPT ![r] = @ \cup o],
           UNCHANGED <<kind, holder, lease, caller, loops, firstBackend, results, collected, cause>>
    PROVE  RuntimeInv'
  <1>1. RuntimeTypes /\ RunOK(r) /\ Held(r) /\ Counted(r) /\ Caused(r)
    BY DEF RuntimeInv, RunOK
  <1>2. outcome' = [outcome EXCEPT ![r] = o]
    BY <1>1 DEF Held
  <1>3. RuntimeTypes' /\ at'[r] = "closing" /\ outcome'[r] = o
    <2>1. lease' \in [Runs -> {"none", "open", "closed"}] /\ holder' \in Runs \cup {NoRun}
          /\ loops' \in [Runs -> [Loops -> LoopStates]]
      BY <1>1 DEF RuntimeTypes
    <2>2. at' \in [Runs -> RunSteps] /\ at'[r] = "closing"
      BY <1>1 DEF RuntimeTypes, RunSteps
    <2>3. outcome' \in [Runs -> SUBSET OutcomeClasses] /\ outcome'[r] = o
      BY <1>1, <1>2 DEF RuntimeTypes
    <2> QED
      BY <1>1, <2>1, <2>2, <2>3, NextTypes
  <1>4. Held(r)'
    <2>1. holder = r /\ (HasLease => lease[r] = "open") /\ Live(r)' = Live(r) /\ HasLease' = HasLease
      BY <1>1, SameKind DEF Held, RunSteps, Live
    <2> QED
      BY <1>3, <2>1 DEF Held, Early, TimedOut
  <1>5. Counted(r)'
    BY <1>1, <1>3, SameCounted
  <1>6. Caused(r)'
    <2>1. IsRelay' = IsRelay /\ ~Early(r)' /\ Result("im", "closed")' = Result("im", "closed")
      BY <1>3, SameKind DEF Early, Result
    <2> QED
      BY <1>1, <1>3, <2>1 DEF Caused
  <1>7. Explained(r)'
    <2>1. InputEnded(r)' = InputEnded(r) /\ PrimaryFailures(r)' = PrimaryFailures(r) /\ IsRelay' = IsRelay
      BY SameKind DEF InputEnded, PrimaryFailures, Failures, Primary
    <2>2. ~caller[r] => InputEnded(r) \/ o \cap {"failed", "closed", "stopped"} # {}
      BY <1>1, RootErrorIs
    <2>3. ~caller[r] /\ ~IsRelay /\ (\E i \in PrimaryFailures(r) : collected[r][i].error = "failed") => "failed" \in o
      BY <1>1, RootErrorIs
    <2> QED
      BY <1>3, <2>1, <2>2, <2>3 DEF Explained
  <1>8. \A q \in Runs \ {r} : RunKept(q)
    BY <1>1 DEF RunKept, RuntimeTypes
  <1> QED
    BY <1>3, <1>4, <1>5, <1>6, <1>7, <1>8, OneRun DEF RunOK

LEMMA FinishRuns == ASSUME RuntimeInv, NEW r \in Runs, Finish(r) \/ ShutdownTimeout(r) PROVE RuntimeInv'
  <1>1. RuntimeTypes /\ Held(r) /\ Counted(r) /\ Caused(r)
    BY DEF RuntimeInv, RunOK
  <1>2. at[r] = "stopping" /\ at' = [at EXCEPT ![r] = "closing"]
        /\ UNCHANGED <<kind, holder, lease, caller, loops, firstBackend, results, collected, cause>>
    BY DEF Finish, ShutdownTimeout, Move, LoopQuiet
  <1>3. RootError(r) \subseteq {"failed", "closed", "stopped"}
    BY <1>1, <1>2, RootErrorIs
  <1>4. CASE Finish(r)
    <2> DEFINE o == IF IsRelay /\ caller[r] THEN {"canceled"} ELSE RootError(r)
    <2>1. outcome' = [outcome EXCEPT ![r] = @ \cup o] /\ ~Live(r)
      BY <1>1, <1>2, <1>4, CollectedEnded DEF Finish, AddError
    <2>2. o \in SUBSET OutcomeClasses /\ (RootError(r) \subseteq o \/ caller[r])
      BY <1>3 DEF OutcomeClasses
    <2> QED
      BY <1>2, <2>1, <2>2, StopRuns
  <1>5. CASE ShutdownTimeout(r)
    <2> DEFINE o == RootError(r) \cup {"timeout"}
    <2>1. outcome' = [outcome EXCEPT ![r] = @ \cup o]
      BY <1>5 DEF ShutdownTimeout, AddError
    <2>2. o \in SUBSET OutcomeClasses /\ RootError(r) \subseteq o /\ "timeout" \in o
      BY <1>3 DEF OutcomeClasses
    <2> QED
      BY <1>2, <2>1, <2>2, StopRuns
  <1> QED
    BY <1>4, <1>5

(* The deferred calls: what has timed out keeps lock and lease until its   *)
(* loops have ended.                                                       *)
LEMMA FinishDialPathLeaseRuns == ASSUME RuntimeInv, NEW r \in Runs, FinishDialPathLease(r) PROVE RuntimeInv'
  <1>1. RuntimeTypes /\ RunOK(r) /\ Held(r) /\ Counted(r) /\ Caused(r) /\ Explained(r)
    BY DEF RuntimeInv, RunOK
  <1>2. PICK l \in {"none", "open", "closed"}, o \in {{}, {"cleanup"}} :
           /\ at[r] = "closing" /\ at' = [at EXCEPT ![r] = "unlock"]
           /\ lease' = [lease EXCEPT ![r] = l] /\ (TimedOut(r) => l = lease[r])
           /\ outcome' = [outcome EXCEPT ![r] = @ \cup o]
           /\ UNCHANGED <<kind, holder, caller, loops, firstBackend, results, collected, cause>>
    <2>1. outcome = [outcome EXCEPT ![r] = @ \cup {}] /\ lease = [lease EXCEPT ![r] = lease[r]]
          /\ lease[r] \in {"none", "open", "closed"}
      BY <1>1 DEF RuntimeTypes
    <2>2. CASE Retained(r)
      BY <2>1, <2>2 DEF FinishDialPathLease, Move, LoopQuiet
    <2>3. CASE ~Retained(r)
      <3>1. (IF lease[r] = "open" THEN "closed" ELSE lease[r]) \in {"none", "open", "closed"}
        BY <2>1
      <3> QED
        BY <2>1, <2>3, <3>1 DEF FinishDialPathLease, Move, LoopQuiet, Close, AddError, Retained
    <2> QED
      BY <2>2, <2>3
  <1>3. PICK p \in SUBSET OutcomeClasses : outcome' = [outcome EXCEPT ![r] = p] /\ p = outcome[r] \cup o
    BY <1>1, <1>2 DEF RuntimeTypes, OutcomeClasses
  <1>4. RuntimeTypes' /\ at'[r] = "unlock" /\ outcome'[r] = p /\ lease'[r] = l
    <2>1. holder' \in Runs \cup {NoRun} /\ loops' \in [Runs -> [Loops -> LoopStates]]
      BY <1>1, <1>2 DEF RuntimeTypes
    <2>2. at' \in [Runs -> RunSteps] /\ at'[r] = "unlock"
      BY <1>1, <1>2 DEF RuntimeTypes, RunSteps
    <2>3. lease' \in [Runs -> {"none", "open", "closed"}] /\ lease'[r] = l
      BY <1>1, <1>2 DEF RuntimeTypes
    <2>4. outcome' \in [Runs -> SUBSET OutcomeClasses] /\ outcome'[r] = p
      BY <1>1, <1>3 DEF RuntimeTypes
    <2>5. UNCHANGED <<caller, firstBackend, results, collected, cause>> /\ kind' = kind
      BY <1>2
    <2> QED
      BY <1>1, <2>1, <2>2, <2>3, <2>4, <2>5, NextTypes
  <1>5. Held(r)'
    <2>1. /\ holder = r /\ Live(r)' = Live(r) /\ HasLease' = HasLease
          /\ HasLease => lease[r] = "open"
          /\ Live(r) => "timeout" \in outcome[r]
      BY <1>1, <1>2, SameKind DEF Held, RunSteps, Live, TimedOut
    <2>2. Live(r) /\ HasLease => l = "open"
      BY <1>2, <2>1 DEF TimedOut
    <2> QED
      BY <1>2, <1>3, <1>4, <2>1, <2>2 DEF Held, Early, TimedOut
  <1>6. Counted(r)'
    BY <1>1, <1>2, <1>4, SameCounted
  <1>7. Caused(r)'
    <2>1. IsRelay' = IsRelay /\ ~Early(r)' /\ Result("im", "closed")' = Result("im", "closed")
      BY <1>2, <1>4, SameKind DEF Early, Result
    <2> QED
      BY <1>1, <1>2, <1>4, <2>1 DEF Caused
  <1>8. Explained(r)'
    BY <1>1, <1>2, <1>3, <1>4, SameExplained
  <1>9. \A q \in Runs \ {r} : RunKept(q)
    BY <1>1, <1>2 DEF RunKept, RuntimeTypes
  <1> QED
    BY <1>2, <1>4, <1>5, <1>6, <1>7, <1>8, <1>9, OneRun DEF RunOK

LEMMA FinishProcessLockRuns == ASSUME RuntimeInv, NEW r \in Runs, FinishProcessLock(r) PROVE RuntimeInv'
  <1>1. RuntimeTypes /\ RunOK(r) /\ Held(r) /\ Counted(r) /\ Caused(r)
    BY DEF RuntimeInv, RunOK
  <1>2. PICK o \in {{}, {"release"}} :
           /\ at[r] = "unlock" /\ at' = [at EXCEPT ![r] = "done"]
           /\ outcome' = [outcome EXCEPT ![r] = @ \cup o]
           /\ holder' \in {holder, NoRun} /\ (TimedOut(r) => holder' = holder)
           /\ results' = [results EXCEPT ![r] = <<>>] /\ collected' = [collected EXCEPT ![r] = <<>>]
           /\ cause' = [cause EXCEPT ![r] = "none"]
           /\ UNCHANGED <<kind, lease, caller, loops, firstBackend>>
    <2>1. outcome = [outcome EXCEPT ![r] = @ \cup {}]
      BY <1>1 DEF RuntimeTypes
    <2> QED
      BY <2>1 DEF FinishProcessLock, Move, AddError, Retained
  <1>3. /\ at'[r] = "done" /\ results'[r] = <<>> /\ collected'[r] = <<>> /\ cause'[r] = "none"
        /\ outcome'[r] = outcome[r] \cup o
    BY <1>1, <1>2 DEF RuntimeTypes
  <1>4. RuntimeTypes'
    <2>1. at' \in [Runs -> RunSteps] /\ cause' \in [Runs -> Causes] /\ holder' \in Runs \cup {NoRun}
      BY <1>1, <1>2 DEF RuntimeTypes, RunSteps, Causes
    <2>2. outcome' \in [Runs -> SUBSET OutcomeClasses]
      BY <1>1, <1>2 DEF RuntimeTypes, OutcomeClasses
    <2>3. results' \in [Runs -> Seq(RunResults)] /\ collected' \in [Runs -> Seq(RunResults)]
      BY <1>1, <1>2, EmptySeq DEF RuntimeTypes
    <2> QED
      BY <1>1, <1>2, <2>1, <2>2, <2>3, SameKind DEF RuntimeTypes
  <1>5. Held(r)'
    <2>1. /\ holder = r /\ Live(r)' = Live(r) /\ HasLease' = HasLease
          /\ Live(r) /\ HasLease => lease[r] = "open"
          /\ Live(r) => "timeout" \in outcome[r]
      BY <1>1, <1>2, SameKind DEF Held, RunSteps, Live, TimedOut
    <2> QED
      BY <1>2, <1>3, <2>1 DEF Held, Early, TimedOut
  <1>6. Counted(r)'
    <2>1. SentBy(r)' = <<>>
      BY <1>3 DEF SentBy
    <2>2. OfInput(SentBy(r)') = {}
      BY <2>1 DEF OfInput
    <2> QED
      BY <1>3, <2>1, <2>2 DEF Counted
  <1>7. Caused(r)'
    BY <1>3 DEF Caused, Early
  <1>8. Explained(r)'
    BY <1>3 DEF Explained
  <1>9. \A q \in Runs \ {r} : RunKept(q)
    BY <1>1, <1>2 DEF RunKept, RuntimeTypes
  <1>10. holder' = holder \/ holder \in {r, NoRun}
    BY <1>1, <1>2 DEF Held, RunSteps
  <1> QED
    BY <1>2, <1>4, <1>5, <1>6, <1>7, <1>8, <1>9, <1>10, OneRun DEF RunOK

LEMMA RetainedRuns ==
    ASSUME RuntimeInv, NEW r \in Runs, CloseRetainedLease(r) \/ ReleaseRetainedLock(r) PROVE RuntimeInv'
  <1>1. RuntimeTypes /\ RunOK(r) /\ Held(r) /\ Counted(r) /\ Caused(r) /\ Explained(r)
    BY DEF RuntimeInv, RunOK
  <1>2. /\ at[r] = "done" /\ ~Live(r)
        /\ lease' \in [Runs -> {"none", "open", "closed"}] /\ \A q \in Runs \ {r} : lease'[q] = lease[q]
        /\ holder' = holder \/ (holder = r /\ holder' = NoRun)
        /\ UNCHANGED <<kind, at, caller, outcome, loops, firstBackend, results, collected, cause>>
    <2>1. ComponentsDone(r) /\ at[r] = "done" /\ ~Live(r)
      BY DEF CloseRetainedLease, ReleaseRetainedLock, ComponentsDone, Live
    <2>2. CASE CloseRetainedLease(r)
      <3>1. lease' = [lease EXCEPT ![r] = "closed"] /\ holder' = holder
            /\ UNCHANGED <<kind, at, caller, outcome, loops, firstBackend, results, collected, cause>>
        BY <2>2 DEF CloseRetainedLease, Close, LoopQuiet
      <3> QED
        BY <1>1, <2>1, <3>1 DEF RuntimeTypes
    <2>3. CASE ReleaseRetainedLock(r)
      BY <1>1, <2>1, <2>3 DEF ReleaseRetainedLock, LoopQuiet, RuntimeTypes
    <2> QED
      BY <2>2, <2>3
  <1>3. RuntimeTypes'
    BY <1>1, <1>2, SameKind DEF RuntimeTypes
  <1>4. Held(r)'
    <2>1. ~Live(r)' /\ at'[r] = "done"
      BY <1>2, SameKind DEF Live
    <2> QED
      BY <2>1 DEF Held, Early
  <1>5. Counted(r)'
    BY <1>1, <1>2, SameCounted
  <1>6. Caused(r)'
    <2>1. IsRelay' = IsRelay /\ Early(r)' = Early(r) /\ Result("im", "closed")' = Result("im", "closed")
      BY <1>2, SameKind DEF Early, Result
    <2> QED
      BY <1>1, <1>2, <2>1 DEF Caused
  <1>7. Explained(r)'
    BY <1>1, <1>2, SameExplained
  <1>8. \A q \in Runs \ {r} : RunKept(q)
    BY <1>2 DEF RunKept
  <1> QED
    BY <1>2, <1>3, <1>4, <1>5, <1>6, <1>7, <1>8, OneRun DEF RunOK

LEMMA InitRuns == RuntimeInit => RuntimeInv
  <1> SUFFICES ASSUME RuntimeInit PROVE RuntimeInv
    OBVIOUS
  <1>1. RuntimeTypes
    <2>1. \A r \in Runs : [l \in Loops |-> "off"] \in [Loops -> LoopStates]
      BY DEF LoopStates
    <2> QED
      BY <2>1, EmptySeq DEF RuntimeInit, RuntimeTypes, RunSteps, ErrorClasses, Causes
  <1>2. ASSUME NEW r \in Runs PROVE RunOK(r)
    <2>1. /\ at[r] = "idle" /\ results[r] = <<>> /\ collected[r] = <<>> /\ cause[r] = "none" /\ outcome[r] = {}
          /\ firstBackend[r] = "none" /\ \A l \in Loops : loops[r][l] = "off"
      BY DEF RuntimeInit
    <2>2. Reported(r) = {} /\ ~Live(r) /\ kind \in RunKinds
      BY <1>1, <2>1, Alternatives DEF Reported, Live, RuntimeTypes
    <2>3. Held(r)
      BY <2>1, <2>2 DEF Held
    <2>4. SentBy(r) = <<>> /\ Cardinality({}) = 0 /\ Len(<<>>) = 0
      BY <2>1, <2>2, Alternatives DEF SentBy
    <2>5. OfInput(SentBy(r)) = {}
      BY <2>4 DEF OfInput
    <2>6. Counted(r)
      BY <2>1, <2>2, <2>4, <2>5 DEF Counted
    <2>7. Caused(r) /\ Explained(r)
      BY <2>1 DEF Caused, Early, Explained
    <2> QED
      BY <2>3, <2>6, <2>7 DEF RunOK
  <1> QED
    BY <1>1, <1>2 DEF RuntimeInv

LEMMA NextRuns == RuntimeInv /\ [RuntimeNext]_runtimeVars => RuntimeInv'
  <1> SUFFICES ASSUME RuntimeInv, [RuntimeNext]_runtimeVars PROVE RuntimeInv'
    OBVIOUS
  <1>1. CASE RuntimeNext
    <2>1. PICK r \in Runs :
            \/ AcquireLock(r) \/ PrepareDialPath(r) \/ Assemble(r) \/ CallerCancels(r)
            \/ ImCloses(r) \/ \E l \in Loops : LoopEnds(r, l)
            \/ SelectCaller(r) \/ SelectResult(r) \/ Collect(r) \/ Finish(r) \/ ShutdownTimeout(r)
            \/ FinishDialPathLease(r) \/ FinishProcessLock(r)
            \/ CloseRetainedLease(r) \/ ReleaseRetainedLock(r)
      BY <1>1 DEF RuntimeNext
    <2>2. CASE AcquireLock(r) \/ PrepareDialPath(r) \/ Assemble(r) \/ CallerCancels(r) \/ ImCloses(r)
      BY <2>2, AcquireLockRuns, PrepareDialPathRuns, AssembleRuns, CallerCancelsRuns, ImClosesRuns
    <2>3. CASE \E l \in Loops : LoopEnds(r, l)
      BY <2>3, LoopEndsRuns
    <2>4. CASE SelectCaller(r) \/ SelectResult(r) \/ Collect(r) \/ Finish(r) \/ ShutdownTimeout(r)
      BY <2>4, SelectCallerRuns, SelectResultRuns, CollectRuns, FinishRuns
    <2>5. CASE FinishDialPathLease(r) \/ FinishProcessLock(r) \/ CloseRetainedLease(r) \/ ReleaseRetainedLock(r)
      BY <2>5, FinishDialPathLeaseRuns, FinishProcessLockRuns, RetainedRuns
    <2> QED
      BY <2>1, <2>2, <2>3, <2>4, <2>5
  <1>2. CASE UNCHANGED runtimeVars
    <2>1. kind' = kind /\ holder' = holder /\ \A q \in Runs : RunKept(q)
      BY <1>2 DEF runtimeVars, RunKept
    <2>2. RuntimeTypes'
      BY <1>2, SameKind DEF RuntimeInv, RuntimeTypes, runtimeVars
    <2>3. ASSUME NEW q \in Runs PROVE RunOK(q)'
      BY <2>1, OtherRun DEF RuntimeInv
    <2> QED
      BY <2>2, <2>3 DEF RuntimeInv
  <1> QED
    BY <1>1, <1>2

(* While a loop of a run still runs, even after Run gave up waiting, the   *)
(* run has the process lock and its dial path, and the error of each run   *)
(* names the reason of its stop (runRuntime, finishProcessLock,            *)
(* finishDialPathLease, runtimeRootError).                                 *)
THEOREM PalRuns == RuntimeSpec => []RunsContained
  <1>1. RuntimeInv => RunsContained
    <2> SUFFICES ASSUME RuntimeInv, NEW r \in Runs
                 PROVE  /\ (\E l \in Loops : loops[r][l] \in {"running", "ending"})
                             => holder = r /\ (HasLease => lease[r] = "open")
                        /\ Explained(r)
      BY DEF RunsContained, HeldWhileRunning, StopExplained
    <2>1. Held(r) /\ Explained(r) /\ at[r] \in RunSteps
      BY DEF RuntimeInv, RunOK, RuntimeTypes
    <2>2. Live(r) => ~Early(r)
      BY <2>1 DEF Held, Live
    <2> QED
      BY <2>1, <2>2 DEF Held, Live, Early, RunSteps
  <1> QED
    BY <1>1, InitRuns, NextRuns, PTL DEF RuntimeSpec

----------------------------------------------------------------------------
(* DshBackend.                                                             *)

Revisions == [live : BOOLEAN, text : Nat]
Listings == [inc : Nat, working : BOOLEAN, revision : Revisions]
Identities == [inc : Nat, agent : Nat]
CallSteps == {"none", "sent", "rows", "listed", "resolved", "resuming", "resumed", "answered", "failed"}
CallRecords ==
    [at : CallSteps, op : {"none", "list", "read", "prompt"}, message : Nat, inc : Nat, agent : Nat,
     row : BOOLEAN, awaited : BOOLEAN, result : Nat \cup Listings \cup {Nobody}]
CommandRecords ==
    [at : {"none", "owned", "selected", "calling"}, target : Nat,
     op : {"none", "prompt", "read", "pageDown"}, call : {"none", "first", "second"}]

DshTypes ==
    /\ agent \in Nat /\ lastAgent \in Nat /\ lastInc \in Nat /\ revision \in Nat
    /\ working \in BOOLEAN /\ listed \in BOOLEAN
    /\ entry \in Identities \cup {Nobody} /\ followups \in SUBSET Identities
    /\ calls \in [Calls -> CallRecords]
    /\ calls["list"].at \in {"none", "sent", "rows", "answered", "failed"}
    /\ known \in Listings \cup {Nobody} /\ chosen \in Nat /\ buffered \in Nat
    /\ command \in CommandRecords
    /\ given \in Nat /\ (command.at # "none" => given # 0)

(* Every incarnation was issued, so a new one is nobody's, and only live   *)
(* agents are given prompts.                                               *)
Issued ==
    /\ \A f \in followups : f.inc <= lastInc /\ f.agent # 0
    /\ entry # Nobody => entry.inc <= lastInc
    /\ known # Nobody => known.inc <= lastInc
    /\ \A c \in Calls : calls[c].inc <= lastInc /\ (calls[c].at = "resumed" => calls[c].agent # 0)
    /\ calls["list"].at \in {"answered", "failed"} =>
         /\ calls["list"].result \in Listings \cup {Nobody}
         /\ calls["list"].result # Nobody => calls["list"].result.inc <= lastInc

(* The agent that a call has resolved stays that of its incarnation.       *)
AgentsKept ==
    /\ \A f, g \in followups : f.inc = g.inc => f.agent = g.agent
    /\ \A f \in followups : entry # Nobody /\ entry.inc = f.inc => entry.agent = f.agent
    /\ \A c \in Calls : calls[c].at = "resolved" /\ calls[c].agent # 0 /\ entry # Nobody
                          /\ entry.inc = calls[c].inc => entry.agent = calls[c].agent

(* A command that was handed to a backend finds its target selected there, *)
(* and its call asks for that target.                                      *)
Asks(call, target) ==
    IF call.at = "answered" THEN call.result = target
    ELSE call.at # "failed" => call.awaited /\ call.inc = target /\ call.at # "none"
CommandsAimed ==
    /\ buffered \in {0, chosen}
    /\ acted # Nobody => acted.target = acted.by
    /\ command.at = "selected" =>
         IF command.target = 0 THEN muxed = "herdr" ELSE muxed = "dsh" /\ chosen = command.target
    /\ command.at = "calling" =>
         command.call # "none" /\ chosen = command.target /\ Asks(calls[command.call], command.target)

DshInv == DshTypes /\ Issued /\ AgentsKept /\ CommandsAimed /\ FinishedRoundNoticed

LEMMA ShownTyped == DshTypes => Shown \in Revisions
  BY DEF DshTypes, Shown, Revisions

LEMMA CallPut ==
    ASSUME DshTypes, NEW c \in Calls, NEW x \in CallRecords, calls' = [calls EXCEPT ![c] = x]
    PROVE  /\ calls' \in [Calls -> CallRecords] /\ calls'[c] = x
           /\ \A d \in Calls \ {c} : calls'[d] = calls[d]
  BY DEF DshTypes

(* A step of the plugin with a call: it goes on, or it ends as its caller  *)
(* is told, when one still waits.                                          *)
InPlugin(call) == call.at \notin {"none", "answered", "failed"}
Follows(c, call, x) ==
    /\ calls' = [calls EXCEPT ![c] = x]
    /\ InPlugin(call) /\ (x.at = "resumed" => x.agent # 0)
    /\ \/ InPlugin(x) /\ x.inc = call.inc /\ x.awaited = call.awaited /\ (c = "list" => x.at = "rows")
       \/ ~call.awaited /\ x.at = "none" /\ x.inc = 0
       \/ call.awaited /\ x.at = "failed" /\ x.inc = 0 /\ x.result = Nobody
       \/ call.awaited /\ x.at = "answered" /\ x.inc = 0
          /\ IF c = "list" THEN x.result \in Listings \cup {Nobody} /\ (x.result # Nobody => x.result.inc <= lastInc')
             ELSE x.result = call.inc

LEMMA FollowsAims ==
    ASSUME DshInv, NEW c \in Calls, NEW call \in CallRecords, call = calls[c], NEW x \in CallRecords,
           Follows(c, call, x), UNCHANGED palParts
    PROVE  CommandsAimed' /\ FinishedRoundNoticed'
  <1>1. FinishedRoundNoticed'
    BY DEF DshInv, FinishedRoundNoticed, palParts
  <1>2. DshTypes /\ CommandsAimed
    BY DEF DshInv
  <1>3. /\ UNCHANGED <<chosen, buffered, muxed, command, acted>>
        /\ calls'[c] = x /\ \A d \in Calls \ {c} : calls'[d] = calls[d]
    BY <1>2, CallPut DEF palParts, Follows
  <1>4. ASSUME command.at = "calling" PROVE Asks(calls'[command.call], command.target)
    <2>1. PICK d \in Calls \ {"list"} : d = command.call /\ Asks(calls[d], command.target)
      BY <1>2, <1>4 DEF CommandsAimed, DshTypes, CommandRecords, Calls
    <2>2. CASE d # c
      BY <1>3, <2>1, <2>2
    <2>3. CASE d = c
      <3>1. Asks(call, command.target) /\ c # "list"
        BY <2>1, <2>3
      <3>2. Asks(x, command.target)
        BY <3>1 DEF Asks, Follows, InPlugin
      <3> QED
        BY <1>3, <2>1, <2>3, <3>2
    <2> QED
      BY <2>2, <2>3
  <1>5. CommandsAimed'
    BY <1>2, <1>3, <1>4 DEF CommandsAimed, Asks
  <1> QED
    BY <1>1, <1>5

LEMMA FollowsListed ==
    ASSUME DshTypes, NEW c \in Calls, NEW call \in CallRecords, NEW x \in CallRecords, Follows(c, call, x)
    PROVE  /\ calls' \in [Calls -> CallRecords]
           /\ calls'["list"].at \in {"none", "sent", "rows", "answered", "failed"}
  <1>1. calls' \in [Calls -> CallRecords] /\ calls'[c] = x /\ \A d \in Calls \ {c} : calls'[d] = calls[d]
    BY CallPut DEF Follows
  <1>2. CASE c = "list"
    BY <1>1, <1>2 DEF Follows
  <1>3. CASE c # "list"
    BY <1>1, <1>3 DEF DshTypes, Calls
  <1> QED
    BY <1>2, <1>3

LEMMA FollowsIssued ==
    ASSUME DshInv, NEW c \in Calls, NEW call \in CallRecords, call = calls[c], NEW x \in CallRecords,
           Follows(c, call, x), known' = known, lastInc' \in Nat, lastInc <= lastInc',
           followups' \in SUBSET Identities,
           \A f \in followups' : f \in followups \/ (f.inc = call.inc /\ f.agent # 0),
           entry' # Nobody => entry' \in Identities /\ entry'.inc <= lastInc'
    PROVE  Issued'
  <1>1. DshTypes /\ Issued
    BY DEF DshInv
  <1>2. calls'[c] = x /\ (\A d \in Calls \ {c} : calls'[d] = calls[d]) /\ call.inc <= lastInc
    BY <1>1, CallPut DEF Follows, Issued
  <1>3. \A d \in Calls : calls[d].inc \in Nat
    BY <1>1 DEF DshTypes, CallRecords
  <1>4. PICK n \in Nat, m \in Nat : n = lastInc /\ m = lastInc' /\ n <= m
    BY <1>1 DEF DshTypes
  <1>5. \A f \in followups' : f.inc <= m /\ f.agent # 0
    <2>1. ASSUME NEW f \in followups' PROVE f.inc \in Nat /\ f.inc <= n /\ f.agent # 0
      BY <1>1, <1>2, <1>4, <2>1 DEF Issued, Identities
    <2> QED
      BY <1>4, <2>1
  <1>6. known' # Nobody => known'.inc <= m
    <2>1. known # Nobody => known.inc \in Nat /\ known.inc <= n
      BY <1>1, <1>4 DEF Issued, DshTypes, Listings
    <2> QED
      BY <1>4, <2>1
  <1>7. ASSUME NEW d \in Calls PROVE calls'[d].inc <= m /\ (calls'[d].at = "resumed" => calls'[d].agent # 0)
    <2>1. CASE d = c
      <3>1. x.inc \in {0, call.inc} /\ call.inc \in Nat /\ call.inc <= n /\ (x.at = "resumed" => x.agent # 0)
        BY <1>2, <1>3, <1>4 DEF Follows
      <3> QED
        BY <1>2, <1>4, <2>1, <3>1
    <2>2. CASE d # c
      <3>1. calls'[d] = calls[d] /\ calls[d].inc <= n /\ calls[d].inc \in Nat
            /\ (calls[d].at = "resumed" => calls[d].agent # 0)
        BY <1>1, <1>2, <1>3, <1>4, <2>2 DEF Issued
      <3> QED
        BY <1>4, <3>1
    <2> QED
      BY <2>1, <2>2
  <1>8. calls'["list"].at \in {"answered", "failed"} =>
          /\ calls'["list"].result \in Listings \cup {Nobody}
          /\ calls'["list"].result # Nobody => calls'["list"].result.inc <= m
    <2>1. CASE c = "list"
      BY <1>2, <1>4, <2>1 DEF Follows, InPlugin
    <2>2. CASE c # "list"
      <3>1. calls'["list"] = calls["list"]
        BY <1>2, <2>2 DEF Calls
      <3>2. SUFFICES ASSUME calls["list"].at \in {"answered", "failed"}
                     PROVE  /\ calls["list"].result \in Listings \cup {Nobody}
                            /\ calls["list"].result # Nobody => calls["list"].result.inc <= m
        BY <3>1
      <3>3. PICK result \in Listings \cup {Nobody} : result = calls["list"].result /\ (result # Nobody => result.inc <= n)
        BY <1>1, <1>4, <3>2 DEF Issued
      <3>4. result # Nobody => result.inc \in Nat
        BY DEF Listings
      <3> QED
        BY <1>4, <3>3, <3>4
    <2> QED
      BY <2>1, <2>2
  <1> QED
    BY <1>4, <1>5, <1>6, <1>7, <1>8 DEF Issued


(* A call goes on or ends while the entry is dropped, kept, or given the   *)
(* agent of the call, and perhaps the agent its prompt.                    *)
LEMMA CallFollowed ==
    ASSUME DshInv, NEW c \in Calls, NEW call \in CallRecords, call = calls[c], NEW x \in CallRecords,
           Follows(c, call, x), UNCHANGED palParts, lastInc' = lastInc,
           listed' \in BOOLEAN, agent' \in Nat, lastAgent' \in Nat, working' \in BOOLEAN, revision' \in Nat,
           x.at = "resolved" /\ x.agent # 0 /\ entry' # Nobody /\ entry'.inc = x.inc => entry'.agent = x.agent,
           \/ entry' = Nobody
           \/ entry' = entry
           \/ /\ entry # Nobody /\ entry' \in Identities /\ entry'.inc = entry.inc
              /\ entry.agent \in {0, entry'.agent},
           \/ followups' = followups
           \/ /\ followups' = followups \cup {[inc |-> call.inc, agent |-> call.agent]} /\ call.agent # 0
              /\ entry' # Nobody /\ entry'.inc = call.inc /\ entry'.agent = call.agent
    PROVE  DshInv'
  <1>1. DshTypes /\ Issued /\ AgentsKept
    BY DEF DshInv
  <1>2. PICK g \in Identities : g = [inc |-> call.inc, agent |-> call.agent]
    BY DEF CallRecords, Identities
  <1>3. followups' = followups \/ (followups' = followups \cup {g} /\ g.inc = call.inc /\ g.agent = call.agent
                                   /\ g.agent # 0)
    BY <1>2
  <1>4. followups' \in SUBSET Identities
    BY <1>1, <1>3 DEF DshTypes
  <1>5. PICK e \in Identities \cup {Nobody} : e = entry'
    BY <1>1 DEF DshTypes
  <1>6. PICK e0 \in Identities \cup {Nobody} : e0 = entry
    BY <1>1 DEF DshTypes
  <1>7. e = Nobody \/ e = e0 \/ (e0 # Nobody /\ e.inc = e0.inc /\ e0.agent \in {0, e.agent})
    BY <1>5, <1>6
  <1>8. DshTypes'
    <2>1. calls' \in [Calls -> CallRecords] /\ calls'["list"].at \in {"none", "sent", "rows", "answered", "failed"}
      BY <1>1, CallPut, FollowsListed
    <2>2. UNCHANGED <<known, chosen, buffered, command, given>>
      BY DEF palParts
    <2> QED
      BY <1>1, <1>4, <1>5, <2>1, <2>2 DEF DshTypes
  <1>9. Issued'
    <2>1. e # Nobody => e \in Identities /\ e.inc <= lastInc'
      BY <1>1, <1>5, <1>6, <1>7 DEF Issued
    <2>2. \A f \in followups' : f \in followups \/ (f.inc = call.inc /\ f.agent # 0)
      BY <1>3
    <2>3. lastInc' \in Nat /\ lastInc <= lastInc' /\ known' = known
      BY <1>1 DEF DshTypes, palParts
    <2> QED
      BY <1>4, <1>5, <2>1, <2>2, <2>3, FollowsIssued
  <1>10. AgentsKept'
    <2>1. \A f \in followups : e0 # Nobody /\ e0.inc = f.inc => e0.agent = f.agent /\ f.agent # 0
      BY <1>1, <1>6 DEF AgentsKept, Issued
    <2>2. \A f \in followups : e # Nobody /\ e.inc = f.inc => e.agent = f.agent
      BY <1>7, <2>1
    <2>3. followups' # followups => e # Nobody /\ e.inc = g.inc /\ e.agent = g.agent
      BY <1>3, <1>5
    <2>4. \A f \in followups' : e # Nobody /\ e.inc = f.inc => e.agent = f.agent
      BY <1>3, <2>2, <2>3
    <2>5. \A f, h \in followups' : f.inc = h.inc => f.agent = h.agent
      BY <1>1, <1>3, <2>2, <2>3 DEF AgentsKept
    <2>6. ASSUME NEW d \in Calls, calls'[d].at = "resolved", calls'[d].agent # 0, e # Nobody, e.inc = calls'[d].inc
          PROVE  e.agent = calls'[d].agent
      <3>1. calls'[c] = x /\ \A b \in Calls \ {c} : calls'[b] = calls[b]
        BY <1>1, CallPut DEF Follows
      <3>2. CASE d = c
        BY <1>5, <2>6, <3>1, <3>2
      <3>3. CASE d # c
        <4>1. e0 # Nobody /\ e0.inc = calls[d].inc => e0.agent = calls[d].agent
          BY <1>1, <1>6, <2>6, <3>1, <3>3 DEF AgentsKept
        <4> QED
          BY <1>7, <2>6, <3>1, <3>3, <4>1
      <3> QED
        BY <3>2, <3>3
    <2> QED
      BY <1>5, <2>4, <2>5, <2>6 DEF AgentsKept
  <1> QED
    BY <1>8, <1>9, <1>10, FollowsAims DEF DshInv

LEMMA CallAnswered ==
    ASSUME NEW c \in Calls, NEW call \in CallRecords, call = calls[c], InPlugin(call),
           NEW result \in Nat \cup Listings \cup {Nobody}, AnswerCall(c, result),
           IF c = "list" THEN result \in Listings \cup {Nobody} /\ (result # Nobody => result.inc <= lastInc')
           ELSE result = call.inc
    PROVE  \E x \in CallRecords : Follows(c, call, x) /\ x.at # "resolved"
  <1> DEFINE x == IF call.awaited THEN [NoCall EXCEPT !.at = "answered", !.result = result] ELSE NoCall
  <1>1. x \in CallRecords /\ x.at \in {"answered", "none"}
    BY DEF NoCall, CallRecords, CallSteps
  <1>2. calls' = [calls EXCEPT ![c] = x]
    BY DEF AnswerCall, Moved
  <1>3. Follows(c, call, x)
    BY <1>1, <1>2 DEF Follows, NoCall
  <1> QED
    BY <1>1, <1>3

LEMMA CallFailed ==
    ASSUME NEW c \in Calls, NEW call \in CallRecords, call = calls[c], InPlugin(call), FailCall(c)
    PROVE  \E x \in CallRecords : Follows(c, call, x) /\ x.at # "resolved"
  <1> DEFINE x == IF call.awaited THEN [NoCall EXCEPT !.at = "failed"] ELSE NoCall
  <1>1. x \in CallRecords /\ x.at \in {"failed", "none"}
    BY DEF NoCall, CallRecords, CallSteps
  <1>2. calls' = [calls EXCEPT ![c] = x]
    BY DEF FailCall, Moved
  <1>3. Follows(c, call, x)
    BY <1>1, <1>2 DEF Follows, NoCall
  <1> QED
    BY <1>1, <1>3

LEMMA CallMoves ==
    ASSUME NEW c \in Calls, NEW call \in CallRecords, call = calls[c], InPlugin(call),
           NEW next \in {"rows", "listed", "resuming"}, c = "list" => next = "rows", NEW row \in BOOLEAN,
           Moved(c, [call EXCEPT !.at = next, !.row = row])
    PROVE  \E x \in CallRecords : Follows(c, call, x) /\ x.at # "resolved"
  <1> DEFINE x == [call EXCEPT !.at = next, !.row = row]
  <1>1. x \in CallRecords /\ x.at = next /\ x.inc = call.inc /\ x.awaited = call.awaited
    BY DEF CallRecords, CallSteps
  <1>2. Follows(c, call, x)
    BY <1>1 DEF Follows, Moved, InPlugin
  <1> QED
    BY <1>1, <1>2

LEMMA PluginParts ==
    ASSUME DshInv, Plugin
    PROVE  /\ listed' \in BOOLEAN /\ agent' \in Nat /\ lastAgent' \in Nat /\ working' \in BOOLEAN /\ revision' \in Nat
           /\ UNCHANGED palParts
  BY DEF DshInv, DshTypes, Plugin, worldParts

LEMMA DshListRows == ASSUME DshInv, NEW c \in Calls, ListRows(c) PROVE DshInv'
  <1>1. PICK call \in CallRecords : call = calls[c]
    BY DEF DshInv, DshTypes
  <1>2. InPlugin(call) /\ listed \in BOOLEAN
    BY <1>1 DEF ListRows, CallAt, InPlugin, DshInv, DshTypes
  <1>3. \E x \in CallRecords : Follows(c, call, x) /\ x.at # "resolved"
    <2>1. CASE FailCall(c)
      BY <1>1, <1>2, <2>1, CallFailed
    <2>2. CASE Moved(c, [call EXCEPT !.at = "rows", !.row = listed])
      BY <1>1, <1>2, <2>2, CallMoves
    <2> QED
      BY <1>1, <2>1, <2>2 DEF ListRows
  <1>4. entry' = entry /\ lastInc' = lastInc /\ followups' = followups /\ Plugin
    BY DEF ListRows, pluginParts
  <1> QED
    BY <1>1, <1>3, <1>4, PluginParts, CallFollowed

LEMMA DshResolve == ASSUME DshInv, NEW c \in Calls, Resolve(c) PROVE DshInv'
  <1>1. PICK call \in CallRecords : call = calls[c]
    BY DEF DshInv, DshTypes
  <1>2. InPlugin(call) /\ agent \in Nat /\ c # "list"
    BY <1>1 DEF Resolve, CallAt, InPlugin, DshInv, DshTypes
  <1>3. entry' = entry /\ lastInc' = lastInc /\ followups' = followups /\ Plugin
    BY DEF Resolve, pluginParts
  <1>4. CASE FailCall(c)
    <2>1. PICK x \in CallRecords : Follows(c, call, x) /\ x.at # "resolved"
      BY <1>1, <1>2, <1>4, CallFailed
    <2> QED
      BY <1>1, <1>3, <2>1, PluginParts, CallFollowed
  <1>5. CASE entry = [inc |-> call.inc, agent |-> agent] /\ Moved(c, [call EXCEPT !.at = "resolved", !.agent = agent])
    <2> DEFINE y == [call EXCEPT !.at = "resolved", !.agent = agent]
    <2>1. y \in CallRecords /\ y.at = "resolved" /\ y.inc = call.inc /\ y.awaited = call.awaited /\ y.agent = agent
      BY <1>2 DEF CallRecords, CallSteps
    <2>2. Follows(c, call, y)
      BY <1>2, <1>5, <2>1 DEF Follows, Moved, InPlugin
    <2>3. PICK x \in CallRecords : Follows(c, call, x) /\ x.agent = agent
      BY <2>1, <2>2
    <2>4. entry'.agent = x.agent
      BY <1>3, <1>5, <2>3
    <2> QED
      BY <1>1, <1>3, <2>3, <2>4, PluginParts, CallFollowed
  <1> QED
    BY <1>1, <1>4, <1>5 DEF Resolve

LEMMA DshRead == ASSUME DshInv, NEW c \in Calls, Read(c) PROVE DshInv'
  <1>1. PICK call \in CallRecords : call = calls[c]
    BY DEF DshInv, DshTypes
  <1>2. InPlugin(call) /\ call.inc \in Nat /\ call.at = "resolved" /\ call.op = "read"
    BY <1>1 DEF Read, CallAt, InPlugin, CallRecords
  <1>3. entry' = entry /\ lastInc' = lastInc /\ followups' = followups /\ Plugin
    BY DEF Read, pluginParts
  <1>4. c # "list"
    BY <1>1, <1>2 DEF DshInv, DshTypes
  <1>5. PICK x \in CallRecords : Follows(c, call, x) /\ x.at # "resolved"
    BY <1>1, <1>2, <1>4, CallFailed, CallAnswered DEF Read
  <1> QED
    BY <1>1, <1>3, <1>5, PluginParts, CallFollowed

LEMMA DshListDone == ASSUME DshInv, NEW c \in Calls, ListDone(c) PROVE DshInv'
  <1>1. PICK call \in CallRecords : call = calls[c]
    BY DEF DshInv, DshTypes
  <1>2. InPlugin(call) /\ call.inc \in Nat /\ call.row \in BOOLEAN
    BY <1>1 DEF ListDone, CallAt, InPlugin, CallRecords
  <1>3. followups' = followups /\ Plugin
    BY DEF ListDone
  <1>4. CASE FailCall(c) /\ UNCHANGED <<entry, lastInc>>
    <2>1. PICK x \in CallRecords : Follows(c, call, x) /\ x.at # "resolved"
      BY <1>1, <1>2, <1>4, CallFailed
    <2> QED
      BY <1>1, <1>3, <1>4, <2>1, PluginParts, CallFollowed
  <1>5. CASE entry' = Nobody /\ UNCHANGED lastInc /\ IF c = "list" THEN AnswerCall(c, Nobody) ELSE FailCall(c)
    <2>1. \E x \in CallRecords : Follows(c, call, x) /\ x.at # "resolved"
      BY <1>1, <1>2, <1>5, CallFailed, CallAnswered
    <2> QED
      BY <1>1, <1>3, <1>5, <2>1, PluginParts, CallFollowed
  <1>6. CASE /\ entry' = Identity
             /\ lastInc' = IF Identity.inc > lastInc THEN Identity.inc ELSE lastInc
             /\ IF c = "list"
                THEN AnswerCall(c, [inc |-> Identity.inc, working |-> working, revision |-> Shown])
                ELSE IF Identity.inc = call.inc THEN Step(c, "listed") ELSE FailCall(c)
    <2>1. DshTypes /\ Issued /\ AgentsKept
      BY DEF DshInv
    <2>2. PICK n \in Nat, a \in Nat, e0 \in Identities \cup {Nobody} :
             n = lastInc /\ a = agent /\ e0 = entry /\ (e0 # Nobody => e0 \in Identities /\ e0.inc <= n)
      BY <2>1 DEF DshTypes, Issued
    <2>3. PICK e \in Identities :
             /\ e = Identity /\ e.agent = a
             /\ e.inc = n + 1 \/ (e0 # Nobody /\ e.inc = e0.inc /\ e0.agent \in {0, a})
      <3>1. CASE e0 # Nobody /\ e0.agent \in {0, a}
        <4>1. Identity = [inc |-> e0.inc, agent |-> a]
          BY <2>2, <3>1 DEF Identity
        <4>2. PICK e \in Identities : e = [inc |-> e0.inc, agent |-> a]
          BY <2>2, <3>1 DEF Identities
        <4> QED
          BY <3>1, <4>1, <4>2
      <3>2. CASE ~(e0 # Nobody /\ e0.agent \in {0, a})
        <4>1. Identity = [inc |-> n + 1, agent |-> a]
          BY <2>2, <3>2 DEF Identity
        <4>2. [inc |-> n + 1, agent |-> a] \in Identities
          BY <2>2 DEF Identities
        <4> QED
          BY <4>1, <4>2
      <3> QED
        BY <3>1, <3>2
    <2>4. PICK m \in Nat : m = lastInc' /\ n <= m /\ e.inc <= m
      <3>1. e.inc \in Nat
        BY DEF Identities
      <3> QED
        BY <1>6, <2>2, <2>3, <3>1
    <2>5. PICK x \in CallRecords : Follows(c, call, x) /\ x.at # "resolved"
      <3>1. CASE c = "list"
        <4>1. PICK row \in Listings : row = [inc |-> Identity.inc, working |-> working, revision |-> Shown]
                                      /\ row.inc = e.inc
          <5>1. e.inc \in Nat /\ e.inc = Identity.inc /\ working \in BOOLEAN /\ revision \in Nat
            BY <2>1, <2>3 DEF Identities, DshTypes
          <5>2. [inc |-> e.inc, working |-> working, revision |-> Shown] \in Listings
            BY <2>1, <5>1, ShownTyped DEF Listings
          <5> QED
            BY <5>1, <5>2
        <4>2. AnswerCall(c, row) /\ row.inc <= lastInc'
          BY <1>6, <2>4, <3>1, <4>1
        <4> QED
          BY <1>1, <1>2, <3>1, <4>2, CallAnswered
      <3>2. CASE c # "list" /\ FailCall(c)
        BY <1>1, <1>2, <3>2, CallFailed
      <3>3. CASE c # "list" /\ Step(c, "listed")
        <4>1. [call EXCEPT !.at = "listed"] = [call EXCEPT !.at = "listed", !.row = call.row]
          BY DEF CallRecords
        <4>2. Moved(c, [call EXCEPT !.at = "listed", !.row = call.row])
          BY <1>1, <3>3, <4>1 DEF Step
        <4> QED
          BY <1>1, <1>2, <3>3, <4>2, CallMoves
      <3> QED
        BY <1>6, <3>1, <3>2, <3>3
    <2>6. entry' = e
      BY <1>6, <2>3
    <2>7. UNCHANGED palParts
      BY <1>3, PluginParts
    <2>8. DshTypes'
      <3>1. calls' \in [Calls -> CallRecords] /\ calls'["list"].at \in {"none", "sent", "rows", "answered", "failed"}
        BY <1>1, <2>1, <2>5, CallPut, FollowsListed
      <3> QED
        BY <1>3, <2>1, <2>4, <2>6, <2>7, <3>1, PluginParts DEF DshTypes, palParts
    <2>9. Issued'
      <3>1. known' = known /\ followups' \in SUBSET Identities
        BY <1>3, <2>1, <2>7 DEF palParts, DshTypes
      <3>2. lastInc' \in Nat /\ lastInc <= lastInc' /\ entry' \in Identities /\ entry'.inc <= lastInc'
        BY <2>2, <2>4, <2>6
      <3> QED
        BY <1>1, <1>3, <2>5, <3>1, <3>2, FollowsIssued
    <2>10. AgentsKept'
      <3>1. ASSUME NEW f \in followups, e.inc = f.inc PROVE e.agent = f.agent
        <4>1. f.inc \in Nat /\ f.inc <= n /\ f.agent # 0 /\ e.inc \in Nat
          BY <2>1, <2>2 DEF Issued, DshTypes, Identities
        <4>2. e0 # Nobody /\ e0.inc = f.inc /\ e0.agent \in {0, a}
          BY <2>3, <3>1, <4>1
        <4>3. e0.agent = f.agent
          BY <2>1, <2>2, <4>2 DEF AgentsKept
        <4> QED
          BY <2>3, <4>1, <4>2, <4>3
      <3>2. ASSUME NEW d \in Calls, calls'[d].at = "resolved", calls'[d].agent # 0, e.inc = calls'[d].inc
            PROVE  e.agent = calls'[d].agent
        <4>1. calls'[d] = calls[d]
          BY <2>1, <2>5, <3>2, CallPut DEF Follows
        <4>2. calls[d].inc \in Nat /\ calls[d].inc <= n /\ e.inc \in Nat
          BY <2>1, <2>2 DEF Issued, DshTypes, Identities, CallRecords
        <4>3. e0 # Nobody /\ e0.inc = calls[d].inc /\ e0.agent \in {0, a}
          BY <2>3, <3>2, <4>1, <4>2
        <4>4. e0.agent = calls[d].agent
          BY <2>1, <2>2, <3>2, <4>1, <4>3 DEF AgentsKept
        <4> QED
          BY <2>3, <3>2, <4>1, <4>3, <4>4
      <3> QED
        BY <1>3, <2>1, <2>6, <3>1, <3>2 DEF AgentsKept
    <2> QED
      BY <1>1, <2>5, <2>7, <2>8, <2>9, <2>10, FollowsAims DEF DshInv
  <1> QED
    BY <1>1, <1>4, <1>5, <1>6 DEF ListDone

LEMMA DshReserveKey == ASSUME DshInv, NEW c \in Calls, ReserveKey(c) PROVE DshInv'
  <1>1. PICK call \in CallRecords : call = calls[c]
    BY DEF DshInv, DshTypes
  <1>2. InPlugin(call) /\ call.inc \in Nat /\ call.agent \in Nat /\ call.row \in BOOLEAN /\ call.at = "resolved"
    BY <1>1 DEF ReserveKey, CallAt, InPlugin, CallRecords
  <1>3. c # "list"
    BY <1>1, <1>2 DEF DshInv, DshTypes
  <1>4. /\ UNCHANGED <<listed, agent, lastAgent, revision>> /\ entry' = entry /\ lastInc' = lastInc
        /\ UNCHANGED palParts
    BY DEF ReserveKey
  <1>5. /\ listed' \in BOOLEAN /\ agent' \in Nat /\ lastAgent' \in Nat /\ revision' \in Nat /\ working \in BOOLEAN
        /\ entry \in Identities \cup {Nobody}
    BY <1>4 DEF DshInv, DshTypes
  <1>6. \/ FailCall(c) /\ UNCHANGED <<followups, working>>
        \/ AnswerCall(c, call.inc) /\ UNCHANGED <<followups, working>>
        \/ Step(c, "resuming") /\ UNCHANGED <<followups, working>>
        \/ NotSubmitted(c, call)
        \/ call.agent # 0 /\ ~PromptRefused(call) /\ MaySubmit(call) /\ Submit(c, call)
    BY <1>1 DEF ReserveKey
  <1>7. CASE (FailCall(c) \/ AnswerCall(c, call.inc)) /\ UNCHANGED <<followups, working>>
    <2>1. PICK x \in CallRecords : Follows(c, call, x) /\ x.at # "resolved"
      BY <1>1, <1>2, <1>3, <1>7, CallFailed, CallAnswered
    <2> QED
      BY <1>1, <1>4, <1>5, <1>7, <2>1, CallFollowed
  <1>8. CASE Step(c, "resuming") /\ UNCHANGED <<followups, working>>
    <2>1. [call EXCEPT !.at = "resuming"] = [call EXCEPT !.at = "resuming", !.row = call.row]
      BY DEF CallRecords
    <2>2. Moved(c, [call EXCEPT !.at = "resuming", !.row = call.row])
      BY <1>1, <1>8, <2>1 DEF Step
    <2>3. PICK x \in CallRecords : Follows(c, call, x) /\ x.at # "resolved"
      BY <1>1, <1>2, <1>3, <2>2, CallMoves
    <2> QED
      BY <1>1, <1>4, <1>5, <1>8, <2>3, CallFollowed
  <1>9. CASE NotSubmitted(c, call)
    <2>1. PICK x \in CallRecords : Follows(c, call, x) /\ x.at # "resolved"
      BY <1>1, <1>2, <1>9, CallFailed DEF NotSubmitted
    <2>2. UNCHANGED <<followups, working>>
      BY <1>9 DEF NotSubmitted
    <2> QED
      BY <1>1, <1>4, <1>5, <2>1, <2>2, CallFollowed
  <1>10. CASE call.agent # 0 /\ ~PromptRefused(call) /\ MaySubmit(call) /\ Submit(c, call)
    <2>1. PICK x \in CallRecords : Follows(c, call, x) /\ x.at # "resolved"
      BY <1>1, <1>2, <1>3, <1>10, CallAnswered DEF Submit
    <2>2. entry' # Nobody /\ entry'.inc = call.inc /\ entry'.agent = call.agent
      BY <1>1, <1>2, <1>4, <1>10 DEF MaySubmit, SameEntry, DshInv, AgentsKept
    <2>3. /\ followups' = followups \cup {[inc |-> call.inc, agent |-> call.agent]}
          /\ working' \in BOOLEAN
      BY <1>10 DEF Submit
    <2> QED
      BY <1>1, <1>4, <1>5, <1>10, <2>1, <2>2, <2>3, CallFollowed
  <1> QED
    BY <1>6, <1>7, <1>8, <1>9, <1>10

LEMMA DshResumeAgent == ASSUME DshInv, NEW c \in Calls, ResumeAgent(c) PROVE DshInv'
  <1>1. PICK call \in CallRecords : call = calls[c]
    BY DEF DshInv, DshTypes
  <1>2. InPlugin(call) /\ call.at = "resuming"
    BY <1>1 DEF ResumeAgent, CallAt, InPlugin
  <1>3. c # "list"
    BY <1>1, <1>2 DEF DshInv, DshTypes
  <1>4. /\ UNCHANGED <<listed, working, revision>> /\ entry' = entry /\ lastInc' = lastInc
        /\ followups' = followups /\ UNCHANGED palParts
    BY DEF ResumeAgent, pluginParts
  <1>5. /\ listed' \in BOOLEAN /\ working' \in BOOLEAN /\ revision' \in Nat
        /\ agent \in Nat /\ lastAgent \in Nat
    BY <1>4 DEF DshInv, DshTypes
  <1>6. CASE FailCall(c) /\ UNCHANGED <<agent, lastAgent>>
    <2>1. PICK x \in CallRecords : Follows(c, call, x) /\ x.at # "resolved"
      BY <1>1, <1>2, <1>6, CallFailed
    <2> QED
      BY <1>1, <1>4, <1>5, <1>6, <2>1, CallFollowed
  <1>7. CASE /\ IF agent = 0 THEN lastAgent < MaxAgents /\ agent' = lastAgent + 1 /\ lastAgent' = agent'
                ELSE UNCHANGED <<agent, lastAgent>>
             /\ Moved(c, [call EXCEPT !.at = "resumed", !.agent = agent'])
    <2>1. agent' \in Nat \ {0} /\ lastAgent' \in Nat
      BY <1>5, <1>7
    <2> DEFINE y == [call EXCEPT !.at = "resumed", !.agent = agent']
    <2>2. y \in CallRecords /\ y.at = "resumed" /\ y.inc = call.inc /\ y.awaited = call.awaited /\ y.agent # 0
      BY <2>1 DEF CallRecords, CallSteps
    <2>3. Follows(c, call, y)
      BY <1>2, <1>3, <1>7, <2>2 DEF Follows, Moved, InPlugin
    <2>4. PICK x \in CallRecords : Follows(c, call, x) /\ x.at # "resolved"
      BY <2>2, <2>3
    <2> QED
      BY <1>1, <1>4, <1>5, <2>1, <2>4, CallFollowed
  <1> QED
    BY <1>1, <1>6, <1>7 DEF ResumeAgent

LEMMA DshSubmitResumed == ASSUME DshInv, NEW c \in Calls, SubmitResumed(c) PROVE DshInv'
  <1>1. PICK call \in CallRecords : call = calls[c]
    BY DEF DshInv, DshTypes
  <1>2. InPlugin(call) /\ call.inc \in Nat /\ call.agent \in Nat /\ call.at = "resumed"
    BY <1>1 DEF SubmitResumed, CallAt, InPlugin, CallRecords
  <1>3. c # "list" /\ call.agent # 0
    BY <1>1, <1>2 DEF DshInv, DshTypes, Issued
  <1>4. UNCHANGED <<listed, agent, lastAgent, revision>> /\ lastInc' = lastInc /\ UNCHANGED palParts
    BY DEF SubmitResumed
  <1>5. /\ listed' \in BOOLEAN /\ agent' \in Nat /\ lastAgent' \in Nat /\ revision' \in Nat /\ working \in BOOLEAN
        /\ entry \in Identities \cup {Nobody}
    BY <1>4 DEF DshInv, DshTypes
  <1> DEFINE taken == SameEntry(call) /\ entry.agent \in {0, call.agent}
  <1>6. /\ entry' = IF taken THEN [entry EXCEPT !.agent = call.agent] ELSE entry
        /\ (taken /\ MaySubmit(call) /\ Submit(c, call)) \/ NotSubmitted(c, call)
    BY <1>1 DEF SubmitResumed
  <1>7. /\ taken => entry # Nobody /\ entry' \in Identities /\ entry'.inc = entry.inc /\ entry.inc = call.inc
                     /\ entry'.agent = call.agent /\ entry.agent \in {0, entry'.agent}
        /\ ~taken => entry' = entry
    <2>1. CASE taken
      <3>1. PICK e \in Identities : e = entry /\ e.inc = call.inc /\ e.agent \in {0, call.agent} /\ entry # Nobody
        BY <1>5, <2>1 DEF SameEntry
      <3> DEFINE f == [e EXCEPT !.agent = call.agent]
      <3>2. f \in Identities /\ f.inc = e.inc /\ f.agent = call.agent
        BY <1>2 DEF Identities
      <3>3. entry' = f
        BY <1>6, <2>1, <3>1, <3>2
      <3> QED
        BY <2>1, <3>1, <3>2, <3>3
    <2>2. CASE ~taken
      BY <1>6, <2>2
    <2> QED
      BY <2>1, <2>2
  <1>8. \/ entry' = entry
        \/ entry # Nobody /\ entry' \in Identities /\ entry'.inc = entry.inc /\ entry.agent \in {0, entry'.agent}
    BY <1>7
  <1>9. CASE NotSubmitted(c, call)
    <2>1. PICK x \in CallRecords : Follows(c, call, x) /\ x.at # "resolved"
      BY <1>1, <1>2, <1>9, CallFailed DEF NotSubmitted
    <2>2. UNCHANGED <<followups, working>>
      BY <1>9 DEF NotSubmitted
    <2> QED
      BY <1>1, <1>4, <1>5, <1>8, <2>1, <2>2, CallFollowed
  <1>10. CASE taken /\ MaySubmit(call) /\ Submit(c, call)
    <2>1. PICK x \in CallRecords : Follows(c, call, x) /\ x.at # "resolved"
      BY <1>1, <1>2, <1>3, <1>10, CallAnswered DEF Submit
    <2>2. entry' \in Identities /\ entry'.inc = call.inc /\ entry'.agent = call.agent
      BY <1>7, <1>10
    <2>3. /\ followups' = followups \cup {[inc |-> call.inc, agent |-> call.agent]}
          /\ working' \in BOOLEAN
      BY <1>10 DEF Submit
    <2>4. entry' # Nobody
      BY <2>2, DshAssumption DEF Identities
    <2> QED
      BY <1>1, <1>3, <1>4, <1>5, <1>8, <2>1, <2>2, <2>3, <2>4, CallFollowed
  <1> QED
    BY <1>6, <1>9, <1>10

LEMMA DshPluginRestarts == ASSUME DshInv, PluginRestarts PROVE DshInv'
  <1>1. DshTypes /\ Issued /\ AgentsKept /\ CommandsAimed /\ FinishedRoundNoticed
    BY DEF DshInv
  <1>2. /\ entry' = Nobody /\ lastInc' = lastInc /\ followups' = followups
        /\ UNCHANGED palParts /\ UNCHANGED worldParts
        /\ calls' = [c \in Calls |-> IF calls[c].at \in {"none", "answered", "failed"} THEN calls[c]
                                     ELSE IF calls[c].awaited THEN [NoCall EXCEPT !.at = "failed"]
                                     ELSE NoCall]
    BY DEF PluginRestarts, Plugin
  <1>3. ASSUME NEW c \in Calls
        PROVE  /\ calls'[c] \in CallRecords
               /\ \/ calls'[c] = calls[c] /\ calls[c].at \in {"none", "answered", "failed"}
                  \/ calls'[c].at = "none" /\ ~calls[c].awaited /\ calls[c].at \notin {"answered", "failed"} /\ calls'[c].inc = 0
                  \/ calls'[c].at = "failed" /\ calls'[c].result = Nobody /\ calls'[c].inc = 0
    <2>1. PICK call \in CallRecords : call = calls[c]
      BY <1>1 DEF DshTypes
    <2>2. NoCall \in CallRecords /\ [NoCall EXCEPT !.at = "failed"] \in CallRecords
      BY DEF NoCall, CallRecords, CallSteps
    <2>3. CASE call.at \in {"none", "answered", "failed"}
      BY <1>2, <2>1, <2>3
    <2>4. CASE call.at \notin {"none", "answered", "failed"} /\ call.awaited
      <3>1. calls'[c] = [NoCall EXCEPT !.at = "failed"]
        BY <1>2, <2>1, <2>4
      <3> QED
        BY <2>2, <3>1 DEF NoCall
    <2>5. CASE call.at \notin {"none", "answered", "failed"} /\ ~call.awaited
      <3>1. calls'[c] = NoCall
        BY <1>2, <2>1, <2>5
      <3> QED
        BY <2>1, <2>2, <2>5, <3>1 DEF NoCall
    <2> QED
      BY <2>3, <2>4, <2>5
  <1>4. calls' \in [Calls -> CallRecords]
    BY <1>2, <1>3
  <1>5. DshTypes'
    <2>1. calls'["list"].at \in {"none", "answered", "failed"}
      BY <1>3 DEF Calls
    <2> QED
      BY <1>1, <1>2, <1>4, <2>1 DEF DshTypes, palParts, worldParts
  <1>6. Issued'
    <2>1. ASSUME NEW c \in Calls PROVE calls'[c].inc <= lastInc /\ calls'[c].at # "resumed"
      <3>1. lastInc \in Nat /\ calls[c].inc <= lastInc
        BY <1>1 DEF DshTypes, Issued
      <3> QED
        BY <1>3, <3>1
    <2>2. calls'["list"].at \in {"answered", "failed"} =>
            /\ calls'["list"].result \in Listings \cup {Nobody}
            /\ calls'["list"].result # Nobody => calls'["list"].result.inc <= lastInc
      BY <1>1, <1>3 DEF Issued, Calls
    <2> QED
      BY <1>1, <1>2, <2>1, <2>2 DEF Issued, palParts
  <1>7. AgentsKept'
    BY <1>1, <1>2, <1>3 DEF AgentsKept
  <1>8. CommandsAimed'
    <2>1. ASSUME command.at = "calling" PROVE Asks(calls'[command.call], command.target)
      <3>1. PICK d \in Calls : d = command.call /\ Asks(calls[d], command.target)
        BY <1>1, <2>1 DEF CommandsAimed, DshTypes, CommandRecords, Calls
      <3>2. Asks(calls'[d], command.target)
        BY <1>3, <3>1 DEF Asks
      <3> QED
        BY <3>1, <3>2
    <2> QED
      BY <1>1, <1>2, <2>1 DEF CommandsAimed, palParts, Asks
  <1>9. FinishedRoundNoticed'
    BY <1>1, <1>2 DEF FinishedRoundNoticed, palParts
  <1> QED
    BY <1>5, <1>6, <1>7, <1>8, <1>9 DEF DshInv

(* Pal sends a call, takes its answer, or leaves it.                       *)
LEMMA PalCalls ==
    ASSUME DshInv, NEW c \in Calls, NEW call \in CallRecords, call = calls[c], NEW x \in CallRecords,
           calls' = [calls EXCEPT ![c] = x], entry' = entry, lastInc' = lastInc, followups' = followups,
           known' \in Listings \cup {Nobody}, known' # Nobody => known'.inc <= lastInc,
           x.inc <= lastInc, x.at \notin {"answered", "failed"}, x.at = "resumed" => x.agent # 0,
           x.at = "resolved" => call.at = "resolved" /\ x.inc = call.inc /\ x.agent = call.agent
    PROVE  Issued' /\ AgentsKept'
  <1>1. DshTypes /\ Issued /\ AgentsKept
    BY DEF DshInv
  <1>2. calls'[c] = x /\ \A d \in Calls \ {c} : calls'[d] = calls[d]
    BY <1>1, CallPut
  <1>3. Issued'
    <2>1. \A d \in Calls : calls'[d].inc <= lastInc /\ (calls'[d].at = "resumed" => calls'[d].agent # 0)
      BY <1>1, <1>2 DEF Issued
    <2>2. calls'["list"].at \in {"answered", "failed"} => calls'["list"] = calls["list"]
      BY <1>2 DEF Calls
    <2> QED
      BY <1>1, <2>1, <2>2 DEF Issued
  <1>4. AgentsKept'
    BY <1>1, <1>2 DEF AgentsKept
  <1> QED
    BY <1>3, <1>4

LEMMA DshRefreshAsks == ASSUME DshInv, RefreshAsks PROVE DshInv'
  <1>1. DshTypes /\ Issued /\ CommandsAimed /\ FinishedRoundNoticed
    BY DEF DshInv
  <1> DEFINE y == [NoCall EXCEPT !.at = "sent", !.op = "list", !.message = 0, !.inc = 0, !.awaited = TRUE]
  <1>2. y \in CallRecords /\ y.at = "sent" /\ y.inc = 0
    BY DEF NoCall, CallRecords, CallSteps
  <1>3. PICK x \in CallRecords : calls' = [calls EXCEPT !["list"] = x] /\ x.at = "sent" /\ x.inc = 0
    BY <1>2 DEF RefreshAsks, SendCall, Moved
  <1>4. entry' = entry /\ lastInc' = lastInc /\ followups' = followups /\ UNCHANGED <<worldParts, palParts>>
    BY DEF RefreshAsks, pluginParts
  <1>5. "list" \in Calls /\ 0 <= lastInc /\ calls["list"] \in CallRecords
    BY <1>1 DEF Calls, DshTypes
  <1>6. Issued' /\ AgentsKept'
    <2>1. known' \in Listings \cup {Nobody} /\ (known' # Nobody => known'.inc <= lastInc)
      BY <1>1, <1>4 DEF DshTypes, Issued, palParts
    <2> QED
      BY <1>3, <1>4, <1>5, <2>1, PalCalls
  <1>7. /\ calls' \in [Calls -> CallRecords] /\ calls'["list"].at = "sent"
        /\ \A d \in Calls \ {"list"} : calls'[d] = calls[d]
    BY <1>1, <1>3, <1>5, CallPut
  <1>8. DshTypes'
    BY <1>1, <1>4, <1>7 DEF DshTypes, worldParts, palParts
  <1>9. CommandsAimed'
    <2>1. command.at = "calling" => calls'[command.call] = calls[command.call]
      BY <1>1, <1>7 DEF CommandsAimed, DshTypes, CommandRecords, Calls
    <2> QED
      BY <1>1, <1>4, <2>1 DEF CommandsAimed, palParts, Asks
  <1>10. FinishedRoundNoticed'
    BY <1>1, <1>4 DEF FinishedRoundNoticed, palParts
  <1> QED
    BY <1>6, <1>8, <1>9, <1>10 DEF DshInv

LEMMA DshRefreshes == ASSUME DshInv, DshRefresh PROVE DshInv'
  <1>1. DshTypes /\ Issued /\ CommandsAimed /\ FinishedRoundNoticed
    BY DEF DshInv
  <1>2. PICK x \in CallRecords : x = NoCall /\ x.at = "none" /\ x.inc = 0
    <2>1. NoCall \in CallRecords /\ NoCall.at = "none" /\ NoCall.inc = 0
      BY DEF NoCall, CallRecords, CallSteps
    <2> QED
      BY <2>1
  <1>3. PICK next \in Listings \cup {Nobody} : next = calls["list"].result /\ (next # Nobody => next.inc <= lastInc)
    BY <1>1 DEF DshRefresh, Issued
  <1>4. /\ calls' = [calls EXCEPT !["list"] = x] /\ known' = next
        /\ \/ next = Nobody
           \/ next # Nobody /\ told' = next.revision
           \/ missed' = next.revision
           \/ Same(next) /\ ~(Notifies(next) /\ ~next.working) /\ UNCHANGED <<told, missed>>
        /\ entry' = entry /\ lastInc' = lastInc /\ followups' = followups /\ UNCHANGED worldParts
        /\ UNCHANGED <<chosen, buffered, muxed, command, given, acted>>
    BY <1>2, <1>3 DEF DshRefresh, Moved, pluginParts
  <1>5. "list" \in Calls /\ x.inc <= lastInc /\ calls["list"] \in CallRecords
    BY <1>1, <1>2 DEF Calls, DshTypes
  <1>6. Issued' /\ AgentsKept'
    BY <1>2, <1>3, <1>4, <1>5, PalCalls
  <1>7. /\ calls' \in [Calls -> CallRecords] /\ calls'["list"].at = "none"
        /\ \A d \in Calls \ {"list"} : calls'[d] = calls[d]
    BY <1>1, <1>2, <1>4, <1>5, CallPut
  <1>8. DshTypes'
    BY <1>1, <1>4, <1>7 DEF DshTypes, worldParts
  <1>9. CommandsAimed'
    <2>1. command.at = "calling" => calls'[command.call] = calls[command.call]
      BY <1>1, <1>7 DEF CommandsAimed, DshTypes, CommandRecords, Calls
    <2> QED
      BY <1>1, <1>4, <2>1 DEF CommandsAimed, Asks
  <1>10. FinishedRoundNoticed'
    <2>1. SUFFICES ASSUME next # Nobody, ~next.working PROVE next.revision \in {told', missed'}
      BY <1>4 DEF FinishedRoundNoticed
    <2>2. CASE next.revision \in {told', missed'}
      BY <2>2
    <2>3. CASE Same(next) /\ ~Notifies(next) /\ UNCHANGED <<told, missed>>
      <3>1. known # Nobody /\ known.working = next.working /\ known.revision = next.revision
        BY <2>1, <2>3 DEF Same, Notifies
      <3>2. known.revision \in {told, missed}
        BY <1>1, <2>1, <3>1 DEF FinishedRoundNoticed
      <3> QED
        BY <2>3, <3>1, <3>2
    <2> QED
      BY <1>4, <2>1, <2>2, <2>3
  <1> QED
    BY <1>6, <1>8, <1>9, <1>10 DEF DshInv

(* What Pal does by itself leaves the plugin alone.                        *)
LEMMA PalAlone ==
    ASSUME DshInv, UNCHANGED <<worldParts, pluginParts, calls, known, told, missed>>,
           chosen' \in Nat, buffered' \in {0, chosen'}, command' \in CommandRecords, given' \in Nat,
           command'.at # "none" => given' # 0, CommandsAimed'
    PROVE  DshInv'
  <1>1. DshTypes /\ Issued /\ AgentsKept /\ FinishedRoundNoticed
    BY DEF DshInv
  <1>2. DshTypes'
    BY <1>1 DEF DshTypes, worldParts, pluginParts
  <1>3. Issued' /\ AgentsKept' /\ FinishedRoundNoticed'
    BY <1>1 DEF Issued, AgentsKept, FinishedRoundNoticed, pluginParts
  <1> QED
    BY <1>2, <1>3 DEF DshInv

LEMMA DshCommand ==
    ASSUME DshInv, NEW target \in 0..lastInc, NEW op \in {"prompt", "read", "pageDown"}, Command(target, op)
    PROVE  DshInv'
  <1>1. DshTypes /\ CommandsAimed
    BY DEF DshInv
  <1>2. /\ command = NoCommand /\ given' = given + 1 /\ acted' = Nobody
        /\ UNCHANGED <<worldParts, pluginParts, calls, known, told, missed>> /\ UNCHANGED <<chosen, buffered, muxed>>
        /\ command' = NoCommand \/ command' = [NoCommand EXCEPT !.at = "owned", !.target = target, !.op = op]
    BY DEF Command
  <1>3. command' \in CommandRecords /\ command'.at \in {"none", "owned"}
    <2>1. target \in Nat
      BY <1>1 DEF DshTypes
    <2>2. NoCommand \in CommandRecords /\ NoCommand.at = "none"
      BY DEF NoCommand, CommandRecords
    <2> DEFINE y == [NoCommand EXCEPT !.at = "owned", !.target = target, !.op = op]
    <2>3. y \in CommandRecords /\ y.at = "owned"
      BY <2>1 DEF NoCommand, CommandRecords
    <2> QED
      BY <1>2, <2>2, <2>3
  <1>4. given' \in Nat /\ given' # 0 /\ chosen' \in Nat /\ buffered' \in {0, chosen'}
    BY <1>1, <1>2 DEF DshTypes, CommandsAimed
  <1>5. CommandsAimed'
    BY <1>2, <1>3, <1>4 DEF CommandsAimed
  <1> QED
    BY <1>2, <1>3, <1>4, <1>5, PalAlone

LEMMA DshSelectTarget == ASSUME DshInv, SelectTarget PROVE DshInv'
  <1>1. DshTypes /\ CommandsAimed
    BY DEF DshInv
  <1>2. PICK c0 \in CommandRecords : c0 = command /\ c0.at = "owned" /\ given # 0
    BY <1>1 DEF SelectTarget, DshTypes
  <1>3. UNCHANGED <<worldParts, pluginParts, calls, known, told, missed>> /\ UNCHANGED <<given, acted>>
    BY DEF SelectTarget
  <1>4. given' \in Nat /\ given' # 0 /\ (acted' # Nobody => acted'.target = acted'.by)
    BY <1>1, <1>2, <1>3 DEF DshTypes, CommandsAimed
  <1>5. CASE command' = NoCommand /\ UNCHANGED <<chosen, buffered, muxed>>
    <2>1. command' \in CommandRecords /\ command'.at = "none"
      BY <1>5 DEF NoCommand, CommandRecords
    <2>2. chosen' \in Nat /\ buffered' \in {0, chosen'}
      BY <1>1, <1>5 DEF DshTypes, CommandsAimed
    <2>3. CommandsAimed'
      BY <1>4, <2>1, <2>2 DEF CommandsAimed
    <2> QED
      BY <1>3, <1>4, <2>1, <2>2, <2>3, PalAlone
  <1>6. CASE /\ Owner(c0.target) # Nobody
             /\ command' = [c0 EXCEPT !.at = "selected"] /\ muxed' = Owner(c0.target)
             /\ IF c0.target = 0 THEN UNCHANGED <<chosen, buffered>>
                ELSE chosen' = c0.target /\ buffered' = BufferAfter(c0.target)
    <2>1. command' \in CommandRecords /\ command'.at = "selected" /\ command'.target = c0.target
      BY <1>6 DEF CommandRecords
    <2>2. chosen' \in Nat /\ buffered' \in {0, chosen'}
      BY <1>1, <1>6 DEF DshTypes, CommandsAimed, BufferAfter, CommandRecords
    <2>3. IF c0.target = 0 THEN muxed' = "herdr" ELSE muxed' = "dsh" /\ chosen' = c0.target
      BY <1>6 DEF Owner
    <2>4. CommandsAimed'
      BY <1>4, <2>1, <2>2, <2>3 DEF CommandsAimed
    <2> QED
      BY <1>3, <1>4, <2>1, <2>2, <2>4, PalAlone
  <1> QED
    BY <1>2, <1>5, <1>6 DEF SelectTarget, MuxedAfter

LEMMA DshHandleMessage == ASSUME DshInv, HandleMessage PROVE DshInv'
  <1>1. DshTypes /\ Issued /\ AgentsKept /\ CommandsAimed /\ FinishedRoundNoticed
    BY DEF DshInv
  <1>2. PICK c0 \in CommandRecords : c0 = command /\ c0.at = "selected" /\ given # 0
    BY <1>1 DEF HandleMessage, DshTypes
  <1>3. UNCHANGED <<worldParts, pluginParts, known, told, missed>> /\ UNCHANGED <<chosen, buffered, muxed, given>>
    BY DEF HandleMessage
  <1>4. /\ given' \in Nat /\ given' # 0 /\ chosen' \in Nat /\ buffered' \in {0, chosen'}
        /\ IF c0.target = 0 THEN muxed = "herdr" ELSE muxed = "dsh" /\ chosen = c0.target
    BY <1>1, <1>2, <1>3 DEF DshTypes, CommandsAimed
  <1>5. NoCommand \in CommandRecords /\ NoCommand.at = "none"
    BY DEF NoCommand, CommandRecords
  <1>6. CASE Done /\ UNCHANGED calls /\ (acted' # Nobody => acted'.target = acted'.by)
    <2>1. command' = NoCommand
      BY <1>6 DEF Done
    <2>2. CommandsAimed'
      BY <1>4, <1>5, <1>6, <2>1 DEF CommandsAimed
    <2> QED
      BY <1>3, <1>4, <1>5, <1>6, <2>1, <2>2, PalAlone
  <1>7. CASE /\ muxed = "dsh" /\ Owner(chosen) = "dsh" /\ UNCHANGED acted
             /\ c0.op \in {"read", "prompt"}
             /\ \E c \in Calls \ {"list"}, m \in {given, given - 1} \ {0} :
                  /\ SendCall(c, c0.op, m, known.inc)
                  /\ command' = [c0 EXCEPT !.at = "calling", !.call = c]
    <2>1. known # Nobody /\ known.inc = chosen /\ chosen \in Nat /\ known.inc <= lastInc
      BY <1>1, <1>7, DshAssumption DEF Owner, DshTypes, Issued
    <2>2. PICK c \in Calls \ {"list"}, m \in {given, given - 1} \ {0} :
             /\ SendCall(c, c0.op, m, chosen)
             /\ command' = [c0 EXCEPT !.at = "calling", !.call = c]
      BY <1>7, <2>1
    <2>3. m \in Nat
      BY <1>1, <1>2 DEF DshTypes
    <2> DEFINE y == [NoCall EXCEPT !.at = "sent", !.op = c0.op, !.message = m, !.inc = chosen, !.awaited = TRUE]
    <2>4. y \in CallRecords /\ y.at = "sent" /\ y.inc = chosen /\ y.awaited
      BY <1>7, <2>1, <2>3 DEF NoCall, CallRecords, CallSteps
    <2>5. PICK x \in CallRecords : calls' = [calls EXCEPT ![c] = x] /\ x.at = "sent" /\ x.inc = chosen /\ x.awaited
      BY <2>2, <2>4 DEF SendCall, Moved
    <2>6. /\ calls' \in [Calls -> CallRecords] /\ calls'[c] = x
          /\ \A d \in Calls \ {c} : calls'[d] = calls[d]
      BY <1>1, <2>5, CallPut
    <2>7. entry' = entry /\ lastInc' = lastInc /\ followups' = followups
      BY <1>3 DEF pluginParts
    <2>8. Issued' /\ AgentsKept'
      <3>1. calls[c] \in CallRecords /\ known' \in Listings \cup {Nobody} /\ (known' # Nobody => known'.inc <= lastInc)
        BY <1>1, <1>3 DEF DshTypes, Issued
      <3> QED
        BY <2>1, <2>5, <2>7, <3>1, PalCalls
    <2>9. command' \in CommandRecords /\ command'.at = "calling" /\ command'.target = c0.target /\ command'.call = c
      BY <2>2 DEF CommandRecords, Calls
    <2>10. DshTypes'
      BY <1>1, <1>3, <1>4, <2>6, <2>7, <2>9 DEF DshTypes, worldParts, Calls
    <2>11. CommandsAimed'
      <3>1. chosen = c0.target
        BY <1>4, <1>7
      <3>2. Asks(x, c0.target) /\ calls'[command'.call] = x
        BY <2>5, <2>6, <2>9, <3>1 DEF Asks
      <3>3. acted' # Nobody => acted'.target = acted'.by
        BY <1>1, <1>7 DEF CommandsAimed
      <3> QED
        BY <1>3, <1>4, <2>9, <3>1, <3>2, <3>3 DEF CommandsAimed, Asks, Calls
    <2> QED
      BY <1>1, <1>3, <2>8, <2>10, <2>11 DEF DshInv, FinishedRoundNoticed
  <1>8. \/ Done /\ UNCHANGED calls /\ muxed = "herdr" /\ Acted(0)
        \/ Done /\ UNCHANGED calls /\ muxed = "dsh" /\ buffered # 0 /\ Acted(buffered)
        \/ Done /\ UNCHANGED calls /\ UNCHANGED acted
        \/ /\ muxed = "dsh" /\ Owner(chosen) = "dsh" /\ UNCHANGED acted
           /\ c0.op \in {"read", "prompt"}
           /\ \E c \in Calls \ {"list"}, m \in {given, given - 1} \ {0} :
                /\ SendCall(c, c0.op, m, known.inc)
                /\ command' = [c0 EXCEPT !.at = "calling", !.call = c]
    BY <1>2 DEF HandleMessage
  <1>9. ASSUME muxed = "herdr", Acted(0) PROVE acted' # Nobody => acted'.target = acted'.by
    <2>1. c0.target = 0
      BY <1>4, <1>9
    <2> QED
      BY <1>2, <1>9, <2>1 DEF Acted
  <1>10. ASSUME muxed = "dsh", buffered # 0, Acted(buffered) PROVE acted' # Nobody => acted'.target = acted'.by
    <2>1. buffered = c0.target
      BY <1>1, <1>4, <1>10 DEF CommandsAimed
    <2> QED
      BY <1>2, <1>10, <2>1 DEF Acted
  <1>11. UNCHANGED acted => (acted' # Nobody => acted'.target = acted'.by)
    BY <1>1 DEF CommandsAimed
  <1> QED
    BY <1>6, <1>7, <1>8, <1>9, <1>10, <1>11

(* The command leaves its call, answered or not.                           *)
LEMMA CommandEnds ==
    ASSUME DshInv, NEW c \in Calls \ {"list"}, NEW call \in CallRecords, call = calls[c], NEW x \in CallRecords,
           calls' = [calls EXCEPT ![c] = x], command' = NoCommand,
           UNCHANGED <<worldParts, pluginParts, known, chosen, muxed, given, told, missed>>,
           buffered' \in {0, chosen}, acted' # Nobody => acted'.target = acted'.by,
           x.inc <= lastInc, x.at \notin {"answered", "failed"}, x.at = "resumed" => x.agent # 0,
           x.at = "resolved" => call.at = "resolved" /\ x.inc = call.inc /\ x.agent = call.agent
    PROVE  DshInv'
  <1>1. DshTypes /\ Issued /\ FinishedRoundNoticed
    BY DEF DshInv
  <1>2. entry' = entry /\ lastInc' = lastInc /\ followups' = followups
    BY DEF pluginParts
  <1>3. Issued' /\ AgentsKept'
    <2>1. known' \in Listings \cup {Nobody} /\ (known' # Nobody => known'.inc <= lastInc)
      BY <1>1 DEF DshTypes, Issued
    <2> QED
      BY <1>2, <2>1, PalCalls
  <1>4. /\ calls' \in [Calls -> CallRecords]
        /\ \A d \in Calls \ {c} : calls'[d] = calls[d]
    BY <1>1, CallPut
  <1>5. NoCommand \in CommandRecords /\ NoCommand.at = "none"
    BY DEF NoCommand, CommandRecords
  <1>6. DshTypes'
    BY <1>1, <1>2, <1>4, <1>5 DEF DshTypes, worldParts, Calls
  <1>7. CommandsAimed'
    BY <1>5 DEF CommandsAimed
  <1> QED
    BY <1>1, <1>3, <1>6, <1>7 DEF DshInv, FinishedRoundNoticed

LEMMA DshHandleAnswer == ASSUME DshInv, HandleAnswer PROVE DshInv'
  <1>1. DshTypes /\ Issued /\ CommandsAimed
    BY DEF DshInv
  <1>2. PICK c \in Calls \ {"list"} : c = command.call /\ chosen = command.target /\ Asks(calls[c], command.target)
    BY <1>1 DEF HandleAnswer, CommandsAimed, DshTypes, CommandRecords, Calls
  <1>3. PICK call \in CallRecords : call = calls[c] /\ call.at \in {"answered", "failed"}
    BY <1>1, <1>2 DEF DshTypes, HandleAnswer
  <1>4. PICK x \in CallRecords : x = NoCall /\ x.at = "none" /\ x.inc = 0
    <2>1. NoCall \in CallRecords /\ NoCall.at = "none" /\ NoCall.inc = 0
      BY DEF NoCall, CallRecords, CallSteps
    <2> QED
      BY <2>1
  <1>5. /\ calls' = [calls EXCEPT ![c] = x] /\ command' = NoCommand
        /\ IF call.at = "answered" THEN Acted(call.result) ELSE UNCHANGED acted
        /\ buffered' = IF call.at = "answered" /\ command.op = "read" THEN chosen ELSE buffered
        /\ UNCHANGED <<worldParts, pluginParts, known, chosen, muxed, given, told, missed>>
    BY <1>2, <1>3, <1>4 DEF HandleAnswer, Moved, Done
  <1>6. buffered' \in {0, chosen} /\ x.inc <= lastInc
    BY <1>1, <1>4, <1>5 DEF CommandsAimed, DshTypes
  <1>7. acted' # Nobody => acted'.target = acted'.by
    <2>1. CASE call.at = "answered"
      <3>1. call.result = command.target
        BY <1>2, <1>3, <2>1 DEF Asks
      <3> QED
        BY <1>5, <2>1, <3>1 DEF Acted
    <2>2. CASE call.at # "answered"
      BY <1>1, <1>5, <2>2 DEF CommandsAimed
    <2> QED
      BY <2>1, <2>2
  <1> QED
    BY <1>3, <1>4, <1>5, <1>6, <1>7, CommandEnds

LEMMA DshGivesUp == ASSUME DshInv, GivesUp PROVE DshInv'
  <1>1. DshTypes /\ Issued /\ CommandsAimed
    BY DEF DshInv
  <1>2. PICK c \in Calls \ {"list"} : c = command.call
    BY <1>1 DEF GivesUp, CommandsAimed, DshTypes, CommandRecords, Calls
  <1>3. PICK call \in CallRecords :
           /\ call = calls[c] /\ call.at \notin {"answered", "failed"} /\ call.inc <= lastInc
           /\ call.at = "resumed" => call.agent # 0
    BY <1>1, <1>2 DEF DshTypes, Issued, GivesUp
  <1> DEFINE y == [call EXCEPT !.awaited = FALSE]
  <1>4. y \in CallRecords /\ y.at = call.at /\ y.inc = call.inc /\ y.agent = call.agent
    BY DEF CallRecords
  <1>5. PICK x \in CallRecords : calls' = [calls EXCEPT ![c] = x] /\ x.at = call.at /\ x.inc = call.inc
                                  /\ x.agent = call.agent
    BY <1>2, <1>3, <1>4 DEF GivesUp, Moved
  <1>6. /\ command' = NoCommand /\ buffered' = buffered /\ acted' = acted
        /\ UNCHANGED <<worldParts, pluginParts, known, chosen, muxed, given, told, missed>>
    BY DEF GivesUp, Done
  <1>7. buffered' \in {0, chosen} /\ (acted' # Nobody => acted'.target = acted'.by)
    BY <1>1, <1>6 DEF CommandsAimed
  <1> QED
    BY <1>3, <1>5, <1>6, <1>7, CommandEnds

(* The world, and nothing: neither the plugin nor Pal changes.             *)
LEMMA DshWorld ==
    ASSUME DshInv, World, listed' \in BOOLEAN, agent' \in Nat, lastAgent' \in Nat, working' \in BOOLEAN, revision' \in Nat
    PROVE  DshInv'
  <1>1. DshTypes /\ Issued /\ AgentsKept /\ CommandsAimed /\ FinishedRoundNoticed
    BY DEF DshInv
  <1>2. /\ UNCHANGED <<entry, lastInc, followups, calls>>
        /\ UNCHANGED <<known, chosen, buffered, muxed, command, given, acted, told, missed>>
    BY DEF World, pluginParts, palParts
  <1>3. DshTypes'
    BY <1>1, <1>2 DEF DshTypes
  <1>4. Issued' /\ AgentsKept'
    BY <1>1, <1>2 DEF Issued, AgentsKept
  <1>5. CommandsAimed'
    BY <1>1, <1>2 DEF CommandsAimed, Asks
  <1>6. FinishedRoundNoticed'
    BY <1>1, <1>2 DEF FinishedRoundNoticed
  <1> QED
    BY <1>3, <1>4, <1>5, <1>6 DEF DshInv

LEMMA DshStep == ASSUME DshInv, [DshNext]_dshVars PROVE DshInv'
  <1>1. listed \in BOOLEAN /\ agent \in Nat /\ lastAgent \in Nat /\ working \in BOOLEAN /\ revision \in Nat
    BY DEF DshInv, DshTypes
  <1>2. CASE AgentChanges
    <2>1. World /\ listed' = listed /\ agent' \in Nat /\ lastAgent' \in Nat /\ working' = FALSE /\ revision' = revision
      BY <1>1, <1>2 DEF AgentChanges
    <2> QED
      BY <1>1, <2>1, DshWorld
  <1>3. CASE RoundBegins \/ RoundEnds
    <2>1. World /\ UNCHANGED <<listed, agent, lastAgent>> /\ working' \in BOOLEAN /\ revision' \in Nat
      <3>1. CASE RoundBegins
        BY <1>1, <3>1 DEF RoundBegins
      <3>2. CASE RoundEnds
        <4>1. World /\ UNCHANGED <<listed, agent, lastAgent>> /\ working' = FALSE /\ revision' = revision + 1
          BY <3>2 DEF RoundEnds
        <4>2. revision + 1 \in Nat
          BY <1>1
        <4> QED
          BY <4>1, <4>2
      <3> QED
        BY <1>3, <3>1, <3>2
    <2> QED
      BY <1>1, <2>1, DshWorld
  <1>4. CASE RowChanges
    BY <1>1, <1>4, DshWorld DEF RowChanges
  <1>5. CASE \E c \in Calls :
                \/ ListRows(c) \/ ListDone(c) \/ Resolve(c) \/ Read(c) \/ ReserveKey(c)
                \/ ResumeAgent(c) \/ SubmitResumed(c)
    BY <1>5, DshListRows, DshListDone, DshResolve, DshRead, DshReserveKey, DshResumeAgent, DshSubmitResumed
  <1>6. CASE PluginRestarts \/ RefreshAsks \/ DshRefresh
    BY <1>6, DshPluginRestarts, DshRefreshAsks, DshRefreshes
  <1>7. CASE \E target \in 0..lastInc, op \in {"prompt", "read", "pageDown"} : Command(target, op)
    BY <1>7, DshCommand
  <1>8. CASE SelectTarget \/ HandleMessage \/ HandleAnswer \/ GivesUp
    BY <1>8, DshSelectTarget, DshHandleMessage, DshHandleAnswer, DshGivesUp
  <1>9. CASE UNCHANGED dshVars
    <2>1. World /\ UNCHANGED worldParts
      BY <1>9 DEF dshVars, World
    <2> QED
      BY <1>1, <2>1, DshWorld DEF worldParts
  <1> QED
    BY <1>2, <1>3, <1>4, <1>5, <1>6, <1>7, <1>8, <1>9 DEF DshNext

LEMMA DshStart == DshInit => DshInv
  <1> SUFFICES ASSUME DshInit PROVE DshInv
    OBVIOUS
  <1>1. NoCall \in CallRecords /\ NoCall.at = "none" /\ NoCall.inc = 0
    BY DEF NoCall, CallRecords, CallSteps
  <1>2. NoCommand \in CommandRecords /\ NoCommand.at = "none"
    BY DEF NoCommand, CommandRecords
  <1>3. calls = [c \in Calls |-> NoCall] /\ command = NoCommand /\ followups = {} /\ "list" \in Calls
    BY DEF DshInit, Calls
  <1>4. \/ entry = Nobody /\ lastInc = 0 /\ known = Nobody
        \/ /\ entry \in Identities /\ entry.inc = 1 /\ lastInc = 1
           /\ known \in Listings /\ known.inc = 1 /\ known.revision = told
    <2>1. PICK s \in Revisions : s = Shown
      <3>1. revision \in Nat /\ (agent # 0) \in BOOLEAN
        BY DEF DshInit
      <3>2. [live |-> agent # 0, text |-> revision] \in Revisions
        BY <3>1 DEF Revisions
      <3> QED
        BY <3>2 DEF Shown
    <2>2. /\ [inc |-> 1, agent |-> 0] \in Identities
          /\ [inc |-> 1, working |-> FALSE, revision |-> s] \in Listings
      BY DEF Identities, Listings
    <2>3. CASE entry = Nobody /\ lastInc = 0 /\ known = Nobody
      BY <2>3
    <2>4. CASE /\ entry = [inc |-> 1, agent |-> 0] /\ lastInc = 1
               /\ known = [inc |-> 1, working |-> FALSE, revision |-> s] /\ told = s
      BY <2>2, <2>4
    <2> QED
      BY <2>1, <2>3, <2>4 DEF DshInit
  <1>5. DshTypes
    <2>1. /\ listed = TRUE /\ agent = 0 /\ lastAgent = 0 /\ working = FALSE /\ revision = 1
          /\ chosen = 0 /\ buffered = 0 /\ given = 0
      BY DEF DshInit
    <2>2. calls \in [Calls -> CallRecords] /\ calls["list"].at = "none"
      BY <1>1, <1>3
    <2>3. entry \in Identities \cup {Nobody} /\ known \in Listings \cup {Nobody} /\ lastInc \in Nat
      BY <1>4
    <2> QED
      BY <1>2, <1>3, <2>1, <2>2, <2>3 DEF DshTypes
  <1>6. Issued
    BY <1>1, <1>3, <1>4 DEF Issued
  <1>7. AgentsKept
    BY <1>1, <1>3 DEF AgentsKept
  <1>8. CommandsAimed
    BY <1>2, <1>3 DEF CommandsAimed, DshInit
  <1>9. FinishedRoundNoticed
    BY <1>4 DEF FinishedRoundNoticed
  <1> QED
    BY <1>5, <1>6, <1>7, <1>8, <1>9 DEF DshInv

(* The keys, on top of that: the message of a prompt is one that was given,*)
(* and a call that resumes a history has reserved its message's key.       *)
Keys == [inc : Nat, accepted : BOOLEAN]
Keyed ==
    /\ given <= MaxCommands
    /\ \A c \in Calls :
          /\ calls[c].op = "prompt" => calls[c].message \in 1..MaxCommands
          /\ Resumes(c) => calls[c].op = "prompt"
KeysInv == cache \in [1..MaxCommands -> Keys \cup {Nobody}] /\ Keyed /\ KeysReserved

(* One call changes: it ends, goes on with its message, or is a new one.   *)
LEMMA KeysFollow ==
    ASSUME DshInv, KeysInv, NEW c \in Calls, NEW call \in CallRecords, call = calls[c], NEW x \in CallRecords,
           calls' = [calls EXCEPT ![c] = x], cache' = cache, given' = given,
           x.op = "prompt" => x.message \in 1..MaxCommands,
           x.at \in {"resuming", "resumed"} =>
               /\ call.at \in {"resuming", "resumed"} /\ x.op = "prompt"
               /\ x.message = call.message /\ x.inc = call.inc
    PROVE  KeysInv'
  <1>1. calls'[c] = x /\ \A d \in Calls \ {c} : calls'[d] = calls[d]
    BY CallPut DEF DshInv
  <1>2. Keyed'
    BY <1>1 DEF KeysInv, Keyed, Resumes
  <1>3. KeysReserved'
    <2>1. \A d \in Calls : Resumes(d)' => Resumes(d) /\ calls'[d].message = calls[d].message /\ calls'[d].inc = calls[d].inc
      BY <1>1 DEF Resumes
    <2> QED
      BY <2>1 DEF KeysInv, KeysReserved, Placeholder
  <1> QED
    BY <1>2, <1>3 DEF KeysInv

(* No call changes, or calls only end.                                     *)
LEMMA KeysFailed ==
    ASSUME DshInv, KeysInv, NEW c \in Calls, FailCall(c), cache' = cache, given' = given
    PROVE  KeysInv'
  <1>1. PICK call \in CallRecords : call = calls[c]
    BY DEF DshInv, DshTypes
  <1> DEFINE y == IF call.awaited THEN [NoCall EXCEPT !.at = "failed"] ELSE NoCall
  <1>2. y \in CallRecords /\ y.at \in {"failed", "none"} /\ y.op = "none"
    BY DEF NoCall, CallRecords, CallSteps
  <1>3. PICK x \in CallRecords : calls' = [calls EXCEPT ![c] = x] /\ x.at \in {"failed", "none"} /\ x.op = "none"
    BY <1>1, <1>2 DEF FailCall, Moved
  <1> QED
    BY <1>1, <1>3, KeysFollow

LEMMA KeysAnswered ==
    ASSUME DshInv, KeysInv, NEW c \in Calls, NEW result \in Nat \cup Listings \cup {Nobody}, AnswerCall(c, result),
           cache' = cache, given' = given
    PROVE  KeysInv'
  <1>1. PICK call \in CallRecords : call = calls[c]
    BY DEF DshInv, DshTypes
  <1> DEFINE y == IF call.awaited THEN [NoCall EXCEPT !.at = "answered", !.result = result] ELSE NoCall
  <1>2. y \in CallRecords /\ y.at \in {"answered", "none"} /\ y.op = "none"
    BY DEF NoCall, CallRecords, CallSteps
  <1>3. PICK x \in CallRecords : calls' = [calls EXCEPT ![c] = x] /\ x.at \in {"answered", "none"} /\ x.op = "none"
    BY <1>1, <1>2 DEF AnswerCall, Moved
  <1> QED
    BY <1>1, <1>3, KeysFollow

(* A key is written for the message of a call that ends, or resumes.       *)
LEMMA KeysWritten ==
    ASSUME DshInv, KeysInv, NEW c \in Calls, NEW call \in CallRecords, call = calls[c], NEW x \in CallRecords,
           calls' = [calls EXCEPT ![c] = x], given' = given, NEW key \in Keys,
           cache' = [cache EXCEPT ![call.message] = key],
           call.message \in 1..MaxCommands,
           cache[call.message] = Nobody \/ Resumes(c),
           x.op = "prompt" => x.message = call.message,
           x.at \in {"resuming", "resumed"} =>
               x.op = "prompt" /\ x.message = call.message /\ key = Placeholder(x)
    PROVE  KeysInv'
  <1>1. calls'[c] = x /\ \A d \in Calls \ {c} : calls'[d] = calls[d]
    BY CallPut DEF DshInv
  <1>2. PICK m \in 1..MaxCommands : m = call.message
    OBVIOUS
  <1>3. /\ cache' \in [1..MaxCommands -> Keys \cup {Nobody}] /\ cache'[m] = key
        /\ \A k \in 1..MaxCommands \ {m} : cache'[k] = cache[k]
    BY <1>2 DEF KeysInv
  <1>4. Keyed'
    BY <1>1, <1>2 DEF KeysInv, Keyed, Resumes
  <1>5. ASSUME NEW d \in Calls \ {c}, Resumes(d)'
        PROVE  /\ Resumes(d) /\ calls'[d] = calls[d] /\ calls[d].message \in 1..MaxCommands \ {m}
               /\ cache'[calls[d].message] = Placeholder(calls[d])
    <2>1. Resumes(d) /\ calls'[d] = calls[d] /\ calls[d].message \in 1..MaxCommands
          /\ cache[calls[d].message] = Placeholder(calls[d])
      BY <1>1, <1>5 DEF Resumes, KeysInv, Keyed, KeysReserved
    <2>2. PICK other \in CallRecords : other = calls[d]
      BY DEF DshInv, DshTypes
    <2>3. Placeholder(other) # Nobody
      <3>1. Placeholder(other) \in [inc : Nat, accepted : BOOLEAN]
        BY DEF Placeholder, CallRecords
      <3> QED
        BY <3>1, DshAssumption
    <2>4. calls[d].message # m
      BY <1>2, <2>1, <2>2, <2>3 DEF KeysInv, KeysReserved
    <2> QED
      BY <1>3, <2>1, <2>4
  <1>6. Resumes(c)' => cache'[calls'[c].message] = Placeholder(calls'[c]) /\ calls'[c].message = m
    BY <1>1, <1>2, <1>3 DEF Resumes
  <1>7. KeysReserved'
    <2>1. \A d \in Calls : Resumes(d)' => cache'[calls'[d].message] = Placeholder(calls'[d])
      BY <1>5, <1>6
    <2>2. \A d \in Calls : \A e \in Calls \ {d} : Resumes(d)' /\ Resumes(e)' => calls'[d].message # calls'[e].message
      BY <1>5, <1>6 DEF KeysInv, KeysReserved
    <2> QED
      BY <2>1, <2>2 DEF KeysReserved, Placeholder
  <1> QED
    BY <1>3, <1>4, <1>7 DEF KeysInv

LEMMA KeysMoved ==
    ASSUME DshInv, KeysInv, NEW c \in Calls, NEW call \in CallRecords, call = calls[c], NEW x \in CallRecords,
           Moved(c, x), x.op = call.op, x.message = call.message, x.inc = call.inc,
           x.at \in {"resuming", "resumed"} => call.at \in {"resuming", "resumed"},
           cache' = cache, given' = given
    PROVE  KeysInv'
  <1>1. calls' = [calls EXCEPT ![c] = x]
    BY DEF Moved
  <1>2. call.op = "prompt" => call.message \in 1..MaxCommands
    BY DEF KeysInv, Keyed
  <1>3. call.at \in {"resuming", "resumed"} => call.op = "prompt"
    BY DEF KeysInv, Keyed, Resumes
  <1> QED
    BY <1>1, <1>2, <1>3, KeysFollow

LEMMA KeysListed ==
    ASSUME DshInv, KeysInv, NEW c \in Calls, ListRows(c) \/ ListDone(c) \/ Resolve(c) \/ Read(c) \/ ResumeAgent(c)
    PROVE  KeysInv'
  <1>1. PICK call \in CallRecords : call = calls[c]
    BY DEF DshInv, DshTypes
  <1>2. call.at \in CallSteps /\ call.row \in BOOLEAN /\ call.agent \in Nat /\ call.awaited \in BOOLEAN /\ call.inc \in Nat
    BY DEF CallRecords
  <1>3. cache' = cache /\ given' = given
    <2>1. CASE ListRows(c) \/ Resolve(c) \/ Read(c)
      BY <2>1 DEF ListRows, Resolve, Read, Plugin, pluginParts, palParts
    <2>2. CASE ListDone(c)
      BY <2>2 DEF ListDone, Plugin, palParts
    <2>3. CASE ResumeAgent(c)
      BY <2>3 DEF ResumeAgent, pluginParts, palParts
    <2> QED
      BY <2>1, <2>2, <2>3
  <1>4. CASE FailCall(c)
    BY <1>3, <1>4, KeysFailed
  <1>5. CASE ListRows(c)
    <2>1. CASE Moved(c, [call EXCEPT !.at = "rows", !.row = listed])
      <3> DEFINE y == [call EXCEPT !.at = "rows", !.row = listed]
      <3>1. listed \in BOOLEAN
        BY DEF DshInv, DshTypes
      <3>2. y \in CallRecords /\ y.at = "rows" /\ y.op = call.op /\ y.message = call.message /\ y.inc = call.inc
        BY <3>1 DEF CallRecords, CallSteps
      <3> HIDE DEF y
      <3>3. Moved(c, y)
        BY <2>1 DEF y
      <3> QED
        BY <1>1, <1>3, <3>2, <3>3, KeysMoved
    <2> QED
      BY <1>1, <1>4, <1>5, <2>1 DEF ListRows
  <1>6. CASE ListDone(c)
    <2>1. CASE AnswerCall(c, Nobody)
      BY <1>3, <2>1, KeysAnswered
    <2>2. CASE AnswerCall(c, [inc |-> Identity.inc, working |-> working, revision |-> Shown])
      <3>1. /\ working \in BOOLEAN /\ revision \in Nat /\ agent \in Nat /\ lastInc \in Nat
            /\ entry # Nobody => entry.inc \in Nat
        BY DEF DshInv, DshTypes, Identities
      <3>2. Identity.inc \in Nat
        <4>1. CASE entry = Nobody
          BY <3>1, <4>1 DEF Identity
        <4>2. CASE entry # Nobody
          BY <3>1, <4>2 DEF Identity
        <4> QED
          BY <4>1, <4>2
      <3>3. [inc |-> Identity.inc, working |-> working, revision |-> Shown] \in Listings
        BY <3>1, <3>2, ShownTyped DEF Listings, DshInv
      <3> QED
        BY <1>3, <2>2, <3>3, KeysAnswered
    <2>3. CASE Step(c, "listed")
      <3> DEFINE y == [call EXCEPT !.at = "listed"]
      <3>1. y \in CallRecords /\ y.at = "listed" /\ y.op = call.op /\ y.message = call.message /\ y.inc = call.inc
        BY DEF CallRecords, CallSteps
      <3> HIDE DEF y
      <3>2. Moved(c, y)
        BY <1>1, <2>3 DEF y, Step
      <3> QED
        BY <1>1, <1>3, <3>1, <3>2, KeysMoved
    <2> QED
      BY <1>4, <1>6, <2>1, <2>2, <2>3 DEF ListDone
  <1>7. CASE Resolve(c)
    <2>1. CASE Moved(c, [call EXCEPT !.at = "resolved", !.agent = agent])
      <3> DEFINE y == [call EXCEPT !.at = "resolved", !.agent = agent]
      <3>1. agent \in Nat
        BY DEF DshInv, DshTypes
      <3>2. y \in CallRecords /\ y.at = "resolved" /\ y.op = call.op /\ y.message = call.message /\ y.inc = call.inc
        BY <3>1 DEF CallRecords, CallSteps
      <3> HIDE DEF y
      <3>3. Moved(c, y)
        BY <2>1 DEF y
      <3> QED
        BY <1>1, <1>3, <3>2, <3>3, KeysMoved
    <2> QED
      BY <1>1, <1>4, <1>7, <2>1 DEF Resolve
  <1>8. CASE Read(c)
    <2>1. CASE AnswerCall(c, call.inc)
      BY <1>2, <1>3, <2>1, KeysAnswered
    <2> QED
      BY <1>1, <1>4, <1>8, <2>1 DEF Read
  <1>9. CASE ResumeAgent(c)
    <2>1. CASE agent' \in Nat /\ Moved(c, [call EXCEPT !.at = "resumed", !.agent = agent'])
      <3> DEFINE y == [call EXCEPT !.at = "resumed", !.agent = agent']
      <3>1. call.at = "resuming"
        BY <1>1, <1>9 DEF ResumeAgent, CallAt
      <3>2. y \in CallRecords /\ y.op = call.op /\ y.message = call.message /\ y.inc = call.inc
        BY <2>1 DEF CallRecords, CallSteps
      <3>3. PICK x \in CallRecords : Moved(c, x) /\ x.op = call.op /\ x.message = call.message /\ x.inc = call.inc
        BY <2>1, <3>2
      <3> QED
        BY <1>1, <1>3, <3>1, <3>3, KeysMoved
    <2>2. agent' \in Nat
      BY <1>9, DshResumeAgent DEF DshInv, DshTypes
    <2> QED
      BY <1>1, <1>4, <1>9, <2>1, <2>2 DEF ResumeAgent
  <1> QED
    BY <1>5, <1>6, <1>7, <1>8, <1>9

(* A prompt is given, or its key stays unaccepted: the call ends.          *)
LEMMA KeysSubmitted ==
    ASSUME DshInv, KeysInv, NEW c \in Calls, NEW call \in CallRecords, call = calls[c],
           Submit(c, call) \/ NotSubmitted(c, call), given' = given, call.op = "prompt",
           cache[call.message] = Nobody \/ Resumes(c)
    PROVE  KeysInv'
  <1>1. call.message \in 1..MaxCommands
    BY DEF KeysInv, Keyed
  <1>2. \E x \in CallRecords : calls' = [calls EXCEPT ![c] = x] /\ x.at \in {"none", "answered", "failed"} /\ x.op = "none"
    <2>1. CASE NotSubmitted(c, call)
      <3> DEFINE y == IF call.awaited THEN [NoCall EXCEPT !.at = "failed"] ELSE NoCall
      <3>1. y \in CallRecords /\ y.at \in {"failed", "none"} /\ y.op = "none"
        BY DEF NoCall, CallRecords, CallSteps
      <3> QED
        BY <2>1, <3>1 DEF NotSubmitted, FailCall, Moved
    <2>2. CASE Submit(c, call)
      <3> DEFINE y == IF call.awaited THEN [NoCall EXCEPT !.at = "answered", !.result = call.inc] ELSE NoCall
      <3>1. y \in CallRecords /\ y.at \in {"answered", "none"} /\ y.op = "none"
        BY DEF NoCall, CallRecords, CallSteps
      <3> QED
        BY <2>2, <3>1 DEF Submit, AnswerCall, Moved
    <2> QED
      BY <2>1, <2>2
  <1>3. \E key \in Keys : cache' = [cache EXCEPT ![call.message] = key]
    <2>1. [inc |-> call.inc, accepted |-> FALSE] \in Keys /\ [inc |-> call.inc, accepted |-> TRUE] \in Keys
      BY DEF Keys, CallRecords
    <2> QED
      BY <2>1 DEF Submit, NotSubmitted, Placeholder
  <1>4. PICK x \in CallRecords, key \in Keys :
           /\ calls' = [calls EXCEPT ![c] = x] /\ x.at \notin {"resuming", "resumed"} /\ x.op # "prompt"
           /\ cache' = [cache EXCEPT ![call.message] = key]
    BY <1>2, <1>3
  <1>5. /\ x.op = "prompt" => x.message = call.message
        /\ x.at \in {"resuming", "resumed"} =>
               x.op = "prompt" /\ x.message = call.message /\ key = Placeholder(x)
    BY <1>4
  <1> QED
    BY <1>1, <1>4, <1>5, KeysWritten

LEMMA KeysReserve == ASSUME DshInv, KeysInv, NEW c \in Calls, ReserveKey(c) PROVE KeysInv'
  <1>1. PICK call \in CallRecords : call = calls[c]
    BY DEF DshInv, DshTypes
  <1>2. call.op = "prompt" /\ call.inc \in Nat /\ given' = given
    BY <1>1 DEF ReserveKey, CallRecords, palParts
  <1>3. \/ FailCall(c) /\ cache' = cache
        \/ AnswerCall(c, call.inc) /\ cache' = cache
        \/ /\ cache[call.message] = Nobody
           /\ Step(c, "resuming") /\ cache' = [cache EXCEPT ![call.message] = Placeholder(call)]
        \/ (Submit(c, call) \/ NotSubmitted(c, call)) /\ cache[call.message] = Nobody
    BY <1>1 DEF ReserveKey
  <1>4. CASE FailCall(c) /\ cache' = cache
    BY <1>2, <1>4, KeysFailed
  <1>5. CASE AnswerCall(c, call.inc) /\ cache' = cache
    BY <1>2, <1>5, KeysAnswered
  <1>6. CASE /\ cache[call.message] = Nobody
             /\ Step(c, "resuming") /\ cache' = [cache EXCEPT ![call.message] = Placeholder(call)]
    <2> DEFINE y == [call EXCEPT !.at = "resuming"]
    <2>1. y \in CallRecords /\ y.op = "prompt" /\ y.message = call.message /\ y.inc = call.inc
      BY <1>2 DEF CallRecords, CallSteps
    <2> HIDE DEF y
    <2>2. calls' = [calls EXCEPT ![c] = y]
      BY <1>1, <1>6 DEF y, Step, Moved
    <2>3. Placeholder(call) \in Keys /\ Placeholder(call) = Placeholder(y)
      BY <2>1 DEF Placeholder, Keys, CallRecords
    <2>4. PICK key \in Keys : key = Placeholder(y) /\ cache' = [cache EXCEPT ![call.message] = key]
      BY <1>6, <2>3
    <2>5. call.message \in 1..MaxCommands
      BY <1>1, <1>2 DEF KeysInv, Keyed
    <2>6. PICK x \in CallRecords :
             /\ calls' = [calls EXCEPT ![c] = x] /\ x.op = "prompt" /\ x.message = call.message
             /\ key = Placeholder(x)
      BY <2>1, <2>2, <2>4
    <2>7. cache[call.message] = Nobody \/ Resumes(c)
      BY <1>6
    <2>8. cache' = [cache EXCEPT ![call.message] = key] /\ given' = given
      BY <1>2, <2>4
    <2>9. /\ x.op = "prompt" => x.message = call.message
          /\ x.at \in {"resuming", "resumed"} =>
               x.op = "prompt" /\ x.message = call.message /\ key = Placeholder(x)
      BY <2>6
    <2> QED
      BY <1>1, <2>5, <2>6, <2>7, <2>8, <2>9, KeysWritten
  <1>7. CASE (Submit(c, call) \/ NotSubmitted(c, call)) /\ cache[call.message] = Nobody
    BY <1>1, <1>2, <1>7, KeysSubmitted
  <1> QED
    BY <1>3, <1>4, <1>5, <1>6, <1>7

LEMMA KeysResumed == ASSUME DshInv, KeysInv, NEW c \in Calls, SubmitResumed(c) PROVE KeysInv'
  <1>1. PICK call \in CallRecords : call = calls[c]
    BY DEF DshInv, DshTypes
  <1>2. Submit(c, call) \/ NotSubmitted(c, call)
    BY <1>1 DEF SubmitResumed
  <1>3. Resumes(c) /\ given' = given
    BY DEF SubmitResumed, CallAt, Resumes, palParts
  <1>4. call.op = "prompt"
    BY <1>1, <1>3 DEF KeysInv, Keyed
  <1> QED
    BY <1>1, <1>2, <1>3, <1>4, KeysSubmitted

LEMMA KeysForgotten == ASSUME DshInv, KeysInv, PluginRestarts PROVE KeysInv'
  <1>1. /\ cache' = [m \in 1..MaxCommands |-> Nobody] /\ given' = given
        /\ calls' = [c \in Calls |-> IF calls[c].at \in {"none", "answered", "failed"} THEN calls[c]
                                     ELSE IF calls[c].awaited THEN [NoCall EXCEPT !.at = "failed"]
                                     ELSE NoCall]
    BY DEF PluginRestarts, Plugin, palParts
  <1>2. ASSUME NEW c \in Calls
        PROVE  ~Resumes(c)' /\ (calls'[c].op = "prompt" => calls'[c].message \in 1..MaxCommands)
    <2>1. \/ calls'[c] = calls[c] /\ calls[c].at \in {"none", "answered", "failed"}
          \/ calls'[c] = NoCall
          \/ calls'[c] = [NoCall EXCEPT !.at = "failed"]
      BY <1>1
    <2>2. CASE calls'[c] = calls[c] /\ calls[c].at \in {"none", "answered", "failed"}
      BY <2>2 DEF KeysInv, Keyed, Resumes
    <2>3. CASE calls'[c] = NoCall \/ calls'[c] = [NoCall EXCEPT !.at = "failed"]
      BY <2>3 DEF NoCall, Resumes
    <2> QED
      BY <2>1, <2>2, <2>3
  <1>3. cache' \in [1..MaxCommands -> Keys \cup {Nobody}]
    BY <1>1
  <1> QED
    BY <1>1, <1>2, <1>3 DEF KeysInv, Keyed, KeysReserved

LEMMA KeysKept ==
    ASSUME DshInv, KeysInv, cache' = cache, calls' = calls, given' \in Nat, given' <= MaxCommands
    PROVE  KeysInv'
  BY DEF KeysInv, Keyed, KeysReserved, Resumes, Placeholder

LEMMA KeysOfPal ==
    ASSUME DshInv, KeysInv, RefreshAsks \/ DshRefresh \/ SelectTarget \/ HandleMessage \/ HandleAnswer \/ GivesUp
    PROVE  KeysInv'
  <1>1. cache' = cache /\ given' = given /\ given \in Nat /\ given <= MaxCommands /\ command \in CommandRecords
    <2>1. cache' = cache /\ given' = given
      BY DEF RefreshAsks, DshRefresh, SelectTarget, HandleMessage, HandleAnswer, GivesUp, pluginParts, palParts
    <2> QED
      BY <2>1 DEF DshInv, DshTypes, KeysInv, Keyed
  <1>2. CASE calls' = calls
    BY <1>1, <1>2, KeysKept
  <1>3. ASSUME NEW c \in Calls, Moved(c, NoCall) PROVE KeysInv'
    <2>1. PICK call \in CallRecords : call = calls[c]
      BY DEF DshInv, DshTypes
    <2>2. NoCall \in CallRecords /\ NoCall.at = "none" /\ NoCall.op = "none"
      BY DEF NoCall, CallRecords, CallSteps
    <2>3. PICK x \in CallRecords : calls' = [calls EXCEPT ![c] = x] /\ x.at = "none" /\ x.op = "none"
      BY <1>3, <2>2 DEF Moved
    <2> QED
      BY <1>1, <2>1, <2>3, KeysFollow
  <1>4. ASSUME NEW c \in Calls, NEW op \in {"list", "read", "prompt"}, NEW m \in Nat, NEW inc \in Nat,
               SendCall(c, op, m, inc), op = "prompt" => m \in 1..MaxCommands
        PROVE  KeysInv'
    <2>1. PICK call \in CallRecords : call = calls[c]
      BY DEF DshInv, DshTypes
    <2> DEFINE y == [NoCall EXCEPT !.at = "sent", !.op = op, !.message = m, !.inc = inc, !.awaited = TRUE]
    <2>2. y \in CallRecords /\ y.at = "sent" /\ y.op = op /\ y.message = m
      BY <1>4 DEF NoCall, CallRecords, CallSteps
    <2> HIDE DEF y
    <2>3. calls' = [calls EXCEPT ![c] = y]
      BY <1>4 DEF y, SendCall, Moved
    <2> QED
      BY <1>1, <1>4, <2>1, <2>2, <2>3, KeysFollow
  <1>5. CASE RefreshAsks
    BY <1>4, <1>5 DEF RefreshAsks, Calls
  <1>6. CASE DshRefresh
    BY <1>3, <1>6 DEF DshRefresh, Calls
  <1>7. CASE SelectTarget
    BY <1>2, <1>7 DEF SelectTarget
  <1>8. CASE HandleMessage
    <2>1. ASSUME muxed = "dsh", Owner(chosen) = "dsh", NEW c \in Calls \ {"list"}, NEW m \in {given, given - 1} \ {0},
                 command.op \in {"read", "prompt"}, SendCall(c, command.op, m, known.inc)
          PROVE  KeysInv'
      <3>1. known.inc = chosen /\ chosen \in Nat
        BY <2>1, DshAssumption DEF Owner, DshInv, DshTypes
      <3>2. given # 0
        BY <1>8 DEF DshInv, DshTypes, HandleMessage
      <3>3. MaxCommands \in Nat
        BY DshAssumption
      <3>4. m \in 1..MaxCommands /\ m \in Nat
        BY <1>1, <3>2, <3>3
      <3>5. SendCall(c, command.op, m, chosen)
        BY <2>1, <3>1
      <3> QED
        BY <1>4, <2>1, <3>1, <3>4, <3>5
    <2> QED
      BY <1>2, <1>8, <2>1 DEF HandleMessage
  <1>9. CASE HandleAnswer
    <2>1. command.call \in Calls
      BY <1>1, <1>9 DEF HandleAnswer, CommandRecords, Calls, DshInv, CommandsAimed
    <2> QED
      BY <1>3, <1>9, <2>1 DEF HandleAnswer
  <1>10. CASE GivesUp
    <2>1. PICK c \in Calls : c = command.call
      BY <1>1, <1>10 DEF GivesUp, CommandRecords, Calls, DshInv, CommandsAimed
    <2>2. PICK call \in CallRecords : call = calls[c]
      BY DEF DshInv, DshTypes
    <2> DEFINE y == [call EXCEPT !.awaited = FALSE]
    <2>3. y \in CallRecords /\ y.at = call.at /\ y.op = call.op /\ y.message = call.message /\ y.inc = call.inc
      BY DEF CallRecords
    <2> HIDE DEF y
    <2>4. Moved(c, y)
      BY <1>10, <2>1, <2>2 DEF y, GivesUp
    <2> QED
      BY <1>1, <2>2, <2>3, <2>4, KeysMoved
  <1> QED
    BY <1>5, <1>6, <1>7, <1>8, <1>9, <1>10

LEMMA KeysStep == ASSUME DshInv, KeysInv, [DshNext]_dshVars PROVE KeysInv'
  <1>1. given \in Nat /\ given <= MaxCommands /\ MaxCommands \in Nat
    BY DshAssumption DEF DshInv, DshTypes, KeysInv, Keyed
  <1>2. CASE AgentChanges \/ RoundBegins \/ RoundEnds \/ RowChanges \/ UNCHANGED dshVars
    <2>1. cache' = cache /\ calls' = calls /\ given' = given
      BY <1>2 DEF AgentChanges, RoundBegins, RoundEnds, RowChanges, World, dshVars, pluginParts, palParts
    <2> QED
      BY <1>1, <2>1, KeysKept
  <1>3. CASE \E c \in Calls :
                \/ ListRows(c) \/ ListDone(c) \/ Resolve(c) \/ Read(c) \/ ReserveKey(c)
                \/ ResumeAgent(c) \/ SubmitResumed(c)
    BY <1>3, KeysListed, KeysReserve, KeysResumed
  <1>4. CASE PluginRestarts
    BY <1>4, KeysForgotten
  <1>5. CASE RefreshAsks \/ DshRefresh \/ SelectTarget \/ HandleMessage \/ HandleAnswer \/ GivesUp
    BY <1>5, KeysOfPal
  <1>6. CASE \E target \in 0..lastInc, op \in {"prompt", "read", "pageDown"} : Command(target, op)
    <2>1. cache' = cache /\ calls' = calls /\ given' = given + 1 /\ given < MaxCommands
      BY <1>6 DEF Command, pluginParts
    <2> QED
      BY <1>1, <2>1, KeysKept
  <1> QED
    BY <1>2, <1>3, <1>4, <1>5, <1>6 DEF DshNext

LEMMA KeysStart == DshInit => KeysInv
  <1> SUFFICES ASSUME DshInit PROVE KeysInv
    OBVIOUS
  <1>1. cache = [m \in 1..MaxCommands |-> Nobody] /\ calls = [c \in Calls |-> NoCall] /\ given = 0
    BY DEF DshInit
  <1>2. NoCall.at = "none" /\ NoCall.op = "none"
    BY DEF NoCall
  <1>3. MaxCommands \in Nat
    BY DshAssumption
  <1> QED
    BY <1>1, <1>2, <1>3 DEF KeysInv, Keyed, KeysReserved, Resumes

LEMMA DshServes == DshInv /\ KeysInv => DshSessionsServed
  BY DEF DshInv, KeysInv, AgentsKept, CommandsAimed, DshSessionsServed, DshTargetsHold

(* While the session is replaced, resumed or listed anew during any call,  *)
(* one incarnation is given prompts through one agent, a resumed history   *)
(* takes a message under one reserved key, a command concerns the target   *)
(* it named, and the end of a round is given its notice, which may fail.   *)
THEOREM SessionsOfDsh == DshSpec => []DshSessionsServed
  <1>1. DshInit => DshInv /\ KeysInv
    BY DshStart, KeysStart
  <1>2. (DshInv /\ KeysInv) /\ [DshNext]_dshVars => (DshInv /\ KeysInv)'
    BY DshStep, KeysStep
  <1> QED
    BY <1>1, <1>2, DshServes, PTL DEF DshSpec

----------------------------------------------------------------------------
(* UserRateLimiter.                                                        *)

Stamps == [at : Nat, nth : Nat]

(* The stamps of a time are numbered without a gap, so that the next number*)
(* is free.                                                                *)
Numbered == \A s \in stamps : s.nth <= Cardinality({o \in stamps : o.at = s.at})

LimiterInv ==
    /\ limits \in [second : Nat, minute : Nat] /\ clock \in Nat
    /\ stamps \subseteq Stamps /\ IsFiniteSet(stamps) /\ Numbered

(* Of finitely many stamps there is one that any smaller number of them    *)
(* follow, because no two are followed by as many (windowRetry's sort).    *)
LEMMA SomeLeaves ==
    ASSUME NEW ts \in SUBSET Stamps, IsFiniteSet(ts), NEW limit \in Nat \ {0}, Cardinality(ts) >= limit
    PROVE  \E s \in ts : Cardinality(Later(ts, s)) = limit - 1
<1> DEFINE size == Cardinality(ts)
           after(s) == Cardinality(Later(ts, s))
           f == [s \in ts |-> after(s)]
<1>1. size \in Nat
    BY FS_CardinalityType
<1>2. \A s \in ts : /\ Later(ts, s) \subseteq ts \ {s} /\ IsFiniteSet(Later(ts, s))
                    /\ after(s) \in 0..(size - 1)
    <2> TAKE s \in ts
    <2>1. Later(ts, s) \subseteq ts \ {s}
        BY DEF Later, Stamps
    <2>2. IsFiniteSet(ts \ {s}) /\ Cardinality(ts \ {s}) = size - 1
        BY FS_RemoveElement
    <2>3. IsFiniteSet(Later(ts, s)) /\ after(s) <= size - 1
        BY <2>1, <2>2, FS_Subset
    <2>4. after(s) \in Nat
        BY <2>3, FS_CardinalityType
    <2> QED
        BY <1>1, <2>1, <2>3, <2>4
<1>3. ASSUME NEW s \in ts, NEW o \in Later(ts, s)
      PROVE  after(o) < after(s)
    <2>1. o \in ts /\ Later(ts, o) \subseteq Later(ts, s) /\ o \notin Later(ts, o)
        BY DEF Later, Stamps
    <2>2. after(o) <= after(s) /\ after(o) # after(s)
        BY <1>2, <2>1, FS_Subset
    <2> QED
        BY <1>1, <1>2, <2>1, <2>2
<1>4. ASSUME NEW s \in ts, NEW o \in ts, s # o
      PROVE  after(s) # after(o)
    <2>1. o \in Later(ts, s) \/ s \in Later(ts, o)
        <3>1. s = [at |-> s.at, nth |-> s.nth] /\ o = [at |-> o.at, nth |-> o.nth]
            BY DEF Stamps
        <3>2. s.at # o.at \/ s.nth # o.nth
            BY <1>4, <3>1
        <3> QED
            BY <3>2 DEF Later, Stamps
    <2>2. after(s) \in Int /\ after(o) \in Int
        BY <1>1, <1>2
    <2> HIDE DEF after
    <2> QED
        BY <2>1, <2>2, <1>3
<1>5. f \in Injection(ts, 0..(size - 1))
    <2>1. f \in [ts -> 0..(size - 1)]
        BY <1>2
    <2>2. \A s, o \in ts : f[s] = f[o] => s = o
        BY <1>4
    <2> QED
        BY <2>1, <2>2 DEF Injection, IsInjective
<1>6. IsFiniteSet(0..(size - 1)) /\ Cardinality(0..(size - 1)) = size
    <2>1. 0 \in Int /\ size - 1 \in Int /\ size # 0
        BY <1>1
    <2> QED
        BY <1>1, <2>1, FS_Interval
<1>7. f \in Surjection(ts, 0..(size - 1))
    BY <1>5, <1>6, FS_Injection
<1>8. limit - 1 \in 0..(size - 1)
    BY <1>1
<1> QED
    BY <1>7, <1>8 DEF Surjection

(* As time goes on fewer stamps count.                                     *)
LEMMA FewerCount ==
    ASSUME NEW ts \in SUBSET Stamps, IsFiniteSet(ts), NEW t \in Nat, NEW u \in Nat, t <= u,
           NEW window \in Nat
    PROVE  /\ Eligible(ts, u, window) \subseteq Eligible(ts, t, window)
           /\ IsFiniteSet(Eligible(ts, t, window)) /\ IsFiniteSet(Eligible(ts, u, window))
           /\ Cardinality(Eligible(ts, u, window)) \in Nat
           /\ Cardinality(Eligible(ts, u, window)) <= Cardinality(Eligible(ts, t, window))
<1>1. Eligible(ts, u, window) \subseteq Eligible(ts, t, window) /\ Eligible(ts, t, window) \subseteq ts
    BY DEF Eligible, Stamps
<1> QED
    BY <1>1, FS_Subset, FS_CardinalityType

(* One window: it is open again when the wait it tells is over, and not    *)
(* before (windowRetry).                                                   *)
LEMMA WindowWait ==
    ASSUME NEW ts \in SUBSET Stamps, IsFiniteSet(ts), NEW t \in Nat, NEW window \in Nat,
           NEW limit \in Nat, Exceeded(ts, t, window, limit)
    PROVE  LET r == RetryAfter(ts, t, window, limit)
           IN  /\ r \in Nat \ {0}
               /\ \A u \in Nat : u >= t => (Exceeded(ts, u, window, limit) <=> u < t + r)
<1> DEFINE present == Eligible(ts, t, window)
           leaving == CHOOSE s \in present : Cardinality(Later(present, s)) = limit - 1
           r == RetryAfter(ts, t, window, limit)
<1>1. present \subseteq ts /\ present \in SUBSET Stamps /\ IsFiniteSet(present)
    <2>1. present \subseteq ts
        BY DEF Eligible
    <2> QED
        BY <2>1, FS_Subset
<1>2. limit \in Nat \ {0} /\ Cardinality(present) >= limit
    BY DEF Exceeded
<1>3. leaving \in present /\ Cardinality(Later(present, leaving)) = limit - 1
    BY <1>1, <1>2, SomeLeaves
<1>4. r = leaving.at + window - t
    BY DEF RetryAfter
<1>5. leaving.at \in Nat /\ t < leaving.at + window
    BY <1>1, <1>3 DEF Eligible, Stamps
<1> HIDE DEF leaving, r, present
<1>6. r \in Nat \ {0}
    BY <1>4, <1>5
<1>7. IsFiniteSet(Later(present, leaving)) /\ leaving \notin Later(present, leaving) /\ Later(present, leaving) \subseteq present
    <2>1. Later(present, leaving) \subseteq present
        BY DEF Later
    <2> QED
        BY <1>1, <1>3, <2>1, FS_Subset DEF Later, Stamps
<1>8. ASSUME NEW u \in Nat, u >= t, u < t + r
      PROVE  Exceeded(ts, u, window, limit)
    <2>1. Later(present, leaving) \cup {leaving} \subseteq Eligible(ts, u, window)
        BY <1>1, <1>3, <1>4, <1>5, <1>8 DEF Later, Eligible, Stamps
    <2>2. /\ IsFiniteSet(Later(present, leaving) \cup {leaving})
          /\ Cardinality(Later(present, leaving) \cup {leaving}) = limit
        BY <1>2, <1>3, <1>7, FS_AddElement
    <2>3. IsFiniteSet(Eligible(ts, u, window))
        BY FewerCount
    <2>4. Cardinality(Eligible(ts, u, window)) >= limit
        BY <2>1, <2>2, <2>3, FS_Subset, FS_CardinalityType
    <2> QED
        BY <1>2, <2>4 DEF Exceeded
<1>9. ASSUME NEW u \in Nat, u >= t, u >= t + r
      PROVE  ~Exceeded(ts, u, window, limit)
    <2>1. Eligible(ts, u, window) \subseteq Later(present, leaving)
        BY <1>1, <1>3, <1>4, <1>5, <1>9 DEF Later, Eligible, Stamps, present
    <2>2. Cardinality(Eligible(ts, u, window)) <= limit - 1
        BY <1>3, <1>7, <2>1, FS_Subset
    <2>3. Cardinality(Eligible(ts, u, window)) \in Nat
        BY <1>7, <2>1, FS_Subset, FS_CardinalityType
    <2> QED
        BY <1>2, <2>2, <2>3 DEF Exceeded
<1>10. ASSUME NEW u \in Nat, u >= t
       PROVE  Exceeded(ts, u, window, limit) <=> u < t + r
    <2>1. CASE u < t + r
        BY <1>8, <1>10, <2>1
    <2>2. CASE ~(u < t + r)
        <3>1. u >= t + r
            BY <1>6, <2>2
        <3> QED
            BY <1>9, <1>10, <2>2, <3>1
    <2> QED
        BY <2>1, <2>2
<1> QED
    BY <1>6, <1>10 DEF r

(* What prune drops is in no window that has a limit: the longest of them  *)
(* is the one it prunes by (prune).                                        *)
LEMMA PrunedCounts ==
    ASSUME LimiterInv, NEW t \in Nat, NEW v \in Windows, v[2] > 0
    PROVE  Eligible(Prune(stamps, t), t, v[1]) = Eligible(stamps, t, v[1])
<1>1. SecondWindow \in Nat /\ MinuteWindow \in Nat /\ SecondWindow <= MinuteWindow
    BY LimiterAssumption
<1>2. v = <<SecondWindow, limits.second>> \/ v = <<MinuteWindow, limits.minute>>
    BY DEF Windows
<1>3. v[1] \in Nat /\ v[1] <= (IF limits.minute = 0 THEN SecondWindow ELSE MinuteWindow)
    BY <1>1, <1>2 DEF LimiterInv
<1> QED
    BY <1>1, <1>3 DEF Eligible, Prune, LimiterInv, Stamps

(* The windows that refuse an input, and the waits they tell.              *)
LEMMA RefusedBy ==
    ASSUME LimiterInv, NEW t \in Nat, NEW v \in Windows
    PROVE  /\ v[1] \in Nat /\ v[2] \in Nat
           /\ Exceeded(Prune(stamps, t), t, v[1], v[2]) <=> Exceeded(stamps, t, v[1], v[2])
           /\ Exceeded(stamps, t, v[1], v[2]) =>
                RetryAfter(Prune(stamps, t), t, v[1], v[2]) = RetryAfter(stamps, t, v[1], v[2])
<1>1. v[1] \in Nat /\ v[2] \in Nat
    BY LimiterAssumption DEF Windows, LimiterInv
<1>2. v[2] > 0 => Eligible(Prune(stamps, t), t, v[1]) = Eligible(stamps, t, v[1])
    BY PrunedCounts
<1> QED
    BY <1>1, <1>2 DEF Exceeded, RetryAfter

LEMMA ExceedsWhen ==
    ASSUME LimiterInv, NEW t \in Nat
    PROVE  Exceeds(stamps, t) <=> \E v \in Windows : Exceeded(stamps, t, v[1], v[2])
<1>1. Waits(Prune(stamps, t), t) # {} <=> \E v \in Windows : Exceeded(stamps, t, v[1], v[2])
    BY RefusedBy DEF Waits
<1>2. ASSUME NEW v \in Windows, Exceeded(stamps, t, v[1], v[2])
      PROVE  Limited
    BY <1>2 DEF Windows, Exceeded, Limited
<1> QED
    BY <1>1, <1>2 DEF Exceeds

LEMMA LongestWait ==
    ASSUME LimiterInv, Exceeds(stamps, clock)
    PROVE  /\ RetryIn(stamps, clock) \in Nat
           /\ \E v \in Windows : /\ Exceeded(stamps, clock, v[1], v[2])
                                 /\ RetryIn(stamps, clock) = RetryAfter(stamps, clock, v[1], v[2])
           /\ \A v \in Windows : Exceeded(stamps, clock, v[1], v[2]) =>
                RetryAfter(stamps, clock, v[1], v[2]) <= RetryIn(stamps, clock)
<1> DEFINE waits == Waits(Prune(stamps, clock), clock)
           wait(v) == RetryAfter(stamps, clock, v[1], v[2])
           refused == {v \in Windows : Exceeded(stamps, clock, v[1], v[2])}
           a == <<SecondWindow, limits.second>>
           b == <<MinuteWindow, limits.minute>>
<1>0. clock \in Nat
    BY DEF LimiterInv
<1>1. waits = {wait(v) : v \in refused}
    BY <1>0, RefusedBy DEF Waits
<1>2. \A v \in refused : wait(v) \in Nat
    <2> TAKE v \in refused
    <2>1. v[1] \in Nat /\ v[2] \in Nat /\ Exceeded(stamps, clock, v[1], v[2])
        BY <1>0, RefusedBy
    <2> QED
        BY <1>0, <2>1, WindowWait DEF LimiterInv
<1>3. refused \subseteq {a, b} /\ refused # {}
    BY <1>0, ExceedsWhen DEF Windows
<1> HIDE DEF wait, refused
<1>4. \E v \in refused : \A w \in refused : wait(w) <= wait(v)
    <2>1. CASE refused = {a}
        BY <1>2, <2>1
    <2>2. CASE refused = {b}
        BY <1>2, <2>2
    <2>3. CASE refused = {a, b}
        <3>1. wait(a) \in Nat /\ wait(b) \in Nat
            BY <1>2, <2>3
        <3>2. wait(a) <= wait(b) \/ wait(b) <= wait(a)
            BY <3>1
        <3>3. wait(a) <= wait(a) /\ wait(b) <= wait(b)
            BY <3>1
        <3> QED
            BY <2>3, <3>2, <3>3
    <2> QED
        BY <1>3, <2>1, <2>2, <2>3
<1>5. \E r \in waits : \A s \in waits : s <= r
    BY <1>1, <1>4
<1>6. RetryIn(stamps, clock) \in waits /\ \A s \in waits : s <= RetryIn(stamps, clock)
    BY <1>5 DEF RetryIn
<1> HIDE DEF waits
<1>7. /\ \E v \in refused : RetryIn(stamps, clock) = wait(v)
      /\ \A v \in refused : wait(v) <= RetryIn(stamps, clock)
    BY <1>1, <1>6
<1> QED
    BY <1>2, <1>7 DEF wait, refused

LEMMA WaitExact == ASSUME LimiterInv PROVE RetryExact
<1> SUFFICES ASSUME Exceeds(stamps, clock)
    PROVE  LET r == RetryIn(stamps, clock) IN
           /\ ~Exceeds(stamps, clock + r)
           /\ \A k \in 0..(r - 1) : Exceeds(stamps, clock + k)
    BY DEF RetryExact
<1> DEFINE r == RetryIn(stamps, clock)
<1>1. clock \in Nat /\ stamps \in SUBSET Stamps /\ IsFiniteSet(stamps)
    BY DEF LimiterInv
<1>2. r \in Nat
    BY LongestWait
<1>3. ASSUME NEW v \in Windows, Exceeded(stamps, clock, v[1], v[2])
      PROVE  \A u \in Nat : u >= clock =>
                (Exceeded(stamps, u, v[1], v[2])
                    <=> u < clock + RetryAfter(stamps, clock, v[1], v[2]))
    <2>1. v[1] \in Nat /\ v[2] \in Nat
        BY <1>1, RefusedBy
    <2> QED
        BY <1>1, <1>3, <2>1, WindowWait
<1>4. ASSUME NEW v \in Windows, Exceeded(stamps, clock, v[1], v[2])
      PROVE  RetryAfter(stamps, clock, v[1], v[2]) \in Nat
    <2>1. v[1] \in Nat /\ v[2] \in Nat
        BY <1>1, RefusedBy
    <2> QED
        BY <1>1, <1>4, <2>1, WindowWait
<1>5. ASSUME NEW v \in Windows, Exceeded(stamps, clock + r, v[1], v[2])
      PROVE  FALSE
    <2>1. CASE Exceeded(stamps, clock, v[1], v[2])
        <3>1. RetryAfter(stamps, clock, v[1], v[2]) <= r
            BY <2>1, LongestWait
        <3>2. clock + r \in Nat /\ clock + r >= clock
            BY <1>1, <1>2
        <3>3. clock + r < clock + RetryAfter(stamps, clock, v[1], v[2])
            BY <1>3, <1>5, <2>1, <3>2
        <3> HIDE DEF r
        <3> QED
            BY <1>1, <1>2, <1>4, <2>1, <3>1, <3>3
    <2>2. CASE ~Exceeded(stamps, clock, v[1], v[2])
        <3>1. v[1] \in Nat /\ v[2] \in Nat
            BY <1>1, RefusedBy
        <3>2. PICK u \in Nat : u = clock + r /\ clock <= u
            BY <1>1, <1>2
        <3>3. /\ Cardinality(Eligible(stamps, u, v[1])) \in Nat
              /\ IsFiniteSet(Eligible(stamps, clock, v[1]))
              /\ Cardinality(Eligible(stamps, u, v[1])) <= Cardinality(Eligible(stamps, clock, v[1]))
            BY <1>1, <3>1, <3>2, FewerCount
        <3>4. Cardinality(Eligible(stamps, clock, v[1])) \in Nat
            BY <3>3, FS_CardinalityType
        <3> QED
            BY <1>5, <2>2, <3>1, <3>2, <3>3, <3>4 DEF Exceeded
    <2> QED
        BY <2>1, <2>2
<1>6. ~Exceeds(stamps, clock + r)
    BY <1>1, <1>2, <1>5, ExceedsWhen
<1>7. ASSUME NEW k \in 0..(r - 1)
      PROVE  Exceeds(stamps, clock + k)
    <2>1. PICK v \in Windows : /\ Exceeded(stamps, clock, v[1], v[2])
                               /\ r = RetryAfter(stamps, clock, v[1], v[2])
        BY LongestWait
    <2>2. clock + k \in Nat /\ clock + k >= clock /\ clock + k < clock + r
        BY <1>1, <1>2
    <2>3. Exceeded(stamps, clock + k, v[1], v[2])
        BY <1>3, <2>1, <2>2
    <2> QED
        BY <2>2, <2>3, ExceedsWhen
<1> QED
    BY <1>6, <1>7

(* The number that an input is given is free, so that it is counted.       *)
LEMMA StampFree == ASSUME LimiterInv PROVE Stamp \in Stamps \ stamps
<1> DEFINE same == {s \in stamps : s.at = clock}
<1>1. IsFiniteSet(same) /\ Cardinality(same) \in Nat
    <2>1. same \subseteq stamps
        OBVIOUS
    <2> QED
        BY <2>1, FS_Subset, FS_CardinalityType DEF LimiterInv
<1>2. ASSUME Stamp \in stamps PROVE FALSE
    <2>1. Stamp.at = clock /\ Stamp.nth = Cardinality(same) + 1
        BY DEF Stamp
    <2>2. Stamp.nth <= Cardinality(same)
        BY <1>2, <2>1 DEF LimiterInv, Numbered
    <2> HIDE DEF same
    <2> QED
        BY <1>1, <2>1, <2>2
<1> QED
    BY <1>1, <1>2 DEF Stamp, Stamps, LimiterInv

(* Both prune and a new stamp leave the numbers of a time without a gap.   *)
LEMMA AllowKeeps == ASSUME LimiterInv, Allow PROVE LimiterInv'
<1> DEFINE kept == Prune(stamps, clock)
           At(ts, t) == {o \in ts : o.at = t}
<1>1. kept \subseteq stamps /\ IsFiniteSet(kept) /\ kept \subseteq Stamps
    <2>1. kept \subseteq stamps
        BY DEF Prune, Eligible
    <2> QED
        BY <2>1, FS_Subset DEF LimiterInv
<1>2. \A s \in kept : At(kept, s.at) = At(stamps, s.at)
    BY DEF Prune, Eligible
<1>3. \A s \in kept : s.nth <= Cardinality(At(kept, s.at))
    BY <1>1, <1>2 DEF LimiterInv, Numbered
<1>4. Stamp \in Stamps \ kept
    BY <1>1, StampFree
<1>5. IsFiniteSet(kept \cup {Stamp})
    BY <1>1, FS_AddElement
<1>6. ASSUME NEW s \in kept \cup {Stamp}
      PROVE  s.nth <= Cardinality(At(kept \cup {Stamp}, s.at))
    <2>1. /\ IsFiniteSet(At(kept, s.at)) /\ IsFiniteSet(At(kept \cup {Stamp}, s.at))
          /\ At(kept, s.at) \subseteq At(kept \cup {Stamp}, s.at)
        <3>1. At(kept, s.at) \subseteq kept /\ At(kept \cup {Stamp}, s.at) \subseteq kept \cup {Stamp}
            OBVIOUS
        <3> QED
            BY <1>1, <1>5, <3>1, FS_Subset
    <2>2. /\ Cardinality(At(kept, s.at)) \in Nat /\ Cardinality(At(kept \cup {Stamp}, s.at)) \in Nat
          /\ Cardinality(At(kept, s.at)) <= Cardinality(At(kept \cup {Stamp}, s.at))
        BY <2>1, FS_Subset, FS_CardinalityType
    <2>3. CASE s \in kept
        <3>1. s.nth \in Nat
            BY <1>1, <2>3 DEF Stamps
        <3> QED
            BY <1>3, <2>2, <2>3, <3>1
    <2>4. CASE s = Stamp
        <3>1. s.at = clock /\ s.nth = Cardinality(At(stamps, clock)) + 1
            BY <2>4 DEF Stamp
        <3>2. At(kept, clock) = At(stamps, clock)
            BY LimiterAssumption DEF Prune, Eligible, LimiterInv, Stamps
        <3>3. At(kept \cup {Stamp}, clock) = At(kept, clock) \cup {Stamp} /\ Stamp \notin At(kept, clock)
            BY <1>4, <2>4, <3>1
        <3>4. Cardinality(At(kept \cup {Stamp}, clock)) = Cardinality(At(kept, clock)) + 1
            BY <2>1, <3>1, <3>3, FS_AddElement
        <3> QED
            BY <2>2, <3>1, <3>2, <3>4
    <2> QED
        BY <2>3, <2>4
<1>7. stamps' = kept \/ stamps' = kept \cup {Stamp}
    BY DEF Allow
<1> QED
    BY <1>1, <1>3, <1>4, <1>5, <1>6, <1>7 DEF LimiterInv, Numbered, Allow

LEMMA LimiterHolds == LimiterSpec => []LimiterInv
<1>1. LimiterInit => LimiterInv
    BY LimiterAssumption, FS_EmptySet DEF LimiterInit, LimiterInv, Numbered
<1>2. LimiterInv /\ [LimiterNext]_limiterVars => LimiterInv'
    <2> SUFFICES ASSUME LimiterInv, [LimiterNext]_limiterVars PROVE LimiterInv'
        OBVIOUS
    <2>1. CASE Allow
        BY <2>1, AllowKeeps
    <2>2. CASE Clock
        BY <2>2 DEF Clock, LimiterInv, Numbered
    <2>3. CASE UNCHANGED limiterVars
        BY <2>3 DEF limiterVars, LimiterInv, Numbered
    <2> QED
        BY <2>1, <2>2, <2>3 DEF LimiterNext
<1> QED
    BY <1>1, <1>2, PTL DEF LimiterSpec

(* A refused user who waits as told is accepted and would not have been    *)
(* sooner, for any limits, windows and past (UserRateLimiter.Allow).       *)
THEOREM WaitToldIsExact == LimiterSpec => []RetryExact
    BY LimiterHolds, WaitExact, PTL

----------------------------------------------------------------------------
(* LoginGuard.                                                             *)

Tries == [began : Nat, ended : Nat, succeeded : BOOLEAN]
Buckets == [failures : Nat, inFlight : BOOLEAN, lockedUntil : Nat, lastSeen : Nat \ {0}]

(* The last f of a key's attempts failed in a row, and no more of them.    *)
InTime(own, i) == own[i].began < own[i - 1].ended + LockDuration
Streak(own, f) ==
    /\ f \in 1..Len(own)
    /\ \A i \in (Len(own) - f + 1)..Len(own) : ~own[i].succeeded
    /\ \A i \in (Len(own) - f + 2)..Len(own) : InTime(own, i)
    /\ f < Len(own) => own[Len(own) - f].succeeded \/ ~InTime(own, Len(own) - f + 1)

(* No row goes on: the last attempt succeeded or is too long ago.          *)
Rested(own, t) ==
    Len(own) > 0 => own[Len(own)].succeeded \/ t >= own[Len(own)].ended + LockDuration

FailedTry(from, to) == [began |-> from, ended |-> to, succeeded |-> FALSE]

(* A bucket that waits for its login counts the row that the login's       *)
(* failure would extend; another one counts the row itself, and is locked  *)
(* when that is long enough.  The sweep has not found it expired.          *)
BucketFits(bucket, own, t, swept) ==
    /\ bucket \in Buckets /\ swept < bucket.lastSeen + LockDuration
    /\ bucket.inFlight =>
          /\ bucket.lockedUntil = 0
          /\ bucket.lastSeen <= t /\ t <= bucket.lastSeen + MaxVerifyTime
          /\ Streak(Append(own, FailedTry(bucket.lastSeen, 0)), bucket.failures + 1)
    /\ ~bucket.inFlight =>
          /\ Streak(own, bucket.failures) /\ bucket.lastSeen = own[Len(own)].ended
          /\ bucket.lockedUntil = IF bucket.failures >= FailureLimit
                                  THEN bucket.lastSeen + LockDuration ELSE 0

(* A table agrees with the attempts of its keys.                           *)
TableFits(keys, buckets, history, t, swept) ==
    /\ history \in [keys -> Seq(Tries)] /\ IsFiniteSet({k \in keys : history[k] # <<>>})
    /\ \A k \in keys : \A i \in 1..Len(history[k]) :
          history[k][i].ended <= t /\ history[k][i].ended <= history[k][i].began + MaxVerifyTime
    /\ buckets \in [DOMAIN buckets -> Buckets]
    /\ DOMAIN buckets \subseteq keys /\ IsFiniteSet(DOMAIN buckets)
    /\ \A k \in DOMAIN buckets : BucketFits(buckets[k], history[k], t, swept)
    /\ \A k \in keys \ DOMAIN buckets : Rested(history[k], t)

(* The logins being verified and the buckets in flight belong together.    *)
LoginRecords == [began : Nat \ {0}, name : Names, source : Sources]
Waiting == {l \in Logins : logins[l] # NoAttempt}
NameOf == [l \in Waiting |-> logins[l].name]
SourceOf == [l \in Waiting |-> logins[l].source]
BeganOf == [l \in Waiting |-> logins[l].began]

Linked(buckets, keyOf, beganOf) ==
    /\ \A l \in DOMAIN keyOf :
          /\ keyOf[l] \in DOMAIN buckets
          /\ buckets[keyOf[l]].inFlight /\ buckets[keyOf[l]].lastSeen = beganOf[l]
    /\ \A l, m \in DOMAIN keyOf : keyOf[l] = keyOf[m] => l = m
    /\ \A k \in DOMAIN buckets : buckets[k].inFlight => \E l \in DOMAIN keyOf : keyOf[l] = k

GuardTypes ==
    /\ time \in Nat \ {0} /\ lastSweep \in 0..time /\ capacity \in Capacities
    /\ logins \in [Logins -> LoginRecords \cup {NoAttempt}] /\ begun \in Nat

GuardInv ==
    /\ GuardTypes
    /\ TableFits(Names, names, nameTries, time, lastSweep)
    /\ TableFits(Sources, sources, sourceTries, time, lastSweep)
    /\ Linked(names, NameOf, BeganOf) /\ Linked(sources, SourceOf, BeganOf)

(* How a row decides whether its key is locked.                            *)
LEMMA StreakLocks ==
    ASSUME NEW own \in Seq(Tries), NEW f \in Nat, Streak(own, f), time \in Nat
    PROVE  LockedBy(own) <=> f >= FailureLimit /\ time < own[Len(own)].ended + LockDuration
<1>1. Len(own) \in Nat /\ FailureLimit \in Nat \ {0} /\ f \in 1..Len(own)
    BY LoginGuardAssumption DEF Streak
<1>2. ASSUME f >= FailureLimit, time < own[Len(own)].ended + LockDuration
      PROVE  LockedBy(own)
    <2>1. (Len(own) - FailureLimit + 1)..Len(own) \subseteq (Len(own) - f + 1)..Len(own)
        BY <1>1, <1>2
    <2>2. (Len(own) - FailureLimit + 2)..Len(own) \subseteq (Len(own) - f + 2)..Len(own)
        BY <1>1, <1>2
    <2>3. \A i \in (Len(own) - FailureLimit + 1)..Len(own) : ~own[i].succeeded
        BY <2>1 DEF Streak
    <2>4. \A i \in (Len(own) - FailureLimit + 2)..Len(own) : own[i].began < own[i - 1].ended + LockDuration
        BY <2>2 DEF Streak, InTime
    <2>5. Len(own) >= FailureLimit
        BY <1>1, <1>2
    <2> QED
        BY <1>2, <2>3, <2>4, <2>5 DEF LockedBy
<1>3. ASSUME LockedBy(own)
      PROVE  f >= FailureLimit /\ time < own[Len(own)].ended + LockDuration
    <2>1. SUFFICES ASSUME f < FailureLimit PROVE FALSE
        BY <1>1, <1>3 DEF LockedBy
    <2>2. Len(own) >= FailureLimit /\ f < Len(own)
        BY <1>1, <1>3, <2>1 DEF LockedBy
    <2>3. Len(own) - f \in (Len(own) - FailureLimit + 1)..Len(own)
        BY <1>1, <2>1, <2>2
    <2>4. Len(own) - f + 1 \in (Len(own) - FailureLimit + 2)..Len(own)
        BY <1>1, <2>1, <2>2
    <2>5. ~own[Len(own) - f].succeeded /\ InTime(own, Len(own) - f + 1)
        BY <1>3, <2>3, <2>4 DEF LockedBy, InTime
    <2> QED
        BY <2>2, <2>5 DEF Streak
<1> QED
    BY <1>2, <1>3

LEMMA RestedOpen ==
    ASSUME NEW own \in Seq(Tries), Rested(own, time), time \in Nat
    PROVE  ~LockedBy(own)
<1>1. SUFFICES ASSUME LockedBy(own) PROVE FALSE
    OBVIOUS
<1>2. FailureLimit \in Nat \ {0} /\ LockDuration \in Nat /\ Len(own) \in Nat /\ Len(own) >= FailureLimit
    BY <1>1, LoginGuardAssumption DEF LockedBy
<1>3. Len(own) \in (Len(own) - FailureLimit + 1)..Len(own) /\ Len(own) \in 1..Len(own)
    BY <1>2
<1>4. own[Len(own)].ended \in Nat
    <2>1. own[Len(own)] \in Tries
        BY <1>3
    <2> QED
        BY <2>1 DEF Tries
<1>5. ~own[Len(own)].succeeded /\ time < own[Len(own)].ended + LockDuration
    BY <1>1, <1>3 DEF LockedBy
<1> QED
    BY <1>2, <1>3, <1>4, <1>5 DEF Rested

(* A failure goes on with a row, or begins one.                            *)
LEMMA Appended ==
    ASSUME NEW own \in Seq(Tries), NEW try \in Tries
    PROVE  /\ Append(own, try) \in Seq(Tries) /\ Len(own) \in Nat
           /\ Len(Append(own, try)) = Len(own) + 1
           /\ Append(own, try)[Len(own) + 1] = try
           /\ \A i \in 1..Len(own) : Append(own, try)[i] = own[i]
    OBVIOUS

LEMMA StreakGrows ==
    ASSUME NEW own \in Seq(Tries), NEW f \in Nat, Streak(own, f), NEW from \in Nat, NEW to \in Nat,
           from < own[Len(own)].ended + LockDuration
    PROVE  Streak(Append(own, FailedTry(from, to)), f + 1)
<1> DEFINE all == Append(own, FailedTry(from, to))
           last == Len(own)
<1>1. FailedTry(from, to) \in Tries
    BY DEF FailedTry, Tries
<1>2. /\ last \in Nat /\ Len(all) = last + 1 /\ all[last + 1] = FailedTry(from, to)
      /\ \A i \in 1..last : all[i] = own[i]
    BY <1>1, Appended
<1>3. f \in 1..last
    BY DEF Streak
<1> HIDE DEF all
<1>4. ASSUME NEW i \in (last - f + 1)..(last + 1) PROVE ~all[i].succeeded
    <2>1. i = last + 1 \/ i \in (last - f + 1)..last
        BY <1>2, <1>3
    <2> QED
        BY <1>2, <1>3, <2>1 DEF FailedTry, Streak
<1>5. ASSUME NEW i \in (last - f + 2)..(last + 1) PROVE InTime(all, i)
    <2>1. CASE i = last + 1
        <3>1. all[i].began = from /\ all[i - 1] = own[last]
            BY <1>2, <1>3, <2>1 DEF FailedTry
        <3> QED
            BY <3>1 DEF InTime
    <2>2. CASE i # last + 1
        <3>1. i \in (last - f + 2)..last /\ i \in 1..last /\ i - 1 \in 1..last
            BY <1>2, <1>3, <2>2
        <3> QED
            BY <1>2, <3>1 DEF InTime, Streak
    <2> QED
        BY <2>1, <2>2
<1>6. ASSUME f + 1 < last + 1
      PROVE  all[last - f].succeeded \/ ~InTime(all, last - f + 1)
    <2>1. last - f \in 1..last /\ last - f + 1 \in 1..last /\ last - f + 1 - 1 = last - f /\ f < last
        BY <1>2, <1>3, <1>6
    <2> QED
        BY <1>2, <2>1 DEF InTime, Streak
<1>7. /\ last + 1 - (f + 1) + 1 = last - f + 1 /\ last + 1 - (f + 1) + 2 = last - f + 2
      /\ last + 1 - (f + 1) = last - f /\ f + 1 \in 1..(last + 1)
    BY <1>2, <1>3
<1>8. Streak(all, f + 1)
    BY <1>2, <1>4, <1>5, <1>6, <1>7 DEF Streak
<1> QED
    BY <1>8 DEF all

LEMMA StreakStarts ==
    ASSUME NEW own \in Seq(Tries), NEW from \in Nat, NEW to \in Nat, Rested(own, from)
    PROVE  Streak(Append(own, FailedTry(from, to)), 1)
<1> DEFINE all == Append(own, FailedTry(from, to))
           last == Len(own)
<1>1. FailedTry(from, to) \in Tries
    BY DEF FailedTry, Tries
<1>2. /\ last \in Nat /\ Len(all) = last + 1 /\ all[last + 1] = FailedTry(from, to)
      /\ \A i \in 1..last : all[i] = own[i]
    BY <1>1, Appended
<1> HIDE DEF all
<1>3. ~all[last + 1].succeeded
    BY <1>2 DEF FailedTry
<1>4. ASSUME 1 < last + 1, ~all[last].succeeded, InTime(all, last + 1) PROVE FALSE
    <2>1. last \in 1..last /\ last + 1 - 1 = last
        BY <1>2, <1>4
    <2>2. own[last].ended \in Nat /\ LockDuration \in Nat
        <3>1. own[last] \in Tries
            BY <2>1
        <3> QED
            BY <3>1, LoginGuardAssumption DEF Tries
    <2>3. from < own[last].ended + LockDuration /\ ~own[last].succeeded
        BY <1>2, <1>4, <2>1 DEF InTime, FailedTry
    <2> QED
        BY <2>1, <2>2, <2>3, <1>2 DEF Rested
<1>5. Streak(all, 1)
    BY <1>2, <1>3, <1>4 DEF Streak
<1> QED
    BY <1>5 DEF all

(* A row is the same whenever its last attempt ended.                      *)
LEMMA StreakEnds ==
    ASSUME NEW own \in Seq(Tries), NEW f, NEW from \in Nat, NEW to \in Nat, NEW end \in Nat,
           Streak(Append(own, FailedTry(from, to)), f)
    PROVE  Streak(Append(own, FailedTry(from, end)), f)
<1> DEFINE was == Append(own, FailedTry(from, to))
           is == Append(own, FailedTry(from, end))
           last == Len(own)
<1>1. FailedTry(from, to) \in Tries /\ FailedTry(from, end) \in Tries
    BY DEF FailedTry, Tries
<1>2. /\ last \in Nat /\ Len(was) = last + 1 /\ Len(is) = last + 1
      /\ was[last + 1] = FailedTry(from, to) /\ is[last + 1] = FailedTry(from, end)
      /\ \A i \in 1..last : was[i] = own[i] /\ is[i] = own[i]
    BY <1>1, Appended
<1> HIDE DEF was, is
<1>3. f \in 1..(last + 1)
    BY <1>2 DEF Streak, was
<1>4. \A i \in 1..(last + 1) : is[i].succeeded = was[i].succeeded /\ is[i].began = was[i].began
    <2> TAKE i \in 1..(last + 1)
    <2>1. i = last + 1 \/ i \in 1..last
        BY <1>2
    <2>2. CASE i = last + 1
        <3>1. is[i] = FailedTry(from, end) /\ was[i] = FailedTry(from, to)
            BY <1>2, <2>2
        <3> QED
            BY <3>1 DEF FailedTry
    <2>3. CASE i \in 1..last
        BY <1>2, <2>3
    <2> QED
        BY <2>1, <2>2, <2>3
<1>5. \A i \in 2..(last + 1) : InTime(is, i) <=> InTime(was, i)
    <2> TAKE i \in 2..(last + 1)
    <2>1. i - 1 \in 1..last /\ i \in 1..(last + 1)
        BY <1>2
    <2> QED
        BY <1>2, <1>4, <2>1 DEF InTime
<1>6. Streak(was, f)
    BY DEF was
<1>7. /\ (last + 1 - f + 1)..(last + 1) \subseteq 1..(last + 1)
      /\ (last + 1 - f + 2)..(last + 1) \subseteq 2..(last + 1)
      /\ f < last + 1 => last + 1 - f \in 1..(last + 1) /\ last + 1 - f + 1 \in 2..(last + 1)
    BY <1>2, <1>3
<1>8a. \A i \in (last + 1 - f + 1)..(last + 1) : ~is[i].succeeded
    <2> TAKE i \in (last + 1 - f + 1)..(last + 1)
    <2>1. i \in 1..(last + 1)
        BY <1>7
    <2>2. ~was[i].succeeded
        BY <1>2, <1>6 DEF Streak
    <2> QED
        BY <1>4, <2>1, <2>2
<1>8b. \A i \in (last + 1 - f + 2)..(last + 1) : InTime(is, i)
    BY <1>2, <1>5, <1>6, <1>7 DEF Streak
<1>9. f < last + 1 => is[last + 1 - f].succeeded \/ ~InTime(is, last + 1 - f + 1)
    BY <1>2, <1>4, <1>5, <1>6, <1>7 DEF Streak
<1>10. Streak(is, f)
    BY <1>2, <1>3, <1>8a, <1>8b, <1>9 DEF Streak
<1> QED
    BY <1>10 DEF is

(* The buckets that a lookup leaves, and those it drops.                   *)
LEMMA BucketExpires ==
    ASSUME time \in Nat, NEW own, NEW bucket, NEW swept, BucketFits(bucket, own, time, swept)
    PROVE  /\ Expired(bucket) <=> time >= bucket.lastSeen + LockDuration
           /\ Expired(bucket) => ~bucket.inFlight
<1>1. /\ bucket.lastSeen \in Nat \ {0} /\ bucket.lockedUntil \in Nat /\ bucket.inFlight \in BOOLEAN
      /\ LockDuration \in Nat \ {0} /\ MaxVerifyTime \in Nat /\ MaxVerifyTime < LockDuration
    BY LoginGuardAssumption DEF BucketFits, Buckets
<1>2. bucket.lockedUntil \in {0, bucket.lastSeen + LockDuration}
    BY <1>1 DEF BucketFits
<1>3. Expired(bucket) <=> time >= bucket.lastSeen + LockDuration
    BY <1>1, <1>2 DEF Expired
<1>4. bucket.inFlight => time <= bucket.lastSeen + MaxVerifyTime
    BY DEF BucketFits
<1> QED
    BY <1>1, <1>3, <1>4

SweepTime == IF SweepDue THEN time ELSE lastSweep

LEMMA LookedBuckets ==
    ASSUME NEW buckets, buckets \in [DOMAIN buckets -> Buckets], NEW k
    PROVE  /\ DOMAIN Looked(buckets, k) \subseteq DOMAIN buckets
           /\ Looked(buckets, k) \in [DOMAIN Looked(buckets, k) -> Buckets]
           /\ \A j \in DOMAIN Looked(buckets, k) :
                 /\ Looked(buckets, k)[j] = buckets[j]
                 /\ SweepDue \/ j = k => ~Expired(buckets[j])
           /\ \A j \in DOMAIN buckets \ DOMAIN Looked(buckets, k) : Expired(buckets[j])
<1> DEFINE swept == Swept(buckets)
           looked == Looked(buckets, k)
<1>1. swept = [j \in {i \in DOMAIN buckets : ~SweepDue \/ ~Expired(buckets[i])} |-> buckets[j]]
    BY DEF Swept, Unexpired, Restrict
<1>2. looked = [j \in DOMAIN swept \ {i \in {k} \cap DOMAIN swept : Expired(swept[i])} |-> swept[j]]
    BY DEF Looked, Active, Restrict
<1> HIDE DEF swept, looked
<1>3. \A j \in DOMAIN swept : j \in DOMAIN buckets /\ swept[j] = buckets[j] /\ (SweepDue => ~Expired(buckets[j]))
    BY <1>1
<1>4. \A j \in DOMAIN buckets \ DOMAIN swept : Expired(buckets[j])
    BY <1>1
<1>5. \A j \in DOMAIN looked : j \in DOMAIN swept /\ looked[j] = swept[j] /\ (j = k => ~Expired(swept[j]))
    BY <1>2
<1>6. \A j \in DOMAIN swept \ DOMAIN looked : Expired(swept[j])
    BY <1>2
<1>7. looked \in [DOMAIN looked -> Buckets]
    BY <1>2, <1>3, <1>5
<1> QED
    BY <1>3, <1>4, <1>5, <1>6, <1>7 DEF looked

LEMMA LookedFits ==
    ASSUME time \in Nat \ {0}, lastSweep \in 0..time, NEW keys, NEW buckets, NEW history, NEW k \in keys,
           TableFits(keys, buckets, history, time, lastSweep)
    PROVE  TableFits(keys, Looked(buckets, k), history, time, SweepTime)
<1> DEFINE looked == Looked(buckets, k)
<1>0. time \in Nat /\ LockDuration \in Nat
    BY LoginGuardAssumption
<1>1. /\ DOMAIN looked \subseteq DOMAIN buckets /\ looked \in [DOMAIN looked -> Buckets]
      /\ \A j \in DOMAIN looked : looked[j] = buckets[j] /\ (SweepDue => ~Expired(buckets[j]))
      /\ \A j \in DOMAIN buckets \ DOMAIN looked : Expired(buckets[j])
    BY LookedBuckets DEF TableFits
<1> HIDE DEF looked
<1>2. ASSUME NEW j \in DOMAIN buckets
      PROVE  BucketFits(buckets[j], history[j], time, lastSweep)
    BY DEF TableFits
<1>3. ASSUME NEW j \in DOMAIN looked
      PROVE  BucketFits(looked[j], history[j], time, SweepTime)
    <2>1. j \in DOMAIN buckets /\ looked[j] = buckets[j]
        BY <1>1
    <2>2. BucketFits(buckets[j], history[j], time, lastSweep)
        BY <1>2, <2>1
    <2>3. SweepDue => time < buckets[j].lastSeen + LockDuration
        <3>1. buckets[j].lastSeen \in Nat
            BY <2>2 DEF BucketFits, Buckets
        <3>2. Expired(buckets[j]) <=> time >= buckets[j].lastSeen + LockDuration
            BY <1>0, <2>2, BucketExpires
        <3> QED
            BY <1>0, <1>1, <3>1, <3>2
    <2> QED
        BY <2>1, <2>2, <2>3 DEF BucketFits, SweepTime
<1>4. ASSUME NEW j \in keys \ DOMAIN looked
      PROVE  Rested(history[j], time)
    <2>1. CASE j \notin DOMAIN buckets
        BY <2>1 DEF TableFits
    <2>2. CASE j \in DOMAIN buckets
        <3>1. Expired(buckets[j]) /\ BucketFits(buckets[j], history[j], time, lastSweep)
            BY <1>1, <1>2, <2>2
        <3>2. ~buckets[j].inFlight /\ time >= buckets[j].lastSeen + LockDuration
            BY <1>0, <3>1, BucketExpires
        <3> QED
            BY <3>1, <3>2 DEF BucketFits, Rested
    <2> QED
        BY <2>1, <2>2
<1>5. IsFiniteSet(DOMAIN looked)
    BY <1>1, FS_Subset DEF TableFits
<1>6. TableFits(keys, looked, history, time, SweepTime)
    BY <1>1, <1>3, <1>4, <1>5 DEF TableFits
<1> QED
    BY <1>6 DEF looked

(* A bucket that allows a login is reserved for it.                        *)
LEMMA ReservedFits ==
    ASSUME time \in Nat \ {0}, NEW swept \in 0..time, NEW keys, NEW buckets, NEW history, NEW k \in keys,
           TableFits(keys, buckets, history, time, swept),
           BucketAllows(buckets, k), k \in DOMAIN buckets => ~Expired(buckets[k])
    PROVE  TableFits(keys, Reserved(buckets, k), history, time, swept)
<1> DEFINE old == IF k \in DOMAIN buckets THEN buckets[k] ELSE NewBucket
           new == [old EXCEPT !.inFlight = TRUE, !.lastSeen = time]
           reserved == Reserved(buckets, k)
           own == history[k]
<1>1. /\ DOMAIN reserved = DOMAIN buckets \cup {k} /\ reserved[k] = new
      /\ \A j \in DOMAIN buckets \ {k} : reserved[j] = buckets[j]
      /\ reserved = [j \in DOMAIN reserved |-> reserved[j]]
    BY DEF Reserved, With
<1>2. own \in Seq(Tries) /\ LockDuration \in Nat \ {0} /\ MaxVerifyTime \in Nat
    BY LoginGuardAssumption DEF TableFits
<1>3. /\ old \in [failures : Nat, inFlight : BOOLEAN, lockedUntil : Nat, lastSeen : Nat]
      /\ old.lockedUntil = 0
      /\ Streak(Append(own, FailedTry(time, 0)), old.failures + 1)
    <2>1. CASE k \in DOMAIN buckets
        <3>1. BucketFits(buckets[k], own, time, swept) /\ old = buckets[k]
            BY <2>1 DEF TableFits
        <3>2. buckets[k] \in Buckets /\ ~buckets[k].inFlight
            BY <2>1, <3>1 DEF BucketFits, BucketAllows
        <3>3. buckets[k].lastSeen \in Nat /\ buckets[k].lockedUntil \in Nat /\ buckets[k].failures \in Nat
            BY <3>2 DEF Buckets
        <3>4. time < buckets[k].lastSeen + LockDuration
            <4>1. ~(time >= buckets[k].lastSeen + LockDuration)
                BY <2>1, <3>1, BucketExpires
            <4> QED
                BY <1>2, <3>3, <4>1
        <3>5. Streak(own, buckets[k].failures) /\ buckets[k].lastSeen = own[Len(own)].ended
            BY <3>1, <3>2 DEF BucketFits
        <3>6. buckets[k].lockedUntil = 0
            <4>1. buckets[k].lockedUntil \in {0, buckets[k].lastSeen + LockDuration}
                BY <3>1, <3>2 DEF BucketFits
            <4>2. buckets[k].lockedUntil = 0 \/ time >= buckets[k].lockedUntil
                BY <2>1 DEF BucketAllows
            <4> QED
                BY <1>2, <3>3, <3>4, <4>1, <4>2
        <3>7. Streak(Append(own, FailedTry(time, 0)), buckets[k].failures + 1)
            BY <1>2, <3>3, <3>4, <3>5, StreakGrows
        <3> QED
            BY <3>1, <3>2, <3>6, <3>7 DEF Buckets
    <2>2. CASE k \notin DOMAIN buckets
        <3>1. Rested(own, time) /\ old = NewBucket
            BY <2>2 DEF TableFits
        <3>2. Streak(Append(own, FailedTry(time, 0)), 1)
            BY <1>2, <3>1, StreakStarts
        <3> HIDE DEF old
        <3>3. old.failures = 0 /\ 0 + 1 = 1
            BY <3>1 DEF NewBucket
        <3>4. Streak(Append(own, FailedTry(time, 0)), old.failures + 1)
            BY <3>2, <3>3
        <3>5. /\ old \in [failures : Nat, inFlight : BOOLEAN, lockedUntil : Nat, lastSeen : Nat]
              /\ old.lockedUntil = 0
            BY <3>1 DEF NewBucket
        <3> QED
            BY <3>4, <3>5
    <2> QED
        BY <2>1, <2>2
<1> HIDE DEF old, own, reserved
<1>4. /\ new \in Buckets /\ new.inFlight /\ new.lastSeen = time /\ new.lockedUntil = 0
      /\ new.failures = old.failures
    BY <1>3 DEF Buckets
<1> HIDE DEF new
<1>5. BucketFits(new, own, time, swept)
    BY <1>2, <1>3, <1>4 DEF BucketFits
<1>6. ASSUME NEW j \in DOMAIN reserved
      PROVE  reserved[j] \in Buckets /\ BucketFits(reserved[j], history[j], time, swept)
    <2>1. CASE j = k
        BY <1>1, <1>4, <1>5, <2>1 DEF own
    <2>2. CASE j # k
        BY <1>1, <2>2 DEF TableFits
    <2> QED
        BY <2>1, <2>2
<1>7. IsFiniteSet(DOMAIN reserved) /\ DOMAIN reserved \subseteq keys
    BY <1>1, FS_AddElement DEF TableFits
<1>8. \A j \in keys \ DOMAIN reserved : Rested(history[j], time)
    BY <1>1 DEF TableFits
<1>9. TableFits(keys, reserved, history, time, swept)
    BY <1>1, <1>6, <1>7, <1>8 DEF TableFits
<1> QED
    BY <1>9 DEF reserved

(* An attempt that ends is the last of its key.                            *)
Ended(from, succeeded) == [began |-> from, ended |-> time, succeeded |-> succeeded]
Recorded(history, k, try) == [history EXCEPT ![k] = Append(@, try)]

LEMMA RecordedFits ==
    ASSUME time \in Nat, NEW swept, NEW keys, NEW buckets, NEW history, NEW k,
           TableFits(keys, buckets, history, time, swept),
           k \in DOMAIN buckets, buckets[k].inFlight, NEW succeeded \in BOOLEAN
    PROVE  LET try == Ended(buckets[k].lastSeen, succeeded)
               after == Recorded(history, k, try)
           IN  /\ try \in Tries /\ history[k] \in Seq(Tries) /\ after[k] = Append(history[k], try)
               /\ \A j \in keys \ {k} : after[j] = history[j]
               /\ after \in [keys -> Seq(Tries)] /\ IsFiniteSet({j \in keys : after[j] # <<>>})
               /\ \A j \in keys : \A i \in 1..Len(after[j]) :
                     after[j][i].ended <= time /\ after[j][i].ended <= after[j][i].began + MaxVerifyTime
<1> DEFINE try == Ended(buckets[k].lastSeen, succeeded)
           after == Recorded(history, k, try)
<1>1. k \in keys /\ history \in [keys -> Seq(Tries)] /\ history[k] \in Seq(Tries)
    BY DEF TableFits
<1>2. BucketFits(buckets[k], history[k], time, swept)
    BY DEF TableFits
<1>3. /\ try \in Tries /\ try.ended <= time /\ try.ended <= try.began + MaxVerifyTime
    BY <1>2 DEF Ended, Tries, BucketFits, Buckets
<1> HIDE DEF try
<1>4. /\ after[k] = Append(history[k], try) /\ \A j \in keys \ {k} : after[j] = history[j]
      /\ after \in [keys -> Seq(Tries)]
    BY <1>1, <1>3 DEF Recorded
<1> HIDE DEF after
<1>5. IsFiniteSet({j \in keys : after[j] # <<>>})
    <2>1. {j \in keys : after[j] # <<>>} \subseteq {j \in keys : history[j] # <<>>} \cup {k}
        BY <1>4
    <2>2. IsFiniteSet({j \in keys : history[j] # <<>>} \cup {k})
        BY FS_AddElement DEF TableFits
    <2> QED
        BY <2>1, <2>2, FS_Subset
<1>6. ASSUME NEW j \in keys, NEW i \in 1..Len(after[j])
      PROVE  after[j][i].ended <= time /\ after[j][i].ended <= after[j][i].began + MaxVerifyTime
    <2>1. CASE j # k
        BY <1>4, <2>1 DEF TableFits
    <2>2. CASE j = k
        <3>1. /\ Len(history[k]) \in Nat /\ Len(after[k]) = Len(history[k]) + 1
              /\ after[k][Len(history[k]) + 1] = try
              /\ \A m \in 1..Len(history[k]) : after[k][m] = history[k][m]
            BY <1>1, <1>3, <1>4, Appended
        <3>2. i = Len(history[k]) + 1 \/ i \in 1..Len(history[k])
            BY <2>2, <3>1
        <3>3. CASE i = Len(history[k]) + 1
            <4>1. after[j][i] = try
                BY <2>2, <3>1, <3>3
            <4> QED
                BY <1>3, <4>1
        <3>4. CASE i \in 1..Len(history[k])
            BY <1>1, <2>2, <3>1, <3>4 DEF TableFits
        <3> QED
            BY <3>2, <3>3, <3>4
    <2> QED
        BY <2>1, <2>2
<1>7. QED
    BY <1>1, <1>3, <1>4, <1>5, <1>6 DEF after, try

LEMMA CountedBucket ==
    ASSUME NEW bucket \in Buckets, NEW t \in Nat \ {0}
    PROVE  LET counted == [bucket EXCEPT !.inFlight = FALSE, !.failures = @ + 1, !.lastSeen = t]
           IN  /\ counted \in Buckets /\ ~counted.inFlight /\ counted.lastSeen = t
               /\ counted.failures = bucket.failures + 1 /\ counted.lockedUntil = bucket.lockedUntil
<1> DEFINE counted == [bucket EXCEPT !.inFlight = FALSE, !.failures = @ + 1, !.lastSeen = t]
<1>1. bucket.failures + 1 \in Nat /\ bucket.lockedUntil \in Nat
    BY DEF Buckets
<1>2. counted.lastSeen = t /\ counted.failures = bucket.failures + 1 /\ counted.lockedUntil = bucket.lockedUntil
    BY DEF Buckets
<1>3. ~counted.inFlight
    BY DEF Buckets
<1>4. counted = [[[bucket EXCEPT !.inFlight = FALSE] EXCEPT !.failures = @ + 1] EXCEPT !.lastSeen = t]
    OBVIOUS
<1>5. counted \in Buckets
    BY <1>1, <1>4 DEF Buckets
<1> QED
    BY <1>2, <1>3, <1>5

LEMMA FailedFits ==
    ASSUME time \in Nat, NEW swept \in 0..time, NEW keys, NEW buckets, NEW history, NEW k,
           TableFits(keys, buckets, history, time, swept), k \in DOMAIN buckets, buckets[k].inFlight
    PROVE  TableFits(keys, FailureCounted(buckets, k),
                     Recorded(history, k, Ended(buckets[k].lastSeen, FALSE)), time, swept)
<1> DEFINE try == Ended(buckets[k].lastSeen, FALSE)
           after == Recorded(history, k, try)
           counted == [buckets[k] EXCEPT !.inFlight = FALSE, !.failures = @ + 1, !.lastSeen = time]
           new == [counted EXCEPT !.lockedUntil =
                     IF counted.failures >= FailureLimit THEN time + LockDuration ELSE @]
           table == FailureCounted(buckets, k)
<1>1. /\ try \in Tries /\ history[k] \in Seq(Tries) /\ after[k] = Append(history[k], try)
      /\ \A j \in keys \ {k} : after[j] = history[j]
      /\ after \in [keys -> Seq(Tries)] /\ IsFiniteSet({j \in keys : after[j] # <<>>})
      /\ \A j \in keys : \A i \in 1..Len(after[j]) :
            after[j][i].ended <= time /\ after[j][i].ended <= after[j][i].began + MaxVerifyTime
  <2>1. FALSE \in BOOLEAN
    OBVIOUS
  <2> QED
    BY <2>1, RecordedFits, Zenon
<1>2. /\ BucketFits(buckets[k], history[k], time, swept) /\ k \in keys /\ LockDuration \in Nat \ {0}
      /\ FailureLimit \in Nat
    BY LoginGuardAssumption DEF TableFits
<1>3. buckets[k] \in Buckets /\ buckets[k].lockedUntil = 0 /\ buckets[k].lastSeen <= time
    BY <1>2 DEF BucketFits
<1>4. /\ DOMAIN table = DOMAIN buckets /\ table[k] = new
      /\ \A j \in DOMAIN buckets \ {k} : table[j] = buckets[j]
      /\ table = [j \in DOMAIN table |-> table[j]]
    BY DEF FailureCounted, With
<1>5. time \in Nat \ {0}
    BY <1>3 DEF Buckets
<1>6. /\ new \in Buckets /\ ~new.inFlight /\ new.lastSeen = time
      /\ new.failures = buckets[k].failures + 1
      /\ new.lockedUntil = IF new.failures >= FailureLimit THEN time + LockDuration ELSE 0
    <2>2. /\ counted \in Buckets /\ ~counted.inFlight /\ counted.lastSeen = time
          /\ counted.failures = buckets[k].failures + 1 /\ counted.lockedUntil = 0
        BY <1>3, <1>5, CountedBucket
    <2> HIDE DEF counted
    <2>3. (IF counted.failures >= FailureLimit THEN time + LockDuration ELSE 0) \in Nat
        BY <1>2, <1>5
    <2>4. /\ new \in Buckets /\ ~new.inFlight /\ new.lastSeen = time
          /\ new.failures = counted.failures
          /\ new.lockedUntil = IF counted.failures >= FailureLimit THEN time + LockDuration ELSE 0
        BY <2>2, <2>3 DEF Buckets
    <2> QED
        BY <2>2, <2>4
<1>7. Streak(after[k], new.failures)
    <2>1. Streak(Append(history[k], FailedTry(buckets[k].lastSeen, 0)), buckets[k].failures + 1)
        BY <1>2 DEF BucketFits
    <2>2. buckets[k].lastSeen \in Nat
        BY <1>3 DEF Buckets
    <2>3. Streak(Append(history[k], FailedTry(buckets[k].lastSeen, time)), buckets[k].failures + 1)
        BY <1>1, <2>1, <2>2, StreakEnds
    <2>4. try = FailedTry(buckets[k].lastSeen, time)
        BY DEF Ended, FailedTry
    <2> HIDE DEF new, try, after
    <2> QED
        BY <1>1, <1>6, <2>3, <2>4
<1>8. after[k][Len(after[k])].ended = time
    <2> HIDE DEF try, after
    <2>0. /\ Len(history[k]) \in Nat /\ Len(after[k]) = Len(history[k]) + 1
          /\ after[k][Len(history[k]) + 1] = try
        BY <1>1, Appended
    <2>1. after[k][Len(after[k])] = try
        BY <2>0
    <2> QED
        BY <2>1 DEF Ended, try
<1> HIDE DEF new, try, after, table
<1>9. BucketFits(new, after[k], time, swept)
    BY <1>2, <1>6, <1>7, <1>8 DEF BucketFits
<1>10. ASSUME NEW j \in DOMAIN table
       PROVE  table[j] \in Buckets /\ BucketFits(table[j], after[j], time, swept)
    <2>1. CASE j = k
        BY <1>4, <1>6, <1>9, <2>1
    <2>2. CASE j # k
        BY <1>1, <1>4, <2>2 DEF TableFits
    <2> QED
        BY <2>1, <2>2
<1>11. \A j \in keys \ DOMAIN table : Rested(after[j], time)
    BY <1>1, <1>4 DEF TableFits
<1>12. TableFits(keys, table, after, time, swept)
    BY <1>1, <1>4, <1>10, <1>11 DEF TableFits
<1> QED
    BY <1>12 DEF table, after, try

LEMMA SucceededFits ==
    ASSUME time \in Nat, NEW swept \in 0..time, NEW keys, NEW buckets, NEW history, NEW k,
           TableFits(keys, buckets, history, time, swept), k \in DOMAIN buckets, buckets[k].inFlight
    PROVE  TableFits(keys, Without(buckets, k),
                     Recorded(history, k, Ended(buckets[k].lastSeen, TRUE)), time, swept)
<1> DEFINE try == Ended(buckets[k].lastSeen, TRUE)
           after == Recorded(history, k, try)
           table == Without(buckets, k)
<1>1. /\ try \in Tries /\ history[k] \in Seq(Tries) /\ after[k] = Append(history[k], try)
      /\ \A j \in keys \ {k} : after[j] = history[j]
      /\ after \in [keys -> Seq(Tries)] /\ IsFiniteSet({j \in keys : after[j] # <<>>})
      /\ \A j \in keys : \A i \in 1..Len(after[j]) :
            after[j][i].ended <= time /\ after[j][i].ended <= after[j][i].began + MaxVerifyTime
    BY RecordedFits
<1>2. /\ DOMAIN table = DOMAIN buckets \ {k}
      /\ \A j \in DOMAIN table : table[j] = buckets[j]
      /\ table = [j \in DOMAIN table |-> table[j]]
    BY DEF Without, Restrict
<1>3. Rested(after[k], time)
    <2> HIDE DEF try, after
    <2>0. /\ Len(history[k]) \in Nat /\ Len(after[k]) = Len(history[k]) + 1
          /\ after[k][Len(history[k]) + 1] = try
        BY <1>1, Appended
    <2>1. after[k][Len(after[k])] = try
        BY <2>0
    <2>2. after[k][Len(after[k])].succeeded
        BY <2>1 DEF Ended, try
    <2> QED
        BY <2>2 DEF Rested
<1> HIDE DEF try, after, table
<1>4. \A j \in DOMAIN table : table[j] \in Buckets /\ BucketFits(table[j], after[j], time, swept)
    BY <1>1, <1>2 DEF TableFits
<1>5. \A j \in keys \ DOMAIN table : Rested(after[j], time)
    BY <1>1, <1>2, <1>3 DEF TableFits
<1>6. IsFiniteSet(DOMAIN table) /\ DOMAIN table \subseteq keys
    BY <1>2, FS_Subset DEF TableFits
<1>7. TableFits(keys, table, after, time, swept)
    BY <1>1, <1>2, <1>4, <1>5, <1>6 DEF TableFits
<1> QED
    BY <1>7 DEF table, after, try

LEMMA TimeFits ==
    ASSUME NEW t \in Nat, NEW swept \in Nat, NEW keys, NEW buckets, NEW history,
           TableFits(keys, buckets, history, t, swept),
           \A k \in DOMAIN buckets : buckets[k].inFlight => t < buckets[k].lastSeen + MaxVerifyTime
    PROVE  TableFits(keys, buckets, history, t + 1, swept)
<1>1. LockDuration \in Nat /\ MaxVerifyTime \in Nat
    BY LoginGuardAssumption
<1>2. ASSUME NEW k \in DOMAIN buckets
      PROVE  BucketFits(buckets[k], history[k], t + 1, swept)
    <2>1. BucketFits(buckets[k], history[k], t, swept)
        BY DEF TableFits
    <2>2. buckets[k].lastSeen \in Nat
        BY <2>1 DEF BucketFits, Buckets
    <2> QED
        BY <1>1, <2>1, <2>2 DEF BucketFits
<1>3. ASSUME NEW k \in keys, NEW i \in 1..Len(history[k])
      PROVE  /\ history[k][i].ended \in Nat /\ history[k][i].ended <= t + 1
             /\ history[k][i].ended <= history[k][i].began + MaxVerifyTime
    <2>1. history[k][i] \in Tries
        BY DEF TableFits
    <2> QED
        BY <2>1 DEF TableFits, Tries
<1>4. ASSUME NEW k \in keys \ DOMAIN buckets
      PROVE  Rested(history[k], t + 1)
    <2>1. Rested(history[k], t) /\ Len(history[k]) \in Nat
        BY DEF TableFits
    <2>2. Len(history[k]) > 0 => history[k][Len(history[k])].ended \in Nat
        BY <1>3, <2>1
    <2> QED
        BY <1>1, <2>1, <2>2 DEF Rested
<1> QED
    BY <1>2, <1>3, <1>4 DEF TableFits

(* What belongs together goes on to: no bucket in flight is dropped.       *)
LEMMA LookedLinked ==
    ASSUME time \in Nat \ {0}, NEW keys, NEW buckets, NEW history, NEW swept, NEW k, NEW keyOf, NEW beganOf,
           TableFits(keys, buckets, history, time, swept), Linked(buckets, keyOf, beganOf)
    PROVE  Linked(Looked(buckets, k), keyOf, beganOf)
<1> DEFINE looked == Looked(buckets, k)
<1>1. /\ DOMAIN looked \subseteq DOMAIN buckets
      /\ \A j \in DOMAIN looked : looked[j] = buckets[j]
      /\ \A j \in DOMAIN buckets \ DOMAIN looked : Expired(buckets[j])
    BY LookedBuckets DEF TableFits
<1> HIDE DEF looked
<1>2. ASSUME NEW j \in DOMAIN buckets, buckets[j].inFlight PROVE j \in DOMAIN looked
    <2>1. BucketFits(buckets[j], history[j], time, swept)
        BY DEF TableFits
    <2> QED
        BY <1>1, <1>2, <2>1, BucketExpires
<1>3. Linked(looked, keyOf, beganOf)
    BY <1>1, <1>2 DEF Linked
<1> QED
    BY <1>3 DEF looked

LEMMA ReservedLinked ==
    ASSUME NEW buckets, \A j \in DOMAIN buckets : buckets[j] \in Buckets,
           NEW k, NEW keyOf, NEW beganOf, Linked(buckets, keyOf, beganOf),
           BucketAllows(buckets, k), NEW l, l \notin DOMAIN keyOf, NEW newKeys, NEW newBegan,
           DOMAIN newKeys = DOMAIN keyOf \cup {l}, newKeys[l] = k, newBegan[l] = time,
           \A m \in DOMAIN keyOf : newKeys[m] = keyOf[m] /\ newBegan[m] = beganOf[m]
    PROVE  Linked(Reserved(buckets, k), newKeys, newBegan)
<1> DEFINE reserved == Reserved(buckets, k)
<1>1. /\ DOMAIN reserved = DOMAIN buckets \cup {k}
      /\ reserved[k].inFlight /\ reserved[k].lastSeen = time
      /\ \A j \in DOMAIN buckets \ {k} : reserved[j] = buckets[j]
    <2> DEFINE old == IF k \in DOMAIN buckets THEN buckets[k] ELSE NewBucket
               new == [old EXCEPT !.inFlight = TRUE, !.lastSeen = time]
    <2>1. /\ DOMAIN reserved = DOMAIN buckets \cup {k} /\ reserved[k] = new
          /\ \A j \in DOMAIN buckets \ {k} : reserved[j] = buckets[j]
        BY DEF Reserved, With
    <2>2. "inFlight" \in DOMAIN old /\ "lastSeen" \in DOMAIN old
        <3>1. CASE k \in DOMAIN buckets
            BY <3>1 DEF Buckets
        <3>2. CASE k \notin DOMAIN buckets
            BY <3>2 DEF NewBucket
        <3> QED
            BY <3>1, <3>2
    <2> HIDE DEF old
    <2>3. new.inFlight /\ new.lastSeen = time
        BY <2>2
    <2> QED
        BY <2>1, <2>3
<1> HIDE DEF reserved
<1>2. \A m \in DOMAIN keyOf : keyOf[m] # k
    BY DEF Linked, BucketAllows
<1>3. ASSUME NEW m \in DOMAIN newKeys
      PROVE  /\ newKeys[m] \in DOMAIN reserved
             /\ reserved[newKeys[m]].inFlight /\ reserved[newKeys[m]].lastSeen = newBegan[m]
    <2>1. CASE m = l
        BY <1>1, <2>1
    <2>2. CASE m # l
        BY <1>1, <1>2, <2>2 DEF Linked
    <2> QED
        BY <2>1, <2>2
<1>4. ASSUME NEW i \in DOMAIN newKeys, NEW m \in DOMAIN newKeys, newKeys[i] = newKeys[m] PROVE i = m
    BY <1>2, <1>4 DEF Linked
<1>5. ASSUME NEW j \in DOMAIN reserved, reserved[j].inFlight PROVE \E m \in DOMAIN newKeys : newKeys[m] = j
    <2>1. CASE j = k
        BY <2>1
    <2>2. CASE j # k
        BY <1>1, <1>5, <2>2 DEF Linked
    <2> QED
        BY <2>1, <2>2
<1>6. Linked(reserved, newKeys, newBegan)
    BY <1>3, <1>4, <1>5 DEF Linked
<1> QED
    BY <1>6 DEF reserved

(* A finished login frees the bucket of its key, and waits no more.        *)
Frees(buckets, k, after) ==
    /\ DOMAIN after \subseteq DOMAIN buckets
    /\ k \in DOMAIN after => ~after[k].inFlight
    /\ \A j \in DOMAIN buckets \ {k} : j \in DOMAIN after /\ after[j] = buckets[j]

WaitsNoMore(keyOf, beganOf, l, newKeys, newBegan) ==
    /\ DOMAIN newKeys = DOMAIN keyOf \ {l}
    /\ \A m \in DOMAIN newKeys : newKeys[m] = keyOf[m] /\ newBegan[m] = beganOf[m]

LEMMA EndedLinked ==
    ASSUME NEW buckets, NEW keyOf, NEW beganOf, Linked(buckets, keyOf, beganOf),
           NEW l \in DOMAIN keyOf, NEW after, Frees(buckets, keyOf[l], after),
           NEW newKeys, NEW newBegan, WaitsNoMore(keyOf, beganOf, l, newKeys, newBegan)
    PROVE  Linked(after, newKeys, newBegan)
<1> DEFINE k == keyOf[l]
<1> USE DEF Frees, WaitsNoMore
<1>1. \A m \in DOMAIN newKeys : keyOf[m] \in DOMAIN buckets \ {k}
    BY DEF Linked
<1>2. \A m \in DOMAIN newKeys :
        /\ newKeys[m] \in DOMAIN after
        /\ after[newKeys[m]].inFlight /\ after[newKeys[m]].lastSeen = newBegan[m]
    BY <1>1 DEF Linked
<1>3. \A i, m \in DOMAIN newKeys : newKeys[i] = newKeys[m] => i = m
    BY DEF Linked
<1>4. \A j \in DOMAIN after : after[j].inFlight => \E m \in DOMAIN newKeys : newKeys[m] = j
    <2> SUFFICES ASSUME NEW j \in DOMAIN after, after[j].inFlight PROVE \E m \in DOMAIN newKeys : newKeys[m] = j
        OBVIOUS
    <2>1. j # k /\ buckets[j].inFlight /\ j \in DOMAIN buckets
        OBVIOUS
    <2>2. PICK m \in DOMAIN keyOf : keyOf[m] = j
        BY <2>1 DEF Linked
    <2> QED
        BY <2>1, <2>2
<1> QED
    BY <1>2, <1>3, <1>4 DEF Linked

(* What a login finds at its key: open exactly when nobody is verified and *)
(* the row does not lock it, and only keys that were tried lately.         *)
LEMMA LookedOpens ==
    ASSUME time \in Nat \ {0}, lastSweep \in 0..time, NEW keys, NEW buckets, NEW history, NEW k \in keys,
           TableFits(keys, buckets, history, time, lastSweep)
    PROVE  BucketAllows(Looked(buckets, k), k)
             <=> /\ ~(k \in DOMAIN buckets /\ buckets[k].inFlight)
                 /\ ~LockedBy(history[k])
<1> DEFINE looked == Looked(buckets, k)
<1>1. /\ DOMAIN looked \subseteq DOMAIN buckets
      /\ \A j \in DOMAIN looked : looked[j] = buckets[j] /\ (j = k => ~Expired(buckets[j]))
      /\ \A j \in DOMAIN buckets \ DOMAIN looked : Expired(buckets[j])
    BY LookedBuckets DEF TableFits
<1> HIDE DEF looked
<1>2. history[k] \in Seq(Tries) /\ LockDuration \in Nat \ {0} /\ FailureLimit \in Nat /\ time \in Nat
    BY LoginGuardAssumption DEF TableFits
<1>3. CASE k \notin DOMAIN buckets
    <2>1. Rested(history[k], time)
        BY <1>3 DEF TableFits
    <2>2. ~LockedBy(history[k])
        BY <1>2, <2>1, RestedOpen
    <2> QED
        BY <1>1, <1>3, <2>2 DEF BucketAllows, looked
<1>4. CASE k \in DOMAIN buckets
    <2>1. BucketFits(buckets[k], history[k], time, lastSweep)
        BY <1>4 DEF TableFits
    <2>2. /\ k \in DOMAIN looked <=> ~Expired(buckets[k])
          /\ k \in DOMAIN looked => looked[k] = buckets[k]
        BY <1>1, <1>4
    <2>3. /\ Expired(buckets[k]) <=> time >= buckets[k].lastSeen + LockDuration
          /\ Expired(buckets[k]) => ~buckets[k].inFlight
        BY <1>2, <2>1, BucketExpires
    <2>4. CASE buckets[k].inFlight
        BY <1>4, <2>2, <2>3, <2>4 DEF BucketAllows, looked
    <2>5. CASE ~buckets[k].inFlight
        <3>1. /\ buckets[k].failures \in Nat /\ buckets[k].lastSeen \in Nat \ {0}
              /\ Streak(history[k], buckets[k].failures)
              /\ buckets[k].lastSeen = history[k][Len(history[k])].ended
              /\ buckets[k].lockedUntil = IF buckets[k].failures >= FailureLimit
                                          THEN buckets[k].lastSeen + LockDuration ELSE 0
            BY <2>1, <2>5 DEF BucketFits, Buckets
        <3>2. LockedBy(history[k]) <=> /\ buckets[k].failures >= FailureLimit
                                       /\ time < buckets[k].lastSeen + LockDuration
            BY <1>2, <3>1, StreakLocks
        <3>3. BucketAllows(looked, k) <=> ~LockedBy(history[k])
            BY <1>2, <2>2, <2>3, <2>5, <3>1, <3>2 DEF BucketAllows
        <3> QED
            BY <2>5, <3>3 DEF looked
    <2> QED
        BY <2>4, <2>5
<1> QED
    BY <1>3, <1>4

LEMMA LookedTried ==
    ASSUME time \in Nat \ {0}, lastSweep \in 0..time, NEW keys, NEW buckets, NEW history, NEW k \in keys,
           TableFits(keys, buckets, history, time, lastSweep),
           NEW j \in DOMAIN Looked(buckets, k), ~buckets[j].inFlight
    PROVE  j \in keys /\ Tried(history[j])
<1> DEFINE own == history[j]
<1>1. /\ j \in DOMAIN buckets /\ j \in keys
      /\ SweepDue => ~Expired(buckets[j])
    BY LookedBuckets DEF TableFits
<1>2. /\ LockDuration \in Nat \ {0} /\ SweepInterval \in Nat /\ MaxVerifyTime \in Nat
    BY LoginGuardAssumption
<1>3. BucketFits(buckets[j], own, time, lastSweep) /\ own \in Seq(Tries)
    BY <1>1 DEF TableFits
<1>4. buckets[j].lastSeen \in Nat /\ lastSweep < buckets[j].lastSeen + LockDuration
    BY <1>3 DEF BucketFits, Buckets
<1>5. Len(own) \in 1..Len(own) /\ buckets[j].lastSeen = own[Len(own)].ended
    BY <1>3 DEF BucketFits, Streak
<1>6. own[Len(own)] \in Tries
    BY <1>3, <1>5
<1>7. own[Len(own)].ended <= own[Len(own)].began + MaxVerifyTime
    BY <1>1, <1>5 DEF TableFits
<1>8. time < buckets[j].lastSeen + LockDuration + SweepInterval
    <2>1. CASE SweepDue
        <3>1. ~(time >= buckets[j].lastSeen + LockDuration)
            BY <1>1, <1>3, <2>1, BucketExpires
        <3> QED
            BY <1>2, <1>4, <3>1
    <2>2. CASE ~SweepDue
        BY <1>2, <1>4, <2>2 DEF SweepDue
    <2> QED
        BY <2>1, <2>2
<1>9. Recent(own[Len(own)].began)
    <2> DEFINE last == own[Len(own)]
    <2>1. last.began \in Nat /\ last.ended \in Nat
        BY <1>6 DEF Tries
    <2>2. time < last.ended + LockDuration + SweepInterval /\ last.ended <= last.began + MaxVerifyTime
        BY <1>5, <1>7, <1>8
    <2> HIDE DEF last
    <2>3. time < last.began + LockDuration + SweepInterval + MaxVerifyTime
        BY <1>2, <2>1, <2>2
    <2> QED
        BY <2>3 DEF Recent, last
<1> QED
    BY <1>1, <1>3, <1>5, <1>9 DEF Tried

(* The keys with an attempt of late or one in its handler.                 *)
KeysTried(keys, history, keyOf) ==
    {j \in keys : Tried(history[j])} \cup {keyOf[l] : l \in DOMAIN keyOf}

LEMMA TriedFinite ==
    ASSUME NEW keys, NEW buckets, NEW history, NEW t, NEW swept, NEW keyOf, NEW beganOf,
           TableFits(keys, buckets, history, t, swept), Linked(buckets, keyOf, beganOf)
    PROVE  IsFiniteSet(KeysTried(keys, history, keyOf))
<1>1. {j \in keys : Tried(history[j])} \subseteq {j \in keys : history[j] # <<>>}
    BY DEF Tried
<1>2. {keyOf[l] : l \in DOMAIN keyOf} \subseteq DOMAIN buckets
    BY DEF Linked
<1>3. IsFiniteSet({j \in keys : history[j] # <<>>} \cup DOMAIN buckets)
    BY FS_Union DEF TableFits
<1> QED
    BY <1>1, <1>2, <1>3, FS_Subset DEF KeysTried

LEMMA LookedRoom ==
    ASSUME time \in Nat \ {0}, lastSweep \in 0..time, capacity \in Nat,
           NEW keys, NEW buckets, NEW history, NEW k \in keys, NEW keyOf, NEW beganOf,
           TableFits(keys, buckets, history, time, lastSweep), Linked(buckets, keyOf, beganOf),
           Cardinality(KeysTried(keys, history, keyOf) \ {k}) < capacity
    PROVE  HasRoom(Looked(buckets, k), k)
<1> DEFINE looked == Looked(buckets, k)
           tried == KeysTried(keys, history, keyOf)
<1>1. DOMAIN looked \subseteq DOMAIN buckets
    BY LookedBuckets DEF TableFits
<1>2. DOMAIN looked \subseteq tried
    <2> SUFFICES ASSUME NEW j \in DOMAIN looked PROVE j \in tried
        OBVIOUS
    <2>1. CASE buckets[j].inFlight
        BY <1>1, <2>1 DEF Linked, KeysTried
    <2>2. CASE ~buckets[j].inFlight
        BY <2>2, LookedTried DEF KeysTried
    <2> QED
        BY <2>1, <2>2
<1>3. IsFiniteSet(tried)
    BY TriedFinite
<1>4. CASE k \in DOMAIN looked
    BY <1>4 DEF HasRoom
<1>5. CASE k \notin DOMAIN looked
    <2>1. DOMAIN looked \subseteq tried \ {k} /\ IsFiniteSet(tried \ {k})
        BY <1>2, <1>3, <1>5, FS_Subset
    <2>2. /\ Cardinality(DOMAIN looked) <= Cardinality(tried \ {k})
          /\ Cardinality(DOMAIN looked) \in Nat /\ Cardinality(tried \ {k}) \in Nat
        BY <2>1, FS_Subset, FS_CardinalityType
    <2> QED
        BY <2>2 DEF HasRoom
<1> QED
    BY <1>4, <1>5

LEMMA AfterFinish ==
    ASSUME NEW buckets, NEW k \in DOMAIN buckets, buckets[k] \in Buckets, time \in Nat \ {0}, NEW succeeded \in BOOLEAN
    PROVE  Frees(buckets, k, IF succeeded THEN Without(buckets, k) ELSE FailureCounted(buckets, k))
<1> USE DEF Frees
<1>1. CASE succeeded
    BY <1>1 DEF Without, Restrict
<1>2. CASE ~succeeded
    <2> DEFINE counted == [buckets[k] EXCEPT !.inFlight = FALSE, !.failures = @ + 1, !.lastSeen = time]
               new == [counted EXCEPT !.lockedUntil =
                         IF counted.failures >= FailureLimit THEN time + LockDuration ELSE @]
               table == FailureCounted(buckets, k)
    <2>1. /\ DOMAIN table = DOMAIN buckets /\ table[k] = new
          /\ \A j \in DOMAIN buckets \ {k} : table[j] = buckets[j]
        BY DEF FailureCounted, With
    <2>2. counted \in Buckets /\ ~counted.inFlight
        BY CountedBucket
    <2> HIDE DEF counted
    <2>3. ~new.inFlight
        BY <2>2 DEF Buckets
    <2> HIDE DEF new
    <2> QED
        BY <1>2, <2>1, <2>3
<1> QED
    BY <1>1, <1>2

(* The invariant is kept by every step.                                    *)
LEMMA LoginsOf ==
    ASSUME GuardTypes
    PROVE  /\ DOMAIN NameOf = Waiting /\ DOMAIN SourceOf = Waiting /\ DOMAIN BeganOf = Waiting
           /\ \A l \in Waiting :
                 /\ l \in Logins /\ logins[l] \in LoginRecords
                 /\ NameOf[l] = logins[l].name /\ SourceOf[l] = logins[l].source
                 /\ BeganOf[l] = logins[l].began
                 /\ NameOf[l] \in Names /\ SourceOf[l] \in Sources
    BY DEF GuardTypes, Waiting, NameOf, SourceOf, BeganOf, LoginRecords

LEMMA BeginKeeps ==
    ASSUME GuardInv, NEW l \in Logins, NEW n \in Names, NEW s \in Sources, BeginLogin(l, n, s)
    PROVE  GuardInv'
<1>1. /\ time \in Nat \ {0} /\ lastSweep \in 0..time /\ time' = time /\ lastSweep' = SweepTime
      /\ SweepTime \in 0..time /\ nameTries' = nameTries /\ sourceTries' = sourceTries
    BY DEF GuardInv, GuardTypes, BeginLogin, SweepTime
<1>2. /\ TableFits(Names, Looked(names, n), nameTries, time, SweepTime)
      /\ TableFits(Sources, Looked(sources, s), sourceTries, time, SweepTime)
    BY <1>1, LookedFits DEF GuardInv
<1>3. /\ Linked(Looked(names, n), NameOf, BeganOf)
      /\ Linked(Looked(sources, s), SourceOf, BeganOf)
    BY <1>1, LookedLinked DEF GuardInv
<1>4. CASE ~Admitted(n, s)
    <2>1. /\ names' = Looked(names, n) /\ sources' = Looked(sources, s)
          /\ logins' = logins /\ begun' = begun
        BY <1>4 DEF BeginLogin
    <2>2. NameOf' = NameOf /\ SourceOf' = SourceOf /\ BeganOf' = BeganOf
        BY <2>1 DEF NameOf, SourceOf, BeganOf, Waiting
    <2>3. GuardTypes'
        BY <1>1, <2>1 DEF GuardInv, GuardTypes, BeginLogin
    <2> QED
        BY <1>1, <1>2, <1>3, <2>1, <2>2, <2>3 DEF GuardInv
<1>5. CASE Admitted(n, s)
    <2> DEFINE record == [began |-> time, name |-> n, source |-> s]
    <2>1. /\ names' = Reserved(Looked(names, n), n) /\ sources' = Reserved(Looked(sources, s), s)
          /\ logins' = [logins EXCEPT ![l] = record] /\ begun' = begun + 1 /\ logins[l] = NoAttempt
        BY <1>5 DEF BeginLogin
    <2>2. BucketAllows(Looked(names, n), n) /\ BucketAllows(Looked(sources, s), s)
        BY <1>5 DEF Admitted
    <2>3. /\ n \in DOMAIN Looked(names, n) => ~Expired(Looked(names, n)[n])
          /\ s \in DOMAIN Looked(sources, s) => ~Expired(Looked(sources, s)[s])
        <3>1. names \in [DOMAIN names -> Buckets] /\ sources \in [DOMAIN sources -> Buckets]
            BY DEF GuardInv, TableFits
        <3>2. n \in DOMAIN Looked(names, n) => ~Expired(Looked(names, n)[n])
            BY <3>1, LookedBuckets
        <3>3. s \in DOMAIN Looked(sources, s) => ~Expired(Looked(sources, s)[s])
            BY <3>1, LookedBuckets
        <3> QED
            BY <3>2, <3>3
    <2>4. /\ TableFits(Names, names', nameTries, time, SweepTime)
          /\ TableFits(Sources, sources', sourceTries, time, SweepTime)
        BY <1>1, <1>2, <2>1, <2>2, <2>3, ReservedFits
    <2>5. record \in LoginRecords /\ record # NoAttempt /\ GuardTypes'
        <3>1. record \in LoginRecords
            BY <1>1 DEF LoginRecords
        <3>2. record # NoAttempt
            <4>1. record.began # NoAttempt.began
                BY <1>1 DEF NoAttempt
            <4> QED
                BY <4>1
        <3> HIDE DEF record
        <3>3. logins' \in [Logins -> LoginRecords \cup {NoAttempt}]
            BY <2>1, <3>1 DEF GuardInv, GuardTypes
        <3> QED
            BY <1>1, <2>1, <3>1, <3>2, <3>3 DEF GuardInv, GuardTypes, BeginLogin
    <2>6. Waiting' = Waiting \cup {l} /\ l \notin Waiting /\ logins'[l] = record
        <3> HIDE DEF record
        <3> QED
            BY <2>1, <2>5 DEF Waiting, GuardInv, GuardTypes
    <2>7. \A m \in Waiting : m # l /\ logins'[m] = logins[m]
        BY <2>1, <2>6 DEF Waiting, GuardInv, GuardTypes
    <2>8. /\ DOMAIN NameOf' = DOMAIN NameOf \cup {l} /\ NameOf'[l] = n /\ BeganOf'[l] = time
          /\ \A m \in DOMAIN NameOf : NameOf'[m] = NameOf[m] /\ BeganOf'[m] = BeganOf[m]
          /\ DOMAIN SourceOf' = DOMAIN SourceOf \cup {l} /\ SourceOf'[l] = s
          /\ \A m \in DOMAIN SourceOf : SourceOf'[m] = SourceOf[m] /\ BeganOf'[m] = BeganOf[m]
          /\ l \notin DOMAIN NameOf /\ l \notin DOMAIN SourceOf
        BY <2>6, <2>7 DEF NameOf, SourceOf, BeganOf
    <2>9. /\ \A j \in DOMAIN Looked(names, n) : Looked(names, n)[j] \in Buckets
          /\ \A j \in DOMAIN Looked(sources, s) : Looked(sources, s)[j] \in Buckets
        BY <1>2 DEF TableFits
    <2>10. Linked(names', NameOf', BeganOf')
        <3> DEFINE looked == Looked(names, n)
                   newKeys == NameOf'
                   newBegan == BeganOf'
        <3>1. /\ Linked(looked, NameOf, BeganOf) /\ BucketAllows(looked, n)
              /\ \A j \in DOMAIN looked : looked[j] \in Buckets
            BY <1>3, <2>2, <2>9
        <3>2. /\ DOMAIN newKeys = DOMAIN NameOf \cup {l} /\ l \notin DOMAIN NameOf
              /\ newKeys[l] = n /\ newBegan[l] = time
              /\ \A m \in DOMAIN NameOf : newKeys[m] = NameOf[m] /\ newBegan[m] = BeganOf[m]
            BY <2>8
        <3> HIDE DEF looked, newKeys, newBegan
        <3>3. Linked(Reserved(looked, n), newKeys, newBegan)
            BY <3>1, <3>2, ReservedLinked
        <3> QED
            BY <2>1, <3>3 DEF looked, newKeys, newBegan
    <2>11. Linked(sources', SourceOf', BeganOf')
        <3> DEFINE looked == Looked(sources, s)
                   newKeys == SourceOf'
                   newBegan == BeganOf'
        <3>1. /\ Linked(looked, SourceOf, BeganOf) /\ BucketAllows(looked, s)
              /\ \A j \in DOMAIN looked : looked[j] \in Buckets
            BY <1>3, <2>2, <2>9
        <3>2. /\ DOMAIN newKeys = DOMAIN SourceOf \cup {l} /\ l \notin DOMAIN SourceOf
              /\ newKeys[l] = s /\ newBegan[l] = time
              /\ \A m \in DOMAIN SourceOf : newKeys[m] = SourceOf[m] /\ newBegan[m] = BeganOf[m]
            BY <2>8
        <3> HIDE DEF looked, newKeys, newBegan
        <3>3. Linked(Reserved(looked, s), newKeys, newBegan)
            BY <3>1, <3>2, ReservedLinked
        <3> QED
            BY <2>1, <3>3 DEF looked, newKeys, newBegan
    <2> QED
        BY <1>1, <2>4, <2>5, <2>10, <2>11 DEF GuardInv
<1> QED
    BY <1>4, <1>5

LEMMA FinishKeeps ==
    ASSUME GuardInv, NEW l \in Logins, NEW succeeded \in BOOLEAN, FinishLogin(l, succeeded)
    PROVE  GuardInv'
<1> DEFINE n == logins[l].name
           s == logins[l].source
           try == Ended(logins[l].began, succeeded)
<1>0. GuardTypes /\ time \in Nat /\ lastSweep \in 0..time
    BY DEF GuardInv, GuardTypes
<1>1. /\ l \in Waiting /\ n = NameOf[l] /\ s = SourceOf[l] /\ logins[l].began = BeganOf[l]
      /\ l \in DOMAIN NameOf /\ l \in DOMAIN SourceOf
    BY <1>0, LoginsOf DEF FinishLogin, Waiting
<1>2. /\ n \in DOMAIN names /\ names[n].inFlight /\ names[n].lastSeen = logins[l].began
      /\ s \in DOMAIN sources /\ sources[s].inFlight /\ sources[s].lastSeen = logins[l].began
    BY <1>1 DEF GuardInv, Linked
<1>3. /\ names' = IF succeeded THEN Without(names, n) ELSE FailureCounted(names, n)
      /\ sources' = IF succeeded THEN Without(sources, s) ELSE FailureCounted(sources, s)
      /\ nameTries' = Recorded(nameTries, n, try) /\ sourceTries' = Recorded(sourceTries, s, try)
      /\ logins' = [logins EXCEPT ![l] = NoAttempt]
      /\ time' = time /\ lastSweep' = lastSweep /\ capacity' = capacity /\ begun' = begun
    BY DEF FinishLogin, Recorded, Ended
<1> HIDE DEF n, s
<1>4. /\ TableFits(Names, names', nameTries', time, lastSweep)
      /\ TableFits(Sources, sources', sourceTries', time, lastSweep)
    <2>1. CASE succeeded
        <3>1. TableFits(Names, Without(names, n), Recorded(nameTries, n, Ended(names[n].lastSeen, TRUE)),
                        time, lastSweep)
            BY <1>0, <1>2, SucceededFits DEF GuardInv
        <3>2. TableFits(Sources, Without(sources, s),
                        Recorded(sourceTries, s, Ended(sources[s].lastSeen, TRUE)), time, lastSweep)
            BY <1>0, <1>2, SucceededFits DEF GuardInv
        <3>3. try = Ended(names[n].lastSeen, TRUE) /\ try = Ended(sources[s].lastSeen, TRUE)
            BY <1>2, <2>1 DEF Ended
        <3> QED
            BY <1>3, <2>1, <3>1, <3>2, <3>3
    <2>2. CASE ~succeeded
        <3>1. TableFits(Names, FailureCounted(names, n),
                        Recorded(nameTries, n, Ended(names[n].lastSeen, FALSE)), time, lastSweep)
            BY <1>0, <1>2, FailedFits DEF GuardInv
        <3>2. TableFits(Sources, FailureCounted(sources, s),
                        Recorded(sourceTries, s, Ended(sources[s].lastSeen, FALSE)), time, lastSweep)
            BY <1>0, <1>2, FailedFits DEF GuardInv
        <3>3. try = Ended(names[n].lastSeen, FALSE) /\ try = Ended(sources[s].lastSeen, FALSE)
            BY <1>2, <2>2 DEF Ended
        <3> QED
            BY <1>3, <2>2, <3>1, <3>2, <3>3
    <2> QED
        BY <2>1, <2>2
<1>5. /\ Waiting' = Waiting \ {l} /\ \A m \in Waiting' : logins'[m] = logins[m]
      /\ GuardTypes'
    BY <1>0, <1>3 DEF Waiting, GuardTypes
<1>6. /\ DOMAIN NameOf' = DOMAIN NameOf \ {l} /\ DOMAIN SourceOf' = DOMAIN SourceOf \ {l}
      /\ \A m \in DOMAIN NameOf' : NameOf'[m] = NameOf[m] /\ BeganOf'[m] = BeganOf[m]
      /\ \A m \in DOMAIN SourceOf' : SourceOf'[m] = SourceOf[m] /\ BeganOf'[m] = BeganOf[m]
    BY <1>5 DEF NameOf, SourceOf, BeganOf
<1>7a. names[n] \in Buckets /\ sources[s] \in Buckets /\ time \in Nat \ {0}
    BY <1>2 DEF GuardInv, TableFits, GuardTypes
<1>7. Frees(names, n, names')
    BY <1>2, <1>3, <1>7a, AfterFinish
<1>8. Frees(sources, s, sources')
    BY <1>2, <1>3, <1>7a, AfterFinish
<1>8a. /\ WaitsNoMore(NameOf, BeganOf, l, NameOf', BeganOf')
       /\ WaitsNoMore(SourceOf, BeganOf, l, SourceOf', BeganOf')
    BY <1>6 DEF WaitsNoMore
<1>9. Linked(names', NameOf', BeganOf')
    <2>1. Linked(names, NameOf, BeganOf) /\ l \in DOMAIN NameOf /\ Frees(names, NameOf[l], names')
        BY <1>1, <1>7 DEF GuardInv
    <2> QED
        BY <2>1, <1>8a, EndedLinked
<1>10. Linked(sources', SourceOf', BeganOf')
    <2>1. /\ Linked(sources, SourceOf, BeganOf) /\ l \in DOMAIN SourceOf
          /\ Frees(sources, SourceOf[l], sources')
        BY <1>1, <1>8 DEF GuardInv
    <2> QED
        BY <2>1, <1>8a, EndedLinked
<1> QED
    BY <1>3, <1>4, <1>5, <1>9, <1>10 DEF GuardInv

LEMMA TimeKeeps == ASSUME GuardInv, TimePasses PROVE GuardInv'
<1>1. /\ time \in Nat \ {0} /\ lastSweep \in 0..time /\ time' = time + 1
      /\ names' = names /\ sources' = sources /\ nameTries' = nameTries /\ sourceTries' = sourceTries
      /\ logins' = logins /\ lastSweep' = lastSweep /\ begun' = begun /\ capacity' = capacity
    BY DEF GuardInv, GuardTypes, TimePasses
<1>2. /\ DOMAIN NameOf = Waiting /\ DOMAIN SourceOf = Waiting
      /\ \A l \in Waiting : BeganOf[l] = logins[l].began /\ time < logins[l].began + MaxVerifyTime
    BY LoginsOf DEF GuardInv, TimePasses, Waiting
<1>3. \A n \in DOMAIN names : names[n].inFlight => time < names[n].lastSeen + MaxVerifyTime
    BY <1>2 DEF GuardInv, Linked
<1>4. \A s \in DOMAIN sources : sources[s].inFlight => time < sources[s].lastSeen + MaxVerifyTime
    BY <1>2 DEF GuardInv, Linked
<1>5. /\ TableFits(Names, names, nameTries, time + 1, lastSweep)
      /\ TableFits(Sources, sources, sourceTries, time + 1, lastSweep)
    BY <1>1, <1>3, <1>4, TimeFits DEF GuardInv
<1>6. NameOf' = NameOf /\ SourceOf' = SourceOf /\ BeganOf' = BeganOf
    BY <1>1 DEF NameOf, SourceOf, BeganOf, Waiting
<1>7. GuardTypes'
    BY <1>1 DEF GuardInv, GuardTypes
<1> QED
    BY <1>1, <1>5, <1>6, <1>7 DEF GuardInv

LEMMA GuardStarts == GuardInit => GuardInv
<1> SUFFICES ASSUME GuardInit PROVE GuardInv
    OBVIOUS
<1>1. Waiting = {}
    BY DEF GuardInit, Waiting
<1>2. GuardTypes
    BY DEF GuardInit, GuardTypes
<1>3. DOMAIN NoBuckets = {} /\ NoBuckets \in [DOMAIN NoBuckets -> Buckets]
    BY DEF NoBuckets
<1>4. /\ Linked(names, NameOf, BeganOf) /\ Linked(sources, SourceOf, BeganOf)
    BY <1>1, <1>3 DEF GuardInit, Linked, NameOf, SourceOf
<1>5. ASSUME NEW keys
      PROVE  TableFits(keys, NoBuckets, [k \in keys |-> <<>>], 1, 0)
    <2>1. {k \in keys : [j \in keys |-> <<>>][k] # <<>>} = {}
        OBVIOUS
    <2>2. \A k \in keys : Rested([j \in keys |-> <<>>][k], 1)
        BY DEF Rested
    <2> QED
        BY <1>3, <2>1, <2>2, FS_EmptySet DEF TableFits
<1> QED
    BY <1>2, <1>4, <1>5 DEF GuardInit, GuardInv

LEMMA GuardHolds == GuardSpec => []GuardInv
<1>1. GuardInv /\ [GuardNext]_guardVars => GuardInv'
    <2> SUFFICES ASSUME GuardInv, [GuardNext]_guardVars PROVE GuardInv'
        OBVIOUS
    <2>1. CASE \E l \in Logins, n \in Names, s \in Sources : BeginLogin(l, n, s)
        BY <2>1, BeginKeeps
    <2>2. CASE \E l \in Logins, succeeded \in BOOLEAN : FinishLogin(l, succeeded)
        BY <2>2, FinishKeeps
    <2>3. CASE TimePasses
        BY <2>3, TimeKeeps
    <2>4. CASE UNCHANGED guardVars
        BY <2>4 DEF guardVars, GuardInv, GuardTypes, NameOf, SourceOf, BeganOf, Waiting
    <2> QED
        BY <2>1, <2>2, <2>3, <2>4 DEF GuardNext
<1> QED
    BY <1>1, GuardStarts, PTL DEF GuardSpec

LEMMA LocksExactly == ASSUME GuardInv PROVE LockExact
<1> SUFFICES ASSUME NEW n \in Names, NEW s \in Sources
    PROVE  LET closed == Verifying(n, s) \/ LockedBy(nameTries[n]) \/ LockedBy(sourceTries[s])
           IN  /\ Admitted(n, s) => ~closed
               /\ closed \/ Admitted(n, s) \/ Crowded(n, s)
    BY DEF LockExact
<1>1. /\ GuardTypes /\ time \in Nat \ {0} /\ lastSweep \in 0..time /\ capacity \in Nat
      /\ TableFits(Names, names, nameTries, time, lastSweep)
      /\ TableFits(Sources, sources, sourceTries, time, lastSweep)
      /\ Linked(names, NameOf, BeganOf) /\ Linked(sources, SourceOf, BeganOf)
    BY LoginGuardAssumption DEF GuardInv, GuardTypes
<1>2. /\ DOMAIN NameOf = Waiting /\ DOMAIN SourceOf = Waiting
      /\ \A l \in Waiting : NameOf[l] = logins[l].name /\ SourceOf[l] = logins[l].source
    BY <1>1, LoginsOf
<1>3. BucketAllows(Looked(names, n), n)
        <=> ~(n \in DOMAIN names /\ names[n].inFlight) /\ ~LockedBy(nameTries[n])
    BY <1>1, LookedOpens
<1>4. BucketAllows(Looked(sources, s), s)
        <=> ~(s \in DOMAIN sources /\ sources[s].inFlight) /\ ~LockedBy(sourceTries[s])
    BY <1>1, LookedOpens
<1>5. Verifying(n, s) <=> \/ (n \in DOMAIN names /\ names[n].inFlight)
                         \/ (s \in DOMAIN sources /\ sources[s].inFlight)
    <2>1. Verifying(n, s) <=> \E l \in Waiting : NameOf[l] = n \/ SourceOf[l] = s
        BY <1>2 DEF Verifying, Waiting
    <2>2. n \in DOMAIN names /\ names[n].inFlight <=> \E l \in Waiting : NameOf[l] = n
        BY <1>1, <1>2 DEF Linked
    <2>3. s \in DOMAIN sources /\ sources[s].inFlight <=> \E l \in Waiting : SourceOf[l] = s
        BY <1>1, <1>2 DEF Linked
    <2> QED
        BY <2>1, <2>2, <2>3
<1>6. TriedNames = KeysTried(Names, nameTries, NameOf)
    BY <1>2 DEF TriedNames, Waiting, KeysTried
<1>7. TriedSources = KeysTried(Sources, sourceTries, SourceOf)
    BY <1>2 DEF TriedSources, Waiting, KeysTried
<1>8. Cardinality(TriedNames \ {n}) < capacity => HasRoom(Looked(names, n), n)
    BY <1>1, <1>6, LookedRoom
<1>9. Cardinality(TriedSources \ {s}) < capacity => HasRoom(Looked(sources, s), s)
    BY <1>1, <1>7, LookedRoom
<1>10. ~Crowded(n, s) => /\ Cardinality(TriedNames \ {n}) < capacity
                         /\ Cardinality(TriedSources \ {s}) < capacity
    <2>1. /\ IsFiniteSet(TriedNames) /\ IsFiniteSet(TriedSources)
        BY <1>1, <1>6, <1>7, TriedFinite
    <2>2. /\ Cardinality(TriedNames \ {n}) \in Nat /\ Cardinality(TriedSources \ {s}) \in Nat
        BY <2>1, FS_RemoveElement, FS_CardinalityType
    <2> QED
        BY <1>1, <2>2 DEF Crowded
<1> QED
    BY <1>3, <1>4, <1>5, <1>8, <1>9, <1>10 DEF Admitted

(* The login protection: whatever attempts were made and however long they *)
(* took, one that is closed by the failures before it is refused, and an   *)
(* open one only for want of room (LoginGuard.Begin, Finish).              *)
THEOREM LoginsLockedExactly == GuardSpec => []LockExact
    BY GuardHolds, LocksExactly, PTL

----------------------------------------------------------------------------
(* AsyncAuditor.                                                           *)
AuditorWork == {"select", "taken", "flushFirst", "add", "flush", "flushLast", "done"}

(* The event the worker holds is the queue's until it is discounted.       *)
Charged == IF work = "taken" THEN <<held>> \o waiting ELSE waiting

(* As Weigh, with sums that do not fall.                                   *)
Sums(events, bytes) ==
    \E sums \in [0..Len(events) -> 0..bytes] :
        /\ sums[0] = 0 /\ sums[Len(events)] = bytes
        /\ \A n \in 1..Len(events) : sums[n] = sums[n - 1] + events[n]
        /\ \A m, n \in 0..Len(events) : m <= n => sums[m] <= sums[n]

AuditTypes ==
    /\ waiting \in Seq(Sizes) /\ batch \in Seq(Sizes) /\ queuedBytes \in Nat /\ batchBytes \in Nat
    /\ stats \in [enqueued : Nat, dropped : Nat, exported : Nat, failed : Nat]
    /\ shut \in BOOLEAN /\ work \in AuditorWork /\ held \in Sizes \cup {0}

AuditInv ==
    /\ AuditTypes
    /\ held # 0 <=> work \in {"taken", "flushFirst", "add"}
    /\ stats.enqueued = stats.exported + stats.failed + Len(waiting) + Len(batch)
                          + (IF held = 0 THEN 0 ELSE 1)
    /\ Sums(batch, batchBytes) /\ Sums(Charged, queuedBytes)
    /\ queuedBytes <= MaxBytes /\ Len(waiting) <= MaxEvents
    /\ Len(batch) <= MaxBatchEvents /\ (Len(batch) > 1 => batchBytes <= MaxBatchBytes)
    /\ work = "add" => ~Overfull
    /\ work \in {"flushLast", "done"} => shut /\ waiting = <<>>
    /\ work = "done" => batch = <<>>

LEMMA NothingSums == Sums(<<>>, 0)
<1> DEFINE sums == [n \in 0..0 |-> 0]
<1>1. /\ sums \in [0..Len(<<>>) -> 0..0] /\ sums[0] = 0 /\ sums[Len(<<>>)] = 0
      /\ \A n \in 1..Len(<<>>) : sums[n] = sums[n - 1] + <<>>[n]
      /\ \A m, n \in 0..Len(<<>>) : m <= n => sums[m] <= sums[n]
    OBVIOUS
<1> HIDE DEF sums
<1> QED
    BY <1>1 DEF Sums

LEMMA SumsAppended ==
    ASSUME NEW s \in Seq(Nat), NEW x \in Nat, NEW total \in Nat, Sums(s, total)
    PROVE  Sums(Append(s, x), total + x)
<1>1. PICK sums \in [0..Len(s) -> 0..total] :
        /\ sums[0] = 0 /\ sums[Len(s)] = total
        /\ \A n \in 1..Len(s) : sums[n] = sums[n - 1] + s[n]
        /\ \A m, n \in 0..Len(s) : m <= n => sums[m] <= sums[n]
    BY DEF Sums
<1> DEFINE more == [n \in 0..(Len(s) + 1) |-> IF n <= Len(s) THEN sums[n] ELSE total + x]
           t == Append(s, x)
<1>2. /\ Len(s) \in Nat /\ Len(t) = Len(s) + 1 /\ t[Len(s) + 1] = x
      /\ \A n \in 1..Len(s) : t[n] = s[n]
    OBVIOUS
<1> HIDE DEF t
<1>3. more \in [0..Len(t) -> 0..(total + x)] /\ more[0] = 0 /\ more[Len(t)] = total + x
    BY <1>1, <1>2
<1>4. ASSUME NEW n \in 1..Len(t) PROVE more[n] = more[n - 1] + t[n]
  <2>1. CASE n <= Len(s)
    BY <1>1, <1>2, <2>1
  <2>2. CASE n = Len(s) + 1
    BY <1>1, <1>2, <2>2
  <2> QED
    BY <1>2, <2>1, <2>2
<1>5. ASSUME NEW m \in 0..Len(t), NEW n \in 0..Len(t), m <= n PROVE more[m] <= more[n]
  <2>1. CASE n <= Len(s)
    BY <1>1, <1>2, <1>5, <2>1
  <2>2. CASE n = Len(s) + 1
    <3>1. more[n] = total + x
      BY <1>2, <2>2
    <3>2. CASE m <= Len(s)
      <4>1. m \in 0..Len(s) /\ more[m] = sums[m]
        BY <1>2, <3>2
      <4>2. sums[m] \in 0..total
        BY <1>1, <4>1
      <4> HIDE DEF more
      <4> QED
        BY <3>1, <4>1, <4>2
    <3>3. CASE m = n
      <4> HIDE DEF more
      <4> QED
        BY <3>1, <3>3
    <3> QED
      BY <1>2, <1>5, <2>2, <3>2, <3>3
  <2> QED
    BY <1>2, <2>1, <2>2
<1> HIDE DEF more
<1> QED
    BY <1>3, <1>4, <1>5 DEF Sums, t

LEMMA SumsTaken ==
    ASSUME NEW s \in Seq(Nat), s # <<>>, NEW total \in Nat, Sums(s, total)
    PROVE  s[1] <= total /\ Sums(Tail(s), total - s[1])
<1>1. PICK sums \in [0..Len(s) -> 0..total] :
        /\ sums[0] = 0 /\ sums[Len(s)] = total
        /\ \A n \in 1..Len(s) : sums[n] = sums[n - 1] + s[n]
        /\ \A m, n \in 0..Len(s) : m <= n => sums[m] <= sums[n]
    BY DEF Sums
<1> DEFINE t == Tail(s)
           x == s[1]
           less == [n \in 0..(Len(s) - 1) |-> sums[n + 1] - x]
<1>2. /\ Len(s) \in Nat \ {0} /\ Len(t) = Len(s) - 1 /\ x \in Nat
      /\ \A n \in 1..Len(t) : t[n] = s[n + 1]
    OBVIOUS
<1> HIDE DEF t, x
<1>3. ASSUME NEW k \in 0..Len(s) PROVE sums[k] \in Nat
  <2>1. sums[k] \in 0..total
    BY <1>1
  <2> QED
    BY <2>1
<1>4. \A m, n \in 0..Len(s) : m <= n => sums[m] <= sums[n]
    BY <1>1
<1>5. sums[1] = x /\ x <= total
  <2>1. 1 \in 1..Len(s) /\ 1 \in 0..Len(s)
    BY <1>2
  <2> QED
    BY <1>1, <1>2, <2>1 DEF x
<1>6. \A n \in 0..Len(t) : x <= sums[n + 1] /\ sums[n + 1] <= total
  <2> TAKE n \in 0..Len(t)
  <2>1. n + 1 \in 0..Len(s) /\ 1 \in 0..Len(s) /\ 1 <= n + 1
    BY <1>2
  <2> QED
    BY <1>1, <1>5, <2>1
<1>7. less \in [0..Len(t) -> 0..(total - x)] /\ less[0] = 0 /\ less[Len(t)] = total - x
  <2>1. ASSUME NEW n \in 0..Len(t) PROVE sums[n + 1] - x \in 0..(total - x)
    <3> DEFINE k == n + 1
    <3>1. k \in 0..Len(s) /\ x <= sums[k] /\ sums[k] <= total
      BY <1>2, <1>6
    <3> HIDE DEF k
    <3>2. sums[k] \in Nat
      BY <1>3, <3>1
    <3>3. sums[k] - x \in 0..(total - x)
      BY <1>2, <3>1, <3>2
    <3> QED
      BY <3>3 DEF k
  <2>2. 0 \in 0..Len(t) /\ Len(t) \in 0..Len(t) /\ Len(t) + 1 = Len(s)
    BY <1>2
  <2>3. less[0] = sums[1] - x /\ less[Len(t)] = sums[Len(s)] - x
    BY <1>2, <2>2
  <2>4. less \in [0..Len(t) -> 0..(total - x)]
    BY <1>2, <2>1
  <2> HIDE DEF less
  <2> QED
    BY <1>1, <1>2, <1>5, <2>3, <2>4
<1>8. ASSUME NEW n \in 1..Len(t) PROVE less[n] = less[n - 1] + t[n]
  <2>1. /\ n + 1 \in 1..Len(s) /\ (n - 1) + 1 = n /\ n \in 0..Len(s) /\ n \in 0..Len(t) /\ n - 1 \in 0..Len(t)
    BY <1>2
  <2>2. less[n] = sums[n + 1] - x /\ less[n - 1] = sums[n] - x
    BY <1>2, <2>1
  <2>3. sums[n + 1] = sums[n] + s[n + 1]
    <3> DEFINE k == n + 1
    <3>1. k \in 1..Len(s) /\ k - 1 = n
      BY <1>2, <2>1
    <3> HIDE DEF k
    <3>2. sums[k] = sums[n] + s[k]
      BY <1>1, <3>1
    <3> QED
      BY <3>2 DEF k
  <2>4. sums[n + 1] \in Nat /\ sums[n] \in Nat
    BY <1>3, <2>1, <1>2
  <2>5. s[n + 1] \in Nat /\ t[n] = s[n + 1]
    BY <1>2, <2>1
  <2> DEFINE a == sums[n + 1]
             b == sums[n]
             c == s[n + 1]
  <2>6. a \in Nat /\ b \in Nat /\ c \in Nat /\ a = b + c
    BY <2>3, <2>4, <2>5
  <2>7. less[n] = a - x /\ less[n - 1] = b - x /\ t[n] = c
    BY <2>2, <2>5
  <2> HIDE DEF less, a, b, c
  <2> QED
    BY <1>2, <2>6, <2>7
<1>9. ASSUME NEW m \in 0..Len(t), NEW n \in 0..Len(t), m <= n PROVE less[m] <= less[n]
  <2>1. m + 1 \in 0..Len(s) /\ n + 1 \in 0..Len(s) /\ m + 1 <= n + 1
    BY <1>2, <1>9
  <2>2. sums[m + 1] <= sums[n + 1] /\ sums[m + 1] \in Nat /\ sums[n + 1] \in Nat
    <3> DEFINE j == m + 1
               k == n + 1
    <3>1. j \in 0..Len(s) /\ k \in 0..Len(s) /\ j <= k
      BY <2>1
    <3> HIDE DEF j, k
    <3>2. sums[j] <= sums[k] /\ sums[j] \in Nat /\ sums[k] \in Nat
      BY <1>3, <1>4, <3>1
    <3> QED
      BY <3>2 DEF j, k
  <2>3. less[m] = sums[m + 1] - x /\ less[n] = sums[n + 1] - x
    BY <1>2
  <2> HIDE DEF less
  <2> QED
    BY <1>2, <2>2, <2>3
<1> HIDE DEF less
<1> QED
    BY <1>5, <1>7, <1>8, <1>9 DEF Sums, t, x

(* The queue as the worker's steps change it.                              *)
LEMMA QueueTaken ==
    ASSUME NEW S, NEW s \in Seq(S), s # <<>>
    PROVE  <<Head(s)>> \o Tail(s) = s /\ Tail(s) \in Seq(S) /\ Head(s) \in S /\ Len(Tail(s)) = Len(s) - 1
OBVIOUS

LEMMA QueueGiven ==
    ASSUME NEW S, NEW s \in Seq(S), NEW x \in S, NEW y \in S
    PROVE  /\ <<y>> \o Append(s, x) = Append(<<y>> \o s, x) /\ <<y>> \o s \in Seq(S)
           /\ Append(s, x) \in Seq(S) /\ Len(Append(s, x)) = Len(s) + 1
OBVIOUS

LEMMA QueueCharged ==
    ASSUME NEW S, NEW s \in Seq(S), NEW y \in S
    PROVE  <<y>> \o s \in Seq(S) /\ <<y>> \o s # <<>> /\ (<<y>> \o s)[1] = y /\ Tail(<<y>> \o s) = s
OBVIOUS

LEMMA SizesAreNumbers ==
    ASSUME NEW s \in Seq(Sizes)
    PROVE  s \in Seq(Nat)
<1>1. Sizes \subseteq Nat
    BY AuditorAssumption
<1>2. Len(s) \in Nat /\ s \in [1..Len(s) -> Sizes]
    OBVIOUS
<1>3. s \in [1..Len(s) -> Nat]
    BY <1>1, <1>2
<1> QED
    BY <1>2, <1>3, SeqDef

LEMMA AuditStarts == AuditInit => AuditInv
<1> SUFFICES ASSUME AuditInit PROVE AuditInv
    OBVIOUS
<1>1. AuditTypes
  <2>1. <<>> \in Seq(Sizes)
    OBVIOUS
  <2> QED
    BY <2>1 DEF AuditInit, AuditTypes, AuditorWork
<1>2. Sums(batch, batchBytes) /\ Sums(Charged, queuedBytes)
    BY NothingSums DEF AuditInit, Charged
<1> QED
    BY <1>1, <1>2, AuditorAssumption DEF AuditInit, AuditInv

LEMMA EmitKeeps ==
    ASSUME AuditInv, NEW size \in Sizes, Emit(size)
    PROVE  AuditInv'
<1>1. AuditTypes /\ size \in Nat \ {0} /\ MaxEvents \in Nat
    BY AuditorAssumption DEF AuditInv
<1>2. UNCHANGED <<shut, batch, batchBytes, held, work>>
    BY DEF Emit
<1>3. CASE Fits(size)
  <2>1. /\ waiting' = Append(waiting, size) /\ queuedBytes' = queuedBytes + size
        /\ stats' = [stats EXCEPT !.enqueued = @ + 1]
        /\ ~shut /\ queuedBytes + size <= MaxBytes /\ Len(waiting) < MaxEvents
    BY <1>3 DEF Emit, Fits
  <2>2. waiting' \in Seq(Sizes) /\ Len(waiting') = Len(waiting) + 1 /\ Len(waiting) \in Nat
    BY <1>1, <2>1 DEF AuditTypes
  <2>3. /\ stats' \in [enqueued : Nat, dropped : Nat, exported : Nat, failed : Nat]
        /\ stats'.enqueued = stats.enqueued + 1 /\ stats'.exported = stats.exported /\ stats'.failed = stats.failed
    <3>1. stats \in [enqueued : Nat, dropped : Nat, exported : Nat, failed : Nat]
      BY <1>1 DEF AuditTypes
    <3> QED
      BY <2>1, <3>1
  <2>4. AuditTypes'
    <3>1. queuedBytes' \in Nat
      BY <1>1, <2>1 DEF AuditTypes
    <3> QED
      BY <1>1, <1>2, <2>2, <2>3, <3>1 DEF AuditTypes
  <2>5. Charged' = Append(Charged, size) /\ Charged \in Seq(Sizes)
    <3>1. CASE work = "taken"
      <4>1. held \in Sizes /\ waiting \in Seq(Sizes)
        BY <3>1 DEF AuditInv, AuditTypes
      <4>2. /\ <<held>> \o Append(waiting, size) = Append(<<held>> \o waiting, size)
            /\ <<held>> \o waiting \in Seq(Sizes)
        BY <4>1, QueueGiven
      <4>3. Charged = <<held>> \o waiting /\ Charged' = <<held>> \o Append(waiting, size)
        BY <1>2, <2>1, <3>1 DEF Charged
      <4> QED
        BY <4>2, <4>3
    <3>2. CASE work # "taken"
      BY <1>1, <1>2, <2>1, <3>2 DEF Charged, AuditTypes
    <3> QED
      BY <3>1, <3>2
  <2>6. Sums(Charged', queuedBytes')
    BY <1>1, <2>1, <2>5, SizesAreNumbers, SumsAppended DEF AuditInv, AuditTypes
  <2>7. stats'.enqueued = stats'.exported + stats'.failed + Len(waiting') + Len(batch')
                            + (IF held' = 0 THEN 0 ELSE 1)
    <3>1. Len(batch) \in Nat /\ stats.exported \in Nat /\ stats.failed \in Nat /\ stats.enqueued \in Nat
      BY <1>1 DEF AuditTypes
    <3>2. stats.enqueued = stats.exported + stats.failed + Len(waiting) + Len(batch)
                            + (IF held = 0 THEN 0 ELSE 1)
      BY DEF AuditInv
    <3>3. Len(waiting) \in Nat /\ Len(batch) \in Nat /\ Len(batch') = Len(batch)
      BY <1>2, <2>2, <3>1
    <3>4. CASE held = 0
      <4>1. stats.enqueued = stats.exported + stats.failed + Len(waiting) + Len(batch) + 0
        BY <3>2, <3>4
      <4>2. stats.enqueued + 1 = stats.exported + stats.failed + (Len(waiting) + 1) + Len(batch) + 0
        BY <3>1, <3>3, <4>1
      <4> QED
        BY <1>2, <2>2, <2>3, <3>3, <3>4, <4>2
    <3>5. CASE held # 0
      <4>1. stats.enqueued = stats.exported + stats.failed + Len(waiting) + Len(batch) + 1
        BY <3>2, <3>5
      <4>2. stats.enqueued + 1 = stats.exported + stats.failed + (Len(waiting) + 1) + Len(batch) + 1
        BY <3>1, <3>3, <4>1
      <4> QED
        BY <1>2, <2>2, <2>3, <3>3, <3>5, <4>2
    <3> QED
      BY <3>4, <3>5
  <2>8. work \notin {"flushLast", "done"}
    BY <2>1 DEF AuditInv
  <2> QED
    BY <1>1, <1>2, <2>1, <2>2, <2>4, <2>6, <2>7, <2>8 DEF AuditInv, Overfull
<1>4. CASE ~Fits(size)
  <2>1. UNCHANGED <<waiting, queuedBytes>> /\ stats' = [stats EXCEPT !.dropped = @ + 1]
    BY <1>4 DEF Emit
  <2>2. /\ stats' \in [enqueued : Nat, dropped : Nat, exported : Nat, failed : Nat]
        /\ stats'.enqueued = stats.enqueued /\ stats'.exported = stats.exported /\ stats'.failed = stats.failed
    <3>1. stats \in [enqueued : Nat, dropped : Nat, exported : Nat, failed : Nat]
      BY <1>1 DEF AuditTypes
    <3> QED
      BY <2>1, <3>1
  <2> QED
    BY <1>2, <2>1, <2>2 DEF AuditInv, AuditTypes, Overfull, Charged
<1> QED
    BY <1>3, <1>4

LEMMA TakeQueuedKeeps ==
    ASSUME AuditInv, TakeQueued
    PROVE  AuditInv'
<1>1. /\ AuditTypes /\ waiting \in Seq(Sizes) /\ waiting # <<>> /\ held = 0 /\ work = "select"
      /\ held' = Head(waiting) /\ waiting' = Tail(waiting) /\ work' = "taken"
      /\ UNCHANGED <<queuedBytes, shut, stats, batch, batchBytes>>
    BY DEF TakeQueued, AuditInv, AuditTypes
<1>2. /\ <<held'>> \o waiting' = waiting /\ waiting' \in Seq(Sizes) /\ held' \in Sizes
      /\ Len(waiting') = Len(waiting) - 1 /\ Len(waiting) \in Nat
    BY <1>1, QueueTaken
<1>3. held' # 0
    BY <1>2, AuditorAssumption
<1>4. AuditTypes'
    BY <1>1, <1>2 DEF AuditTypes, AuditorWork
<1>5. Charged' = Charged
    BY <1>1, <1>2 DEF Charged
<1>6. stats'.enqueued = stats'.exported + stats'.failed + Len(waiting') + Len(batch')
                          + (IF held' = 0 THEN 0 ELSE 1)
  <2>1. Len(batch) \in Nat /\ stats.exported \in Nat /\ stats.failed \in Nat
    BY <1>1 DEF AuditTypes
  <2> QED
    BY <1>1, <1>2, <1>3, <2>1 DEF AuditInv
<1>7. Len(waiting') <= MaxEvents
  <2>1. Len(waiting) <= MaxEvents /\ MaxEvents \in Nat
    BY AuditorAssumption DEF AuditInv
  <2> QED
    BY <1>2, <2>1
<1> QED
    BY <1>1, <1>3, <1>4, <1>5, <1>6, <1>7 DEF AuditInv

LEMMA DiscountKeeps ==
    ASSUME AuditInv, Discount
    PROVE  AuditInv'
<1>1. /\ AuditTypes /\ waiting \in Seq(Sizes) /\ held \in Sizes /\ held \in Nat \ {0} /\ work = "taken"
      /\ queuedBytes' = queuedBytes - held
      /\ work' = IF Overfull THEN "flushFirst" ELSE "add"
      /\ UNCHANGED <<waiting, shut, stats, batch, batchBytes, held>>
      /\ queuedBytes \in Nat /\ queuedBytes <= MaxBytes /\ MaxBytes \in Nat
    BY AuditorAssumption DEF Discount, AuditInv, AuditTypes
<1>2. Charged = <<held>> \o waiting /\ Charged' = waiting
    BY <1>1 DEF Charged
<1>3. Charged \in Seq(Sizes) /\ Charged # <<>> /\ Charged[1] = held /\ Tail(Charged) = waiting
    BY <1>1, <1>2, QueueCharged
<1>4. held <= queuedBytes /\ Sums(waiting, queuedBytes - held)
  <2>1. Sums(Charged, queuedBytes) /\ Charged \in Seq(Nat)
    BY <1>3, SizesAreNumbers DEF AuditInv
  <2> QED
    BY <1>1, <1>3, <2>1, SumsTaken
<1>5. queuedBytes' \in Nat /\ queuedBytes' <= MaxBytes
    BY <1>1, <1>4
<1>6. AuditTypes'
    BY <1>1, <1>5 DEF AuditTypes, AuditorWork
<1>7. Overfull' <=> Overfull
    BY <1>1 DEF Overfull
<1> QED
    BY <1>1, <1>2, <1>4, <1>5, <1>6, <1>7 DEF AuditInv

LEMMA AddKeeps ==
    ASSUME AuditInv, Add
    PROVE  AuditInv'
<1>1. /\ AuditTypes /\ held \in Sizes /\ held \in Nat \ {0} /\ work = "add" /\ ~Overfull
      /\ batch' = Append(batch, held) /\ batchBytes' = batchBytes + held /\ held' = 0
      /\ work' \in {"flush", "select"}
      /\ UNCHANGED <<waiting, queuedBytes, shut, stats>>
      /\ batchBytes \in Nat /\ batch \in Seq(Sizes)
      /\ MaxBatchEvents \in Nat \ {0} /\ MaxBatchBytes \in Nat
    BY AuditorAssumption DEF Add, AuditInv, AuditTypes
<1>2. batch' \in Seq(Sizes) /\ Len(batch') = Len(batch) + 1 /\ Len(batch) \in Nat
    BY <1>1
<1>3. AuditTypes'
    BY <1>1, <1>2 DEF AuditTypes, AuditorWork
<1>4. Sums(batch', batchBytes')
    BY <1>1, SizesAreNumbers, SumsAppended DEF AuditInv
<1>5. Charged' = Charged
    BY <1>1 DEF Charged
<1>6. Len(batch') <= MaxBatchEvents /\ (Len(batch') > 1 => batchBytes' <= MaxBatchBytes)
  <2>1. batch = <<>> => Len(batch) = 0
    OBVIOUS
  <2>2. batch # <<>> => Len(batch) < MaxBatchEvents /\ batchBytes + held <= MaxBatchBytes
    BY <1>1, <1>2 DEF Overfull
  <2> QED
    BY <1>1, <1>2, <2>1, <2>2
<1>7. stats'.enqueued = stats'.exported + stats'.failed + Len(waiting') + Len(batch')
                          + (IF held' = 0 THEN 0 ELSE 1)
  <2>1. Len(waiting) \in Nat /\ stats.exported \in Nat /\ stats.failed \in Nat
    BY <1>1 DEF AuditTypes
  <2>2. stats.enqueued = stats.exported + stats.failed + Len(waiting) + Len(batch) + 1
    BY <1>1 DEF AuditInv
  <2>3. stats.enqueued = stats.exported + stats.failed + Len(waiting) + (Len(batch) + 1) + 0
    <3>1. Len(waiting) \in Nat /\ Len(batch) \in Nat /\ stats.exported \in Nat /\ stats.failed \in Nat
      BY <1>2, <2>1
    <3> QED
      BY <2>2, <3>1
  <2>4. /\ stats' = stats /\ Len(waiting') = Len(waiting) /\ Len(batch') = Len(batch) + 1
        /\ (IF held' = 0 THEN 0 ELSE 1) = 0
    BY <1>1, <1>2
  <2> QED
    BY <2>3, <2>4
<1> QED
    BY <1>1, <1>3, <1>4, <1>5, <1>6, <1>7 DEF AuditInv

LEMMA FlushKeeps ==
    ASSUME AuditInv, Flush
    PROVE  AuditInv'
<1>1. /\ AuditTypes /\ work \in {"flush", "flushFirst", "flushLast"}
      /\ batch' = <<>> /\ batchBytes' = 0
      /\ UNCHANGED <<waiting, queuedBytes, shut, held>>
      /\ Len(batch) \in Nat /\ Len(waiting) \in Nat
    BY DEF Flush, AuditInv, AuditTypes
<1>2. /\ work = "flush" => work' = "select"
      /\ work = "flushFirst" => work' = "add"
      /\ work = "flushLast" => work' = "done"
      /\ work' \in {"select", "add", "done"}
    BY <1>1 DEF Flush
<1>3. /\ stats' \in [enqueued : Nat, dropped : Nat, exported : Nat, failed : Nat]
      /\ stats'.enqueued = stats.enqueued
      /\ stats'.exported + stats'.failed = stats.exported + stats.failed + Len(batch)
  <2>1. stats \in [enqueued : Nat, dropped : Nat, exported : Nat, failed : Nat]
    BY <1>1 DEF AuditTypes
  <2>2. CASE stats' = [stats EXCEPT !.exported = @ + Len(batch)]
    BY <1>1, <2>1, <2>2
  <2>3. CASE stats' = [stats EXCEPT !.failed = @ + Len(batch)]
    BY <1>1, <2>1, <2>3
  <2> QED
    BY <2>2, <2>3 DEF Flush
<1>4. AuditTypes'
    BY <1>1, <1>2, <1>3 DEF AuditTypes, AuditorWork
<1>5. Sums(batch', batchBytes') /\ Charged' = Charged
    BY <1>1, <1>2, NothingSums DEF Charged
<1>6. Len(batch') = 0
    BY <1>1
<1>7. stats'.enqueued = stats'.exported + stats'.failed + Len(waiting') + Len(batch')
                          + (IF held' = 0 THEN 0 ELSE 1)
  <2>1. /\ stats.exported \in Nat /\ stats.failed \in Nat
        /\ stats'.exported \in Nat /\ stats'.failed \in Nat
    BY <1>1, <1>3 DEF AuditTypes
  <2> QED
    BY <1>1, <1>3, <1>6, <2>1 DEF AuditInv
<1> QED
    BY <1>1, <1>2, <1>4, <1>5, <1>6, <1>7, AuditorAssumption DEF AuditInv, Overfull

LEMMA AuditSteps == AuditInv /\ [AuditNext]_auditVars => AuditInv'
<1> SUFFICES ASSUME AuditInv, [AuditNext]_auditVars PROVE AuditInv'
    OBVIOUS
<1>1. ASSUME NEW size \in Sizes, Emit(size) PROVE AuditInv'
    BY <1>1, EmitKeeps
<1>2. CASE Shutdown
    BY <1>2 DEF Shutdown, AuditInv, AuditTypes, Charged, Overfull
<1>3. CASE TakeQueued \/ Discount \/ Add \/ Flush
    BY <1>3, TakeQueuedKeeps, DiscountKeeps, AddKeeps, FlushKeeps
<1>4. CASE FlushTick
    BY <1>4 DEF FlushTick, AuditInv, AuditTypes, AuditorWork, Charged
<1>5. CASE Closed
    BY <1>5 DEF Closed, AfterLast, AuditInv, AuditTypes, AuditorWork, Charged
<1>6. CASE UNCHANGED auditVars
    BY <1>6 DEF auditVars, AuditInv, AuditTypes, Charged, Overfull
<1> QED
    BY <1>1, <1>2, <1>3, <1>4, <1>5, <1>6 DEF AuditNext

LEMMA SumsWeigh ==
    ASSUME NEW s, NEW total, Sums(s, total)
    PROVE  Weigh(s, total)
BY DEF Sums, Weigh

(* Whatever the sizes of events and the limits of the queue and of batches,  *)
(* every accepted event is counted once, its bytes are given back and no     *)
(* limit is passed, also while the log is shut down (AsyncAuditor.Emit,      *)
(* run, Shutdown).                                                           *)
THEOREM EventsAccounted == AuditSpec => []AuditAccounted
<1>1. AuditInv => AuditAccounted
  <2> SUFFICES ASSUME AuditInv PROVE AuditAccounted
    OBVIOUS
  <2>1. Weigh(batch, batchBytes) /\ Weigh(Charged, queuedBytes)
    BY SumsWeigh DEF AuditInv
  <2>2. work = "done" => shut /\ stats.enqueued = stats.exported + stats.failed /\ waiting = <<>>
    <3>1. stats.exported \in Nat /\ stats.failed \in Nat /\ Len(<<>>) = 0
      BY DEF AuditInv, AuditTypes
    <3> QED
      BY <3>1 DEF AuditInv
  <2> QED
    BY <2>1, <2>2 DEF AuditInv, AuditAccounted, Charged
<1> QED
    BY <1>1, AuditStarts, AuditSteps, PTL DEF AuditSpec
=============================================================================
