---------------------------- MODULE AdminConsole ----------------------------
(* Administrators and their browser sessions (adminauth/store.go,          *)
(* session.go) under the handlers of the web console (webadmin/            *)
(* auth_handler.go, middleware.go, admin_handler.go).  A handler takes one *)
(* lock after the other: its session, its administrator, the CSRF token,   *)
(* its change and the revocation that follows are steps of their own.      *)
(*                                                                         *)
(* A password is a flag: whether a proof of it is accepted is a choice.    *)
(* The file holds what the store holds: a change is persisted before it is *)
(* made, under the store's lock, and dropped when that fails.              *)
EXTENDS Naturals, FiniteSets

CONSTANTS
    AdminNames,
    NoAdmin, NoSession,
    Requests,        \* requests that may be in their handlers at once
    SessionIDs,      \* 1..n, in the order in which they are issued
    IdleTimeout, AbsoluteTimeout,
    Files,           \* what Load may find
    Offers,          \* sets of operations; a behaviour asks for one of them
    MaxNow           \* bound of the model

SessionRecords ==
    [user : AdminNames \cup {NoAdmin}, createdAt : Nat, lastActive : Nat,
     absoluteExpiresAt : Nat, stale : BOOLEAN]

ASSUME AdminConsoleAssumption ==
    /\ NoAdmin \notin AdminNames /\ NoSession \notin SessionRecords
    /\ \A file \in Files : file \in [AdminNames -> {"absent", "set", "initial"}]
                           /\ \E a \in AdminNames : file[a] # "absent"
    /\ IdleTimeout \in Nat \ {0} /\ AbsoluteTimeout \in Nat /\ IdleTimeout <= AbsoluteTimeout

VARIABLES
    admins,          \* name -> "absent", "set" or "initial" (MustChangePassword)
    sessions,        \* id -> its record
    lastID,          \* the last id issued
    now,
    requests,
    offer

consoleVars == <<admins, sessions, lastID, now, requests, offer>>

(* stale: the user's password was changed, or the user deleted, since the  *)
(* session was created.  No code reads it.                                 *)
Operations == {"session", "logout", "password", "list", "create", "reset", "delete"}
AllowMustChange == {"session", "logout", "password"}
RequireCSRF == Operations \ {"session", "list"}

NoRequest == [step |-> "idle", op |-> "none", id |-> 0, user |-> NoAdmin, target |-> NoAdmin]

Present == {a \in AdminNames : admins[a] # "absent"}

(* Load makes a new file with one administrator and an initial password,  *)
(* or takes one with at least one administrator.                           *)
ConsoleInit ==
    /\ admins \in Files /\ offer \in Offers
    /\ sessions = [i \in SessionIDs |-> NoSession] /\ lastID = 0
    /\ now = 0 /\ requests = [r \in Requests |-> NoRequest]

Exists(i) == sessions[i] # NoSession
SessionExpired(record) ==
    now >= record.absoluteExpiresAt \/ now - record.lastActive >= IdleTimeout
Valid(i) == Exists(i) /\ ~SessionExpired(sessions[i])

AtStep(r, step) == requests[r].step = step
To(r, step) == requests' = [requests EXCEPT ![r].step = step]
End(r) == requests' = [requests EXCEPT ![r] = NoRequest]
Drop(i) == sessions' = [sessions EXCEPT ![i] = NoSession]
StoreOnly == UNCHANGED <<sessions, lastID, now, offer>>
SessionsOnly == UNCHANGED <<admins, lastID, now, offer>>

--------------------------------------------------------------------------
(* The login, after its reservation.                                       *)
SendLogin(r) ==
    /\ AtStep(r, "idle")
    /\ \E a \in AdminNames :
           requests' = [requests EXCEPT ![r] = [NoRequest EXCEPT !.step = "login", !.user = a]]
    /\ UNCHANGED <<admins, sessions, lastID, now, offer>>

Authenticate(r) ==
    /\ AtStep(r, "login")
    /\ \/ requests[r].user \in Present /\ To(r, "verified")
       \/ End(r)
    /\ UNCHANGED <<admins, sessions, lastID, now, offer>>

Created(user) ==
    [user |-> user, createdAt |-> now, lastActive |-> now,
     absoluteExpiresAt |-> now + AbsoluteTimeout, stale |-> FALSE]

CreateSession(r) ==
    /\ AtStep(r, "verified") /\ lastID + 1 \in SessionIDs
    /\ lastID' = lastID + 1
    /\ sessions' = [i \in SessionIDs |->
                      CASE i = lastID + 1 -> Created(requests[r].user)
                        [] i # lastID + 1 /\ Valid(i) -> sessions[i]
                        [] OTHER -> NoSession]
    /\ End(r) /\ UNCHANGED <<admins, now, offer>>

--------------------------------------------------------------------------
(* browserHandler.  A browser may send any id that was ever issued.        *)
Targeted == {"create", "reset", "delete"}

Send(r, op, i, a) ==
    /\ AtStep(r, "idle")
    /\ requests' = [requests EXCEPT ![r] = [step |-> "sent", op |-> op, id |-> i,
                                            user |-> NoAdmin,
                                            target |-> IF op \in Targeted THEN a ELSE NoAdmin]]
    /\ UNCHANGED <<admins, sessions, lastID, now, offer>>

Get(r) ==
    LET i == requests[r].id
    IN  /\ AtStep(r, "sent")
        /\ IF Valid(i)
           THEN /\ sessions' = [sessions EXCEPT ![i].lastActive = now]
                /\ requests' = [requests EXCEPT ![r].step = "got", ![r].user = sessions[i].user]
           ELSE Drop(i) /\ End(r)
        /\ SessionsOnly

CheckAdmin(r) ==
    LET request == requests[r]
    IN  /\ AtStep(r, "got")
        /\ IF request.user \notin Present
           THEN Drop(request.id) /\ End(r)
           ELSE /\ UNCHANGED sessions
                /\ IF admins[request.user] = "initial" /\ request.op \notin AllowMustChange
                   THEN End(r)
                   ELSE To(r, IF request.op \in RequireCSRF THEN "csrf" ELSE "handler")
        /\ SessionsOnly

(* A token that does not match, or an origin, ends the request likewise.   *)
VerifyCSRF(r) ==
    LET i == requests[r].id
    IN  /\ AtStep(r, "csrf")
        /\ IF Valid(i) THEN UNCHANGED sessions /\ (To(r, "handler") \/ End(r))
           ELSE Drop(i) /\ End(r)
        /\ SessionsOnly

--------------------------------------------------------------------------
(* The handlers.                                                           *)
Handles(r, op) == AtStep(r, "handler") /\ requests[r].op = op

(* Mutant: a rotated session starts its absolute lifetime anew.            *)
RotatedAnew(record) ==
    [record EXCEPT !.lastActive = now, !.absoluteExpiresAt = now + AbsoluteTimeout]

Rotated(record) == [record EXCEPT !.lastActive = now]

CurrentSession(r) ==
    LET i == requests[r].id
    IN  /\ Handles(r, "session")
        /\ IF Valid(i)
           THEN /\ lastID + 1 \in SessionIDs /\ lastID' = lastID + 1
                /\ sessions' = [sessions EXCEPT ![i] = NoSession,
                                                ![lastID + 1] = Rotated(sessions[i])]
           ELSE Drop(i) /\ UNCHANGED lastID
        /\ End(r) /\ UNCHANGED <<admins, now, offer>>

Logout(r) ==
    /\ Handles(r, "logout") /\ Drop(requests[r].id) /\ End(r) /\ SessionsOnly

ListAdministrators(r) ==
    /\ Handles(r, "list") /\ End(r)
    /\ UNCHANGED <<admins, sessions, lastID, now, offer>>

(* A change that the store refuses, or cannot persist, ends its request.   *)
Refuse(r) ==
    /\ AtStep(r, "handler") /\ requests[r].op \in Targeted \cup {"password"}
    /\ End(r) /\ UNCHANGED <<admins, sessions, lastID, now, offer>>

CreateAdministrator(r) ==
    /\ Handles(r, "create") /\ requests[r].target \notin Present
    /\ admins' = [admins EXCEPT ![requests[r].target] = "initial"]
    /\ End(r) /\ StoreOnly

(* The password or the record of a user changes; the revocation follows.   *)
Change(r, user, to) ==
    /\ admins' = [admins EXCEPT ![user] = to]
    /\ sessions' = [i \in SessionIDs |-> IF Exists(i) /\ sessions[i].user = user
                                         THEN [sessions[i] EXCEPT !.stale = TRUE] ELSE sessions[i]]
    /\ requests' = [requests EXCEPT ![r].step = "revoke", ![r].target = user]
    /\ UNCHANGED <<lastID, now, offer>>

ChangePassword(r) ==
    /\ Handles(r, "password") /\ requests[r].user \in Present
    /\ Change(r, requests[r].user, "set")

ResetAdministratorPassword(r) ==
    /\ Handles(r, "reset") /\ requests[r].target \in Present
    /\ Change(r, requests[r].target, "initial")

(* Mutant: the requester was checked by the middleware and is not again.   *)
MayDeleteChecked(requester, target) == target \in Present /\ Cardinality(Present) > 1

MayDelete(requester, target) == {requester, target} \subseteq Present /\ Cardinality(Present) > 1

DeleteAdministrator(r) ==
    LET request == requests[r]
    IN  /\ Handles(r, "delete") /\ request.user # request.target
        /\ MayDelete(request.user, request.target)
        /\ Change(r, request.target, "absent")

(* Mutant: the session that made the change is kept (RevokeUserExcept).    *)
RevokedExceptOwn(r, i) ==
    Exists(i) /\ sessions[i].user = requests[r].target /\ i # requests[r].id

Revoked(r, i) == Exists(i) /\ sessions[i].user = requests[r].target

RevokeUser(r) ==
    /\ AtStep(r, "revoke")
    /\ sessions' = [i \in SessionIDs |-> IF Revoked(r, i) THEN NoSession ELSE sessions[i]]
    /\ End(r) /\ SessionsOnly

--------------------------------------------------------------------------
Tick ==
    /\ now < MaxNow /\ now' = now + 1
    /\ UNCHANGED <<admins, sessions, lastID, requests, offer>>

(* The server stops at any point; it loads the file again, and knows no    *)
(* session and no request.                                                 *)
Restart ==
    /\ sessions' = [i \in SessionIDs |-> NoSession]
    /\ requests' = [r \in Requests |-> NoRequest]
    /\ UNCHANGED <<admins, lastID, now, offer>>

ConsoleNext ==
    \/ \E r \in Requests :
        \/ SendLogin(r) \/ Authenticate(r) \/ CreateSession(r)
        \/ \E i \in 1..lastID, op \in offer, a \in AdminNames : Send(r, op, i, a)
        \/ Get(r) \/ CheckAdmin(r) \/ VerifyCSRF(r)
        \/ CurrentSession(r) \/ Logout(r) \/ ListAdministrators(r) \/ Refuse(r)
        \/ CreateAdministrator(r) \/ ChangePassword(r) \/ ResetAdministratorPassword(r)
        \/ DeleteAdministrator(r) \/ RevokeUser(r)
    \/ Tick \/ Restart

ConsoleSpec == ConsoleInit /\ [][ConsoleNext]_consoleVars

--------------------------------------------------------------------------
(* A session is last used within its absolute lifetime, which runs from    *)
(* its login however often it was rotated, and before it was idle for too  *)
(* long (SessionManager.Get, Rotate, expired).                             *)
Used(i) == sessions'[i] # NoSession /\ (Exists(i) => sessions'[i].lastActive # sessions[i].lastActive)

SessionsExpire ==
    [][\A i \in SessionIDs : Used(i) =>
          /\ now < sessions'[i].createdAt + AbsoluteTimeout
          /\ Exists(i) => now < sessions[i].lastActive + IdleTimeout]_consoleVars

(* Once the request that changed a password or deleted an administrator is *)
(* answered, no session of the user that was there at the change is left,  *)
(* the one of the request included (changePassword,                        *)
(* resetAdministratorPassword, deleteAdministrator, RevokeUser).           *)
NoSessionOutlivesChange ==
    \A i \in SessionIDs : Exists(i) /\ sessions[i].stale =>
        \E r \in Requests : AtStep(r, "revoke") /\ requests[r].target = sessions[i].user

(* An administrator is removed by another one who is still there, so that  *)
(* one always remains, whatever two of them ask at once (DeleteAdmin).     *)
RemovedByAnother ==
    [][\A a \in Present : admins'[a] = "absent" =>
          \E r \in Requests : /\ requests[r].op = "delete" /\ requests[r].target = a
                              /\ requests[r].user \in Present \ {a}]_consoleVars

(* Access to the console ends when it must, and never for everyone.         *)
AccessEnds == []NoSessionOutlivesChange /\ SessionsExpire /\ RemovedByAnother
=============================================================================
