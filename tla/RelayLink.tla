------------------------------ MODULE RelayLink ------------------------------
(***************************************************************************)
(* The HPRP command exchange between the relay server and one Pal, for one *)
(* user, one machine and one pane whose occupant may change.  Server:      *)
(* internal/server/hub.go and connection.go.  Pal: internal/relayclient    *)
(* (client.go, idempotency.go, snapshot.go).                               *)
(*                                                                         *)
(* A link is one WebSocket connection.  Either end may lose it and the     *)
(* other learns so later; what is in flight towards an end that is down is *)
(* lost.  Server processes: the calls of Execute, the reader of the link.  *)
(* Pal processes: the loop of runSession, which sends snapshots, the       *)
(* reader, the handler that holds the single request slot, and one sender  *)
(* of notifications.                                                       *)
(*                                                                         *)
(* Abstractions.  A target is named by its session, since machine and slot *)
(* are fixed.  The pane's text, output modes, capabilities and queue sizes *)
(* are left out: a full queue is one more way to lose the link.  The       *)
(* idempotency cache holds 10 minutes and the table of routes 10 minutes   *)
(* since last use: neither is outlived here; the table of expired requests *)
(* (1 minute) may lapse.  Writers of one end send in the order in which    *)
(* they took their turn, as one channel.                                   *)
(***************************************************************************)
EXTENDS Integers, Sequences

CONSTANTS
    Messages,       \* idempotency keys: WeCom message identifiers
    Sessions,       \* occupants the pane can have
    MaxCalls,       \* bound on calls of Execute
    MaxLinks,       \* bound on links
    MaxChanges,     \* bound on changes of the occupant
    MaxRestarts,    \* bound on server restarts
    MaxOutputs,     \* largest number of command.output of one command
    MaxNotices,     \* bound on notifications
    Lapses,         \* whether an expired request may be forgotten
    NoRoute, NoMail, NoMessage, NoExec, NoEntry, NoSnapshot, NoNotice,
    NoSession, NotRun, NoAnswer

ASSUME LinkAssumption ==
    /\ MaxCalls \in Nat /\ MaxLinks \in Nat /\ MaxChanges \in Nat
    /\ MaxRestarts \in Nat /\ MaxOutputs \in Nat /\ MaxNotices \in Nat
    /\ Lapses \in BOOLEAN
    /\ NoSession \notin Sessions

Calls == 1..MaxCalls

VARIABLES
    link,           \* number of the newest link
    toServer,       \* what the Pal has written and the server not read
    toClient,       \* what the server has written and the Pal not read
    serverState,    \* "down", "starting" (before the first snapshot), "ready"
    clientState,    \* "down", "syncing" (before the first result), "up"
    \* the server
    directory,      \* SessionCatalog's occupant of the pane, or NoSession
    serverSeq,      \* connection.snapshotSequence
    seen,           \* messages the router's Deduper has reserved
    phase,          \* call -> where Execute is
    command,        \* call -> the message and the session it was made for
    pending,        \* connection.pending
    expired,        \* connection.expired
    routes,         \* connection.commandRoutes
    mail,           \* call -> the envelope in its channel, or NoMail
    withdrawing,    \* calls whose deferred removeCommand has not run
    reader,         \* the result between its two looks at the tables
    verdict,        \* why readLoop last ended, and for which call
    restarts,
    \* the Pal
    occupant,       \* live occupant of the pane
    changes,
    bound,          \* message -> history: the session its answer moved to, when
    clientSeq,      \* current.snapshotSequence: last confirmed snapshot
    confirmed,      \* fingerprint: the occupant that snapshot told
    outstanding,    \* snapshot whose result is awaited, or NoSnapshot
    exec,           \* the handler that holds the request slot, or NoExec
    cache,          \* resultCache: message -> entry, or NoEntry
    ran,            \* message -> its handling by the local executor
    notice,         \* notification between resolution and write
    notices

net == <<link, toServer, toClient, serverState, clientState>>
tables == <<pending, expired, routes, mail, withdrawing>>
callVars == <<phase, command, seen, restarts>>
serverVars == <<directory, serverSeq, reader, verdict>>
syncVars == <<clientSeq, confirmed, outstanding>>
execVars == <<exec, cache, ran>>
paneVars == <<occupant, changes, bound>>
noticeVars == <<notice, notices>>
clientVars == <<syncVars, execVars, paneVars, noticeVars>>
vars == <<net, tables, callVars, serverVars, clientVars>>

States == {"idle", "waiting", "ok", "failed", "rejected", "timedout", "lost"}
Outcomes == {"ok", "failed", "rejected"}
Links == 0..MaxLinks
Numbers == 0..(MaxChanges + MaxCalls + 1)

Command(m, s, e) == [message |-> m, session |-> s, link |-> e]
Commands == [message : Messages, session : Sessions, link : Links]
Route(s, n, done) == [session |-> s, next |-> n, completed |-> done]
RouteTable == [session : Sessions, next : 1..(MaxOutputs + 1), completed : BOOLEAN]

SnapshotMsg(n, s) == [type |-> "snapshot", sequence |-> n, session |-> s]
ResultMsg(c, o, r) ==
    [type |-> "result", call |-> c, outcome |-> o, replacement |-> r]
OutputMsg(c, s, n, last) ==
    [type |-> "output", call |-> c, session |-> s, sequence |-> n, final |-> last]
NoticeMsg(k, s, n) ==
    [type |-> "notice", kind |-> k, session |-> s, confirmed |-> n]
ExecuteMsg(c, m, s) ==
    [type |-> "execute", call |-> c, message |-> m, session |-> s]
SnapshotResultMsg(n) == [type |-> "applied", sequence |-> n]

(* What a handled command answers: cachedCommandResult without its key. *)
Reply(o, r, n) == [outcome |-> o, replacement |-> r, outputs |-> n]
Replies == [outcome : Outcomes, replacement : Sessions \cup {NoSession},
            outputs : 0..MaxOutputs]
Rejected == Reply("rejected", NoSession, 0)
Unanswered == Reply("failed", NoSession, 0)
(* Mutant: the fingerprint is taken of the replacement target. *)
EntryByReplacement(s, reply) == [session |-> reply.replacement, reply |-> reply]

Entry(s, reply) == [session |-> s, reply |-> reply]
Run(s, o) == [target |-> s, outcome |-> o]
Bound(s, n) == [session |-> s, changes |-> n]
Unbound == Bound(NoSession, 0)

(* The handler: its command, the link it came by, the link whose snapshot  *)
(* it asked for, its reply and how many envelopes of it are written.       *)
Exec(at, c, k, rep, reply, sent) ==
    [at |-> at, call |-> c, command |-> k, report |-> rep, reply |-> reply,
     sent |-> sent]

Init ==
    /\ link = 0 /\ toServer = <<>> /\ toClient = <<>>
    /\ serverState = "down" /\ clientState = "down"
    /\ directory = NoSession /\ serverSeq = 0 /\ seen = {}
    /\ phase = [c \in Calls |-> "idle"]
    /\ command = [c \in Calls |-> NoMessage]
    /\ pending = {} /\ expired = {} /\ withdrawing = {}
    /\ routes = [c \in Calls |-> NoRoute]
    /\ mail = [c \in Calls |-> NoMail]
    /\ reader = NoMessage
    /\ verdict = [cause |-> "none", call |-> 0]
    /\ restarts = 0
    /\ occupant \in Sessions
    /\ changes = 0
    /\ bound = [m \in Messages |-> Unbound]
    /\ clientSeq = 0 /\ confirmed = NoSession /\ outstanding = NoSnapshot
    /\ exec = NoExec
    /\ cache = [m \in Messages |-> NoEntry]
    /\ ran = [m \in Messages |-> NotRun]
    /\ notice = NoNotice /\ notices = 0

-----------------------------------------------------------------------------
(* The link. *)

SendToClient(m) ==
    toClient' = IF clientState = "down" THEN toClient ELSE Append(toClient, m)
SendToServer(m) ==
    toServer' = IF serverState = "down" THEN toServer ELSE Append(toServer, m)

(* Dial and hello exchange of runSession and serveConnection; the Pal has  *)
(* written its first snapshot.  SessionCatalog.Attach refuses a second     *)
(* connection of the machine, so the server's end of the old link is gone. *)
Connect ==
    /\ clientState = "down" /\ serverState = "down"
    /\ link < MaxLinks
    /\ link' = link + 1
    /\ clientState' = "syncing" /\ serverState' = "starting"
    /\ toServer' = <<SnapshotMsg(1, occupant)>>
    /\ toClient' = <<>>
    /\ outstanding' = SnapshotMsg(1, occupant)
    /\ UNCHANGED <<tables, callVars, serverVars, clientSeq, confirmed, execVars,
                   paneVars, noticeVars>>

(* runSession returns: read or write error, result of a snapshot overdue.  *)
ClientLoses ==
    /\ clientState # "down"
    /\ clientState' = "down"
    /\ toClient' = <<>>
    /\ outstanding' = NoSnapshot
    /\ clientSeq' = 0 /\ confirmed' = NoSession
    /\ UNCHANGED <<link, toServer, serverState, tables, callVars, serverVars,
                   execVars, paneVars, noticeVars>>

(* readLoop returns and the connection leaves hub and directory with all   *)
(* its tables.                                                             *)
CloseServer ==
    /\ serverState' = "down"
    /\ toServer' = <<>>
    /\ directory' = NoSession /\ serverSeq' = 0
    /\ pending' = {} /\ expired' = {}
    /\ routes' = [c \in Calls |-> NoRoute]
    /\ reader' = NoMessage
    /\ UNCHANGED <<link, toClient, clientState, clientVars>>

(* Heartbeat or read failure, full queue. *)
ServerLoses ==
    /\ serverState # "down"
    /\ CloseServer
    /\ UNCHANGED <<mail, withdrawing, callVars, verdict>>

(* The server process stops and starts again: waiting calls are gone and   *)
(* the Deduper has forgotten every message, so WeCom may deliver one again.*)
ServerRestart ==
    /\ restarts < MaxRestarts
    /\ restarts' = restarts + 1
    /\ CloseServer
    /\ seen' = {}
    /\ phase' = [c \in Calls |-> IF phase[c] = "waiting" THEN "lost" ELSE phase[c]]
    /\ withdrawing' = {}
    /\ UNCHANGED <<mail, command, verdict>>

-----------------------------------------------------------------------------
(* ClientHub.Execute.  A user's commands run one after the other, so a     *)
(* call starts when the one before has returned.                           *)

Execute(c, m) ==
    /\ serverState = "ready"
    /\ phase[c] = "idle"
    /\ \A d \in 1..(c - 1) : phase[d] \notin {"idle", "waiting"}
    /\ withdrawing = {}
    /\ m \notin seen
    /\ seen' = seen \cup {m}
    /\ phase' = [phase EXCEPT ![c] = "waiting"]
    /\ command' = [command EXCEPT ![c] = Command(m, directory, link)]
    /\ routes' = [routes EXCEPT ![c] = Route(directory, 1, FALSE)]
    /\ pending' = pending \cup {c}
    /\ SendToClient(ExecuteMsg(c, m, directory))
    /\ UNCHANGED <<link, toServer, serverState, clientState, expired, mail,
                   withdrawing, restarts, serverVars, clientVars>>

(* Mutant: an overdue request is marked expired but stays in the table. *)
TimeOutStaysPending(c) ==
    /\ phase[c] = "waiting"
    /\ phase' = [phase EXCEPT ![c] = "timedout"]
    /\ expired' = expired \cup (pending \cap {c})
    /\ withdrawing' = withdrawing \cup {c}
    /\ UNCHANGED <<net, pending, routes, mail, command, seen, restarts, serverVars,
                   clientVars>>

(* The context ends.  The select may choose this branch although the       *)
(* result is in the channel; the request is then not marked expired.       *)
TimeOut(c) ==
    /\ phase[c] = "waiting"
    /\ phase' = [phase EXCEPT ![c] = "timedout"]
    /\ pending' = pending \ {c}
    /\ expired' = expired \cup (pending \cap {c})
    /\ withdrawing' = withdrawing \cup {c}
    /\ UNCHANGED <<net, routes, mail, command, seen, restarts, serverVars, clientVars>>

(* The connection of the call ended. *)
LoseCall(c) ==
    /\ phase[c] = "waiting"
    /\ serverState = "down" \/ command[c].link # link
    /\ phase' = [phase EXCEPT ![c] = "lost"]
    /\ UNCHANGED <<net, tables, command, seen, restarts, serverVars, clientVars>>

(* Mutant: keepRoute is never set. *)
TakeResultDropsRoute(c) ==
    /\ phase[c] = "waiting"
    /\ mail[c] # NoMail
    /\ phase' = [phase EXCEPT ![c] = mail[c]]
    /\ mail' = [mail EXCEPT ![c] = NoMail]
    /\ withdrawing' = withdrawing \cup {c}
    /\ UNCHANGED <<net, pending, expired, routes, command, seen, restarts,
                   serverVars, clientVars>>

(* The result is taken: only an OK keeps the route for the outputs. *)
TakeResult(c) ==
    /\ phase[c] = "waiting"
    /\ mail[c] # NoMail
    /\ phase' = [phase EXCEPT ![c] = mail[c]]
    /\ mail' = [mail EXCEPT ![c] = NoMail]
    /\ withdrawing' = IF mail[c] = "ok" THEN withdrawing ELSE withdrawing \cup {c}
    /\ UNCHANGED <<net, pending, expired, routes, command, seen, restarts,
                   serverVars, clientVars>>

(* Deferred removeCommand of a call that did not end OK. *)
RemoveCommand(c) ==
    /\ c \in withdrawing
    /\ withdrawing' = withdrawing \ {c}
    /\ routes' = [routes EXCEPT ![c] = NoRoute]
    /\ UNCHANGED <<net, pending, expired, mail, callVars, serverVars, clientVars>>

(* The entry of an expired request is older than a minute; the deferred    *)
(* removal of its route has long run by then.                              *)
ForgetExpired(c) ==
    /\ Lapses
    /\ c \in expired \ withdrawing
    /\ expired' = expired \ {c}
    /\ UNCHANGED <<net, pending, routes, mail, withdrawing, callVars, serverVars,
                   clientVars>>

-----------------------------------------------------------------------------
(* readLoop of the server: one message at a time. *)

Arrived(t) ==
    /\ serverState # "down"
    /\ reader = NoMessage
    /\ toServer # <<>>
    /\ Head(toServer).type = t

Received == Head(toServer)
Consume == toServer' = Tail(toServer)

(* The link is given up because of a message: readLoop returns. *)
Break(cause, c) ==
    /\ CloseServer
    /\ verdict' = [cause |-> cause, call |-> c]
    /\ UNCHANGED <<mail, withdrawing, callVars>>

(* applySnapshot.  Sequences of one link only grow, so none is stale. *)
ReadSnapshot ==
    /\ Arrived("snapshot")
    /\ Consume
    /\ directory' = Received.session
    /\ serverSeq' = Received.sequence
    /\ serverState' = "ready"
    /\ SendToClient(SnapshotResultMsg(Received.sequence))
    /\ UNCHANGED <<link, clientState, tables, callVars, reader, verdict, clientVars>>

(* First look: a result of an expired request is ignored. *)
ReadResult ==
    /\ Arrived("result")
    /\ Consume
    /\ reader' = IF Received.call \in expired THEN NoMessage ELSE Received
    /\ UNCHANGED <<link, toClient, serverState, clientState, tables, callVars,
                   directory, serverSeq, verdict, clientVars>>

(* An OK result has content, which is validated against the route. *)
ResultFault(m) ==
    IF m.outcome = "ok" /\ routes[m.call] = NoRoute THEN "route"
    ELSE IF m.replacement \notin {NoSession, directory} THEN "target"
    ELSE "none"

(* replaceCommandTarget, then deliver: unmatched results are only logged.  *)
AcceptResult(m) ==
    /\ routes' = IF m.replacement = NoSession THEN routes
                 ELSE [routes EXCEPT ![m.call] =
                          Route(m.replacement, routes[m.call].next,
                                routes[m.call].completed)]
    /\ pending' = pending \ {m.call}
    /\ mail' = IF m.call \in pending THEN [mail EXCEPT ![m.call] = m.outcome]
               ELSE mail
    /\ reader' = NoMessage
    /\ UNCHANGED <<net, expired, withdrawing, callVars, directory, serverSeq,
                   verdict, clientVars>>

(* Second look, later: the tables may have changed since the first. *)
HandleResult ==
    /\ reader # NoMessage
    /\ IF ResultFault(reader) = "none" THEN AcceptResult(reader)
       ELSE Break(ResultFault(reader), reader.call)

(* What is wrong with an output, as the checks come in the code. *)
OutputFault(m) ==
    IF m.session # directory THEN "target"
    ELSE IF routes[m.call] = NoRoute THEN "route"
    ELSE IF routes[m.call].session # m.session THEN "mismatch"
    ELSE IF m.sequence < routes[m.call].next THEN "repeated"
    ELSE IF m.sequence > routes[m.call].next THEN "gap"
    ELSE IF routes[m.call].completed THEN "completed"
    ELSE "none"

(* acceptCommandOutput and the hand-over to the outbound queue. *)
AcceptOutput(m) ==
    /\ Consume
    /\ routes' = [routes EXCEPT ![m.call] =
                     Route(m.session, routes[m.call].next + 1, m.final)]
    /\ UNCHANGED <<link, toClient, serverState, clientState, pending, expired,
                   mail, withdrawing, callVars, serverVars, clientVars>>

IgnoreOutput ==
    /\ Consume
    /\ UNCHANGED <<link, toClient, serverState, clientState, tables, callVars,
                   serverVars, clientVars>>

ReadOutput ==
    /\ Arrived("output")
    /\ IF Received.call \in expired \/ OutputFault(Received) = "repeated"
       THEN IgnoreOutput
       ELSE IF OutputFault(Received) = "none" THEN AcceptOutput(Received)
            ELSE Break(OutputFault(Received), Received.call)

NoticeFault(m) ==
    IF m.confirmed \notin 1..serverSeq THEN "unconfirmed"
    ELSE IF m.kind # "invalidated" /\ m.session # directory THEN "notice"
    ELSE "none"

(* A notification is handed over; the de-duplication table is left out. *)
ReadNotice ==
    /\ Arrived("notice")
    /\ IF NoticeFault(Received) = "none" THEN IgnoreOutput
       ELSE Break(NoticeFault(Received), 0)

-----------------------------------------------------------------------------
(* The Pal.  The pane's occupant changes by itself: a session ends, is      *)
(* cleared, or is resumed.                                                  *)

ChangeOccupant ==
    /\ changes < MaxChanges
    /\ changes' = changes + 1
    /\ occupant' \in Sessions \ {occupant}
    /\ UNCHANGED <<net, tables, callVars, serverVars, syncVars, execVars, noticeVars,
                   bound>>

(* The link a handler works for is still the current one and alive. *)
SessionAlive(e) == e = link /\ clientState = "up"

(* reportCurrentSnapshot of the handler has been taken by the loop. *)
ReportWanted ==
    /\ exec # NoExec
    /\ exec.at = "reporting"
    /\ SessionAlive(exec.report)

(* sendSnapshot: the poll found a change, or a handler asked for it. *)
SendSnapshot ==
    /\ clientState = "up"
    /\ outstanding = NoSnapshot
    /\ occupant # confirmed \/ ReportWanted
    /\ outstanding' = SnapshotMsg(clientSeq + 1, occupant)
    /\ SendToServer(SnapshotMsg(clientSeq + 1, occupant))
    /\ exec' = IF ReportWanted
               THEN Exec("reported", exec.call, exec.command, exec.report,
                         exec.reply, 0)
               ELSE exec
    /\ UNCHANGED <<link, toClient, serverState, clientState, tables, callVars,
                   serverVars, clientSeq, confirmed, cache, ran, paneVars,
                   noticeVars>>

Delivered(t) ==
    /\ toClient # <<>>
    /\ Head(toClient).type = t

(* Mutant: the fingerprint is taken again when the result arrives. *)
ReadSnapshotResultLive ==
    /\ clientState # "down"
    /\ Delivered("applied")
    /\ toClient' = Tail(toClient)
    /\ clientState' = "up"
    /\ clientSeq' = Head(toClient).sequence
    /\ confirmed' = occupant
    /\ outstanding' = NoSnapshot
    /\ exec' = IF exec # NoExec /\ exec.at = "reported" /\ exec.report = link
               THEN Exec("finishing", exec.call, exec.command, exec.report,
                         exec.reply, 0)
               ELSE exec
    /\ UNCHANGED <<link, toServer, serverState, tables, callVars, serverVars,
                   cache, ran, paneVars, noticeVars>>

(* The result of a snapshot: the handler that asked for it goes on. *)
ReadSnapshotResult ==
    /\ clientState # "down"
    /\ Delivered("applied")
    /\ toClient' = Tail(toClient)
    /\ clientState' = "up"
    /\ clientSeq' = Head(toClient).sequence
    /\ confirmed' = outstanding.session
    /\ outstanding' = NoSnapshot
    /\ exec' = IF exec # NoExec /\ exec.at = "reported" /\ exec.report = link
               THEN Exec("finishing", exec.call, exec.command, exec.report,
                         exec.reply, 0)
               ELSE exec
    /\ UNCHANGED <<link, toServer, serverState, tables, callVars, serverVars,
                   cache, ran, paneVars, noticeVars>>

(* The reader takes a command: the slot is free, or the answer is busy. *)
ReadExecute ==
    /\ clientState = "up"
    /\ Delivered("execute")
    /\ toClient' = Tail(toClient)
    /\ LET m == Head(toClient) IN
       IF exec = NoExec
       THEN /\ exec' = Exec("taken", m.call, Command(m.message, m.session, link),
                            0, Rejected, 0)
            /\ UNCHANGED toServer
       ELSE /\ SendToServer(ResultMsg(m.call, "rejected", NoSession))
            /\ UNCHANGED exec
    /\ UNCHANGED <<link, serverState, clientState, tables, callVars, serverVars,
                   syncVars, cache, ran, paneVars, noticeVars>>

ExecAt(at, reply) ==
    exec' = Exec(at, exec.call, exec.command, exec.report, reply, 0)

(* Mutant: the idempotency key alone decides. *)
HitByKey(k) == cache[k.message] # NoEntry

(* resultCache.Lookup: the entry answers only the command it was stored    *)
(* for; the fingerprint stands for target and content.                     *)
Hit(k) ==
    /\ cache[k.message] # NoEntry
    /\ cache[k.message].session = k.session

(* handleCommand up to HandleMessage.  The executor's own Deduper remembers *)
(* a message for a day and returns without an answer.                       *)
BeginCommand ==
    /\ exec # NoExec
    /\ exec.at = "taken"
    /\ LET k == exec.command IN
       \/ /\ Hit(k)
          /\ ExecAt("writing", cache[k.message].reply)
          /\ UNCHANGED ran
       \/ /\ ~Hit(k)
          /\ cache[k.message] # NoEntry \/ occupant # k.session
          /\ ExecAt("writing", Rejected)
          /\ UNCHANGED ran
       \/ /\ cache[k.message] = NoEntry
          /\ occupant = k.session
          /\ IF ran[k.message] = NotRun
             THEN /\ ran' = [ran EXCEPT ![k.message] = Run(k.session, "running")]
                  /\ ExecAt("running", Unanswered)
             ELSE /\ UNCHANGED ran
                  /\ ExecAt("finishing", Unanswered)
    /\ UNCHANGED <<net, tables, callVars, serverVars, syncVars, cache, paneVars,
                   noticeVars>>

(* HandleMessage responds, or returns without a response. *)
Respond(n) ==
    /\ exec # NoExec
    /\ exec.at = "running"
    /\ \/ ExecAt("finishing", Reply("ok", NoSession, n))
       \/ ExecAt("finishing", Unanswered)
    /\ UNCHANGED <<net, tables, callVars, serverVars, syncVars, cache, ran,
                   paneVars, noticeVars>>

(* Mutant: the result names the new occupant without reporting it first.   *)
RespondMovedUnreported(n) ==
    /\ exec # NoExec
    /\ exec.at = "running"
    /\ clientState = "up"
    /\ occupant # exec.command.session
    /\ ExecAt("finishing", Reply("ok", occupant, n))
    /\ bound' = [bound EXCEPT ![exec.command.message] = Bound(occupant, changes)]
    /\ UNCHANGED <<net, tables, callVars, serverVars, syncVars, cache, ran,
                   occupant, changes, noticeVars>>

(* respondContent: the selection followed the pane to its new occupant, so *)
(* the server must know that occupant before the result names it.          *)
RespondMoved(n) ==
    /\ exec # NoExec
    /\ exec.at = "running"
    /\ clientState = "up"
    /\ occupant # exec.command.session
    /\ exec' = Exec("reporting", exec.call, exec.command, link,
                    Reply("ok", occupant, n), 0)
    /\ bound' = [bound EXCEPT ![exec.command.message] = Bound(occupant, changes)]
    /\ UNCHANGED <<net, tables, callVars, serverVars, syncVars, cache, ran,
                   occupant, changes, noticeVars>>

(* Mutant: the wait for the report's result ignores the end of the link. *)
ReportFailsUnsent ==
    /\ exec # NoExec
    /\ exec.at = "reporting"
    /\ ~SessionAlive(exec.command.link)
    /\ ExecAt("finishing", Unanswered)
    /\ UNCHANGED <<net, tables, callVars, serverVars, syncVars, cache, ran,
                   paneVars, noticeVars>>

(* The report fails with a link; the command then has no result. *)
ReportFails ==
    /\ exec # NoExec
    /\ exec.at \in {"reporting", "reported"}
    /\ ~SessionAlive(exec.command.link)
    /\ ExecAt("finishing", Unanswered)
    /\ UNCHANGED <<net, tables, callVars, serverVars, syncVars, cache, ran,
                   paneVars, noticeVars>>

(* finishCommand stores the reply before anything of it is written. *)
Stored(k, reply) == [cache EXCEPT ![k.message] = Entry(k.session, reply)]

FinishCommand ==
    /\ exec # NoExec
    /\ exec.at = "finishing"
    /\ LET k == exec.command IN
       /\ cache' = Stored(k, exec.reply)
       /\ ran' = IF ran[k.message].outcome = "running"
                 THEN [ran EXCEPT ![k.message] = Run(k.session, exec.reply.outcome)]
                 ELSE ran
    /\ ExecAt("writing", exec.reply)
    /\ UNCHANGED <<net, tables, callVars, serverVars, syncVars, paneVars, noticeVars>>

(* Mutant: the final flag is set one output early. *)
EnvelopeEarlyFinal(i) ==
    IF i = 0 THEN ResultMsg(exec.call, exec.reply.outcome, exec.reply.replacement)
    ELSE OutputMsg(exec.call,
                   IF exec.reply.replacement = NoSession THEN exec.command.session
                   ELSE exec.reply.replacement,
                   i, i = exec.reply.outputs - 1)

(* The envelopes of a reply: the result, then its outputs. *)
Envelope(i) ==
    IF i = 0 THEN ResultMsg(exec.call, exec.reply.outcome, exec.reply.replacement)
    ELSE OutputMsg(exec.call,
                   IF exec.reply.replacement = NoSession THEN exec.command.session
                   ELSE exec.reply.replacement,
                   i, i = exec.reply.outputs)

(* One write of finishCommand or writeCachedCommand, on the link by which  *)
(* the command came.  After the last one the slot is released.             *)
WriteReply ==
    /\ exec # NoExec
    /\ exec.at = "writing"
    /\ SessionAlive(exec.command.link)
    /\ SendToServer(Envelope(exec.sent))
    /\ exec' = IF exec.sent = exec.reply.outputs THEN NoExec
               ELSE Exec("writing", exec.call, exec.command, exec.report,
                         exec.reply, exec.sent + 1)
    /\ UNCHANGED <<link, toClient, serverState, clientState, tables, callVars,
                   serverVars, syncVars, cache, ran, paneVars, noticeVars>>

(* A write fails: the rest is not written and the slot is released. *)
WriteFails ==
    /\ exec # NoExec
    /\ exec.at = "writing"
    /\ ~SessionAlive(exec.command.link)
    /\ exec' = NoExec
    /\ UNCHANGED <<net, tables, callVars, serverVars, syncVars, cache, ran,
                   paneVars, noticeVars>>

(* SendNotification resolves its target among the live sessions; one about *)
(* an invalidated target names any session.                                *)
ResolveNotice(k, s) ==
    /\ clientState = "up"
    /\ notice = NoNotice /\ notices < MaxNotices
    /\ k = "invalidated" \/ s = occupant
    /\ notice' = [kind |-> k, session |-> s, link |-> link]
    /\ notices' = notices + 1
    /\ UNCHANGED <<net, tables, callVars, serverVars, syncVars, execVars, paneVars>>

(* Mutant: the sequence counter of the next snapshot is read instead. *)
WriteNoticeAhead ==
    /\ notice # NoNotice
    /\ notice' = NoNotice
    /\ IF SessionAlive(notice.link)
       THEN SendToServer(NoticeMsg(notice.kind, notice.session, clientSeq + 1))
       ELSE UNCHANGED toServer
    /\ UNCHANGED <<link, toClient, serverState, clientState, tables, callVars,
                   serverVars, syncVars, execVars, paneVars, notices>>

(* Later it reads the confirmed sequence and writes on the link it began with. *)
WriteNotice ==
    /\ notice # NoNotice
    /\ notice' = NoNotice
    /\ IF SessionAlive(notice.link)
       THEN SendToServer(NoticeMsg(notice.kind, notice.session, clientSeq))
       ELSE UNCHANGED toServer
    /\ UNCHANGED <<link, toClient, serverState, clientState, tables, callVars,
                   serverVars, syncVars, execVars, paneVars, notices>>

-----------------------------------------------------------------------------
ServerReads == ReadSnapshot \/ ReadResult \/ HandleResult \/ ReadOutput \/ ReadNotice

CallSteps(c) ==
    \/ \E m \in Messages : Execute(c, m)
    \/ TimeOut(c)
    \/ LoseCall(c)
    \/ TakeResult(c)
    \/ RemoveCommand(c)
    \/ ForgetExpired(c)

Next ==
    \/ Connect
    \/ ClientLoses
    \/ ServerLoses
    \/ ServerRestart
    \/ \E c \in Calls : CallSteps(c)
    \/ ServerReads
    \/ ChangeOccupant
    \/ SendSnapshot
    \/ ReadSnapshotResult
    \/ ReadExecute
    \/ BeginCommand
    \/ \E n \in 0..MaxOutputs : Respond(n) \/ RespondMoved(n)
    \/ ReportFails
    \/ FinishCommand
    \/ WriteReply
    \/ WriteFails
    \/ \E k \in {"status", "invalidated"}, s \in Sessions : ResolveNotice(k, s)
    \/ WriteNotice

Spec == Init /\ [][Next]_vars

(* Goroutines go on; the local executor answers or returns, since every    *)
(* call it makes to Herdr has a deadline; and an end whose peer is gone    *)
(* learns so, by heartbeat or by the deadline of a snapshot's result.      *)
Fairness ==
    /\ WF_vars(ServerReads)
    /\ WF_vars(serverState = "down" /\ ClientLoses)
    /\ WF_vars(clientState = "down" /\ ServerLoses)
    /\ WF_vars(SendSnapshot)
    /\ WF_vars(ReadSnapshotResult)
    /\ WF_vars(ReadExecute)
    /\ WF_vars(BeginCommand)
    /\ WF_vars(\E n \in 0..MaxOutputs : Respond(n))
    /\ WF_vars(ReportFails)
    /\ WF_vars(FinishCommand)
    /\ WF_vars(WriteReply)
    /\ WF_vars(WriteFails)

FairSpec == Spec /\ Fairness

-----------------------------------------------------------------------------
(* Properties. *)

ExecRecords ==
    [at : {"taken", "running", "reporting", "reported", "finishing", "writing"},
     call : Calls, command : Commands, report : Links, reply : Replies,
     sent : 0..MaxOutputs]
ServerMessages ==
    [type : {"execute"}, call : Calls, message : Messages, session : Sessions]
    \cup [type : {"applied"}, sequence : Nat]
ResultMessages ==
    [type : {"result"}, call : Calls, outcome : Outcomes,
     replacement : Sessions \cup {NoSession}]
SnapshotMessages == [type : {"snapshot"}, sequence : Nat, session : Sessions]
PalMessages ==
    SnapshotMessages \cup ResultMessages
    \cup [type : {"output"}, call : Calls, session : Sessions,
          sequence : 1..MaxOutputs, final : BOOLEAN]
    \cup [type : {"notice"}, kind : {"status", "invalidated"},
          session : Sessions, confirmed : Nat]

CacheEntries == [session : Sessions, reply : Replies]
Handlings == [target : Sessions, outcome : {"running", "ok", "failed"}]
Notices == [kind : {"status", "invalidated"}, session : Sessions, link : Links]

(* What stands for nothing is not something. *)
ASSUME NothingAssumption ==
    /\ NoRoute \notin RouteTable /\ NoMail \notin Outcomes
    /\ NoMessage \notin Commands \cup ResultMessages
    /\ NoExec \notin ExecRecords /\ NoEntry \notin CacheEntries
    /\ NoSnapshot \notin SnapshotMessages /\ NoNotice \notin Notices
    /\ NotRun \notin Handlings
    /\ NoAnswer \notin [message : Messages, target : Sessions, outcome : Outcomes]

(* Every variable of the exchange has its type. *)
TypeOK ==
    /\ link \in Links
    /\ toServer \in Seq(PalMessages)
    /\ toClient \in Seq(ServerMessages)
    /\ serverState \in {"down", "starting", "ready"}
    /\ clientState \in {"down", "syncing", "up"}
    /\ directory \in Sessions \cup {NoSession}
    /\ serverSeq \in Nat
    /\ seen \in SUBSET Messages
    /\ phase \in [Calls -> States]
    /\ command \in [Calls -> Commands \cup {NoMessage}]
    /\ pending \in SUBSET Calls
    /\ expired \in SUBSET Calls
    /\ withdrawing \in SUBSET Calls
    /\ routes \in [Calls -> RouteTable \cup {NoRoute}]
    /\ mail \in [Calls -> Outcomes \cup {NoMail}]
    /\ reader \in ResultMessages \cup {NoMessage}
    /\ verdict \in [cause : {"none", "route", "target", "mismatch", "gap",
                             "completed", "unconfirmed", "notice"},
                    call : Nat]
    /\ restarts \in 0..MaxRestarts
    /\ occupant \in Sessions
    /\ changes \in 0..MaxChanges
    /\ bound \in [Messages -> [session : Sessions \cup {NoSession}, changes : 0..MaxChanges]]
    /\ clientSeq \in Nat
    /\ confirmed \in Sessions \cup {NoSession}
    /\ outstanding \in SnapshotMessages \cup {NoSnapshot}
    /\ exec \in ExecRecords \cup {NoExec}
    /\ cache \in [Messages -> CacheEntries \cup {NoEntry}]
    /\ ran \in [Messages -> Handlings \cup {NotRun}]
    /\ notice \in Notices \cup {NoNotice}
    /\ notices \in 0..MaxNotices

(* The three tables of a connection agree through every order of result,   *)
(* timeout and deferred removal: a pending request belongs to a waiting    *)
(* call with a route and an empty channel, an expired one to a call that   *)
(* timed out, and a route outlives its call only when the call ended OK    *)
(* or has its removal still to come.                                       *)
RoutesFollowRequests ==
    /\ \A c \in pending :
           phase[c] = "waiting" /\ routes[c] # NoRoute /\ mail[c] = NoMail
    /\ \A c \in expired : phase[c] = "timedout"
    /\ \A c \in Calls : routes[c] # NoRoute =>
           phase[c] \in {"waiting", "ok"} \/ c \in withdrawing

(* Replayed or interrupted, on an old link or a new one, the outputs of a  *)
(* reply reach the server in order, without gap, none after the final one, *)
(* and for the session the result bound them to: no link is ever given up  *)
(* for one of these reasons.                                               *)
OutputsInOrder == verdict.cause \notin {"mismatch", "gap", "completed"}

(* An answer without a route breaks the link only when its call timed out; *)
(* a call that was answered or refused is never followed by such a break.  *)
OnlyLateAnswersBreak ==
    verdict.cause = "route" => phase[verdict.call] = "timedout"

(* An answer, late or not, whose session the directory does not name       *)
(* breaks the link only when the pane has changed: since the start, and,   *)
(* if the command had moved to a new occupant, once more after it moved    *)
(* there.  That one change is never enough, since the snapshot with the    *)
(* new occupant is confirmed before the result names it.                   *)
TargetsBreakAfterChanges ==
    verdict.cause = "target" =>
        changes > bound[command[verdict.call].message].changes

(* A notification never names a snapshot the server has not applied on     *)
(* that link, however the link changed since the notification was resolved.*)
NoticesNameAckedSnapshots == verdict.cause # "unconfirmed"

(* Across lost links, server restarts and redelivered messages a message   *)
(* is handled at most once, and a call that is told OK or failed is told   *)
(* the outcome of that handling for the very target it named.              *)
Once == INSTANCE RelayOnce WITH
            answer <- [c \in Calls |->
                IF phase[c] \in {"ok", "failed"}
                THEN [message |-> command[c].message,
                      target |-> command[c].session, outcome |-> phase[c]]
                ELSE NoAnswer]
ImplementsOnce == Once!Spec

(* The request slot of the Pal is returned whatever happens to the link it *)
(* was taken for, also while the handler waits for its snapshot.           *)
SlotReturned == (exec # NoExec) ~> (exec = NoExec)

(* Once the pane stops changing, the directory of a ready link names its   *)
(* occupant, and stays so.                                                 *)
DirectoryCatchesUp == <>[](serverState = "ready" => directory = occupant)

(* docs/HPRP_PROTOCOL_DESIGN.md:555: a late result or output of a call that *)
(* timed out recently must not make the server drop the Pal's link.        *)
LateAnswersTolerated == verdict.cause # "route"

(* docs/HPRP_PROTOCOL_DESIGN.md:437: the Pal refers to a new or changed     *)
(* session only after the server has confirmed the snapshot with it.       *)
NoticesNameAckedSessions == verdict.cause # "notice"

(* A link's tables agree, and in whatever order replies, timeouts, changes  *)
(* of the pane and a reconnection come, a reply breaks a link for one of    *)
(* two reasons: no route, if its call timed out, and a target the directory *)
(* does not name, if the pane changed, again after the reply was bound.     *)
LinksHold ==
    /\ TypeOK
    /\ RoutesFollowRequests
    /\ OutputsInOrder
    /\ OnlyLateAnswersBreak
    /\ TargetsBreakAfterChanges

(* The Pal takes commands again, and the directory is up to date in the end.*)
LinkSettles == SlotReturned /\ DirectoryCatchesUp
=============================================================================
