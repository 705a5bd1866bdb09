---------------------------- MODULE RelayLinkProofs ----------------------------
(***************************************************************************)
(* Proofs about RelayLink, for any messages, sessions, calls, links,       *)
(* changes of the pane, restarts, outputs and notices.                     *)
(***************************************************************************)
EXTENDS RelayLink, TLAPS

Places(queue) == 1..Len(queue)
Queued(queue) == {queue[i] : i \in Places(queue)}
Snapshots == {i \in Places(toServer) : toServer[i].type = "snapshot"}
Applied == {i \in Places(toClient) : toClient[i].type = "applied"}
Both == serverState # "down" /\ clientState # "down"

(* The ends of a link that are down hold nothing of it.                    *)
EndsDown ==
    /\ clientState = "down" =>
          toClient = <<>> /\ outstanding = NoSnapshot /\ clientSeq = 0
    /\ serverState = "down" => toServer = <<>> /\ serverSeq = 0
    /\ clientState = "up" => clientSeq >= 1
    /\ serverState = "ready" => directory \in Sessions

(* One snapshot at a time is under way, to the server or back, and is the  *)
(* one that the Pal waits for; what it confirmed the server has applied.   *)
Syncing ==
    /\ outstanding # NoSnapshot => outstanding.sequence = clientSeq + 1
    /\ \A i, j \in Snapshots : i = j
    /\ \A i \in Snapshots :
          /\ toServer[i].sequence = serverSeq + 1
          /\ clientState # "down" => toServer[i] = outstanding /\ Applied = {}
    /\ \A i, j \in Applied : i = j
    /\ \A i \in Applied :
          /\ outstanding # NoSnapshot /\ toClient[i].sequence = outstanding.sequence
          /\ serverState # "down" => serverSeq = clientSeq + 1
    /\ Both => clientSeq <= serverSeq /\ (outstanding = NoSnapshot => serverSeq = clientSeq)
    /\ \A i \in Places(toServer) :
          toServer[i].type = "notice" => toServer[i].confirmed \in 1..serverSeq

(* A reply that is not OK binds nothing and has no outputs.                *)
Proper(reply) == reply.outcome # "ok" => reply.replacement = NoSession /\ reply.outputs = 0
Binds(m) == m.replacement # NoSession => m.outcome = "ok"
Handling == {"running", "reporting", "reported", "finishing"}
RepliesProper ==
    /\ \A m \in Messages : cache[m] # NoEntry => Proper(cache[m].reply)
    /\ exec # NoExec => Proper(exec.reply) /\ exec.sent <= exec.reply.outputs
    /\ exec # NoExec /\ exec.at \in Handling => exec.reply.outcome \in {"ok", "failed"}
    /\ \A i \in Places(toServer) : toServer[i].type = "result" => Binds(toServer[i])
    /\ reader # NoMessage => Binds(reader)

(* A message is in hand, or its cache entry holds what came of it.         *)
Handled ==
    /\ \A m \in Messages : cache[m] # NoEntry =>
          /\ ran[m] = Run(cache[m].session, cache[m].reply.outcome)
          /\ cache[m].reply.outcome \in {"ok", "failed"}
    /\ \A m \in Messages : ran[m] # NotRun /\ cache[m] = NoEntry =>
          exec # NoExec /\ exec.at \in Handling /\ exec.command.message = m
    /\ exec # NoExec => exec.command.link <= link
    /\ exec # NoExec /\ exec.at \in Handling =>
          /\ ran[exec.command.message] = Run(exec.command.session, "running")
          /\ cache[exec.command.message] = NoEntry
    /\ exec # NoExec /\ exec.at = "writing" /\ exec.reply.outcome # "rejected" =>
          ran[exec.command.message] = Run(exec.command.session, exec.reply.outcome)

IsFor(c, m, s) == phase[c] # "idle" /\ command[c].message = m /\ command[c].session = s
Truthful(c, outcome) ==
    /\ phase[c] # "idle"
    /\ outcome # "rejected" =>
          ran[command[c].message] = Run(command[c].session, outcome)

(* On every way that a command and its answer take, they are those of one  *)
(* call, and what the answer says of the handling is so.                   *)
AnswersTruthful ==
    /\ \A c \in Calls : phase[c] # "idle" => command[c] # NoMessage /\ command[c].link <= link
    /\ \A m \in Queued(toClient) : m.type = "execute" => IsFor(m.call, m.message, m.session)
    /\ exec # NoExec => IsFor(exec.call, exec.command.message, exec.command.session)
    /\ \A m \in Queued(toServer) : m.type = "result" => Truthful(m.call, m.outcome)
    /\ reader # NoMessage => Truthful(reader.call, reader.outcome)
    /\ \A c \in Calls : mail[c] # NoMail => Truthful(c, mail[c])

----------------------------------------------------------------------------
(* The tables.                                                             *)
Here(c) == serverState # "down" /\ phase[c] # "idle" /\ command[c].link = link

TablesInv ==
    /\ RoutesFollowRequests
    /\ \A c \in Calls : routes[c] # NoRoute => Here(c)
    /\ \A c \in pending \cup expired : Here(c)
    /\ \A c \in Calls : phase[c] \in {"waiting", "ok"} /\ Here(c) => routes[c] # NoRoute
    /\ \A c \in Calls : phase[c] = "lost" => ~Here(c)
    /\ \A c \in withdrawing : phase[c] \in {"timedout", "failed", "rejected"}
    /\ \A c \in Calls : mail[c] # NoMail => phase[c] \in {"waiting", "timedout", "lost"}
    /\ \A c \in Calls : phase[c] = "waiting" /\ Here(c) /\ mail[c] = NoMail => c \in pending

(* Where the one exchange of a call stands: asked, in hand, answered, or   *)
(* between the two looks of the reader.                                    *)
AskedAt(c, i) == toClient[i].type = "execute" /\ toClient[i].call = c
Asked(c) == \E i \in Places(toClient) : AskedAt(c, i)
OnLink == exec # NoExec /\ exec.command.link = link /\ clientState # "down"
InSlot(c) == OnLink /\ exec.call = c
Held(c) == InSlot(c) /\ exec.sent = 0
Writes(c) == InSlot(c) /\ exec.at = "writing" /\ exec.sent # 0
SentAt(c, i) == toServer[i].type = "result" /\ toServer[i].call = c
Sent(c) == \E i \in Places(toServer) : SentAt(c, i)
Looked(c) == reader # NoMessage /\ reader.call = c
OutputAt(c, i) == toServer[i].type = "output" /\ toServer[i].call = c
Unheard(c) == Sent(c) \/ Looked(c)
Open(c) == Asked(c) \/ Held(c) \/ Unheard(c)

SentIsOK == exec # NoExec /\ exec.sent # 0 => exec.at = "writing" /\ exec.reply.outcome = "ok"

Exchanges ==
    /\ \A c \in Calls, i, j \in Places(toClient) : AskedAt(c, i) /\ AskedAt(c, j) => i = j
    /\ \A c \in Calls, i, j \in Places(toServer) : SentAt(c, i) /\ SentAt(c, j) => i = j
    /\ \A c \in Calls : ~(Asked(c) /\ InSlot(c)) /\ ~(Asked(c) /\ Unheard(c))
    /\ \A c \in Calls : ~(Held(c) /\ Unheard(c)) /\ ~(Sent(c) /\ Looked(c))
    /\ \A c \in Calls : Asked(c) \/ InSlot(c) => command[c].link = link
    /\ \A c \in Calls : Unheard(c) => Here(c)
    /\ \A c \in Calls : Open(c) => mail[c] = NoMail /\ phase[c] \in {"waiting", "timedout", "lost"}
    /\ SentIsOK
    /\ \A c \in Calls, i \in Places(toServer) : OutputAt(c, i) => ~Asked(c) /\ ~Held(c)

(* A call whose outputs are under way was answered OK or will be.          *)
Followed(c) == Writes(c) \/ \E i \in Places(toServer) : OutputAt(c, i)
ResultOK(c) ==
    /\ \A i \in Places(toServer) : SentAt(c, i) => toServer[i].outcome = "ok"
    /\ Looked(c) => reader.outcome = "ok"
    /\ mail[c] \in {NoMail, "ok"}
    /\ phase[c] \in {"waiting", "timedout", "lost", "ok"}
OutputsFollowOK ==
    /\ \A c \in Calls : Followed(c) => ResultOK(c)
    /\ \A c \in Calls, i \in Places(toServer) : OutputAt(c, i) => Here(c)

(* The session that the outputs of a call are for: what its result names,  *)
(* until that was taken, then what its route names.                        *)
BoundTo(c, replacement) == IF replacement = NoSession THEN command[c].session ELSE replacement
Fresh(c) == routes[c] # NoRoute => routes[c] = Route(command[c].session, 1, FALSE)
Speaks(c, s) ==
    /\ \A i \in Places(toServer) : SentAt(c, i) => s = BoundTo(c, toServer[i].replacement)
    /\ Looked(c) => s = BoundTo(c, reader.replacement)
    /\ ~Unheard(c) /\ routes[c] # NoRoute /\ c \notin expired => routes[c].session = s

RoutesNotAhead ==
    /\ \A c \in Calls : Open(c) => Fresh(c)
    /\ \A c \in Calls, i \in Places(toServer) : OutputAt(c, i) => Speaks(c, toServer[i].session)
    /\ \A c \in Calls : Writes(c) => Speaks(c, BoundTo(c, exec.reply.replacement))
    /\ \A c \in Calls, i, j \in Places(toServer) : SentAt(c, i) /\ OutputAt(c, j) => i < j

Counted(c) == routes[c] # NoRoute /\ c \notin expired
OutputsCounted ==
    /\ \A c \in Calls, i, j \in Places(toServer) : OutputAt(c, i) /\ OutputAt(c, j) =>
          /\ i < j => toServer[i].sequence < toServer[j].sequence
          /\ i # j => ~(toServer[i].final /\ i < j)
    /\ \A c \in Calls, i \in Places(toServer) : OutputAt(c, i) /\ Counted(c) =>
          /\ toServer[i].sequence >= routes[c].next /\ ~routes[c].completed
          /\ \/ toServer[i].sequence = routes[c].next
             \/ \E j \in Places(toServer) : j < i /\ OutputAt(c, j)
                                            /\ toServer[j].sequence = toServer[i].sequence - 1
    /\ \A c \in Calls : Writes(c) =>
          /\ \A i \in Places(toServer) : OutputAt(c, i) =>
                toServer[i].sequence < exec.sent /\ ~toServer[i].final
          /\ Counted(c) /\ serverState # "down" =>
                /\ exec.sent >= routes[c].next /\ ~routes[c].completed
                /\ \/ exec.sent = routes[c].next
                   \/ \E j \in Places(toServer) : OutputAt(c, j) /\ toServer[j].sequence = exec.sent - 1

----------------------------------------------------------------------------
(* Queues and messages.                                                    *)

LEMMA AppendPlaces ==
    ASSUME NEW S, NEW q \in Seq(S), NEW m \in S
    PROVE  /\ Append(q, m) \in Seq(S) /\ Len(q) \in Nat
           /\ Places(Append(q, m)) = Places(q) \cup {Len(q) + 1}
           /\ Len(q) + 1 \notin Places(q) /\ Append(q, m)[Len(q) + 1] = m
           /\ \A i \in Places(q) : Append(q, m)[i] = q[i] /\ i \in Nat /\ i < Len(q) + 1
  BY DEF Places

LEMMA TailPlaces ==
    ASSUME NEW S, NEW q \in Seq(S), q # <<>>
    PROVE  /\ Tail(q) \in Seq(S) /\ Head(q) = q[1] /\ 1 \in Places(q) /\ Head(q) \in S
           /\ \A i \in Places(Tail(q)) : i \in Nat /\ i + 1 \in Places(q) /\ Tail(q)[i] = q[i + 1]
           /\ \A i \in Places(q) : i # 1 => i - 1 \in Places(Tail(q)) /\ Tail(q)[i - 1] = q[i]
  BY DEF Places

LEMMA Taken ==
    ASSUME NEW S, NEW q \in Seq(S), q # <<>>, NEW r, r = Tail(q), NEW i \in Places(r)
    PROVE  i \in Nat /\ i + 1 \in Places(q) /\ i + 1 # 1 /\ r[i] = q[i + 1]
  BY DEF Places

LEMMA NoPlaces == Places(<<>>) = {} /\ \A S : <<>> \in Seq(S)
  BY DEF Places

LEMMA OnePlace ==
    ASSUME NEW S, NEW m \in S
    PROVE  <<m>> \in Seq(S) /\ Places(<<m>>) = {1} /\ <<m>>[1] = m
  BY DEF Places

LEMMA PalMessagesAre ==
    /\ \A n \in Nat, s \in Sessions : SnapshotMsg(n, s) \in SnapshotMessages
    /\ SnapshotMessages \subseteq PalMessages /\ ResultMessages \subseteq PalMessages
    /\ \A c \in Calls, o \in Outcomes, r \in Sessions \cup {NoSession} :
          ResultMsg(c, o, r) \in ResultMessages
    /\ \A c \in Calls, s \in Sessions, n \in 1..MaxOutputs, last \in BOOLEAN :
          OutputMsg(c, s, n, last) \in PalMessages
    /\ \A k \in {"status", "invalidated"}, s \in Sessions, n \in Nat :
          NoticeMsg(k, s, n) \in PalMessages
  BY DEF PalMessages, SnapshotMessages, ResultMessages, SnapshotMsg, ResultMsg, OutputMsg, NoticeMsg

LEMMA ServerMessagesAre ==
    /\ \A n \in Nat : SnapshotResultMsg(n) \in ServerMessages
    /\ \A c \in Calls, m \in Messages, s \in Sessions : ExecuteMsg(c, m, s) \in ServerMessages
  BY DEF ServerMessages, SnapshotResultMsg, ExecuteMsg

LEMMA PalMessageFields ==
    ASSUME NEW m \in PalMessages
    PROVE  /\ m.type = "snapshot" => m \in SnapshotMessages /\ m.sequence \in Nat /\ m.session \in Sessions
           /\ m.type = "result" => /\ m \in ResultMessages /\ m.call \in Calls /\ m.outcome \in Outcomes
                                   /\ m.replacement \in Sessions \cup {NoSession}
           /\ m.type = "output" => /\ m.call \in Calls /\ m.session \in Sessions
                                   /\ m.sequence \in 1..MaxOutputs /\ m.final \in BOOLEAN
           /\ m.type = "notice" => m.confirmed \in Nat /\ m.session \in Sessions
  BY DEF PalMessages, SnapshotMessages, ResultMessages

LEMMA ServerMessageFields ==
    ASSUME NEW m \in ServerMessages
    PROVE  /\ m.type = "execute" => m.call \in Calls /\ m.message \in Messages /\ m.session \in Sessions
           /\ m.type = "applied" => m.sequence \in Nat
           /\ m.type \in {"execute", "applied"}
  BY DEF ServerMessages

(* The handler and its reply are built of parts that have their types.     *)
LEMMA ExecFields ==
    ASSUME NEW x \in ExecRecords
    PROVE  /\ x.call \in Calls /\ x.command \in Commands /\ x.report \in Links
           /\ x.reply \in Replies /\ x.sent \in 0..MaxOutputs
           /\ x.command.message \in Messages /\ x.command.session \in Sessions /\ x.command.link \in Links
           /\ x.reply.outcome \in Outcomes /\ x.reply.replacement \in Sessions \cup {NoSession}
           /\ x.reply.outputs \in 0..MaxOutputs
  BY DEF ExecRecords, Commands, Replies

LEMMA ExecIs ==
    ASSUME NEW at \in {"taken", "running", "reporting", "reported", "finishing", "writing"},
           NEW c \in Calls, NEW k \in Commands, NEW rep \in Links, NEW reply \in Replies,
           NEW sent \in 0..MaxOutputs
    PROVE  /\ Exec(at, c, k, rep, reply, sent) \in ExecRecords
           /\ Exec(at, c, k, rep, reply, sent) # NoExec
  BY NothingAssumption DEF ExecRecords, Exec

LEMMA RepliesAre ==
    /\ Rejected \in Replies /\ Unanswered \in Replies
    /\ \A o \in Outcomes, r \in Sessions \cup {NoSession}, n \in 0..MaxOutputs :
          Reply(o, r, n) \in Replies
  BY LinkAssumption DEF Rejected, Unanswered, Reply, Replies, Outcomes

----------------------------------------------------------------------------
(* Types, the two ends, and replies.                                       *)
Base == TypeOK /\ EndsDown /\ Syncing /\ RepliesProper

LEMMA BaseStart == Init => Base
  <1> SUFFICES ASSUME Init PROVE Base
    OBVIOUS
  <1>1. TypeOK
    BY LinkAssumption, NothingAssumption, NoPlaces DEF Init, TypeOK, Links, States, Bound, Unbound
  <1>2. Snapshots = {} /\ Applied = {} /\ Places(toServer) = {} /\ Places(toClient) = {}
    BY NoPlaces DEF Init, Snapshots, Applied
  <1>3. EndsDown /\ Syncing /\ RepliesProper
    BY <1>2 DEF Init, EndsDown, Syncing, RepliesProper, Both
  <1> QED
    BY <1>1, <1>3 DEF Base

LEMMA SendingTypes ==
    ASSUME TypeOK
    PROVE  /\ \A m \in PalMessages : SendToServer(m) => toServer' \in Seq(PalMessages)
           /\ \A m \in ServerMessages : SendToClient(m) => toClient' \in Seq(ServerMessages)
           /\ Consume /\ toServer # <<>> => toServer' \in Seq(PalMessages)
           /\ toClient' = Tail(toClient) /\ toClient # <<>> => toClient' \in Seq(ServerMessages)
           /\ toServer # <<>> => Received \in PalMessages
           /\ toClient # <<>> => Head(toClient) \in ServerMessages
  <1>1. toServer \in Seq(PalMessages) /\ toClient \in Seq(ServerMessages)
    BY DEF TypeOK
  <1>2. \A m \in PalMessages : SendToServer(m) => toServer' \in Seq(PalMessages)
    BY <1>1, AppendPlaces DEF SendToServer
  <1>3. \A m \in ServerMessages : SendToClient(m) => toClient' \in Seq(ServerMessages)
    BY <1>1, AppendPlaces DEF SendToClient
  <1>4. toServer # <<>> => Received \in PalMessages /\ Tail(toServer) \in Seq(PalMessages)
    BY <1>1, TailPlaces DEF Received
  <1>5. toClient # <<>> => Head(toClient) \in ServerMessages /\ Tail(toClient) \in Seq(ServerMessages)
    BY <1>1, TailPlaces
  <1> QED
    BY <1>2, <1>3, <1>4, <1>5 DEF Consume

LEMMA CloseTypes ==
    ASSUME TypeOK, CloseServer, UNCHANGED <<mail, withdrawing, command>>,
           phase' \in [Calls -> States], restarts' \in 0..MaxRestarts, seen' \in SUBSET Messages,
           verdict' \in [cause : {"none", "route", "target", "mismatch", "gap",
                                  "completed", "unconfirmed", "notice"}, call : Nat]
    PROVE  TypeOK'
  BY NoPlaces DEF TypeOK, CloseServer, clientVars, syncVars, execVars, paneVars, noticeVars

LEMMA BreakTypes ==
    ASSUME TypeOK, NEW cause \in {"route", "target", "mismatch", "gap", "completed",
                                  "unconfirmed", "notice"},
           NEW c \in Nat, Break(cause, c)
    PROVE  TypeOK'
  BY CloseTypes DEF Break, callVars, TypeOK

LEMMA TypesOfNet ==
    ASSUME Base, Connect \/ ClientLoses \/ ServerLoses \/ ServerRestart
    PROVE  TypeOK'
  <1> USE DEF Base, TypeOK, tables, callVars, serverVars, syncVars, execVars, paneVars, noticeVars,
              clientVars
  <1>1. CASE Connect
    <2>1. SnapshotMsg(1, occupant) \in SnapshotMessages \cap PalMessages
      BY PalMessagesAre
    <2>2. toServer' \in Seq(PalMessages) /\ toClient' \in Seq(ServerMessages)
      BY <1>1, <2>1, OnePlace, NoPlaces DEF Connect
    <2>3. link' \in Links
      BY <1>1, LinkAssumption DEF Connect, Links
    <2> QED
      BY <1>1, <2>1, <2>2, <2>3 DEF Connect
  <1>2. CASE ClientLoses
    BY <1>2, NoPlaces DEF ClientLoses
  <1>3. CASE ServerLoses
    BY <1>3, CloseTypes DEF ServerLoses
  <1>4. CASE ServerRestart
    <2>1. restarts' \in 0..MaxRestarts /\ phase' \in [Calls -> States]
      BY <1>4, LinkAssumption DEF ServerRestart, States
    <2>2. withdrawing' = {} /\ CloseServer /\ UNCHANGED <<mail, command, verdict>> /\ seen' = {}
      BY <1>4 DEF ServerRestart
    <2> QED
      BY <2>1, <2>2, NoPlaces DEF CloseServer
  <1> QED
    BY <1>1, <1>2, <1>3, <1>4

LEMMA TypesOfCalls ==
    ASSUME Base, NEW c \in Calls, CallSteps(c)
    PROVE  TypeOK'
  <1> USE DEF Base, TypeOK, net, tables, callVars, serverVars, syncVars, execVars, paneVars,
              noticeVars, clientVars
  <1>1. ASSUME NEW m \in Messages, Execute(c, m)
        PROVE  TypeOK'
    <2>1. directory \in Sessions /\ link \in Links
      BY <1>1 DEF Execute, EndsDown
    <2>2. toClient' \in Seq(ServerMessages)
      BY <1>1, <2>1, ServerMessagesAre, SendingTypes DEF Execute
    <2>3. Command(m, directory, link) \in Commands
      BY <2>1 DEF Command, Commands
    <2>4. Route(directory, 1, FALSE) \in RouteTable
      BY <2>1, LinkAssumption DEF Route, RouteTable
    <2>5. "waiting" \in States
      BY DEF States
    <2>6. /\ phase' \in [Calls -> States] /\ command' \in [Calls -> Commands \cup {NoMessage}]
          /\ routes' \in [Calls -> RouteTable \cup {NoRoute}]
      BY <1>1, <2>3, <2>4, <2>5 DEF Execute
    <2>7. seen' \in SUBSET Messages /\ pending' \in SUBSET Calls
      BY <1>1 DEF Execute
    <2>8. UNCHANGED <<link, toServer, serverState, clientState, expired, mail, withdrawing, restarts,
                      serverVars, clientVars>>
      BY <1>1 DEF Execute
    <2> QED
      BY <2>2, <2>6, <2>7, <2>8
  <1>2. CASE TimeOut(c)
    BY <1>2 DEF TimeOut, States
  <1>3. CASE LoseCall(c)
    BY <1>3 DEF LoseCall, States
  <1>4. CASE TakeResult(c)
    <2>1. mail[c] \in States
      BY <1>4 DEF TakeResult, Outcomes, States
    <2> QED
      BY <1>4, <2>1 DEF TakeResult
  <1>5. CASE RemoveCommand(c)
    BY <1>5 DEF RemoveCommand
  <1>6. CASE ForgetExpired(c)
    BY <1>6 DEF ForgetExpired
  <1> QED
    BY <1>1, <1>2, <1>3, <1>4, <1>5, <1>6 DEF CallSteps

LEMMA TypesOfReads ==
    ASSUME Base, ServerReads
    PROVE  TypeOK'
  <1> USE DEF Base, net, tables, callVars, serverVars, syncVars, execVars, paneVars,
              noticeVars, clientVars
  <1>1. CASE ReadSnapshot
    <2>1. Received.session \in Sessions /\ Received.sequence \in Nat
      BY <1>1, SendingTypes, PalMessageFields DEF ReadSnapshot, Arrived, Received
    <2>2. toServer' \in Seq(PalMessages) /\ toClient' \in Seq(ServerMessages)
      BY <1>1, <2>1, SendingTypes, ServerMessagesAre DEF ReadSnapshot, Arrived
    <2> QED
      BY <1>1, <2>1, <2>2 DEF ReadSnapshot, TypeOK
  <1>2. CASE ReadResult
    <2>1. Received \in ResultMessages
      BY <1>2, SendingTypes, PalMessageFields DEF ReadResult, Arrived, Received
    <2>2. toServer' \in Seq(PalMessages)
      BY <1>2, SendingTypes DEF ReadResult, Arrived
    <2>3. reader' \in ResultMessages \cup {NoMessage}
      BY <1>2, <2>1 DEF ReadResult
    <2> QED
      BY <1>2, <2>2, <2>3 DEF ReadResult, TypeOK
  <1>3. CASE HandleResult
    <2>1. /\ reader \in ResultMessages /\ reader.call \in Calls /\ reader.outcome \in Outcomes
          /\ reader.replacement \in Sessions \cup {NoSession}
      BY <1>3 DEF HandleResult, TypeOK, ResultMessages
    <2>2. reader.call \in Nat
      BY <2>1, LinkAssumption DEF Calls
    <2>3. ASSUME ResultFault(reader) # "none"
          PROVE  ResultFault(reader) \in {"route", "target"}
      BY <2>3 DEF ResultFault
    <2>4. ASSUME ResultFault(reader) = "none", reader.replacement # NoSession
          PROVE  routes[reader.call] \in RouteTable
      BY <1>3, <2>1, <2>4 DEF ResultFault, RepliesProper, Binds, HandleResult, TypeOK
    <2>5. ASSUME ResultFault(reader) = "none"
          PROVE  routes' \in [Calls -> RouteTable \cup {NoRoute}]
      <3>1. CASE reader.replacement = NoSession
        BY <1>3, <2>5, <3>1 DEF HandleResult, AcceptResult, TypeOK
      <3>2. CASE reader.replacement # NoSession
        <4>1. Route(reader.replacement, routes[reader.call].next, routes[reader.call].completed)
                 \in RouteTable
          BY <2>1, <2>4, <2>5, <3>2 DEF Route, RouteTable
        <4> QED
          BY <1>3, <2>5, <3>2, <4>1 DEF HandleResult, AcceptResult, TypeOK
      <3> QED
        BY <3>1, <3>2
    <2>6. ASSUME ResultFault(reader) = "none"
          PROVE  TypeOK'
      <3>1. mail' \in [Calls -> Outcomes \cup {NoMail}]
        BY <1>3, <2>1, <2>6 DEF HandleResult, AcceptResult, TypeOK
      <3> QED
        BY <1>3, <2>5, <2>6, <3>1 DEF HandleResult, AcceptResult, TypeOK
    <2> QED
      BY <1>3, <2>2, <2>3, <2>6, BreakTypes DEF HandleResult
  <1>4. CASE ReadOutput
    <2>1. /\ Received.call \in Calls /\ Received.session \in Sessions
          /\ Received.sequence \in 1..MaxOutputs /\ Received.final \in BOOLEAN
      BY <1>4, SendingTypes, PalMessageFields DEF ReadOutput, Arrived, Received
    <2>2. Received.call \in Nat /\ Received.sequence \in Nat
      BY <2>1, LinkAssumption DEF Calls
    <2>3. CASE IgnoreOutput
      BY <1>4, <2>3, SendingTypes DEF IgnoreOutput, ReadOutput, Arrived, TypeOK
    <2>4. ASSUME OutputFault(Received) = "none", AcceptOutput(Received)
          PROVE  TypeOK'
      <3>1. routes[Received.call] \in RouteTable
        BY <2>1, <2>4 DEF OutputFault, TypeOK
      <3>2. routes[Received.call].next = Received.sequence
        BY <2>2, <2>4, <3>1 DEF OutputFault, RouteTable
      <3>3. Route(Received.session, routes[Received.call].next + 1, Received.final) \in RouteTable
        BY <2>1, <3>2, LinkAssumption DEF Route, RouteTable
      <3>4. toServer' \in Seq(PalMessages)
        BY <1>4, <2>4, SendingTypes DEF AcceptOutput, ReadOutput, Arrived
      <3>5. routes' \in [Calls -> RouteTable \cup {NoRoute}]
        BY <2>4, <3>3 DEF AcceptOutput, TypeOK
      <3> QED
        BY <2>4, <3>4, <3>5 DEF AcceptOutput, TypeOK
    <2>5. ASSUME OutputFault(Received) \notin {"none", "repeated"}
          PROVE  OutputFault(Received) \in {"target", "route", "mismatch", "gap", "completed"}
      BY <2>5 DEF OutputFault
    <2> QED
      BY <1>4, <2>2, <2>3, <2>4, <2>5, BreakTypes DEF ReadOutput
  <1>5. CASE ReadNotice
    <2>1. CASE IgnoreOutput
      BY <1>5, <2>1, SendingTypes DEF IgnoreOutput, ReadNotice, Arrived, TypeOK
    <2>2. ASSUME NoticeFault(Received) # "none"
          PROVE  NoticeFault(Received) \in {"unconfirmed", "notice"}
      BY <2>2 DEF NoticeFault
    <2> QED
      BY <1>5, <2>1, <2>2, BreakTypes DEF ReadNotice
  <1> QED
    BY <1>1, <1>2, <1>3, <1>4, <1>5 DEF ServerReads

LEMMA TypesOfPal ==
    ASSUME Base,
           \/ ChangeOccupant \/ SendSnapshot \/ ReadSnapshotResult \/ ReadExecute \/ BeginCommand
           \/ (\E n \in 0..MaxOutputs : Respond(n) \/ RespondMoved(n))
           \/ ReportFails \/ FinishCommand \/ WriteReply \/ WriteFails
           \/ (\E k \in {"status", "invalidated"}, s \in Sessions : ResolveNotice(k, s))
           \/ WriteNotice
    PROVE  TypeOK'
  <1> USE DEF Base, net, tables, callVars, serverVars, syncVars, execVars, paneVars,
              noticeVars, clientVars
  <1>a. exec # NoExec => exec \in ExecRecords
    BY DEF TypeOK
  <1>b. MaxOutputs \in Nat /\ 0 \in 0..MaxOutputs /\ link \in Links /\ 0 \in Links
    BY LinkAssumption DEF TypeOK, Links
  <1>c. ASSUME exec # NoExec, NEW at \in {"taken", "running", "reporting", "reported", "finishing", "writing"},
               NEW reply \in Replies, ExecAt(at, reply)
        PROVE  exec' \in ExecRecords \cup {NoExec}
    BY <1>c, <1>a, <1>b, ExecFields, ExecIs DEF ExecAt
  <1>1. CASE ChangeOccupant
    BY <1>1, LinkAssumption DEF ChangeOccupant, TypeOK
  <1>2. CASE SendSnapshot
    <2>1. SnapshotMsg(clientSeq + 1, occupant) \in SnapshotMessages \cap PalMessages
      BY PalMessagesAre DEF TypeOK
    <2>2. toServer' \in Seq(PalMessages)
      BY <1>2, <2>1, SendingTypes DEF SendSnapshot
    <2>3. exec' \in ExecRecords \cup {NoExec}
      BY <1>2, <1>a, <1>b, ExecFields, ExecIs DEF SendSnapshot, ReportWanted, TypeOK
    <2> QED
      BY <1>2, <2>1, <2>2, <2>3 DEF SendSnapshot, TypeOK
  <1>3. CASE ReadSnapshotResult
    <2>1. outstanding \in SnapshotMessages
      <3>1. 1 \in Applied
        BY <1>3, TailPlaces DEF ReadSnapshotResult, Delivered, Applied, TypeOK
      <3> QED
        BY <3>1 DEF Syncing, TypeOK
    <2>2. outstanding.session \in Sessions
      BY <2>1 DEF SnapshotMessages
    <2>3. Head(toClient).sequence \in Nat /\ toClient' \in Seq(ServerMessages)
      BY <1>3, SendingTypes, ServerMessageFields DEF ReadSnapshotResult, Delivered
    <2>4. exec' \in ExecRecords \cup {NoExec}
      BY <1>3, <1>a, <1>b, ExecFields, ExecIs DEF ReadSnapshotResult, TypeOK
    <2> QED
      BY <1>3, <2>2, <2>3, <2>4 DEF ReadSnapshotResult, TypeOK
  <1>4. CASE ReadExecute
    <2> DEFINE m == Head(toClient)
    <2>1. m.call \in Calls /\ m.message \in Messages /\ m.session \in Sessions
      BY <1>4, SendingTypes, ServerMessageFields DEF ReadExecute, Delivered
    <2>2. toClient' \in Seq(ServerMessages)
      BY <1>4, SendingTypes DEF ReadExecute, Delivered
    <2>3. CASE exec = NoExec
      <3>1. Command(m.message, m.session, link) \in Commands
        BY <1>b, <2>1 DEF Command, Commands
      <3>2. exec' \in ExecRecords
        BY <1>4, <1>b, <2>1, <2>3, <3>1, ExecIs, RepliesAre DEF ReadExecute
      <3> QED
        BY <1>4, <2>2, <2>3, <3>2 DEF ReadExecute, TypeOK
    <2>4. CASE exec # NoExec
      <3>1. ResultMsg(m.call, "rejected", NoSession) \in PalMessages
        BY <2>1, PalMessagesAre DEF Outcomes
      <3>2. toServer' \in Seq(PalMessages)
        BY <1>4, <2>4, <3>1, SendingTypes DEF ReadExecute
      <3> QED
        BY <1>4, <2>2, <2>4, <3>2 DEF ReadExecute, TypeOK
    <2> QED
      BY <2>3, <2>4
  <1>5. CASE BeginCommand
    <2>1. exec.command.message \in Messages /\ exec.command.session \in Sessions
      BY <1>5, <1>a, ExecFields DEF BeginCommand
    <2>2. cache[exec.command.message] # NoEntry => cache[exec.command.message].reply \in Replies
      BY <2>1 DEF TypeOK, CacheEntries
    <2>3. exec' \in ExecRecords \cup {NoExec}
      BY <1>5, <1>c, <2>1, <2>2, RepliesAre DEF BeginCommand, Hit
    <2>4. ran' \in [Messages -> Handlings \cup {NotRun}]
      <3>1. Run(exec.command.session, "running") \in Handlings
        BY <2>1 DEF Run, Handlings
      <3> QED
        BY <1>5, <2>1, <3>1 DEF BeginCommand, TypeOK
    <2> QED
      BY <1>5, <2>3, <2>4 DEF BeginCommand, TypeOK
  <1>6. ASSUME NEW n \in 0..MaxOutputs, Respond(n) \/ RespondMoved(n)
        PROVE  TypeOK'
    <2>1. Reply("ok", NoSession, n) \in Replies /\ Reply("ok", occupant, n) \in Replies
      BY RepliesAre DEF TypeOK, Outcomes
    <2>2. exec' \in ExecRecords \cup {NoExec}
      BY <1>6, <1>a, <1>b, <1>c, <2>1, RepliesAre, ExecFields, ExecIs DEF Respond, RespondMoved
    <2>3. bound' \in [Messages -> [session : Sessions \cup {NoSession}, changes : 0..MaxChanges]]
      <3>1. CASE Respond(n)
        BY <3>1 DEF Respond, TypeOK
      <3>2. CASE RespondMoved(n)
        BY <3>2 DEF RespondMoved, TypeOK, Bound
      <3> QED
        BY <1>6, <3>1, <3>2
    <2> QED
      BY <1>6, <2>2, <2>3 DEF Respond, RespondMoved, TypeOK
  <1>7. CASE ReportFails
    <2>1. exec' \in ExecRecords \cup {NoExec}
      BY <1>7, <1>c, RepliesAre DEF ReportFails
    <2> QED
      BY <1>7, <2>1 DEF ReportFails, TypeOK
  <1>8. CASE FinishCommand
    <2>1. exec \in ExecRecords /\ exec.reply \in Replies
      BY <1>8, <1>a, ExecFields DEF FinishCommand
    <2>2. exec' \in ExecRecords \cup {NoExec}
      BY <1>8, <1>c, <2>1 DEF FinishCommand
    <2>3. cache' \in [Messages -> CacheEntries \cup {NoEntry}]
      <3>1. Entry(exec.command.session, exec.reply) \in CacheEntries
        BY <2>1, ExecFields DEF Entry, CacheEntries
      <3> QED
        BY <1>8, <3>1 DEF FinishCommand, Stored, TypeOK
    <2>4. ran' \in [Messages -> Handlings \cup {NotRun}]
      <3>1. exec.reply.outcome \in {"ok", "failed"} /\ exec.command.message \in Messages
        BY <1>8, <2>1, ExecFields DEF FinishCommand, RepliesProper, Handling
      <3>2. Run(exec.command.session, exec.reply.outcome) \in Handlings
        BY <2>1, <3>1, ExecFields DEF Run, Handlings
      <3> QED
        BY <1>8, <3>1, <3>2 DEF FinishCommand, TypeOK
    <2> QED
      BY <1>8, <2>2, <2>3, <2>4 DEF FinishCommand, TypeOK
  <1>9. CASE WriteReply
    <2>1. exec \in ExecRecords /\ exec.sent \in 0..MaxOutputs /\ exec.reply.outputs \in 0..MaxOutputs
          /\ exec.sent <= exec.reply.outputs
      BY <1>9, <1>a, ExecFields DEF WriteReply, RepliesProper
    <2>2. Envelope(exec.sent) \in PalMessages
      <3>1. exec.sent # 0 => exec.sent \in 1..MaxOutputs
        BY <2>1
      <3> QED
        BY <2>1, <3>1, ExecFields, PalMessagesAre DEF Envelope
    <2>3. exec' \in ExecRecords \cup {NoExec}
      <3>1. exec.sent # exec.reply.outputs => exec.sent + 1 \in 0..MaxOutputs
        BY <2>1, <1>b
      <3> QED
        BY <1>9, <2>1, <3>1, ExecFields, ExecIs DEF WriteReply
    <2> QED
      BY <1>9, <2>2, <2>3, SendingTypes DEF WriteReply, TypeOK
  <1>10. CASE WriteFails
    BY <1>10 DEF WriteFails, TypeOK
  <1>11. ASSUME NEW k \in {"status", "invalidated"}, NEW s \in Sessions, ResolveNotice(k, s)
         PROVE  TypeOK'
    <2>1. [kind |-> k, session |-> s, link |-> link] \in Notices
      BY <1>b DEF Notices
    <2>2. notices' \in 0..MaxNotices
      BY <1>11, LinkAssumption DEF ResolveNotice, TypeOK
    <2> QED
      BY <1>11, <2>1, <2>2 DEF ResolveNotice, TypeOK
  <1>12. CASE WriteNotice
    <2>1. NoticeMsg(notice.kind, notice.session, clientSeq) \in PalMessages
      BY <1>12, PalMessagesAre DEF WriteNotice, TypeOK, Notices
    <2> QED
      BY <1>12, <2>1, SendingTypes DEF WriteNotice, TypeOK
  <1> QED
    BY <1>1, <1>2, <1>3, <1>4, <1>5, <1>6, <1>7, <1>8, <1>9, <1>10, <1>11, <1>12

----------------------------------------------------------------------------
(* The steps, with the outcomes of the server's reads taken apart.         *)
Closes ==
    /\ CloseServer
    /\ UNCHANGED <<mail, command>>
    /\ \/ UNCHANGED <<phase, withdrawing, seen, restarts>>
       \/ ServerRestart
Accepts == reader # NoMessage /\ ResultFault(reader) = "none" /\ AcceptResult(reader)
Hears ==
    /\ Arrived("output") /\ Received.call \notin expired
    /\ OutputFault(Received) = "none" /\ AcceptOutput(Received)
Skips ==
    /\ IgnoreOutput
    /\ \/ Arrived("output") /\ (Received.call \in expired \/ OutputFault(Received) = "repeated")
       \/ Arrived("notice") /\ NoticeFault(Received) = "none"
Handles ==
    \/ BeginCommand \/ (\E n \in 0..MaxOutputs : Respond(n) \/ RespondMoved(n))
    \/ ReportFails \/ FinishCommand
Resolves == \E k \in {"status", "invalidated"}, s \in Sessions : ResolveNotice(k, s)

LEMMA ReadsAre ==
    ASSUME ServerReads
    PROVE  ReadSnapshot \/ ReadResult \/ Accepts \/ Hears \/ Skips \/ Closes
  <1>1. \A cause, c : Break(cause, c) => Closes
    BY DEF Break, Closes, callVars
  <1>2. HandleResult => Accepts \/ Closes
    BY <1>1 DEF HandleResult, Accepts
  <1>3. ReadOutput => Hears \/ Skips \/ Closes
    BY <1>1 DEF ReadOutput, Hears, Skips
  <1>4. ReadNotice => Skips \/ Closes
    BY <1>1 DEF ReadNotice, Skips
  <1> QED
    BY <1>2, <1>3, <1>4 DEF ServerReads

Waiting == \E c \in Calls :
    TimeOut(c) \/ LoseCall(c) \/ TakeResult(c) \/ RemoveCommand(c) \/ ForgetExpired(c)
Calling == Waiting \/ \E c \in Calls, m \in Messages : Execute(c, m)

LEMMA StepsAre ==
    ASSUME Next
    PROVE  \/ Connect \/ ClientLoses \/ Closes \/ Calling
           \/ ReadSnapshot \/ ReadResult \/ Accepts \/ Hears \/ Skips
           \/ ChangeOccupant \/ Resolves
           \/ SendSnapshot \/ ReadSnapshotResult \/ ReadExecute
           \/ Handles \/ WriteReply \/ WriteFails \/ WriteNotice
  <1>1. ServerLoses \/ ServerRestart => Closes
    BY DEF ServerLoses, ServerRestart, Closes, callVars
  <1> QED
    BY <1>1, ReadsAre DEF Next, CallSteps, Calling, Waiting, Handles, Resolves

(* How the queues move.                                                    *)
LEMMA ServerQueueMoves ==
    ASSUME TypeOK
    PROVE  /\ \A m \in PalMessages : SendToServer(m) =>
                 \A i \in Places(toServer)' :
                    \/ i \in Places(toServer) /\ toServer'[i] = toServer[i] /\ i < Len(toServer) + 1
                    \/ serverState # "down" /\ i = Len(toServer) + 1 /\ toServer'[i] = m
           /\ Consume /\ toServer # <<>> =>
                 \A i \in Places(toServer)' : /\ i \in Nat /\ i + 1 \in Places(toServer) /\ i + 1 # 1
                                              /\ toServer'[i] = toServer[i + 1]
           /\ toServer' = <<>> => Places(toServer)' = {}
  <1>1. toServer \in Seq(PalMessages)
    BY DEF TypeOK
  <1>2. ASSUME NEW m \in PalMessages, SendToServer(m), NEW i \in Places(toServer)'
        PROVE  \/ i \in Places(toServer) /\ toServer'[i] = toServer[i] /\ i < Len(toServer) + 1
               \/ serverState # "down" /\ i = Len(toServer) + 1 /\ toServer'[i] = m
    <2>1. CASE serverState = "down"
      BY <1>1, <1>2, <2>1 DEF SendToServer, Places
    <2>2. CASE serverState # "down"
      <3>1. toServer' = Append(toServer, m) /\ i \in Places(toServer')
        BY <1>2, <2>2 DEF SendToServer, Places
      <3>2. PICK r : r = toServer'
        OBVIOUS
      <3>3. i \in Places(r) /\ r = Append(toServer, m) /\ m \in PalMessages
        BY <1>2, <3>1, <3>2
      <3>4. \/ i \in Places(toServer) /\ r[i] = toServer[i] /\ i < Len(toServer) + 1
            \/ i = Len(toServer) + 1 /\ r[i] = m
        BY <1>1, <3>3 DEF Places
      <3> QED
        BY <2>2, <3>2, <3>4
    <2> QED
      BY <2>1, <2>2
  <1>3. ASSUME toServer' = Tail(toServer), toServer # <<>>, NEW i \in Places(toServer)'
        PROVE  /\ i \in Nat /\ i + 1 \in Places(toServer) /\ i + 1 # 1
               /\ toServer'[i] = toServer[i + 1]
    <2>1. PICK r : r = toServer'
      OBVIOUS
    <2>2. i \in Places(r) /\ r = Tail(toServer)
      BY <1>3, <2>1 DEF Places
    <2>3. i \in Nat /\ i + 1 \in Places(toServer) /\ i + 1 # 1 /\ r[i] = toServer[i + 1]
      BY <1>1, <1>3, <2>2, Taken
    <2> QED
      BY <2>1, <2>3
  <1>4. toServer' = <<>> => Places(toServer)' = {}
    BY DEF Places
  <1> QED
    BY <1>2, <1>3, <1>4 DEF Consume

LEMMA ClientQueueMoves ==
    ASSUME TypeOK
    PROVE  /\ \A m \in ServerMessages : SendToClient(m) =>
                 \A i \in Places(toClient)' :
                    \/ i \in Places(toClient) /\ toClient'[i] = toClient[i] /\ i < Len(toClient) + 1
                    \/ clientState # "down" /\ i = Len(toClient) + 1 /\ toClient'[i] = m
           /\ toClient' = Tail(toClient) /\ toClient # <<>> =>
                 \A i \in Places(toClient)' : /\ i \in Nat /\ i + 1 \in Places(toClient) /\ i + 1 # 1
                                              /\ toClient'[i] = toClient[i + 1]
           /\ toClient' = <<>> => Places(toClient)' = {}
  <1>1. toClient \in Seq(ServerMessages)
    BY DEF TypeOK
  <1>2. ASSUME NEW m \in ServerMessages, SendToClient(m), NEW i \in Places(toClient)'
        PROVE  \/ i \in Places(toClient) /\ toClient'[i] = toClient[i] /\ i < Len(toClient) + 1
               \/ clientState # "down" /\ i = Len(toClient) + 1 /\ toClient'[i] = m
    <2>1. CASE clientState = "down"
      BY <1>1, <1>2, <2>1 DEF SendToClient, Places
    <2>2. CASE clientState # "down"
      <3>1. toClient' = Append(toClient, m) /\ i \in Places(toClient')
        BY <1>2, <2>2 DEF SendToClient, Places
      <3>2. PICK r : r = toClient'
        OBVIOUS
      <3>3. i \in Places(r) /\ r = Append(toClient, m) /\ m \in ServerMessages
        BY <1>2, <3>1, <3>2
      <3>4. \/ i \in Places(toClient) /\ r[i] = toClient[i] /\ i < Len(toClient) + 1
            \/ i = Len(toClient) + 1 /\ r[i] = m
        BY <1>1, <3>3 DEF Places
      <3> QED
        BY <2>2, <3>2, <3>4
    <2> QED
      BY <2>1, <2>2
  <1>3. ASSUME toClient' = Tail(toClient), toClient # <<>>, NEW i \in Places(toClient)'
        PROVE  /\ i \in Nat /\ i + 1 \in Places(toClient) /\ i + 1 # 1
               /\ toClient'[i] = toClient[i + 1]
    <2>1. PICK r : r = toClient'
      OBVIOUS
    <2>2. i \in Places(r) /\ r = Tail(toClient)
      BY <1>3, <2>1 DEF Places
    <2>3. i \in Nat /\ i + 1 \in Places(toClient) /\ i + 1 # 1 /\ r[i] = toClient[i + 1]
      BY <1>1, <1>3, <2>2, Taken
    <2> QED
      BY <2>1, <2>3
  <1>4. toClient' = <<>> => Places(toClient)' = {}
    BY DEF Places
  <1> QED
    BY <1>2, <1>3, <1>4

(* What is in a record built by one of the constructors.                   *)
LEMMA PartsOfMessages ==
    /\ \A n, t : SnapshotMsg(n, t).type = "snapshot" /\ SnapshotMsg(n, t).sequence = n
                 /\ SnapshotMsg(n, t).session = t
    /\ \A c, o, r : /\ ResultMsg(c, o, r).type = "result" /\ ResultMsg(c, o, r).call = c
                    /\ ResultMsg(c, o, r).outcome = o /\ ResultMsg(c, o, r).replacement = r
    /\ \A c, t, n, last : /\ OutputMsg(c, t, n, last).type = "output" /\ OutputMsg(c, t, n, last).call = c
                          /\ OutputMsg(c, t, n, last).session = t
                          /\ OutputMsg(c, t, n, last).sequence = n /\ OutputMsg(c, t, n, last).final = last
    /\ \A k, t, n : NoticeMsg(k, t, n).type = "notice" /\ NoticeMsg(k, t, n).confirmed = n
    /\ \A c, m, t : /\ ExecuteMsg(c, m, t).type = "execute" /\ ExecuteMsg(c, m, t).call = c
                    /\ ExecuteMsg(c, m, t).message = m /\ ExecuteMsg(c, m, t).session = t
    /\ \A n : SnapshotResultMsg(n).type = "applied" /\ SnapshotResultMsg(n).sequence = n
  BY DEF SnapshotMsg, ResultMsg, OutputMsg, NoticeMsg, ExecuteMsg, SnapshotResultMsg

LEMMA PartsOfExec ==
    \A at, c, k, rep, reply, sent :
       /\ Exec(at, c, k, rep, reply, sent).at = at /\ Exec(at, c, k, rep, reply, sent).call = c
       /\ Exec(at, c, k, rep, reply, sent).command = k /\ Exec(at, c, k, rep, reply, sent).report = rep
       /\ Exec(at, c, k, rep, reply, sent).reply = reply /\ Exec(at, c, k, rep, reply, sent).sent = sent
  BY DEF Exec

LEMMA PartsOfReplies ==
    /\ \A o, r, n : Reply(o, r, n).outcome = o /\ Reply(o, r, n).replacement = r /\ Reply(o, r, n).outputs = n
    /\ Rejected = Reply("rejected", NoSession, 0) /\ Unanswered = Reply("failed", NoSession, 0)
    /\ Proper(Rejected) /\ Proper(Unanswered)
    /\ \A r, n : Proper(Reply("ok", r, n))
  BY DEF Reply, Rejected, Unanswered, Proper

(* What the handler writes, and when it writes it.                         *)
LEMMA EnvelopeIs ==
    ASSUME TypeOK, RepliesProper, exec # NoExec
    PROVE  /\ Envelope(exec.sent) \in PalMessages
           /\ exec.sent = 0 => Envelope(exec.sent) =
                 ResultMsg(exec.call, exec.reply.outcome, exec.reply.replacement)
           /\ exec.sent # 0 => Envelope(exec.sent) =
                 OutputMsg(exec.call,
                    IF exec.reply.replacement = NoSession THEN exec.command.session
                    ELSE exec.reply.replacement, exec.sent, exec.sent = exec.reply.outputs)
  <1>1. exec \in ExecRecords /\ exec.sent \in 0..MaxOutputs /\ exec.reply.outputs \in 0..MaxOutputs
        /\ MaxOutputs \in Nat
    BY ExecFields, LinkAssumption DEF TypeOK
  <1>2. exec.sent # 0 => exec.sent \in 1..MaxOutputs
    BY <1>1
  <1> QED
    BY <1>1, <1>2, ExecFields, PalMessagesAre DEF Envelope

LEMMA RepliesKept ==
    ASSUME Base, Next
    PROVE  RepliesProper'
  <1> USE DEF Base
  <1>0. exec # NoExec => exec \in ExecRecords
    BY DEF TypeOK
  <1>1. \A m \in Messages : cache'[m] # NoEntry => Proper(cache'[m].reply)
    <2>1. CASE FinishCommand
      <3>1. cache' = [cache EXCEPT ![exec.command.message] = Entry(exec.command.session, exec.reply)]
            /\ Proper(exec.reply) /\ exec.command.message \in Messages
        BY <1>0, <2>1, ExecFields DEF FinishCommand, Stored, RepliesProper
      <3> QED
        BY <3>1 DEF RepliesProper, Entry, TypeOK
    <2>2. CASE ~FinishCommand
      <3>1. cache' = cache
        BY <2>2, StepsAre DEF Connect, ClientLoses, Closes, CloseServer, Calling, Waiting, Execute, TimeOut,
           LoseCall, TakeResult, RemoveCommand, ForgetExpired, ReadSnapshot, ReadResult, Accepts,
           AcceptResult, Hears, AcceptOutput, Skips, IgnoreOutput, ChangeOccupant, Resolves,
           ResolveNotice, SendSnapshot, ReadSnapshotResult, ReadExecute, Handles, BeginCommand,
           Respond, RespondMoved, ReportFails, WriteReply, WriteFails, WriteNotice, clientVars, execVars
      <3> QED
        BY <3>1 DEF RepliesProper
    <2> QED
      BY <2>1, <2>2
  <1>2. exec' # NoExec => /\ Proper(exec.reply)' /\ exec'.sent <= exec'.reply.outputs
                          /\ exec'.at \in Handling => exec'.reply.outcome \in {"ok", "failed"}
    <2> USE DEF RepliesProper
    <2>z. /\ \A o, r : \A n \in 0..MaxOutputs : 0 <= Reply(o, r, n).outputs
          /\ 0 <= Rejected.outputs /\ 0 <= Unanswered.outputs
          /\ "taken" \notin Handling /\ "writing" \notin Handling /\ Unanswered.outcome = "failed"
          /\ {"running", "reporting", "reported", "finishing"} = Handling
      BY PartsOfReplies, LinkAssumption DEF Handling
    <2>f. \A r : Proper(r)' <=> Proper(r)
      BY DEF Proper
    <2>a. exec # NoExec => 0 <= exec.reply.outputs
      BY <1>0, ExecFields
    <2>1. CASE SendSnapshot \/ ReadSnapshotResult
      BY <2>1, <2>z, <2>a, <2>f, PartsOfExec DEF SendSnapshot, ReadSnapshotResult, ReportWanted, Proper
    <2>2. CASE ReadExecute
      BY <2>2, <2>z, PartsOfExec, PartsOfReplies DEF ReadExecute, Proper
    <2>3. CASE BeginCommand
      <3>1. Hit(exec.command) => /\ Proper(cache[exec.command.message].reply)
                                 /\ 0 <= cache[exec.command.message].reply.outputs
        BY <1>0, <2>3, ExecFields DEF BeginCommand, Hit, TypeOK, CacheEntries, Replies
      <3> QED
        BY <2>3, <2>z, <3>1, PartsOfExec, PartsOfReplies DEF BeginCommand, ExecAt, Proper
    <2>4. ASSUME NEW n \in 0..MaxOutputs, Respond(n) \/ RespondMoved(n)
          PROVE  exec' # NoExec => /\ Proper(exec.reply)' /\ exec'.sent <= exec'.reply.outputs
                                   /\ exec'.at \in Handling => exec'.reply.outcome \in {"ok", "failed"}
      BY <2>4, <2>z, PartsOfExec, PartsOfReplies DEF Respond, RespondMoved, ExecAt, Proper
    <2>5. CASE ReportFails
      BY <2>5, <2>z, PartsOfExec, PartsOfReplies DEF ReportFails, ExecAt, Proper
    <2>6. CASE FinishCommand
      BY <2>6, <2>z, <2>a, PartsOfExec DEF FinishCommand, ExecAt, Proper
    <2>7. CASE WriteReply
      <3>1. exec.sent # exec.reply.outputs => exec.sent + 1 <= exec.reply.outputs
        BY <1>0, <2>7, ExecFields, LinkAssumption DEF WriteReply
      <3> QED
        BY <2>7, <2>z, <3>1, PartsOfExec DEF WriteReply, Proper
    <2>8. CASE WriteFails
      BY <2>8 DEF WriteFails
    <2>9. CASE Connect \/ ClientLoses \/ Closes \/ Calling \/ ReadSnapshot \/ ReadResult \/ Accepts
               \/ Hears \/ Skips \/ ChangeOccupant \/ Resolves \/ WriteNotice
      <3>1. exec' = exec
        BY <2>9 DEF Connect, ClientLoses, Closes, CloseServer, Calling, Waiting, Execute, TimeOut,
           LoseCall, TakeResult, RemoveCommand, ForgetExpired, ReadSnapshot, ReadResult, Accepts,
           AcceptResult, Hears, AcceptOutput, Skips, IgnoreOutput, ChangeOccupant, Resolves,
           ResolveNotice, WriteNotice, clientVars, execVars
      <3> QED
        BY <3>1 DEF Proper
    <2>10. CASE Handles
      BY <2>3, <2>4, <2>5, <2>6, <2>10 DEF Handles
    <2> QED
      BY <2>1, <2>2, <2>7, <2>8, <2>9, <2>10, StepsAre
  <1>3. \A i \in Places(toServer)' : toServer'[i].type = "result" => Binds(toServer'[i])
    <2>1. ASSUME NEW m \in PalMessages, SendToServer(m), m.type = "result" => Binds(m)
          PROVE  \A i \in Places(toServer)' : toServer'[i].type = "result" => Binds(toServer'[i])
      BY <2>1, ServerQueueMoves DEF RepliesProper
    <2>2. ASSUME Consume, toServer # <<>>
          PROVE  \A i \in Places(toServer)' : toServer'[i].type = "result" => Binds(toServer'[i])
      BY <2>2, ServerQueueMoves DEF RepliesProper
    <2>3. CASE Connect
      <3>1. Places(toServer)' = {1} /\ toServer'[1] = SnapshotMsg(1, occupant)
        BY <2>3 DEF Connect, Places
      <3> QED
        BY <3>1, PartsOfMessages
    <2>4. CASE Closes
      BY <2>4, ServerQueueMoves DEF Closes, CloseServer
    <2>5. CASE ReadSnapshot \/ ReadResult \/ Hears \/ Skips
      BY <2>2, <2>5 DEF ReadSnapshot, ReadResult, Hears, Skips, Arrived, AcceptOutput, IgnoreOutput
    <2>6. CASE SendSnapshot
      <3>1. /\ SnapshotMsg(clientSeq + 1, occupant) \in PalMessages
            /\ SnapshotMsg(clientSeq + 1, occupant).type # "result"
        BY PalMessagesAre, PartsOfMessages DEF TypeOK
      <3> QED
        BY <2>1, <2>6, <3>1 DEF SendSnapshot
    <2>7. CASE WriteReply
      <3>1. Envelope(exec.sent).type = "result" => Binds(Envelope(exec.sent))
        BY <2>7, EnvelopeIs, PartsOfMessages DEF WriteReply, RepliesProper, Proper, Binds
      <3> QED
        BY <2>1, <2>7, <3>1, EnvelopeIs DEF WriteReply
    <2>8. CASE WriteNotice
      <3>1. /\ NoticeMsg(notice.kind, notice.session, clientSeq) \in PalMessages
            /\ NoticeMsg(notice.kind, notice.session, clientSeq).type = "notice"
        BY <2>8, PalMessagesAre, PartsOfMessages DEF WriteNotice, TypeOK, Notices
      <3> QED
        BY <2>1, <2>8, <3>1 DEF WriteNotice, RepliesProper, Places
    <2>9. CASE ReadExecute
      <3>1. /\ ResultMsg(Head(toClient).call, "rejected", NoSession) \in PalMessages
            /\ Binds(ResultMsg(Head(toClient).call, "rejected", NoSession))
        BY <2>9, SendingTypes, ServerMessageFields, PalMessagesAre, PartsOfMessages
           DEF ReadExecute, Delivered, Outcomes, Binds
      <3> QED
        BY <2>1, <2>9, <3>1 DEF ReadExecute, RepliesProper, Places
    <2>10. CASE ClientLoses \/ Calling \/ Accepts \/ ChangeOccupant \/ Resolves \/ ReadSnapshotResult
                \/ Handles \/ WriteFails
      <3>1. toServer' = toServer
        BY <2>10 DEF ClientLoses, Calling, Waiting, Execute, TimeOut, LoseCall, TakeResult, RemoveCommand,
           ForgetExpired, Accepts, AcceptResult, ChangeOccupant, Resolves, ResolveNotice,
           ReadSnapshotResult, Handles, BeginCommand, Respond, RespondMoved, ReportFails, FinishCommand,
           WriteFails, net
      <3> QED
        BY <3>1 DEF RepliesProper, Places
    <2> QED
      BY <2>3, <2>4, <2>5, <2>6, <2>7, <2>8, <2>9, <2>10, StepsAre
  <1>4. reader' # NoMessage => Binds(reader')
    <2>1. CASE ReadResult
      <3>1. 1 \in Places(toServer) /\ Received = toServer[1] /\ Received.type = "result"
        BY <2>1, TailPlaces DEF ReadResult, Arrived, Received, TypeOK
      <3> QED
        BY <2>1, <3>1 DEF ReadResult, RepliesProper
    <2>2. CASE ~ReadResult
      <3>1. reader' \in {reader, NoMessage}
        BY <2>2, StepsAre DEF Connect, ClientLoses, Closes, CloseServer, Calling, Waiting, Execute, TimeOut,
           LoseCall, TakeResult, RemoveCommand, ForgetExpired, ReadSnapshot, Accepts,
           AcceptResult, Hears, AcceptOutput, Skips, IgnoreOutput, ChangeOccupant, Resolves,
           ResolveNotice, SendSnapshot, ReadSnapshotResult, ReadExecute, Handles, BeginCommand,
           Respond, RespondMoved, ReportFails, FinishCommand, WriteReply, WriteFails, WriteNotice,
           serverVars
      <3> QED
        BY <3>1 DEF RepliesProper
    <2> QED
      BY <2>1, <2>2
  <1>5. \A m : Binds(m)' <=> Binds(m)
    BY DEF Binds
  <1>6. \A m \in Messages : Proper(cache[m].reply)' <=> Proper(cache'[m].reply)
    BY DEF Proper
  <1> QED
    BY <1>1, <1>2, <1>3, <1>4, <1>5, <1>6 DEF RepliesProper, Binds

LEMMA EndsDownKept ==
    ASSUME Base, Next
    PROVE  EndsDown'
  <1> USE DEF Base
  <1>1. CASE Connect
    BY <1>1 DEF Connect, EndsDown, serverVars
  <1>2. CASE ClientLoses
    BY <1>2 DEF ClientLoses, EndsDown, serverVars
  <1>3. CASE Closes
    BY <1>3 DEF Closes, CloseServer, EndsDown, clientVars, syncVars
  <1>4. ASSUME UNCHANGED <<serverState, clientState, directory, serverSeq, clientSeq>>,
               clientState = "down" => UNCHANGED <<toClient, outstanding>>,
               serverState = "down" => UNCHANGED toServer
        PROVE  EndsDown'
    BY <1>4 DEF EndsDown
  <1>5. CASE Calling
    BY <1>4, <1>5 DEF Calling, Waiting, Execute, TimeOut, LoseCall, TakeResult, RemoveCommand, ForgetExpired,
       net, serverVars, clientVars, syncVars, SendToClient
  <1>6. CASE ReadSnapshot
    <2>1. Received.session \in Sessions
      BY <1>6, SendingTypes, PalMessageFields DEF ReadSnapshot, Arrived, Received
    <2>2. serverState' # "down" /\ UNCHANGED <<clientState, outstanding, clientSeq>>
          /\ (clientState = "down" => toClient' = toClient) /\ directory' \in Sessions
      BY <1>6, <2>1 DEF ReadSnapshot, SendToClient, clientVars, syncVars
    <2> QED
      BY <2>2 DEF EndsDown
  <1>7. CASE ReadResult \/ Accepts \/ Hears \/ Skips
    BY <1>4, <1>7 DEF ReadResult, Accepts, Hears, Skips, AcceptResult, AcceptOutput, IgnoreOutput, Arrived,
       net, serverVars, clientVars, syncVars, EndsDown
  <1>8. CASE ReadSnapshotResult
    <2>1. clientSeq' >= 1
      <3>1. 1 \in Applied /\ Head(toClient) = toClient[1]
        BY <1>8, TailPlaces DEF ReadSnapshotResult, Delivered, Applied, TypeOK
      <3>2. clientSeq' = clientSeq + 1 /\ clientSeq \in Nat
        BY <1>8, <3>1 DEF ReadSnapshotResult, Syncing, TypeOK
      <3> QED
        BY <3>2
    <2> QED
      BY <1>8, <2>1 DEF ReadSnapshotResult, EndsDown, serverVars
  <1>9. CASE ChangeOccupant \/ Resolves \/ SendSnapshot \/ ReadExecute \/ Handles
             \/ WriteReply \/ WriteFails \/ WriteNotice
    BY <1>4, <1>9 DEF ChangeOccupant, Resolves, ResolveNotice, SendSnapshot, ReadExecute, Handles,
       BeginCommand, Respond, RespondMoved, ReportFails, FinishCommand, WriteReply, WriteFails,
       WriteNotice, net, serverVars, clientVars, syncVars, SendToServer
  <1> QED
    BY <1>1, <1>2, <1>3, <1>5, <1>6, <1>7, <1>8, <1>9, StepsAre

(* Queues that move, with nothing about snapshots but old notices in them. *)
LEMMA SyncOfMoves ==
    ASSUME Base, NEW d \in {0, 1}, NEW e \in {0, 1},
           UNCHANGED <<serverState, clientState, serverSeq, clientSeq, outstanding>>,
           \A i \in Places(toServer)' : i \in Nat /\
              \/ i + d \in Places(toServer) /\ toServer'[i] = toServer[i + d]
              \/ /\ toServer'[i].type # "snapshot"
                 /\ toServer'[i].type = "notice" => toServer'[i].confirmed \in 1..serverSeq,
           \A i \in Places(toClient)' : i \in Nat /\
              \/ i + e \in Places(toClient) /\ toClient'[i] = toClient[i + e]
              \/ toClient'[i].type # "applied"
    PROVE  Syncing'
  <1>1. \A i \in Snapshots' : i \in Nat /\ i + d \in Snapshots /\ toServer'[i] = toServer[i + d]
    BY DEF Snapshots, Places
  <1>2. \A i \in Applied' : i \in Nat /\ i + e \in Applied /\ toClient'[i] = toClient[i + e]
    BY DEF Applied, Places
  <1>3. \A i, j \in Snapshots' : i = j
    BY <1>1 DEF Base, Syncing
  <1>4. \A i, j \in Applied' : i = j
    BY <1>2 DEF Base, Syncing
  <1>5. \A i \in Snapshots' :
          /\ toServer'[i].sequence = serverSeq + 1
          /\ clientState # "down" => toServer'[i] = outstanding /\ Applied' = {}
    BY <1>1, <1>2 DEF Base, Syncing
  <1>6. \A i \in Applied' :
          /\ outstanding # NoSnapshot /\ toClient'[i].sequence = outstanding.sequence
          /\ serverState # "down" => serverSeq = clientSeq + 1
    BY <1>2 DEF Base, Syncing
  <1>7. \A i \in Places(toServer)' :
          toServer'[i].type = "notice" => toServer'[i].confirmed \in 1..serverSeq
    BY DEF Base, Syncing
  <1> QED
    BY <1>3, <1>4, <1>5, <1>6, <1>7 DEF Base, Syncing, Both

(* No snapshot is under way when the Pal waits for none.                   *)
LEMMA NothingAwaited ==
    ASSUME Base, clientState # "down", outstanding = NoSnapshot
    PROVE  Snapshots = {} /\ Applied = {}
  <1>1. ASSUME NEW i \in Snapshots
        PROVE  FALSE
    <2>1. toServer[i] \in PalMessages /\ toServer[i].type = "snapshot"
      BY <1>1 DEF Snapshots, Places, Base, TypeOK
    <2>2. toServer[i] \in SnapshotMessages
      BY <2>1, PalMessageFields
    <2> QED
      BY <1>1, <2>2, NothingAssumption DEF Base, Syncing
  <1> QED
    BY <1>1 DEF Base, Syncing

LEMMA SyncKept ==
    ASSUME Base, Next
    PROVE  Syncing'
  <1>1. CASE Connect
    <2>1. Places(toServer)' = {1} /\ toServer'[1] = SnapshotMsg(1, occupant) /\ Places(toClient)' = {}
      BY <1>1 DEF Connect, Places
    <2>2. outstanding' = SnapshotMsg(1, occupant) /\ outstanding' # NoSnapshot
      <3>1. SnapshotMsg(1, occupant) \in SnapshotMessages
        BY PalMessagesAre DEF Base, TypeOK
      <3> QED
        BY <1>1, <3>1, NothingAssumption DEF Connect
    <2>3. clientSeq' = 0 /\ serverSeq' = 0
      BY <1>1 DEF Connect, Base, EndsDown, serverVars
    <2>4. Snapshots' = {1} /\ Applied' = {}
      BY <2>1, PartsOfMessages DEF Snapshots, Applied
    <2> QED
      BY <2>1, <2>2, <2>3, <2>4, PartsOfMessages DEF Syncing, Both
  <1>2. CASE ClientLoses
    <2>1. Snapshots' = Snapshots /\ Places(toServer)' = Places(toServer) /\ toServer' = toServer
          /\ serverSeq' = serverSeq
      BY <1>2 DEF ClientLoses, Snapshots, Places, serverVars
    <2>2. clientState' = "down" /\ outstanding' = NoSnapshot /\ Applied' = {}
      BY <1>2 DEF ClientLoses, Applied, Places
    <2> QED
      BY <2>1, <2>2 DEF Base, Syncing, Both
  <1>3. CASE Closes
    <2>1. Snapshots' = {} /\ Places(toServer)' = {} /\ serverState' = "down"
      BY <1>3 DEF Closes, CloseServer, Snapshots, Places
    <2>2. UNCHANGED <<toClient, clientState, outstanding, clientSeq>> /\ Applied' = Applied
      BY <1>3 DEF Closes, CloseServer, Applied, Places, clientVars, syncVars
    <2> QED
      BY <2>1, <2>2 DEF Base, Syncing, Both
  <1>4. ASSUME UNCHANGED <<serverState, clientState, serverSeq, clientSeq, outstanding>>
        PROVE  /\ \A m \in ServerMessages :
                     UNCHANGED toServer /\ SendToClient(m) /\ m.type # "applied" => Syncing'
               /\ \A m \in PalMessages :
                     UNCHANGED toClient /\ SendToServer(m) /\ m.type # "snapshot"
                        /\ (m.type = "notice" /\ serverState # "down" => m.confirmed \in 1..serverSeq)
                     => Syncing'
               /\ UNCHANGED toClient /\ Consume /\ toServer # <<>> => Syncing'
               /\ UNCHANGED <<toClient, toServer>> => Syncing'
               /\ toClient' = Tail(toClient) /\ toClient # <<>> /\ UNCHANGED toServer => Syncing'
               /\ \A m \in PalMessages :
                     toClient' = Tail(toClient) /\ toClient # <<>> /\ SendToServer(m)
                        /\ m.type \notin {"snapshot", "notice"} => Syncing'
    <2>1. \A i \in Places(toServer) \cup Places(toClient) : i \in Nat /\ i + 0 = i
      BY DEF Places
    <2>2. UNCHANGED toServer => \A i \in Places(toServer)' :
             i \in Nat /\ i + 0 \in Places(toServer) /\ toServer'[i] = toServer[i + 0]
      BY <2>1 DEF Places
    <2>3. UNCHANGED toClient => \A i \in Places(toClient)' :
             i \in Nat /\ i + 0 \in Places(toClient) /\ toClient'[i] = toClient[i + 0]
      BY <2>1 DEF Places
    <2>4. \A i \in Places(toServer)' \cup Places(toClient)' : i \in Nat
      BY DEF Places
    <2>5. TypeOK
      BY DEF Base
    <2>6. \A m \in PalMessages : SendToServer(m) => \A i \in Places(toServer)' : i \in Nat /\
             \/ i + 0 \in Places(toServer) /\ toServer'[i] = toServer[i + 0]
             \/ toServer'[i] = m /\ serverState # "down"
      BY <2>1, <2>4, <2>5, ServerQueueMoves
    <2>7. \A m \in ServerMessages : SendToClient(m) => \A i \in Places(toClient)' : i \in Nat /\
             \/ i + 0 \in Places(toClient) /\ toClient'[i] = toClient[i + 0]
             \/ toClient'[i] = m
      BY <2>1, <2>4, <2>5, ClientQueueMoves
    <2>8. ASSUME NEW m \in ServerMessages, UNCHANGED toServer, SendToClient(m), m.type # "applied"
          PROVE  Syncing'
      BY <1>4, <2>2, <2>7, <2>8, SyncOfMoves
    <2>9. ASSUME NEW m \in PalMessages, UNCHANGED toClient, SendToServer(m), m.type # "snapshot",
                 m.type = "notice" /\ serverState # "down" => m.confirmed \in 1..serverSeq
          PROVE  Syncing'
      BY <1>4, <2>3, <2>6, <2>9, SyncOfMoves
    <2>10. ASSUME UNCHANGED toClient, Consume, toServer # <<>>
           PROVE  Syncing'
      BY <1>4, <2>3, <2>5, <2>10, ServerQueueMoves, SyncOfMoves
    <2>11. ASSUME UNCHANGED <<toClient, toServer>>
           PROVE  Syncing'
      BY <1>4, <2>2, <2>3, <2>11, SyncOfMoves
    <2>12. ASSUME toClient' = Tail(toClient), toClient # <<>>, UNCHANGED toServer
           PROVE  Syncing'
      BY <1>4, <2>2, <2>5, <2>12, ClientQueueMoves, SyncOfMoves
    <2>13. ASSUME NEW m \in PalMessages, toClient' = Tail(toClient), toClient # <<>>, SendToServer(m),
                  m.type \notin {"snapshot", "notice"}
           PROVE  Syncing'
      BY <1>4, <2>5, <2>6, <2>13, ClientQueueMoves, SyncOfMoves
    <2> QED
      BY <2>8, <2>9, <2>10, <2>11, <2>12, <2>13
  <1>5. CASE Calling
    <2>1. UNCHANGED <<serverState, clientState, serverSeq, clientSeq, outstanding, toServer>>
      BY <1>5 DEF Calling, Waiting, Execute, TimeOut, LoseCall, TakeResult, RemoveCommand, ForgetExpired,
         net, serverVars, clientVars, syncVars
    <2>2. \/ toClient' = toClient
          \/ \E m \in ServerMessages : SendToClient(m) /\ m.type # "applied"
      <3>1. ASSUME NEW c \in Calls, NEW m \in Messages, Execute(c, m)
            PROVE  /\ ExecuteMsg(c, m, directory) \in ServerMessages
                   /\ SendToClient(ExecuteMsg(c, m, directory))
                   /\ ExecuteMsg(c, m, directory).type = "execute"
        BY <3>1, ServerMessagesAre, PartsOfMessages DEF Execute, Base, EndsDown
      <3>2. CASE \E c \in Calls, m \in Messages : Execute(c, m)
        BY <3>1, <3>2
      <3>3. CASE \E c \in Calls : \/ TimeOut(c) \/ LoseCall(c) \/ TakeResult(c)
                                  \/ RemoveCommand(c) \/ ForgetExpired(c)
        BY <3>3 DEF TimeOut, LoseCall, TakeResult, RemoveCommand, ForgetExpired, net
      <3> QED
        BY <1>5, <3>2, <3>3 DEF Calling, Waiting
    <2> QED
      BY <1>4, <2>1, <2>2
  <1>6. CASE ReadSnapshot
    <2>1. 1 \in Snapshots /\ Received = toServer[1] /\ toServer # <<>> /\ serverState # "down"
      BY <1>6, TailPlaces DEF ReadSnapshot, Arrived, Received, Snapshots, Base, TypeOK
    <2>2. Received.sequence = serverSeq + 1 /\ serverSeq \in Nat /\ clientSeq \in Nat
          /\ (clientState # "down" => /\ Received = outstanding /\ Applied = {}
                                      /\ outstanding # NoSnapshot /\ serverSeq = clientSeq)
      <3>1. Received \in SnapshotMessages
        BY <2>1, SendingTypes, PalMessageFields DEF Snapshots, Base
      <3>2. clientState # "down" => Received = outstanding /\ Applied = {}
        BY <2>1 DEF Base, Syncing
      <3>3. clientState # "down" => outstanding # NoSnapshot
        BY <3>1, <3>2, NothingAssumption
      <3>4. Received.sequence = serverSeq + 1 /\ serverSeq \in Nat /\ clientSeq \in Nat
        BY <2>1 DEF Base, Syncing, TypeOK
      <3>5. clientState # "down" => outstanding.sequence = clientSeq + 1
        BY <3>3 DEF Base, Syncing
      <3> QED
        BY <3>2, <3>3, <3>4, <3>5
    <2>3. Snapshots' = {}
      <3>1. \A i \in Snapshots' : i + 1 \in Snapshots /\ i + 1 # 1
        BY <1>6, <2>1, ServerQueueMoves DEF ReadSnapshot, Snapshots, Base, Places
      <3> QED
        BY <2>1, <3>1 DEF Base, Syncing
    <2>4. /\ \A i, j \in Applied' : i = j
          /\ \A i \in Applied' : clientState # "down" /\ toClient'[i] = SnapshotResultMsg(Received.sequence)
      <3>1. /\ SnapshotResultMsg(Received.sequence) \in ServerMessages
            /\ SendToClient(SnapshotResultMsg(Received.sequence))
        BY <1>6, <2>2, ServerMessagesAre DEF ReadSnapshot
      <3>2. Places(toClient) = {} \/ clientState # "down"
        BY DEF Base, EndsDown, Places
      <3>3. \A i \in Applied' : clientState # "down" /\ i = Len(toClient) + 1
                                /\ toClient'[i] = SnapshotResultMsg(Received.sequence)
        BY <2>2, <3>1, <3>2, ClientQueueMoves DEF Base, Applied, Places
      <3> QED
        BY <3>3
    <2>5. \A i \in Places(toServer)' : toServer'[i].type = "notice" => toServer'[i].confirmed \in 1..serverSeq
      BY <1>6, <2>1, ServerQueueMoves DEF ReadSnapshot, Base, Syncing
    <2>6. serverSeq' = serverSeq + 1 /\ UNCHANGED <<clientState, outstanding, clientSeq>>
      BY <1>6, <2>2 DEF ReadSnapshot, clientVars, syncVars
    <2>7. \A n \in 1..serverSeq : n \in 1..(serverSeq + 1)
      BY <2>2
    <2>8. Both' => clientSeq' <= serverSeq' /\ outstanding' # NoSnapshot
      BY <2>2, <2>6 DEF Both
    <2>9. \A i \in Applied' :
             /\ outstanding' # NoSnapshot /\ toClient'[i].sequence = outstanding'.sequence
             /\ serverState' # "down" => serverSeq' = clientSeq' + 1
      BY <2>2, <2>4, <2>6, PartsOfMessages
    <2>10. outstanding' # NoSnapshot => outstanding'.sequence = clientSeq' + 1
      BY <2>6 DEF Base, Syncing
    <2> QED
      BY <2>3, <2>4, <2>5, <2>6, <2>7, <2>8, <2>9, <2>10 DEF Syncing
  <1>7. CASE ReadResult \/ Hears \/ Skips
    BY <1>4, <1>7 DEF ReadResult, Hears, Skips, AcceptOutput, IgnoreOutput, Arrived, serverVars,
       clientVars, syncVars
  <1>8. CASE Accepts \/ ChangeOccupant \/ Resolves \/ Handles \/ WriteFails
    BY <1>4, <1>8 DEF Accepts, AcceptResult, ChangeOccupant, Resolves, ResolveNotice, Handles,
       BeginCommand, Respond, RespondMoved, ReportFails, FinishCommand, WriteFails, net, serverVars,
       clientVars, syncVars
  <1>9. CASE SendSnapshot
    <2>1. clientState # "down" /\ outstanding = NoSnapshot
      BY <1>9 DEF SendSnapshot
    <2>2. Snapshots = {} /\ Applied = {}
      BY <2>1, NothingAwaited
    <2> DEFINE m == SnapshotMsg(clientSeq + 1, occupant)
    <2>3. m \in SnapshotMessages /\ m \in PalMessages /\ m # NoSnapshot /\ m.sequence = clientSeq + 1
          /\ m.type = "snapshot"
      BY PalMessagesAre, PartsOfMessages, NothingAssumption DEF Base, TypeOK
    <2>4. UNCHANGED <<serverState, clientState, serverSeq, clientSeq, toClient>>
          /\ outstanding' = m /\ SendToServer(m)
      BY <1>9 DEF SendSnapshot, serverVars
    <2>5. serverState # "down" => serverSeq = clientSeq
      BY <2>1 DEF Base, Syncing, Both
    <2> HIDE DEF m
    <2>6. \A i \in Places(toServer)' :
             \/ i \in Places(toServer) /\ toServer'[i] = toServer[i]
             \/ serverState # "down" /\ i = Len(toServer) + 1 /\ toServer'[i] = m
      BY <2>3, <2>4, ServerQueueMoves DEF Base
    <2>7. /\ \A i \in Snapshots' : i = Len(toServer) + 1 /\ toServer'[i] = m /\ serverState # "down"
          /\ Applied' = {}
      BY <2>2, <2>4, <2>6 DEF Snapshots, Applied, Places
    <2>8. \A i \in Places(toServer)' :
             toServer'[i].type = "notice" => toServer'[i].confirmed \in 1..serverSeq
      BY <2>3, <2>6 DEF Base, Syncing
    <2>9. clientSeq \in Nat /\ serverSeq \in Nat
      BY DEF Base, TypeOK
    <2> QED
      BY <2>3, <2>4, <2>5, <2>7, <2>8, <2>9 DEF Syncing, Both
  <1>10. CASE ReadSnapshotResult
    <2>1. 1 \in Applied /\ Head(toClient) = toClient[1] /\ toClient # <<>> /\ clientState # "down"
      BY <1>10, TailPlaces DEF ReadSnapshotResult, Delivered, Applied, Base, TypeOK
    <2>2. Snapshots = {} /\ clientSeq' = clientSeq + 1 /\ clientSeq \in Nat
          /\ (serverState # "down" => serverSeq = clientSeq + 1)
      BY <1>10, <2>1 DEF ReadSnapshotResult, Base, Syncing, TypeOK
    <2>3. Applied' = {}
      <3>1. \A i \in Applied' : i + 1 \in Applied /\ i + 1 # 1
        BY <1>10, <2>1, ClientQueueMoves DEF ReadSnapshotResult, Applied, Base, Places
      <3> QED
        BY <2>1, <3>1 DEF Base, Syncing
    <2>4. outstanding' = NoSnapshot /\ UNCHANGED <<toServer, serverState, serverSeq>>
      BY <1>10 DEF ReadSnapshotResult, serverVars
    <2>5. Snapshots' = {} /\ Places(toServer)' = Places(toServer)
      BY <2>2, <2>4 DEF Snapshots, Places
    <2> QED
      BY <2>2, <2>3, <2>4, <2>5 DEF Base, Syncing, Both
  <1>11. CASE ReadExecute
    <2>1. UNCHANGED <<serverState, clientState, serverSeq, clientSeq, outstanding>>
          /\ toClient' = Tail(toClient) /\ toClient # <<>>
      BY <1>11 DEF ReadExecute, Delivered, serverVars, syncVars
    <2>2. \/ toServer' = toServer
          \/ \E m \in PalMessages : SendToServer(m) /\ m.type = "result"
      <3>1. /\ ResultMsg(Head(toClient).call, "rejected", NoSession) \in PalMessages
            /\ ResultMsg(Head(toClient).call, "rejected", NoSession).type = "result"
        BY <1>11, SendingTypes, ServerMessageFields, PalMessagesAre, PartsOfMessages
           DEF ReadExecute, Delivered, Outcomes, Base
      <3> QED
        BY <1>11, <3>1 DEF ReadExecute
    <2> QED
      BY <1>4, <2>1, <2>2
  <1>12. CASE WriteReply
    <2>1. UNCHANGED <<serverState, clientState, serverSeq, clientSeq, outstanding, toClient>>
          /\ SendToServer(Envelope(exec.sent))
      BY <1>12 DEF WriteReply, serverVars, syncVars
    <2>2. Envelope(exec.sent) \in PalMessages /\ Envelope(exec.sent).type \in {"result", "output"}
      BY <1>12, EnvelopeIs, PartsOfMessages DEF WriteReply, Base
    <2> QED
      BY <1>4, <2>1, <2>2
  <1>13. CASE WriteNotice
    <2>1. UNCHANGED <<serverState, clientState, serverSeq, clientSeq, outstanding, toClient>>
      BY <1>13 DEF WriteNotice, serverVars, syncVars
    <2> DEFINE m == NoticeMsg(notice.kind, notice.session, clientSeq)
    <2>2. m \in PalMessages /\ m.type = "notice" /\ m.confirmed = clientSeq
      BY <1>13, PalMessagesAre, PartsOfMessages DEF WriteNotice, Base, TypeOK, Notices
    <2>3. clientState = "up" /\ serverState # "down" => clientSeq \in 1..serverSeq
      BY DEF Base, EndsDown, Syncing, Both, TypeOK
    <2>4. toServer' = toServer \/ (SendToServer(m) /\ clientState = "up")
      BY <1>13 DEF WriteNotice, SessionAlive
    <2> HIDE DEF m
    <2> QED
      BY <1>4, <2>1, <2>2, <2>3, <2>4
  <1> QED
    BY <1>1, <1>2, <1>3, <1>5, <1>6, <1>7, <1>8, <1>9, <1>10, <1>11, <1>12, <1>13, StepsAre

LEMMA SameVars ==
    ASSUME UNCHANGED vars
    PROVE  UNCHANGED <<link, toServer, toClient, serverState, clientState, directory, serverSeq, seen,
                       phase, command, pending, expired, routes, mail, withdrawing, reader, verdict,
                       restarts, occupant, changes, bound, clientSeq, confirmed, outstanding, exec, cache,
                       ran, notice, notices>>
  BY DEF vars, net, tables, callVars, serverVars, clientVars, syncVars, execVars, paneVars, noticeVars

LEMMA BaseKept ==
    ASSUME Base, [Next]_vars
    PROVE  Base'
  <1>1. CASE Next
    <2>1. TypeOK'
      BY <1>1, TypesOfNet, TypesOfCalls, TypesOfReads, TypesOfPal DEF Next
    <2> QED
      BY <1>1, <2>1, EndsDownKept, SyncKept, RepliesKept DEF Base
  <1>2. CASE UNCHANGED vars
    <2>1. TypeOK' /\ EndsDown'
      BY <1>2, SameVars DEF Base, TypeOK, EndsDown
    <2>2. Syncing' /\ RepliesProper'
      BY <1>2, SameVars DEF Base, Syncing, Snapshots, Applied, Both, RepliesProper, Proper, Binds, Places
    <2> QED
      BY <2>1, <2>2 DEF Base
  <1> QED
    BY <1>1, <1>2

(* A link is given up only for one of the faults of a message read.        *)
LEMMA VerdictsAre ==
    ASSUME Next
    PROVE  \/ verdict' = verdict
           \/ /\ reader # NoMessage /\ ResultFault(reader) # "none"
              /\ Break(ResultFault(reader), reader.call)
           \/ /\ Arrived("output") /\ Received.call \notin expired
              /\ OutputFault(Received) \notin {"none", "repeated"}
              /\ Break(OutputFault(Received), Received.call)
           \/ Arrived("notice") /\ NoticeFault(Received) # "none" /\ Break(NoticeFault(Received), 0)
  <1>1. CASE ServerReads
    BY <1>1 DEF ServerReads, ReadSnapshot, ReadResult, HandleResult, ReadOutput, ReadNotice, AcceptResult,
       AcceptOutput, IgnoreOutput, serverVars
  <1>2. CASE Connect \/ ClientLoses \/ ServerLoses \/ ServerRestart \/ (\E c \in Calls : CallSteps(c))
    BY <1>2 DEF Connect, ClientLoses, ServerLoses, ServerRestart, CallSteps, Execute, TimeOut,
       LoseCall, TakeResult, RemoveCommand, ForgetExpired, serverVars
  <1>3. CASE ~(ServerReads \/ Connect \/ ClientLoses \/ ServerLoses \/ ServerRestart
               \/ (\E c \in Calls : CallSteps(c)))
    BY <1>3 DEF Next, ChangeOccupant, SendSnapshot, ReadSnapshotResult, ReadExecute, BeginCommand, Respond,
       RespondMoved, ReportFails, FinishCommand, WriteReply, WriteFails, ResolveNotice, WriteNotice,
       serverVars
  <1> QED
    BY <1>1, <1>2, <1>3

LEMMA AckedStep ==
    ASSUME Base, NoticesNameAckedSnapshots, [Next]_vars
    PROVE  NoticesNameAckedSnapshots'
  <1>1. ASSUME Next, verdict' # verdict
        PROVE  verdict'.cause # "unconfirmed"
    <2>1. CASE reader # NoMessage /\ Break(ResultFault(reader), reader.call)
      BY <2>1 DEF Break, ResultFault
    <2>2. CASE Break(OutputFault(Received), Received.call)
      BY <2>2 DEF Break, OutputFault
    <2>3. CASE Arrived("notice") /\ Break(NoticeFault(Received), 0)
      <3>1. 1 \in Places(toServer) /\ Received = toServer[1] /\ Received.type = "notice"
        BY <2>3, TailPlaces DEF Arrived, Received, Base, TypeOK
      <3>2. Received.confirmed \in 1..serverSeq
        BY <3>1 DEF Base, Syncing
      <3> QED
        BY <2>3, <3>2 DEF Break, NoticeFault
    <2> QED
      BY <1>1, <2>1, <2>2, <2>3, VerdictsAre
  <1> QED
    BY <1>1 DEF NoticesNameAckedSnapshots, vars, serverVars

(* A notification never names a snapshot that the server has not applied   *)
(* on that link: sequences are counted per link on both ends, one snapshot *)
(* is under way at a time, and a notification is behind what confirmed it. *)
THEOREM NoticesAcked == Spec => []NoticesNameAckedSnapshots
  <1>1. Init => Base /\ NoticesNameAckedSnapshots
    BY BaseStart DEF Init, NoticesNameAckedSnapshots
  <1>2. Base /\ NoticesNameAckedSnapshots /\ [Next]_vars => (Base /\ NoticesNameAckedSnapshots)'
    BY BaseKept, AckedStep
  <1> QED
    BY <1>1, <1>2, PTL DEF Spec

(* What the queues hold after a step.                                      *)
LEMMA QueuedMoves ==
    ASSUME TypeOK
    PROVE  /\ \A m \in PalMessages : SendToServer(m) => Queued(toServer)' \subseteq Queued(toServer) \cup {m}
           /\ Consume /\ toServer # <<>> => Queued(toServer)' \subseteq Queued(toServer)
           /\ toServer' = <<>> => Queued(toServer)' = {}
           /\ toServer # <<>> => Received \in Queued(toServer)
           /\ Queued(toServer) \subseteq PalMessages
           /\ \A m \in ServerMessages : SendToClient(m) => Queued(toClient)' \subseteq Queued(toClient) \cup {m}
           /\ toClient' = Tail(toClient) /\ toClient # <<>> => Queued(toClient)' \subseteq Queued(toClient)
           /\ toClient' = <<>> => Queued(toClient)' = {}
           /\ toClient # <<>> => Head(toClient) \in Queued(toClient)
           /\ Queued(toClient) \subseteq ServerMessages
  <1>1. /\ \A m \in PalMessages : SendToServer(m) => Queued(toServer)' \subseteq Queued(toServer) \cup {m}
        /\ Consume /\ toServer # <<>> => Queued(toServer)' \subseteq Queued(toServer)
        /\ toServer' = <<>> => Queued(toServer)' = {}
    BY ServerQueueMoves DEF Queued
  <1>2. /\ \A m \in ServerMessages : SendToClient(m) => Queued(toClient)' \subseteq Queued(toClient) \cup {m}
        /\ toClient' = Tail(toClient) /\ toClient # <<>> => Queued(toClient)' \subseteq Queued(toClient)
        /\ toClient' = <<>> => Queued(toClient)' = {}
    BY ClientQueueMoves DEF Queued
  <1>3. /\ toServer # <<>> => Received \in Queued(toServer)
        /\ toClient # <<>> => Head(toClient) \in Queued(toClient)
    BY TailPlaces DEF TypeOK, Queued, Received
  <1>4. Queued(toServer) \subseteq PalMessages /\ Queued(toClient) \subseteq ServerMessages
    BY DEF TypeOK, Queued, Places
  <1> QED
    BY <1>1, <1>2, <1>3, <1>4

LEMMA ServerQueued ==
    ASSUME Base, Next, NEW m \in Queued(toServer)'
    PROVE  \/ m \in Queued(toServer)
           \/ m.type = "snapshot" /\ m.session = occupant
           \/ m.type = "notice"
           \/ WriteReply /\ m = Envelope(exec.sent)
           \/ ReadExecute /\ exec # NoExec /\ m = ResultMsg(Head(toClient).call, "rejected", NoSession)
  <1>0. TypeOK
    BY DEF Base
  <1>1. CASE Connect
    BY <1>1, PartsOfMessages DEF Connect, Queued, Places
  <1>2. CASE SendSnapshot
    <2>1. /\ SnapshotMsg(clientSeq + 1, occupant) \in PalMessages
          /\ SnapshotMsg(clientSeq + 1, occupant).type = "snapshot"
          /\ SnapshotMsg(clientSeq + 1, occupant).session = occupant
      BY PalMessagesAre, PartsOfMessages DEF Base, TypeOK
    <2> QED
      BY <1>0, <1>2, <2>1, QueuedMoves DEF SendSnapshot
  <1>3. CASE WriteReply
    BY <1>0, <1>3, QueuedMoves, EnvelopeIs DEF WriteReply, Base
  <1>4. CASE WriteNotice
    <2>1. /\ NoticeMsg(notice.kind, notice.session, clientSeq) \in PalMessages
          /\ NoticeMsg(notice.kind, notice.session, clientSeq).type = "notice"
      BY <1>4, PalMessagesAre, PartsOfMessages DEF WriteNotice, Base, TypeOK, Notices
    <2> QED
      BY <1>0, <1>4, <2>1, QueuedMoves DEF WriteNotice, Queued, Places
  <1>5. CASE ReadExecute
    <2>1. ResultMsg(Head(toClient).call, "rejected", NoSession) \in PalMessages
      BY <1>0, <1>5, SendingTypes, ServerMessageFields, PalMessagesAre DEF ReadExecute, Delivered, Outcomes
    <2> QED
      BY <1>0, <1>5, <2>1, QueuedMoves DEF ReadExecute, Queued, Places
  <1>6. CASE ~(Connect \/ SendSnapshot \/ WriteReply \/ WriteNotice \/ ReadExecute)
    <2>1. toServer' \in {toServer, <<>>} \/ (Consume /\ toServer # <<>>)
      BY <1>6, StepsAre DEF ClientLoses, Closes, CloseServer, Calling, Waiting, Execute, TimeOut,
         LoseCall, TakeResult, RemoveCommand, ForgetExpired, ReadSnapshot, ReadResult, Accepts,
         AcceptResult, Hears, AcceptOutput, Skips, IgnoreOutput, Arrived, ChangeOccupant, Resolves,
         ResolveNotice, ReadSnapshotResult, Handles,
         BeginCommand, Respond, RespondMoved, ReportFails, FinishCommand, WriteFails, net
    <2> QED
      BY <1>0, <2>1, QueuedMoves DEF Queued, Places
  <1> QED
    BY <1>1, <1>2, <1>3, <1>4, <1>5, <1>6

LEMMA ClientQueued ==
    ASSUME Base, Next, NEW m \in Queued(toClient)'
    PROVE  \/ m \in Queued(toClient)
           \/ m.type = "applied"
           \/ \E c \in Calls, k \in Messages : Execute(c, k) /\ m = ExecuteMsg(c, k, directory)
  <1>0. TypeOK
    BY DEF Base
  <1>1. ASSUME NEW c \in Calls, NEW k \in Messages, Execute(c, k)
        PROVE  m \in Queued(toClient) \/ m = ExecuteMsg(c, k, directory)
    <2>1. /\ ExecuteMsg(c, k, directory) \in ServerMessages /\ SendToClient(ExecuteMsg(c, k, directory))
      BY <1>1, ServerMessagesAre DEF Execute, Base, EndsDown
    <2> QED
      BY <1>0, <2>1, QueuedMoves
  <1>2. CASE ReadSnapshot
    <2>1. Received.sequence \in Nat
      BY <1>0, <1>2, SendingTypes, PalMessageFields DEF ReadSnapshot, Arrived, Received
    <2>2. /\ SnapshotResultMsg(Received.sequence) \in ServerMessages
          /\ SendToClient(SnapshotResultMsg(Received.sequence))
          /\ SnapshotResultMsg(Received.sequence).type = "applied"
      BY <1>2, <2>1, ServerMessagesAre, PartsOfMessages DEF ReadSnapshot
    <2> QED
      BY <1>0, <2>2, QueuedMoves
  <1>3. CASE ~ReadSnapshot /\ ~(\E c \in Calls, k \in Messages : Execute(c, k))
    <2>1. toClient' \in {toClient, <<>>} \/ (toClient' = Tail(toClient) /\ toClient # <<>>)
      BY <1>3, StepsAre DEF Connect, ClientLoses, Closes, CloseServer, Calling, Waiting, TimeOut,
         LoseCall, TakeResult, RemoveCommand, ForgetExpired, ReadResult, Accepts,
         AcceptResult, Hears, AcceptOutput, Skips, IgnoreOutput, ChangeOccupant, Resolves,
         ResolveNotice, SendSnapshot, ReadSnapshotResult, ReadExecute, Delivered, Handles,
         BeginCommand, Respond, RespondMoved, ReportFails, FinishCommand, WriteReply, WriteFails,
         WriteNotice, net
    <2> QED
      BY <1>0, <2>1, QueuedMoves DEF Queued, Places
  <1> QED
    BY <1>1, <1>2, <1>3

----------------------------------------------------------------------------
(* Handlings and what calls are told of them.                              *)

(* The handler keeps its call and its command until it releases the slot.  *)
LEMMA ExecSteps ==
    ASSUME Base, Next
    PROVE  \/ UNCHANGED exec
           \/ exec' = NoExec /\ exec # NoExec /\ exec.at = "writing"
           \/ /\ ReadExecute /\ exec = NoExec
              /\ exec' = Exec("taken", Head(toClient).call,
                              Command(Head(toClient).message, Head(toClient).session, link), 0, Rejected, 0)
           \/ /\ exec # NoExec /\ exec' # NoExec /\ exec'.call = exec.call /\ exec'.command = exec.command
              /\ exec'.at = exec.at \/ exec.at # "writing"
              /\ exec'.at \in Handling \cup {"writing"}
              /\ exec'.at = "writing" => BeginCommand \/ FinishCommand \/ WriteReply
              /\ exec'.at \in Handling => exec.at \in Handling \/ BeginCommand
              /\ exec'.sent = 0 \/ WriteReply
  <1>a. /\ exec # NoExec => exec \in ExecRecords
        /\ 0 \in 0..MaxOutputs /\ MaxOutputs \in Nat /\ link \in Links
    BY LinkAssumption DEF Base, TypeOK
  <1>b. ASSUME exec # NoExec, NEW at \in {"reporting", "reported", "running", "finishing", "writing"},
               NEW rep \in Links, NEW reply \in Replies, NEW n \in 0..MaxOutputs
        PROVE  Exec(at, exec.call, exec.command, rep, reply, n) # NoExec
    BY <1>a, <1>b, ExecFields, ExecIs
  <1>1. CASE SendSnapshot \/ ReadSnapshotResult
    <2>1. exec # NoExec => exec.report \in Links /\ exec.reply \in Replies
      BY <1>a, ExecFields
    <2> QED
      BY <1>1, <1>a, <1>b, <2>1, PartsOfExec DEF SendSnapshot, ReadSnapshotResult, ReportWanted, Handling
  <1>2. CASE ReadExecute
    BY <1>2 DEF ReadExecute
  <1>3. CASE BeginCommand
    <2>1. exec.report \in Links /\ exec # NoExec
      BY <1>3, <1>a, ExecFields DEF BeginCommand
    <2>2. Hit(exec.command) => cache[exec.command.message].reply \in Replies
      BY <1>a, <2>1, ExecFields DEF Hit, Base, TypeOK, CacheEntries
    <2>3. PICK reply \in Replies, at \in {"writing", "running", "finishing"} :
             exec' = Exec(at, exec.call, exec.command, exec.report, reply, 0)
      BY <1>3, <2>1, <2>2, RepliesAre DEF BeginCommand, ExecAt
    <2> QED
      BY <1>3, <1>a, <1>b, <2>1, <2>3, PartsOfExec DEF Handling, BeginCommand
  <1>4. ASSUME NEW n \in 0..MaxOutputs, Respond(n) \/ RespondMoved(n)
        PROVE  /\ exec # NoExec /\ exec' # NoExec /\ exec'.call = exec.call /\ exec'.command = exec.command
               /\ exec.at \in Handling \ {"writing"} /\ exec'.at \in Handling \ {"writing"}
               /\ exec'.sent = 0
    <2>1. exec.report \in Links /\ exec # NoExec
      BY <1>4, <1>a, ExecFields DEF Respond, RespondMoved
    <2>2. Reply("ok", NoSession, n) \in Replies /\ Reply("ok", occupant, n) \in Replies
      BY RepliesAre DEF Base, TypeOK, Outcomes
    <2>3. PICK reply \in Replies, at \in {"reporting", "finishing"}, rep \in Links :
             exec' = Exec(at, exec.call, exec.command, rep, reply, 0)
      BY <1>4, <1>a, <2>1, <2>2, RepliesAre DEF Respond, RespondMoved, ExecAt
    <2> QED
      BY <1>4, <1>a, <1>b, <2>1, <2>3, PartsOfExec DEF Respond, RespondMoved, Handling
  <1>5. CASE ReportFails \/ FinishCommand
    <2>1. exec.report \in Links /\ exec # NoExec /\ exec.reply \in Replies
      BY <1>5, <1>a, ExecFields DEF ReportFails, FinishCommand
    <2> QED
      BY <1>5, <1>a, <1>b, <2>1, RepliesAre, PartsOfExec DEF ReportFails, FinishCommand, ExecAt, Handling
  <1>7. CASE WriteReply \/ WriteFails
    <2>1. WriteReply => exec.report \in Links /\ exec # NoExec /\ exec.reply \in Replies
      BY <1>7, <1>a, ExecFields DEF WriteReply
    <2>2. WriteReply /\ exec.sent # exec.reply.outputs => exec.sent + 1 \in 0..MaxOutputs
      BY <1>a, ExecFields DEF WriteReply, Base, RepliesProper
    <2> QED
      BY <1>7, <1>b, <2>1, <2>2, PartsOfExec DEF WriteReply, WriteFails, Handling
  <1>8. CASE Connect \/ ClientLoses \/ Closes \/ Calling \/ ReadSnapshot \/ ReadResult \/ Accepts
             \/ Hears \/ Skips \/ ChangeOccupant \/ Resolves \/ WriteNotice
    BY <1>8 DEF Connect, ClientLoses, Closes, CloseServer, Calling, Waiting, Execute, TimeOut,
       LoseCall, TakeResult, RemoveCommand, ForgetExpired, ReadSnapshot, ReadResult, Accepts,
       AcceptResult, Hears, AcceptOutput, Skips, IgnoreOutput, ChangeOccupant, Resolves,
       ResolveNotice, WriteNotice, clientVars, execVars
  <1>9. CASE \E n \in 0..MaxOutputs : Respond(n) \/ RespondMoved(n)
    BY <1>4, <1>9
  <1> QED
    BY <1>1, <1>2, <1>3, <1>5, <1>7, <1>8, <1>9, StepsAre DEF Handles

(* A message starts to be handled, its handling ends, or neither.          *)
LEMMA RanSteps ==
    ASSUME Next
    PROVE  \/ UNCHANGED <<cache, ran>>
           \/ /\ BeginCommand /\ cache' = cache /\ ran[exec.command.message] = NotRun
              /\ cache[exec.command.message] = NoEntry
              /\ ran' = [ran EXCEPT ![exec.command.message] = Run(exec.command.session, "running")]
              /\ exec' = Exec("running", exec.call, exec.command, exec.report, Unanswered, 0)
           \/ FinishCommand
  <1>1. CASE BeginCommand
    BY <1>1 DEF BeginCommand, ExecAt
  <1>2. CASE Handles /\ ~BeginCommand /\ ~FinishCommand
    BY <1>2 DEF Handles, Respond, RespondMoved, ReportFails
  <1>3. CASE ~Handles
    BY <1>3, StepsAre DEF Connect, ClientLoses, Closes, CloseServer, Calling, Waiting, Execute, TimeOut,
       LoseCall, TakeResult, RemoveCommand, ForgetExpired, ReadSnapshot, ReadResult, Accepts,
       AcceptResult, Hears, AcceptOutput, Skips, IgnoreOutput, ChangeOccupant, Resolves,
       ResolveNotice, SendSnapshot, ReadSnapshotResult, ReadExecute, WriteReply, WriteFails, WriteNotice,
       clientVars, execVars
  <1> QED
    BY <1>1, <1>2, <1>3

LEMMA LinkSteps == Next => link' = link \/ (link' = link + 1 /\ Connect)
  BY StepsAre DEF Connect, ClientLoses, Closes, CloseServer, Calling, Waiting, Execute, TimeOut,
     LoseCall, TakeResult, RemoveCommand, ForgetExpired, ReadSnapshot, ReadResult, Accepts,
     AcceptResult, Hears, AcceptOutput, Skips, IgnoreOutput, ChangeOccupant, Resolves,
     ResolveNotice, SendSnapshot, ReadSnapshotResult, ReadExecute, Handles, BeginCommand, Respond,
     RespondMoved, ReportFails, FinishCommand, WriteReply, WriteFails, WriteNotice, net

LEMMA Runs ==
    /\ \A t, o : Run(t, o).target = t /\ Run(t, o).outcome = o
    /\ \A t \in Sessions : \A o \in {"running", "ok", "failed"} :
          Run(t, o) \in Handlings /\ Run(t, o) # NotRun
    /\ \A t, r : Entry(t, r).session = t /\ Entry(t, r).reply = r
    /\ \A m, t, e : Command(m, t, e).message = m /\ Command(m, t, e).session = t /\ Command(m, t, e).link = e
  BY NothingAssumption DEF Run, Handlings, Entry, Command

LEMMA HandledKept ==
    ASSUME Base, Handled, Next
    PROVE  Handled'
  <1>0. /\ exec # NoExec => /\ exec \in ExecRecords /\ exec.command.message \in Messages
                            /\ exec.command.session \in Sessions /\ exec.command.link \in Links
        /\ link \in Nat
    BY ExecFields, LinkAssumption DEF Base, TypeOK, Links
  <1>1. exec' # NoExec => exec'.command.link <= link'
    <2>1. exec # NoExec => exec.command.link \in Nat /\ exec.command.link <= link
      BY <1>0, LinkAssumption DEF Handled, Links
    <2>2. link <= link' /\ link' \in Nat
      BY <1>0, LinkSteps
    <2>3. CASE exec = NoExec /\ exec' # NoExec
      BY <1>0, <2>2, <2>3, ExecSteps, PartsOfExec, Runs
    <2>4. CASE exec # NoExec /\ exec' # NoExec
      BY <2>1, <2>2, <2>4, ExecSteps, <1>0
    <2> QED
      BY <2>3, <2>4
  <1>2. CASE FinishCommand
    <2> DEFINE k == exec.command
    <2>1. exec # NoExec /\ exec.at = "finishing" /\ exec.at \in Handling
      BY <1>2 DEF FinishCommand, Handling
    <2>2. ran[k.message] = Run(k.session, "running") /\ cache[k.message] = NoEntry
          /\ exec.reply.outcome \in {"ok", "failed"} /\ k.message \in Messages
      BY <1>0, <2>1 DEF Handled, Base, RepliesProper
    <2>3. /\ cache' = [cache EXCEPT ![k.message] = Entry(k.session, exec.reply)]
          /\ ran' = [ran EXCEPT ![k.message] = Run(k.session, exec.reply.outcome)]
          /\ exec' = Exec("writing", exec.call, k, exec.report, exec.reply, 0)
      BY <1>2, <2>2, Runs DEF FinishCommand, Stored, ExecAt
    <2>4. /\ cache'[k.message] = Entry(k.session, exec.reply)
          /\ ran'[k.message] = Run(k.session, exec.reply.outcome)
          /\ \A m \in Messages \ {k.message} : cache'[m] = cache[m] /\ ran'[m] = ran[m]
      BY <2>2, <2>3 DEF Base, TypeOK
    <2>5. \A m \in Messages \ {k.message} : ran[m] # NotRun => cache[m] # NoEntry
      BY <2>1 DEF Handled
    <2>6. exec'.at = "writing" /\ exec'.command = k /\ exec'.reply = exec.reply
      BY <2>3, PartsOfExec
    <2>7. Entry(k.session, exec.reply) # NoEntry
      <3>1. Entry(k.session, exec.reply) \in CacheEntries
        BY <1>0, <2>1, ExecFields DEF CacheEntries, Entry
      <3> QED
        BY <3>1, NothingAssumption
    <2> HIDE DEF k
    <2> QED
      BY <1>1, <2>2, <2>4, <2>5, <2>6, <2>7, Runs DEF Handled, Handling
  <1>3. CASE BeginCommand
    <2> DEFINE k == exec.command
    <2>1. exec # NoExec /\ exec.at = "taken" /\ exec.at \notin Handling /\ k.message \in Messages
      BY <1>0, <1>3 DEF BeginCommand, Handling
    <2>2. \A m \in Messages : ran[m] # NotRun => cache[m] # NoEntry
      BY <2>1 DEF Handled
    <2>3. CASE Hit(k) /\ ExecAt("writing", cache[k.message].reply) /\ UNCHANGED <<cache, ran>>
      <3>1. ran[k.message] = Run(k.session, cache[k.message].reply.outcome)
        BY <2>1, <2>3 DEF Handled, Hit
      <3>2. exec'.at = "writing" /\ exec'.command = k /\ exec'.reply = cache[k.message].reply
        BY <2>3, PartsOfExec DEF ExecAt
      <3> HIDE DEF k
      <3> QED
        BY <1>1, <2>2, <2>3, <3>1, <3>2 DEF Handled, Handling
    <2>4. CASE ExecAt("writing", Rejected) /\ UNCHANGED <<cache, ran>>
      <3>1. exec'.at = "writing" /\ exec'.reply.outcome = "rejected"
        BY <2>4, PartsOfExec, PartsOfReplies DEF ExecAt
      <3> QED
        BY <1>1, <2>2, <2>4, <3>1 DEF Handled, Handling
    <2>5. CASE /\ ran[k.message] = NotRun /\ cache[k.message] = NoEntry /\ cache' = cache
               /\ ran' = [ran EXCEPT ![k.message] = Run(k.session, "running")]
               /\ ExecAt("running", Unanswered)
      <3>1. /\ ran'[k.message] = Run(k.session, "running")
            /\ \A m \in Messages \ {k.message} : ran'[m] = ran[m]
        BY <2>1, <2>5 DEF Base, TypeOK
      <3>2. exec'.at = "running" /\ exec'.command = k
        BY <2>5, PartsOfExec DEF ExecAt
      <3>3. exec' # NoExec
        BY <1>0, <2>1, <2>5, ExecFields, ExecIs, RepliesAre, LinkAssumption DEF ExecAt
      <3> HIDE DEF k
      <3>4. /\ \A m \in Messages : cache'[m] # NoEntry =>
                  /\ ran'[m] = Run(cache'[m].session, cache'[m].reply.outcome)
                  /\ cache'[m].reply.outcome \in {"ok", "failed"}
        BY <2>5, <3>1 DEF Handled
      <3>5. \A m \in Messages : ran'[m] # NotRun /\ cache'[m] = NoEntry => m = k.message
        BY <2>2, <2>5, <3>1
      <3> QED
        BY <1>1, <2>1, <2>5, <3>1, <3>2, <3>3, <3>4, <3>5 DEF Handled, Handling
    <2> QED
      BY <1>3, <2>1, <2>2, <2>3, <2>4, <2>5 DEF BeginCommand
  <1>4. CASE ~FinishCommand /\ ~BeginCommand
    <2>1. UNCHANGED <<cache, ran>>
      BY <1>4, RanSteps
    <2>2. CASE UNCHANGED exec
      BY <1>1, <2>1, <2>2 DEF Handled
    <2>3. CASE exec' = NoExec /\ exec # NoExec /\ exec.at = "writing"
      BY <2>1, <2>3 DEF Handled, Handling
    <2>4. CASE exec = NoExec /\ exec' # NoExec
      <3>1. exec'.at = "taken"
        BY <2>4, ExecSteps, PartsOfExec
      <3> QED
        BY <1>1, <2>1, <2>4, <3>1 DEF Handled, Handling
    <2>5. CASE exec # NoExec /\ exec' # NoExec /\ exec' # exec
      <3>1. CASE exec'.at \in Handling
        <4>1. exec.at \in Handling /\ exec'.command = exec.command
          BY <1>4, <2>5, <3>1, ExecSteps
        <4> QED
          BY <1>1, <2>1, <2>5, <3>1, <4>1 DEF Handled, Handling
      <3>2. CASE exec'.at \notin Handling
        <4>1. WriteReply
          BY <1>4, <2>5, <3>2, ExecSteps
        <4>2. exec.at = "writing" /\ exec'.at = "writing" /\ exec'.command = exec.command
              /\ exec'.reply = exec.reply
          BY <2>5, <4>1, PartsOfExec DEF WriteReply
        <4> QED
          BY <1>1, <2>1, <2>5, <4>2 DEF Handled, Handling
      <3> QED
        BY <3>1, <3>2
    <2> QED
      BY <2>2, <2>3, <2>4, <2>5, ExecSteps
  <1> QED
    BY <1>2, <1>3, <1>4

(* A call starts, ends, or stands.                                         *)
Starts(c, m) ==
    /\ Execute(c, m) /\ phase[c] = "idle"
    /\ phase' = [phase EXCEPT ![c] = "waiting"]
    /\ command' = [command EXCEPT ![c] = Command(m, directory, link)]
Ends(c) ==
    /\ phase[c] = "waiting" /\ command' = command
    /\ \/ TimeOut(c) /\ phase' = [phase EXCEPT ![c] = "timedout"]
       \/ LoseCall(c) /\ phase' = [phase EXCEPT ![c] = "lost"]
       \/ TakeResult(c) /\ mail[c] # NoMail /\ phase' = [phase EXCEPT ![c] = mail[c]]
Restarts ==
    /\ ServerRestart /\ command' = command
    /\ phase' = [c \in Calls |-> IF phase[c] = "waiting" THEN "lost" ELSE phase[c]]

LEMMA PhaseSteps ==
    ASSUME Next
    PROVE  \/ UNCHANGED <<phase, command>>
           \/ \E c \in Calls, m \in Messages : Starts(c, m)
           \/ \E c \in Calls : Ends(c)
           \/ Restarts
  <1>1. CASE Calling
    BY <1>1 DEF Calling, Waiting, Execute, TimeOut, LoseCall, TakeResult, RemoveCommand, ForgetExpired, Starts, Ends,
       callVars
  <1>2. CASE Closes
    BY <1>2 DEF Closes, ServerRestart, Restarts
  <1>3. CASE ~Calling /\ ~Closes
    BY <1>3, StepsAre DEF Connect, ClientLoses, ReadSnapshot, ReadResult, Accepts,
       AcceptResult, Hears, AcceptOutput, Skips, IgnoreOutput, ChangeOccupant, Resolves,
       ResolveNotice, SendSnapshot, ReadSnapshotResult, ReadExecute, Handles, BeginCommand, Respond,
       RespondMoved, ReportFails, FinishCommand, WriteReply, WriteFails, WriteNotice, callVars
  <1> QED
    BY <1>1, <1>2, <1>3

(* A call that has started keeps its command and never becomes idle.       *)
LEMMA CallsKept ==
    ASSUME Base, Next, NEW c \in Calls, phase[c] # "idle"
    PROVE  phase'[c] # "idle" /\ command'[c] = command[c]
  <1> USE DEF Base, TypeOK
  <1>1. ASSUME NEW d \in Calls, NEW m \in Messages, Starts(d, m)
        PROVE  phase'[c] # "idle" /\ command'[c] = command[c]
    BY <1>1 DEF Starts
  <1>2. ASSUME NEW d \in Calls, Ends(d)
        PROVE  phase'[c] # "idle" /\ command'[c] = command[c]
    <2>1. mail[d] # NoMail => mail[d] # "idle"
      BY DEF Outcomes
    <2> QED
      BY <1>2, <2>1 DEF Ends
  <1>3. CASE Restarts
    BY <1>3 DEF Restarts
  <1> QED
    BY <1>1, <1>2, <1>3, PhaseSteps

(* What came of a message stays so.                                        *)
LEMMA OutcomesKept ==
    ASSUME Base, Handled, Next, NEW m \in Messages, NEW t \in Sessions, NEW o \in {"ok", "failed"},
           ran[m] = Run(t, o)
    PROVE  ran'[m] = Run(t, o)
  <1>0. ran[m].outcome # "running" /\ ran[m] # NotRun
    BY Runs
  <1>1. CASE FinishCommand
    <2>1. ran[exec.command.message].outcome = "running" => exec.command.message # m
      BY <1>0
    <2> QED
      BY <1>1, <2>1 DEF FinishCommand, Base, TypeOK
  <1>2. CASE ran[exec.command.message] = NotRun
             /\ ran' = [ran EXCEPT ![exec.command.message] = Run(exec.command.session, "running")]
    BY <1>0, <1>2 DEF Base, TypeOK
  <1> QED
    BY <1>1, <1>2, RanSteps

LEMMA TruthKept ==
    ASSUME Base, Handled, AnswersTruthful, Next, NEW c \in Calls
    PROVE  /\ \A o \in Outcomes : Truthful(c, o) => Truthful(c, o)'
           /\ \A m, t : IsFor(c, m, t) => IsFor(c, m, t)'
  <1>1. ASSUME NEW o \in Outcomes, Truthful(c, o), o # "rejected"
        PROVE  ran'[command[c].message] = Run(command[c].session, o)
    <2>1. command[c] \in Commands
      BY <1>1 DEF Truthful, AnswersTruthful, Base, TypeOK
    <2> QED
      BY <1>1, <2>1, OutcomesKept DEF Truthful, Commands, Outcomes
  <1> QED
    BY <1>1, CallsKept DEF Truthful, IsFor

LEMMA TruthfulKept ==
    ASSUME Base, Handled, AnswersTruthful, Next
    PROVE  AnswersTruthful'
  <1>0. /\ TypeOK /\ link \in Nat
        /\ exec # NoExec => /\ exec \in ExecRecords /\ exec.call \in Calls
                            /\ exec.command.message \in Messages /\ exec.command.session \in Sessions
    BY ExecFields, LinkAssumption DEF Base, TypeOK, Links
  <1>1. \A c \in Calls : phase'[c] # "idle" => command'[c] # NoMessage /\ command'[c].link <= link'
    <2>1. link <= link' /\ link' \in Nat
      BY <1>0, LinkSteps
    <2>2. ASSUME NEW c \in Calls, phase[c] # "idle"
          PROVE  command'[c] # NoMessage /\ command'[c].link <= link'
      <3>1. command[c] # NoMessage /\ command[c].link <= link /\ command[c].link \in Nat
        BY <1>0, <2>2, LinkAssumption DEF AnswersTruthful, TypeOK, Commands, Links
      <3> QED
        BY <1>0, <2>1, <2>2, <3>1, CallsKept
    <2>3. ASSUME NEW c \in Calls, NEW m \in Messages, Starts(c, m)
          PROVE  command'[c] # NoMessage /\ command'[c].link <= link'
      <3>1. directory \in Sessions /\ link \in Links /\ link' = link
        BY <1>0, <2>3 DEF Starts, Execute, Base, EndsDown, TypeOK
      <3>2. Command(m, directory, link) \in Commands
        BY <3>1 DEF Command, Commands
      <3>3. command'[c] = Command(m, directory, link)
        BY <1>0, <2>3 DEF Starts, TypeOK
      <3> QED
        BY <1>0, <3>1, <3>2, <3>3, NothingAssumption, Runs
    <2>4. ASSUME NEW c \in Calls, phase[c] = "idle", phase'[c] # "idle"
          PROVE  \E m \in Messages : Starts(c, m)
      BY <1>0, <2>4, PhaseSteps DEF Starts, Ends, Restarts, TypeOK
    <2> QED
      BY <2>2, <2>3, <2>4
  <1>2. \A m \in Queued(toClient)' : m.type = "execute" => IsFor(m.call, m.message, m.session)'
    <2>1. ASSUME NEW m \in Queued(toClient), m.type = "execute"
          PROVE  IsFor(m.call, m.message, m.session)'
      <3>1. m.call \in Calls
        BY <1>0, <2>1, QueuedMoves, ServerMessageFields
      <3> QED
        BY <2>1, <3>1, TruthKept DEF AnswersTruthful
    <2>2. ASSUME NEW c \in Calls, NEW k \in Messages, Execute(c, k), NEW m, m = ExecuteMsg(c, k, directory)
          PROVE  IsFor(m.call, m.message, m.session)'
      <3>1. phase'[c] = "waiting" /\ command'[c] = Command(k, directory, link)
        BY <1>0, <2>2 DEF Execute, TypeOK
      <3> QED
        BY <2>2, <3>1, Runs, PartsOfMessages DEF IsFor
    <2> QED
      BY <2>1, <2>2, ClientQueued
  <1>3. exec' # NoExec => IsFor(exec.call, exec.command.message, exec.command.session)'
    <2>1. CASE exec # NoExec /\ exec' # NoExec
      <3>1. exec'.call = exec.call /\ exec'.command = exec.command
        BY <2>1, ExecSteps
      <3>2. IsFor(exec.call, exec.command.message, exec.command.session)
        BY <2>1 DEF AnswersTruthful
      <3> QED
        BY <1>0, <2>1, <3>1, <3>2, CallsKept DEF IsFor
    <2>2. CASE exec = NoExec /\ exec' # NoExec
      <3> DEFINE m == Head(toClient)
      <3>1. ReadExecute /\ exec' = Exec("taken", m.call, Command(m.message, m.session, link), 0, Rejected, 0)
        BY <2>2, ExecSteps
      <3>2. m \in Queued(toClient) /\ m \in ServerMessages /\ m.type = "execute"
        BY <1>0, <3>1, QueuedMoves DEF ReadExecute, Delivered
      <3>3. IsFor(m.call, m.message, m.session) /\ m.call \in Calls
        BY <3>2, ServerMessageFields DEF AnswersTruthful
      <3>4. exec'.call = m.call /\ exec'.command.message = m.message /\ exec'.command.session = m.session
        BY <3>1, PartsOfExec, Runs
      <3> QED
        BY <3>3, <3>4, CallsKept DEF IsFor
    <2> QED
      BY <2>1, <2>2
  <1>4. \A m \in Queued(toServer)' : m.type = "result" => Truthful(m.call, m.outcome)'
    <2>1. ASSUME NEW m \in Queued(toServer), m.type = "result"
          PROVE  Truthful(m.call, m.outcome)'
      <3>1. m.call \in Calls /\ m.outcome \in Outcomes
        BY <1>0, <2>1, QueuedMoves, PalMessageFields
      <3> QED
        BY <2>1, <3>1, TruthKept DEF AnswersTruthful
    <2>2. ASSUME WriteReply, NEW m, m = Envelope(exec.sent), m.type = "result"
          PROVE  Truthful(m.call, m.outcome)'
      <3>1. exec # NoExec /\ exec.at = "writing"
        BY <2>2 DEF WriteReply
      <3>2. m.call = exec.call /\ m.outcome = exec.reply.outcome
        BY <2>2, <3>1, EnvelopeIs, PartsOfMessages DEF Base
      <3>3. Truthful(m.call, m.outcome)
        BY <3>1, <3>2 DEF AnswersTruthful, IsFor, Truthful, Handled
      <3> QED
        BY <1>0, <3>1, <3>2, <3>3, ExecFields, TruthKept
    <2>3. ASSUME ReadExecute, NEW m, m = ResultMsg(Head(toClient).call, "rejected", NoSession)
          PROVE  Truthful(m.call, m.outcome)'
      <3>1. PICK h \in ServerMessages : h = Head(toClient) /\ h.type = "execute" /\ h \in Queued(toClient)
        BY <1>0, <2>3, QueuedMoves DEF ReadExecute, Delivered
      <3>2. m.call = h.call /\ m.outcome = "rejected" /\ h.call \in Calls
        BY <2>3, <3>1, ServerMessageFields, PartsOfMessages
      <3>3. phase[m.call] # "idle"
        BY <3>1, <3>2 DEF AnswersTruthful, IsFor
      <3> QED
        BY <3>2, <3>3, CallsKept DEF Truthful
    <2> QED
      BY <2>1, <2>2, <2>3, ServerQueued
  <1>5. reader' # NoMessage => Truthful(reader.call, reader.outcome)'
    <2>1. CASE ReadResult /\ reader' # NoMessage
      <3>1. /\ Received.type = "result" /\ reader' = Received
            /\ Received \in Queued(toServer) /\ Received \in PalMessages
        BY <1>0, <2>1, QueuedMoves DEF ReadResult, Arrived, Received
      <3>2. PICK m \in PalMessages : m = Received /\ m \in Queued(toServer)
        BY <3>1
      <3>3. Truthful(m.call, m.outcome) /\ m.call \in Calls /\ m.outcome \in Outcomes
        BY <3>1, <3>2, PalMessageFields DEF AnswersTruthful
      <3>4. Truthful(m.call, m.outcome)'
        BY <3>3, TruthKept
      <3> QED
        BY <3>1, <3>2, <3>4
    <2>2. CASE ~ReadResult
      <3>1. reader' \in {reader, NoMessage}
        BY <2>2, StepsAre DEF Connect, ClientLoses, Closes, CloseServer, Calling, Waiting, Execute, TimeOut,
           LoseCall, TakeResult, RemoveCommand, ForgetExpired, ReadSnapshot, Accepts,
           AcceptResult, Hears, AcceptOutput, Skips, IgnoreOutput, ChangeOccupant, Resolves,
           ResolveNotice, SendSnapshot, ReadSnapshotResult, ReadExecute, Handles, BeginCommand,
           Respond, RespondMoved, ReportFails, FinishCommand, WriteReply, WriteFails, WriteNotice,
           serverVars
      <3>2. reader # NoMessage => reader \in ResultMessages
        BY <1>0 DEF TypeOK
      <3>3. ASSUME reader # NoMessage, reader' = reader
            PROVE  Truthful(reader.call, reader.outcome)'
        <4>1. PICK m \in ResultMessages : m = reader
          BY <3>2, <3>3
        <4>2. Truthful(m.call, m.outcome) /\ m.call \in Calls /\ m.outcome \in Outcomes
          BY <3>3, <4>1 DEF AnswersTruthful, ResultMessages
        <4>3. Truthful(m.call, m.outcome)'
          BY <4>2, TruthKept
        <4> QED
          BY <3>3, <4>1, <4>3
      <3> QED
        BY <3>1, <3>3
    <2> QED
      BY <2>1, <2>2
  <1>6. \A c \in Calls : mail'[c] # NoMail => Truthful(c, mail[c])'
    <2>0. ASSUME NEW c \in Calls, mail[c] # NoMail, mail'[c] = mail[c]
          PROVE  Truthful(c, mail[c])'
      <3>1. PICK o \in Outcomes : o = mail[c]
        BY <1>0, <2>0 DEF TypeOK
      <3>2. Truthful(c, o)'
        BY <2>0, <3>1, TruthKept DEF AnswersTruthful
      <3> QED
        BY <2>0, <3>1, <3>2
    <2>1. CASE Accepts
      <3>1. reader \in ResultMessages /\ Truthful(reader.call, reader.outcome)
        BY <1>0, <2>1 DEF Accepts, AnswersTruthful, TypeOK
      <3>2. PICK d \in Calls, o \in Outcomes : d = reader.call /\ o = reader.outcome
        BY <3>1 DEF ResultMessages
      <3>3. Truthful(d, o)'
        BY <3>1, <3>2, TruthKept
      <3>4. mail' = mail \/ mail' = [mail EXCEPT ![d] = o]
        BY <2>1, <3>2 DEF Accepts, AcceptResult
      <3>5. \A c \in Calls : mail'[c] = mail[c] \/ (c = d /\ mail'[c] = o)
        BY <1>0, <3>4 DEF TypeOK
      <3> QED
        BY <2>0, <3>3, <3>5
    <2>2. ASSUME NEW d \in Calls, TakeResult(d)
          PROVE  \A c \in Calls : mail'[c] # NoMail => Truthful(c, mail[c])'
      <3>1. \A c \in Calls : mail'[c] = mail[c] \/ mail'[c] = NoMail
        BY <1>0, <2>2 DEF TakeResult, TypeOK
      <3> QED
        BY <2>0, <3>1
    <2>3. CASE ~Accepts /\ ~(\E d \in Calls : TakeResult(d))
      <3>1. mail' = mail
        BY <2>3, StepsAre DEF Connect, ClientLoses, Closes, CloseServer, Calling, Waiting, Execute, TimeOut,
           LoseCall, RemoveCommand, ForgetExpired, ReadSnapshot, ReadResult,
           Hears, AcceptOutput, Skips, IgnoreOutput, ChangeOccupant, Resolves,
           ResolveNotice, SendSnapshot, ReadSnapshotResult, ReadExecute, Handles, BeginCommand,
           Respond, RespondMoved, ReportFails, FinishCommand, WriteReply, WriteFails, WriteNotice, tables
      <3> QED
        BY <2>0, <3>1
    <2> QED
      BY <2>1, <2>2, <2>3
  <1> QED
    BY <1>1, <1>2, <1>3, <1>4, <1>5, <1>6 DEF AnswersTruthful

----------------------------------------------------------------------------
(* What the exchange promises of handlings, through all links.             *)
OnceInv == Base /\ Handled /\ AnswersTruthful

LEMMA OnceStart == Init => OnceInv
  <1> SUFFICES ASSUME Init PROVE OnceInv
    OBVIOUS
  <1>1. Handled
    BY DEF Init, Handled
  <1>2. Queued(toServer) = {} /\ Queued(toClient) = {}
    BY NoPlaces DEF Init, Queued
  <1>3. AnswersTruthful
    BY <1>2 DEF Init, AnswersTruthful
  <1> QED
    BY <1>1, <1>3, BaseStart DEF OnceInv

LEMMA OnceKept ==
    ASSUME OnceInv, [Next]_vars
    PROVE  OnceInv'
  <1>1. CASE Next
    BY <1>1, BaseKept, HandledKept, TruthfulKept DEF OnceInv
  <1>2. CASE UNCHANGED vars
    <2>1. Handled'
      BY <1>2, SameVars DEF OnceInv, Handled
    <2>2. AnswersTruthful'
      BY <1>2, SameVars DEF OnceInv, AnswersTruthful, Queued, Places, IsFor, Truthful
    <2> QED
      BY <1>2, <2>1, <2>2, BaseKept DEF OnceInv
  <1> QED
    BY <1>1, <1>2

(* What a call has been told, as RelayOnce sees it.                        *)
Told ==
    [c \in Calls |->
        IF phase[c] \in {"ok", "failed"}
        THEN [message |-> command[c].message, target |-> command[c].session, outcome |-> phase[c]]
        ELSE NoAnswer]

LEMMA ToldSteps ==
    ASSUME OnceInv, Next
    PROVE  \/ Told' = Told
           \/ \E c \in Calls, o \in {"ok", "failed"} :
                 /\ TakeResult(c) /\ Told[c] = NoAnswer
                 /\ ran[command[c].message] = Run(command[c].session, o)
                 /\ command[c] \in Commands
                 /\ Told' = [Told EXCEPT ![c] = [message |-> command[c].message,
                                                 target |-> command[c].session, outcome |-> o]]
  <1> USE DEF OnceInv, Base
  <1>1. ASSUME NEW c \in Calls, NEW m \in Messages, Starts(c, m)
        PROVE  Told' = Told
    <2>1. /\ phase'[c] = "waiting" /\ phase[c] = "idle"
          /\ \A d \in Calls \ {c} : phase'[d] = phase[d] /\ command'[d] = command[d]
      BY <1>1 DEF Starts, TypeOK
    <2> QED
      BY <2>1 DEF Told
  <1>2. ASSUME NEW c \in Calls, Ends(c), phase'[c] \notin {"ok", "failed"}
        PROVE  Told' = Told
    <2>1. phase[c] = "waiting" /\ command' = command /\ \A d \in Calls \ {c} : phase'[d] = phase[d]
      BY <1>2 DEF Ends, TypeOK
    <2> QED
      BY <1>2, <2>1 DEF Told
  <1>3. ASSUME NEW c \in Calls, Ends(c), phase'[c] \in {"ok", "failed"}
        PROVE  \E o \in {"ok", "failed"} :
                 /\ TakeResult(c) /\ Told[c] = NoAnswer
                 /\ ran[command[c].message] = Run(command[c].session, o)
                 /\ command[c] \in Commands
                 /\ Told' = [Told EXCEPT ![c] = [message |-> command[c].message,
                                                 target |-> command[c].session, outcome |-> o]]
    <2>1. /\ phase[c] = "waiting" /\ command' = command /\ TakeResult(c) /\ mail[c] # NoMail
          /\ phase' = [phase EXCEPT ![c] = mail[c]] /\ mail[c] \in {"ok", "failed"}
      BY <1>3 DEF Ends, TypeOK
    <2>2. ran[command[c].message] = Run(command[c].session, mail[c]) /\ command[c] \in Commands
      BY <2>1 DEF AnswersTruthful, Truthful, TypeOK
    <2>3. Told[c] = NoAnswer
      BY <2>1 DEF Told
    <2>4. Told' = [Told EXCEPT ![c] = [message |-> command[c].message,
                                        target |-> command[c].session, outcome |-> mail[c]]]
      BY <2>1 DEF Told, TypeOK
    <2> QED
      BY <2>1, <2>2, <2>3, <2>4
  <1>4. CASE Restarts
    BY <1>4 DEF Restarts, Told
  <1>5. CASE UNCHANGED <<phase, command>>
    BY <1>5 DEF Told
  <1> QED
    BY <1>1, <1>2, <1>3, <1>4, <1>5, PhaseSteps

LEMMA OnceSteps ==
    ASSUME OnceInv, [Next]_vars
    PROVE  [Once!Next]_Once!vars
  <1> USE DEF OnceInv, Base
  <1>1. CASE UNCHANGED vars
    BY <1>1, SameVars DEF Once!vars
  <1>2. ASSUME Next, NEW c \in Calls, NEW o \in {"ok", "failed"},
               TakeResult(c), Told[c] = NoAnswer,
               ran[command[c].message] = Run(command[c].session, o), command[c] \in Commands,
               Told' = [Told EXCEPT ![c] = [message |-> command[c].message,
                                            target |-> command[c].session, outcome |-> o]]
        PROVE  Once!Tell(c, command[c].message, command[c].session, o)
    <2>1. ran' = ran
      BY <1>2 DEF TakeResult, clientVars, execVars
    <2> QED
      BY <1>2, <2>1 DEF Once!Tell, Once!Run, Once!Answer, Run, Told
  <1>3. CASE Next /\ Told' = Told /\ ran' = ran
    BY <1>3 DEF Once!vars, Told
  <1>4. CASE Next /\ ran' # ran
    <2>1. Told' = Told
      <3>1. BeginCommand \/ FinishCommand
        BY <1>4, RanSteps
      <3> QED
        BY <3>1 DEF BeginCommand, FinishCommand, callVars, Told
    <2>2. exec # NoExec /\ exec.command.message \in Messages /\ exec.command.session \in Sessions
      BY <1>4, RanSteps, ExecFields DEF BeginCommand, FinishCommand, TypeOK
    <2>3. CASE BeginCommand
      <3>1. Once!Start(exec.command.message, exec.command.session)
        BY <1>4, <2>1, <2>3, <2>2, RanSteps DEF Once!Start, Once!Run, Run, Told, BeginCommand
      <3> QED
        BY <2>2, <3>1 DEF Once!Next
    <2>4. CASE FinishCommand
      <3>1. exec.at = "finishing" /\ exec.at \in Handling
        BY <2>4 DEF FinishCommand, Handling
      <3>2. ran[exec.command.message] = Run(exec.command.session, "running")
            /\ exec.reply.outcome \in {"ok", "failed"}
        BY <2>2, <3>1 DEF Handled, RepliesProper
      <3>3. ran' = [ran EXCEPT ![exec.command.message] = Run(exec.command.session, exec.reply.outcome)]
        BY <2>4, <3>2, Runs DEF FinishCommand
      <3>4. Once!Finish(exec.command.message, exec.reply.outcome)
        BY <2>1, <2>2, <3>2, <3>3 DEF Once!Finish, Once!Run, Run, Told
      <3> QED
        BY <2>2, <3>2, <3>4 DEF Once!Next
    <2> QED
      BY <1>4, <2>3, <2>4, RanSteps
  <1>5. ASSUME Next, NEW c \in Calls, NEW o \in {"ok", "failed"},
               command[c] \in Commands, Once!Tell(c, command[c].message, command[c].session, o)
        PROVE  Once!Next
    <2>1. command[c].message \in Messages /\ command[c].session \in Sessions
      BY <1>5 DEF Commands
    <2> QED
      BY <1>5, <2>1 DEF Once!Next
  <1> QED
    BY <1>1, <1>2, <1>3, <1>4, <1>5, ToldSteps

(* Through lost links, timeouts, late answers, restarts of the server and  *)
(* messages delivered again, a message is handled at most once, and a call *)
(* told OK or failed is told the outcome of that handling for its target.  *)
THEOREM HandledOnceForAll == Spec => ImplementsOnce
  <1>1. Init => OnceInv /\ Once!Init
    BY OnceStart DEF Init, Once!Init
  <1>2. OnceInv /\ [Next]_vars => OnceInv' /\ [Once!Next]_Once!vars
    BY OnceKept, OnceSteps
  <1> QED
    BY <1>1, <1>2, PTL DEF Spec, ImplementsOnce, Once!Spec

----------------------------------------------------------------------------
(* The tables.                                                             *)

LEMMA RoutesAre ==
    ASSUME TypeOK
    PROVE  /\ \A t \in Sessions, n \in 1..(MaxOutputs + 1), last \in BOOLEAN : Route(t, n, last) \in RouteTable
           /\ \A t, n, last : /\ Route(t, n, last).session = t /\ Route(t, n, last).next = n
                              /\ Route(t, n, last).completed = last
           /\ NoRoute \notin RouteTable /\ 1 \in 1..(MaxOutputs + 1)
           /\ \A c \in Calls : routes[c] # NoRoute =>
                 /\ routes[c].session \in Sessions /\ routes[c].next \in 1..(MaxOutputs + 1)
                 /\ routes[c].next \in Nat /\ routes[c].completed \in BOOLEAN
  BY LinkAssumption, NothingAssumption DEF Route, RouteTable, TypeOK

(* A result taken keeps the route of its call, but for the session.        *)
LEMMA AcceptsAre ==
    ASSUME Base, Accepts
    PROVE  /\ reader \in ResultMessages /\ reader.call \in Calls /\ reader.outcome \in Outcomes
           /\ reader.outcome # NoMail
           /\ \A c \in Calls \ {reader.call} : routes'[c] = routes[c] /\ mail'[c] = mail[c]
           /\ routes'[reader.call] =
                 IF reader.replacement = NoSession THEN routes[reader.call]
                 ELSE Route(reader.replacement, routes[reader.call].next, routes[reader.call].completed)
           /\ reader.replacement # NoSession =>
                 routes[reader.call] # NoRoute /\ routes'[reader.call] # NoRoute
           /\ reader.outcome = "ok" => routes[reader.call] # NoRoute
           /\ mail'[reader.call] = IF reader.call \in pending THEN reader.outcome ELSE mail[reader.call]
           /\ pending' = pending \ {reader.call} /\ reader' = NoMessage
           /\ UNCHANGED <<net, phase, command, expired, withdrawing, exec>>
  <1>1. reader \in ResultMessages /\ reader.call \in Calls /\ reader.outcome \in Outcomes
        /\ reader.replacement \in Sessions \cup {NoSession}
    BY DEF Accepts, Base, TypeOK, ResultMessages
  <1>2. reader.outcome = "ok" => routes[reader.call] # NoRoute
    BY DEF Accepts, ResultFault
  <1>3. reader.replacement # NoSession => reader.outcome = "ok"
    BY DEF Accepts, Base, RepliesProper, Binds
  <1>4. /\ routes' = IF reader.replacement = NoSession THEN routes
                     ELSE [routes EXCEPT ![reader.call] =
                              Route(reader.replacement, routes[reader.call].next,
                                    routes[reader.call].completed)]
        /\ mail' = IF reader.call \in pending THEN [mail EXCEPT ![reader.call] = reader.outcome] ELSE mail
        /\ pending' = pending \ {reader.call} /\ reader' = NoMessage
        /\ UNCHANGED <<net, phase, command, expired, withdrawing, exec>>
    BY DEF Accepts, AcceptResult, callVars, clientVars, execVars
  <1>5. reader.replacement # NoSession =>
           Route(reader.replacement, routes[reader.call].next, routes[reader.call].completed) # NoRoute
    BY <1>1, <1>2, <1>3, RoutesAre DEF Base
  <1> QED
    BY <1>1, <1>2, <1>3, <1>4, <1>5, NothingAssumption DEF Base, TypeOK

LEMMA HearsAre ==
    ASSUME Base, Hears
    PROVE  /\ toServer # <<>> /\ Received.call \in Calls /\ Received.type = "output" /\ reader = NoMessage
           /\ serverState # "down" /\ Received.call \notin expired /\ Consume
           /\ routes[Received.call] # NoRoute
           /\ routes[Received.call].session = Received.session
           /\ routes[Received.call].next = Received.sequence
           /\ routes[Received.call].completed = FALSE
           /\ Received.sequence \in Nat
           /\ \A c \in Calls \ {Received.call} : routes'[c] = routes[c]
           /\ routes'[Received.call] = Route(Received.session, Received.sequence + 1, Received.final)
           /\ routes'[Received.call] # NoRoute
           /\ UNCHANGED <<link, toClient, serverState, clientState, pending, expired, mail, withdrawing,
                          phase, command, reader, exec>>
  <1>1. toServer # <<>> /\ Received.type = "output" /\ reader = NoMessage /\ serverState # "down"
    BY DEF Hears, Arrived, Received
  <1>2. Received.call \in Calls /\ Received.session \in Sessions /\ Received.sequence \in 1..MaxOutputs
        /\ Received.final \in BOOLEAN
    BY <1>1, SendingTypes, PalMessageFields DEF Base
  <1>3. OutputFault(Received) = "none" /\ Received.call \notin expired /\ AcceptOutput(Received)
    BY DEF Hears
  <1>4. routes[Received.call] # NoRoute /\ routes[Received.call].session = Received.session
        /\ routes[Received.call].completed # TRUE
        /\ ~(Received.sequence < routes[Received.call].next)
        /\ ~(Received.sequence > routes[Received.call].next)
    BY <1>3 DEF OutputFault
  <1>5. routes[Received.call].next = Received.sequence /\ Received.sequence \in Nat
        /\ Received.sequence + 1 \in 1..(MaxOutputs + 1) /\ routes[Received.call].completed = FALSE
    <2>1. routes[Received.call].next \in Nat /\ routes[Received.call].completed \in BOOLEAN
      BY <1>2, <1>4, RoutesAre DEF Base
    <2>2. MaxOutputs \in Nat
      BY LinkAssumption
    <2>3. routes[Received.call].completed = FALSE
      BY <1>4, <2>1
    <2>4. Received.sequence \in Nat /\ Received.sequence + 1 \in 1..(MaxOutputs + 1)
      BY <1>2, <2>2
    <2>5. \A x, y \in Nat : ~(x < y) /\ ~(x > y) => y = x
      OBVIOUS
    <2>6. routes[Received.call].next = Received.sequence
      BY <1>4, <2>1, <2>4, <2>5
    <2> QED
      BY <2>3, <2>4, <2>6
  <1>6. Route(Received.session, Received.sequence + 1, Received.final) # NoRoute
    BY <1>2, <1>5, RoutesAre DEF Base
  <1> QED
    BY <1>1, <1>2, <1>3, <1>4, <1>5, <1>6
       DEF AcceptOutput, Base, TypeOK, callVars, serverVars, clientVars, execVars

(* The steps that leave the calls and the tables alone.                    *)
LEMMA TablesAlone ==
    ASSUME Next, ~Connect, ~Closes, ~Calling, ~Accepts, ~Hears
    PROVE  /\ UNCHANGED <<link, pending, expired, routes, mail, withdrawing, phase, command>>
           /\ serverState' = "down" <=> serverState = "down"
  BY StepsAre DEF ClientLoses, ReadSnapshot, Arrived, ReadResult,
     Skips, IgnoreOutput, ChangeOccupant, Resolves,
     ResolveNotice, SendSnapshot, ReadSnapshotResult, ReadExecute, Handles, BeginCommand, Respond,
     RespondMoved, ReportFails, FinishCommand, WriteReply, WriteFails, WriteNotice, net, tables, callVars

LEMMA TablesKept ==
    ASSUME OnceInv, TablesInv, Next
    PROVE  TablesInv'
  <1> USE DEF OnceInv, Base
  <1>1. CASE Connect
    <2>1. serverState = "down" /\ link' = link + 1 /\ UNCHANGED <<tables, phase, command>>
      BY <1>1 DEF Connect, callVars
    <2>2. \A c \in Calls : ~Here(c)'
      <3>1. ASSUME NEW c \in Calls, phase[c] # "idle"
            PROVE  command[c].link # link + 1
        <4>1. command[c] \in Commands /\ command[c].link <= link /\ link \in Nat
          BY <3>1, LinkAssumption DEF AnswersTruthful, TypeOK, Links
        <4>2. command[c].link \in Nat
          BY <4>1, LinkAssumption DEF Commands, Links
        <4> QED
          BY <4>1, <4>2
      <3> QED
        BY <2>1, <3>1 DEF Here
    <2>3. pending = {} /\ expired = {} /\ \A c \in Calls : routes[c] = NoRoute
      <3>1. \A c \in Calls : ~Here(c)
        BY <2>1 DEF Here
      <3> QED
        BY <3>1 DEF TablesInv, TypeOK
    <2> QED
      BY <2>1, <2>2, <2>3 DEF TablesInv, RoutesFollowRequests, tables
  <1>2. CASE Closes
    <2>1. /\ serverState' = "down" /\ pending' = {} /\ expired' = {} /\ UNCHANGED <<mail, command>>
          /\ \A c \in Calls : routes'[c] = NoRoute
      BY <1>2 DEF Closes, CloseServer
    <2>2. \A c \in Calls : ~Here(c)'
      BY <2>1 DEF Here
    <2>3. CASE UNCHANGED <<phase, withdrawing>>
      BY <2>1, <2>2, <2>3 DEF TablesInv, RoutesFollowRequests
    <2>4. CASE ServerRestart
      <3>1. withdrawing' = {} /\ \A c \in Calls :
               phase'[c] = IF phase[c] = "waiting" THEN "lost" ELSE phase[c]
        BY <2>4 DEF ServerRestart
      <3> QED
        BY <2>1, <2>2, <3>1 DEF TablesInv, RoutesFollowRequests
    <2> QED
      BY <1>2, <2>3, <2>4 DEF Closes
  <1>3. ASSUME NEW c \in Calls, NEW m \in Messages, Execute(c, m)
        PROVE  TablesInv'
    <2>1. /\ phase[c] = "idle" /\ serverState # "down"
          /\ phase'[c] = "waiting" /\ command'[c] = Command(m, directory, link)
          /\ routes'[c] = Route(directory, 1, FALSE)
          /\ \A d \in Calls \ {c} : phase'[d] = phase[d] /\ command'[d] = command[d] /\ routes'[d] = routes[d]
          /\ pending' = pending \cup {c}
          /\ UNCHANGED <<link, serverState, expired, mail, withdrawing>>
      BY <1>3 DEF Execute, TypeOK
    <2>2. directory \in Sessions
      BY <1>3 DEF Execute, EndsDown
    <2>3. routes'[c] # NoRoute
      <3>1. Route(directory, 1, FALSE) \in RouteTable
        BY <2>2, LinkAssumption DEF Route, RouteTable
      <3> QED
        BY <2>1, <3>1, NothingAssumption
    <2>4. Here(c)' /\ ~Here(c) /\ \A d \in Calls \ {c} : Here(d)' <=> Here(d)
      BY <2>1, Runs DEF Here
    <2>5. mail[c] = NoMail /\ c \notin withdrawing /\ c \notin expired /\ c \notin pending
      BY <2>1, <2>4 DEF TablesInv, RoutesFollowRequests
    <2>6. RoutesFollowRequests'
      <3>1. pending \subseteq Calls /\ expired \subseteq Calls /\ RoutesFollowRequests
        BY DEF TablesInv, TypeOK
      <3>2. \A d \in pending' : phase'[d] = "waiting" /\ routes'[d] # NoRoute /\ mail'[d] = NoMail
        BY <2>1, <2>3, <2>5, <3>1 DEF RoutesFollowRequests
      <3>3. \A d \in expired' : phase'[d] = "timedout"
        BY <2>1, <2>5, <3>1 DEF RoutesFollowRequests
      <3>4. \A d \in Calls : routes'[d] # NoRoute => phase'[d] \in {"waiting", "ok"} \/ d \in withdrawing'
        BY <2>1, <3>1 DEF RoutesFollowRequests
      <3> QED
        BY <3>2, <3>3, <3>4 DEF RoutesFollowRequests
    <2>7. /\ \A d \in Calls : routes'[d] # NoRoute => Here(d)'
          /\ \A d \in Calls : phase'[d] \in {"waiting", "ok"} /\ Here(d)' => routes'[d] # NoRoute
          /\ \A d \in Calls : phase'[d] = "lost" => ~Here(d)'
      BY <2>1, <2>3, <2>4 DEF TablesInv
    <2>8. /\ \A d \in pending' \cup expired' : Here(d)'
          /\ \A d \in withdrawing' : phase'[d] \in {"timedout", "failed", "rejected"}
          /\ \A d \in Calls : mail'[d] # NoMail => phase'[d] \in {"waiting", "timedout", "lost"}
          /\ \A d \in Calls : phase'[d] = "waiting" /\ Here(d)' /\ mail'[d] = NoMail => d \in pending'
      BY <2>1, <2>4, <2>5 DEF TablesInv, TypeOK
    <2> QED
      BY <2>6, <2>7, <2>8 DEF TablesInv
  <1>4. ASSUME NEW c \in Calls, TimeOut(c)
        PROVE  TablesInv'
    <2>1. /\ phase[c] = "waiting" /\ phase'[c] = "timedout"
          /\ \A d \in Calls \ {c} : phase'[d] = phase[d]
          /\ pending' = pending \ {c} /\ expired' = expired \cup (pending \cap {c})
          /\ withdrawing' = withdrawing \cup {c}
          /\ UNCHANGED <<link, serverState, routes, mail, command>>
      BY <1>4 DEF TimeOut, TypeOK, net
    <2>2. \A d \in Calls : Here(d)' <=> Here(d)
      BY <2>1 DEF Here
    <2>3. RoutesFollowRequests'
      BY <2>1 DEF TablesInv, RoutesFollowRequests, TypeOK
    <2>4. /\ \A d \in Calls : routes'[d] # NoRoute => Here(d)'
          /\ \A d \in pending' \cup expired' : Here(d)'
          /\ \A d \in Calls : phase'[d] \in {"waiting", "ok"} /\ Here(d)' => routes'[d] # NoRoute
          /\ \A d \in Calls : phase'[d] = "lost" => ~Here(d)'
      BY <2>1, <2>2 DEF TablesInv, TypeOK
    <2>5. /\ \A d \in withdrawing' : phase'[d] \in {"timedout", "failed", "rejected"}
          /\ \A d \in Calls : mail'[d] # NoMail => phase'[d] \in {"waiting", "timedout", "lost"}
          /\ \A d \in Calls : phase'[d] = "waiting" /\ Here(d)' /\ mail'[d] = NoMail => d \in pending'
      BY <2>1, <2>2 DEF TablesInv, TypeOK
    <2> QED
      BY <2>3, <2>4, <2>5 DEF TablesInv
  <1>5. ASSUME NEW c \in Calls, LoseCall(c)
        PROVE  TablesInv'
    <2>1. /\ phase[c] = "waiting" /\ phase'[c] = "lost"
          /\ \A d \in Calls \ {c} : phase'[d] = phase[d]
          /\ UNCHANGED <<link, serverState, routes, mail, command, pending, expired, withdrawing>>
          /\ ~Here(c)
      BY <1>5 DEF LoseCall, TypeOK, net, tables, Here
    <2>2. \A d \in Calls : Here(d)' <=> Here(d)
      BY <2>1 DEF Here
    <2>3. RoutesFollowRequests'
      BY <2>1 DEF TablesInv, RoutesFollowRequests, TypeOK
    <2>4. /\ \A d \in Calls : routes'[d] # NoRoute => Here(d)'
          /\ \A d \in pending' \cup expired' : Here(d)'
          /\ \A d \in Calls : phase'[d] \in {"waiting", "ok"} /\ Here(d)' => routes'[d] # NoRoute
          /\ \A d \in Calls : phase'[d] = "lost" => ~Here(d)'
      BY <2>1, <2>2 DEF TablesInv, TypeOK
    <2>5. /\ \A d \in withdrawing' : phase'[d] \in {"timedout", "failed", "rejected"}
          /\ \A d \in Calls : mail'[d] # NoMail => phase'[d] \in {"waiting", "timedout", "lost"}
          /\ \A d \in Calls : phase'[d] = "waiting" /\ Here(d)' /\ mail'[d] = NoMail => d \in pending'
      BY <2>1, <2>2 DEF TablesInv, TypeOK
    <2> QED
      BY <2>3, <2>4, <2>5 DEF TablesInv
  <1>6. ASSUME NEW c \in Calls, TakeResult(c)
        PROVE  TablesInv'
    <2>1. /\ phase[c] = "waiting" /\ phase'[c] = mail[c] /\ mail[c] # NoMail /\ mail'[c] = NoMail
          /\ mail[c] \in {"ok", "failed", "rejected"}
          /\ \A d \in Calls \ {c} : phase'[d] = phase[d] /\ mail'[d] = mail[d]
          /\ withdrawing' = IF mail[c] = "ok" THEN withdrawing ELSE withdrawing \cup {c}
          /\ UNCHANGED <<link, serverState, routes, command, pending, expired>>
      BY <1>6 DEF TakeResult, TypeOK, net, Outcomes
    <2>2. \A d \in Calls : Here(d)' <=> Here(d)
      BY <2>1 DEF Here
    <2>3. c \notin pending /\ c \notin expired
      BY <2>1 DEF TablesInv, RoutesFollowRequests
    <2>4. RoutesFollowRequests'
      BY <2>1, <2>3 DEF TablesInv, RoutesFollowRequests, TypeOK
    <2>5. /\ \A d \in Calls : routes'[d] # NoRoute => Here(d)'
          /\ \A d \in pending' \cup expired' : Here(d)'
          /\ \A d \in Calls : phase'[d] \in {"waiting", "ok"} /\ Here(d)' => routes'[d] # NoRoute
          /\ \A d \in Calls : phase'[d] = "lost" => ~Here(d)'
      BY <2>1, <2>2, <2>3 DEF TablesInv, TypeOK
    <2>6. /\ \A d \in withdrawing' : phase'[d] \in {"timedout", "failed", "rejected"}
          /\ \A d \in Calls : mail'[d] # NoMail => phase'[d] \in {"waiting", "timedout", "lost"}
          /\ \A d \in Calls : phase'[d] = "waiting" /\ Here(d)' /\ mail'[d] = NoMail => d \in pending'
      BY <2>1, <2>2, <2>3 DEF TablesInv, TypeOK
    <2> QED
      BY <2>4, <2>5, <2>6 DEF TablesInv
  <1>7. ASSUME NEW c \in Calls, RemoveCommand(c)
        PROVE  TablesInv'
    <2>1. /\ c \in withdrawing /\ withdrawing' = withdrawing \ {c} /\ routes'[c] = NoRoute
          /\ \A d \in Calls \ {c} : routes'[d] = routes[d]
          /\ UNCHANGED <<link, serverState, mail, phase, command, pending, expired>>
      BY <1>7 DEF RemoveCommand, TypeOK, net, callVars
    <2>2. \A d \in Calls : Here(d)' <=> Here(d)
      BY <2>1 DEF Here
    <2>3. phase[c] \in {"timedout", "failed", "rejected"}
      BY <2>1 DEF TablesInv
    <2> QED
      BY <2>1, <2>2, <2>3 DEF TablesInv, RoutesFollowRequests, TypeOK
  <1>8. ASSUME NEW c \in Calls, ForgetExpired(c)
        PROVE  TablesInv'
    <2>1. /\ expired' = expired \ {c}
          /\ UNCHANGED <<link, serverState, mail, phase, command, pending, routes, withdrawing>>
      BY <1>8 DEF ForgetExpired, net, callVars
    <2>2. \A d \in Calls : Here(d)' <=> Here(d)
      BY <2>1 DEF Here
    <2> QED
      BY <2>1, <2>2 DEF TablesInv, RoutesFollowRequests, TypeOK
  <1>9. CASE Accepts
    <2>1. \A d \in Calls : /\ Here(d)' <=> Here(d)
                           /\ routes'[d] = NoRoute <=> routes[d] = NoRoute
                           /\ mail'[d] # mail[d] => d \in pending
                           /\ d \in pending \ pending' => mail'[d] # NoMail
      BY <1>9, AcceptsAre DEF Here, net
    <2>2. UNCHANGED <<phase, command, expired, withdrawing>> /\ pending' \subseteq pending
          /\ \A d \in pending' : mail'[d] = mail[d]
      BY <1>9, AcceptsAre DEF TypeOK
    <2> QED
      BY <2>1, <2>2 DEF TablesInv, RoutesFollowRequests, TypeOK
  <1>10. CASE Hears
    <2>1. \A d \in Calls : /\ Here(d)' <=> Here(d)
                           /\ routes'[d] = NoRoute <=> routes[d] = NoRoute
      BY <1>10, HearsAre DEF Here
    <2>2. UNCHANGED <<phase, command, expired, withdrawing, pending, mail>>
      BY <1>10, HearsAre
    <2> QED
      BY <2>1, <2>2 DEF TablesInv, RoutesFollowRequests, TypeOK
  <1>11. CASE ~Connect /\ ~Closes /\ ~Calling /\ ~Accepts /\ ~Hears
    <2>1. \A d \in Calls : Here(d)' <=> Here(d)
      BY <1>11, TablesAlone DEF Here
    <2>2. UNCHANGED <<pending, expired, routes, mail, withdrawing, phase>>
      BY <1>11, TablesAlone
    <2> QED
      BY <2>1, <2>2 DEF TablesInv, RoutesFollowRequests, TypeOK
  <1> QED
    BY <1>1, <1>2, <1>3, <1>4, <1>5, <1>6, <1>7, <1>8, <1>9, <1>10, <1>11 DEF Calling, Waiting

----------------------------------------------------------------------------
(* The one exchange of a call.                                             *)

(* All that is in a queue was there before, d places further up.           *)
ServerMoved(d) ==
    \A i \in Places(toServer)' : toServer'[i].type \in {"result", "output"} =>
       i \in Nat /\ i + d \in Places(toServer) /\ toServer'[i] = toServer[i + d]
ServerKept(d) ==
    \A k \in Places(toServer) :
       \/ k \in Nat /\ k - d \in Places(toServer)' /\ toServer'[k - d] = toServer[k]
       \/ d = 1 /\ k = 1
ServerAdds(m) ==
    /\ \A i \in Places(toServer)' : i \in Nat /\
          \/ i \in Places(toServer) /\ toServer'[i] = toServer[i] /\ i < Len(toServer) + 1
          \/ serverState # "down" /\ i = Len(toServer) + 1 /\ toServer'[i] = m
    /\ \A k \in Places(toServer) : k \in Places(toServer)' /\ toServer'[k] = toServer[k] /\ k < Len(toServer) + 1
    /\ serverState # "down" => Len(toServer) + 1 \in Places(toServer)' /\ toServer'[Len(toServer) + 1] = m
ClientMoved(e) ==
    \A i \in Places(toClient)' : toClient'[i].type = "execute" =>
       i \in Nat /\ i + e \in Places(toClient) /\ toClient'[i] = toClient[i + e]
(* The handler is not further than it was, as far as the link can tell.    *)
SlotKept ==
    \A c \in Calls : /\ InSlot(c)' => InSlot(c)
                     /\ Held(c)' => Held(c)
                     /\ Writes(c)' => Writes(c) /\ exec'.reply = exec.reply /\ exec'.sent = exec.sent

LEMMA AddsAre ==
    ASSUME TypeOK, NEW m \in PalMessages, SendToServer(m)
    PROVE  /\ ServerAdds(m)
           /\ m.type \notin {"result", "output"} => ServerMoved(0) /\ ServerKept(0)
  <1>1. \A i \in Places(toServer) : i \in Nat /\ i + 0 = i /\ i - 0 = i /\ i < Len(toServer) + 1
    BY DEF TypeOK, Places
  <1>2. \A i \in Places(toServer)' : i \in Nat
    BY DEF Places
  <1>3. \A i \in Places(toServer)' : i \in Nat /\
          \/ i \in Places(toServer) /\ toServer'[i] = toServer[i] /\ i < Len(toServer) + 1
          \/ serverState # "down" /\ i = Len(toServer) + 1 /\ toServer'[i] = m
    BY <1>2, ServerQueueMoves
  <1>4. /\ \A k \in Places(toServer) : k \in Places(toServer)' /\ toServer'[k] = toServer[k]
        /\ serverState # "down" => Len(toServer) + 1 \in Places(toServer)' /\ toServer'[Len(toServer) + 1] = m
    <2>1. CASE serverState = "down"
      BY <2>1 DEF SendToServer, Places
    <2>2. CASE serverState # "down"
      <3>1. PICK r : r = toServer'
        OBVIOUS
      <3>2. r = Append(toServer, m) /\ toServer \in Seq(PalMessages)
        BY <2>2, <3>1 DEF SendToServer, TypeOK
      <3>3. /\ \A k \in Places(toServer) : k \in Places(r) /\ r[k] = toServer[k]
            /\ Len(toServer) + 1 \in Places(r) /\ r[Len(toServer) + 1] = m
        BY <3>2 DEF Places
      <3>4. Places(r) = Places(toServer)'
        BY <3>1 DEF Places
      <3> QED
        BY <3>1, <3>3, <3>4
    <2> QED
      BY <2>1, <2>2
  <1> QED
    BY <1>1, <1>3, <1>4 DEF ServerAdds, ServerMoved, ServerKept

LEMMA StayingPlaces ==
    ASSUME TypeOK
    PROVE  /\ UNCHANGED toServer => ServerMoved(0) /\ ServerKept(0)
           /\ Consume /\ toServer # <<>> => ServerMoved(1) /\ ServerKept(1)
           /\ toServer' = <<>> => ServerMoved(0)
           /\ UNCHANGED toClient => ClientMoved(0)
           /\ toClient' = Tail(toClient) /\ toClient # <<>> => ClientMoved(1)
           /\ toClient' = <<>> => ClientMoved(0)
  <1>1. \A i \in Places(toServer) \cup Places(toClient) : i \in Nat /\ i + 0 = i /\ i - 0 = i
    BY DEF Places
  <1>2. UNCHANGED toServer => Places(toServer)' = Places(toServer)
    BY DEF Places
  <1>3. UNCHANGED toClient => Places(toClient)' = Places(toClient)
    BY DEF Places
  <1>4. Consume /\ toServer # <<>> => ServerKept(1)
    <2>1. SUFFICES ASSUME Consume, toServer # <<>>, NEW k \in Places(toServer), k # 1
                   PROVE  k \in Nat /\ k - 1 \in Places(toServer)' /\ toServer'[k - 1] = toServer[k]
      BY DEF ServerKept
    <2>2. PICK r : r = toServer'
      OBVIOUS
    <2>3. r = Tail(toServer) /\ toServer \in Seq(PalMessages) /\ Places(r) = Places(toServer)'
      BY <2>1, <2>2 DEF Consume, TypeOK, Places
    <2>4. k \in Nat /\ k - 1 \in Places(r) /\ r[k - 1] = toServer[k]
      BY <2>1, <2>3 DEF Places
    <2> QED
      BY <2>2, <2>3, <2>4
  <1> QED
    BY <1>1, <1>2, <1>3, <1>4, ServerQueueMoves, ClientQueueMoves
       DEF ServerMoved, ServerKept, ClientMoved

LEMMA ServerMoves ==
    ASSUME Base, Next
    PROVE  /\ ReadSnapshot \/ ReadResult \/ Hears \/ Skips => ServerMoved(1) /\ ServerKept(1)
           /\ WriteReply => ServerAdds(Envelope(exec.sent))
           /\ ReadExecute =>
                 \/ exec = NoExec /\ ServerMoved(0) /\ ServerKept(0)
                 \/ exec # NoExec /\ ServerAdds(ResultMsg(Head(toClient).call, "rejected", NoSession))
           /\ Connect \/ Closes => ServerMoved(0)
           /\ ClientLoses \/ Calling \/ Accepts \/ ChangeOccupant \/ Resolves \/ SendSnapshot
                 \/ ReadSnapshotResult \/ Handles \/ WriteFails \/ WriteNotice =>
              ServerMoved(0) /\ ServerKept(0)
  <1>0. TypeOK
    BY DEF Base
  <1>1. ReadSnapshot \/ ReadResult \/ Hears \/ Skips => ServerMoved(1) /\ ServerKept(1)
    BY <1>0, StayingPlaces DEF ReadSnapshot, ReadResult, Hears, Skips, Arrived, AcceptOutput, IgnoreOutput
  <1>2. WriteReply => ServerAdds(Envelope(exec.sent))
    BY <1>0, AddsAre, EnvelopeIs DEF WriteReply, Base
  <1>3. ReadExecute =>
           \/ exec = NoExec /\ ServerMoved(0) /\ ServerKept(0)
           \/ exec # NoExec /\ ServerAdds(ResultMsg(Head(toClient).call, "rejected", NoSession))
    <2>1. ReadExecute => ResultMsg(Head(toClient).call, "rejected", NoSession) \in PalMessages
      BY <1>0, SendingTypes, ServerMessageFields, PalMessagesAre DEF ReadExecute, Delivered, Outcomes
    <2> QED
      BY <1>0, <2>1, AddsAre, StayingPlaces DEF ReadExecute
  <1>4. ASSUME Connect
        PROVE  ServerMoved(0)
    <2>1. Places(toServer)' = {1} /\ toServer'[1] = SnapshotMsg(1, occupant)
      BY <1>4 DEF Connect, Places
    <2> QED
      BY <2>1, PartsOfMessages DEF ServerMoved
  <1>5. Closes => ServerMoved(0)
    BY <1>0, StayingPlaces DEF Closes, CloseServer
  <1>6. SendSnapshot => ServerMoved(0) /\ ServerKept(0)
    <2>1. /\ SnapshotMsg(clientSeq + 1, occupant) \in PalMessages
          /\ SnapshotMsg(clientSeq + 1, occupant).type = "snapshot"
      BY <1>0, PalMessagesAre, PartsOfMessages DEF TypeOK
    <2> QED
      BY <1>0, <2>1, AddsAre DEF SendSnapshot
  <1>7. WriteNotice => ServerMoved(0) /\ ServerKept(0)
    <2>1. WriteNotice => /\ NoticeMsg(notice.kind, notice.session, clientSeq) \in PalMessages
                         /\ NoticeMsg(notice.kind, notice.session, clientSeq).type = "notice"
      BY <1>0, PalMessagesAre, PartsOfMessages DEF WriteNotice, TypeOK, Notices
    <2> QED
      BY <1>0, <2>1, AddsAre, StayingPlaces DEF WriteNotice
  <1>8. ClientLoses \/ Calling \/ Accepts \/ ChangeOccupant \/ Resolves
           \/ ReadSnapshotResult \/ Handles \/ WriteFails => ServerMoved(0) /\ ServerKept(0)
    <2>1. ClientLoses \/ Calling \/ Accepts \/ ChangeOccupant \/ Resolves
             \/ ReadSnapshotResult \/ Handles \/ WriteFails => UNCHANGED toServer
      BY DEF ClientLoses, Calling, Waiting, Accepts, ChangeOccupant, Resolves,
         ReadSnapshotResult, Handles, WriteFails, Execute, TimeOut, LoseCall,
         TakeResult, RemoveCommand, ForgetExpired, AcceptResult, ResolveNotice, BeginCommand, Respond,
         RespondMoved, ReportFails, FinishCommand, net
    <2> QED
      BY <1>0, <2>1, StayingPlaces
  <1> QED
    BY <1>1, <1>2, <1>3, <1>4, <1>5, <1>6, <1>7, <1>8

LEMMA ClientMoves ==
    ASSUME Base, Next
    PROVE  /\ ReadSnapshotResult \/ ReadExecute => ClientMoved(1)
           /\ \A c \in Calls, m \in Messages : Execute(c, m) =>
                 \A i \in Places(toClient)' :
                    \/ i \in Places(toClient) /\ toClient'[i] = toClient[i] /\ i # Len(toClient) + 1
                    \/ i = Len(toClient) + 1 /\ toClient'[i] = ExecuteMsg(c, m, directory)
           /\ Connect \/ ClientLoses \/ Closes \/ Waiting \/ ReadSnapshot \/ ReadResult \/ Accepts
                 \/ Hears \/ Skips \/ ChangeOccupant \/ Resolves \/ SendSnapshot \/ Handles
                 \/ WriteReply \/ WriteFails \/ WriteNotice => ClientMoved(0)
  <1>0. TypeOK
    BY DEF Base
  <1>1. ReadSnapshotResult \/ ReadExecute => ClientMoved(1)
    BY <1>0, StayingPlaces DEF ReadSnapshotResult, ReadExecute, Delivered
  <1>2. ASSUME NEW c \in Calls, NEW m \in Messages, Execute(c, m), NEW i \in Places(toClient)'
        PROVE  \/ i \in Places(toClient) /\ toClient'[i] = toClient[i] /\ i # Len(toClient) + 1
               \/ i = Len(toClient) + 1 /\ toClient'[i] = ExecuteMsg(c, m, directory)
    <2>1. /\ ExecuteMsg(c, m, directory) \in ServerMessages /\ SendToClient(ExecuteMsg(c, m, directory))
      BY <1>2, ServerMessagesAre DEF Execute, Base, EndsDown
    <2>2. \A j \in Places(toClient) : j # Len(toClient) + 1
      BY <1>0 DEF TypeOK, Places
    <2> QED
      BY <1>0, <1>2, <2>1, <2>2, ClientQueueMoves
  <1>3. ASSUME ReadSnapshot
        PROVE  ClientMoved(0)
    <2>1. Received.sequence \in Nat
      BY <1>0, <1>3, SendingTypes, PalMessageFields DEF ReadSnapshot, Arrived, Received
    <2>2. /\ SnapshotResultMsg(Received.sequence) \in ServerMessages
          /\ SendToClient(SnapshotResultMsg(Received.sequence))
          /\ SnapshotResultMsg(Received.sequence).type = "applied"
      BY <1>3, <2>1, ServerMessagesAre, PartsOfMessages DEF ReadSnapshot
    <2>3. \A i \in Places(toClient)' : i \in Nat /\ i + 0 = i
      BY DEF Places
    <2> QED
      BY <1>0, <2>2, <2>3, ClientQueueMoves DEF ClientMoved
  <1>4. ASSUME Connect \/ ClientLoses \/ Closes \/ Waiting \/ ReadResult \/ Accepts
               \/ Hears \/ Skips \/ ChangeOccupant \/ Resolves \/ SendSnapshot \/ Handles
               \/ WriteReply \/ WriteFails \/ WriteNotice
        PROVE  ClientMoved(0)
    <2>1. toClient' \in {toClient, <<>>}
      BY <1>4 DEF Connect, ClientLoses, Closes, CloseServer, Waiting, TimeOut,
         LoseCall, TakeResult, RemoveCommand, ForgetExpired, ReadResult, Accepts,
         AcceptResult, Hears, AcceptOutput, Skips, IgnoreOutput, ChangeOccupant, Resolves,
         ResolveNotice, SendSnapshot, Handles,
         BeginCommand, Respond, RespondMoved, ReportFails, FinishCommand, WriteReply, WriteFails,
         WriteNotice, net
    <2> QED
      BY <1>0, <2>1, StayingPlaces
  <1> QED
    BY <1>1, <1>2, <1>3, <1>4

(* The handler goes on with its command, but writes nothing of a reply.    *)
LEMMA HandlerMoves ==
    ASSUME Base, SendSnapshot \/ ReadSnapshotResult \/ Handles \/ WriteFails
    PROVE  \/ UNCHANGED exec
           \/ exec' = NoExec
           \/ /\ exec # NoExec /\ exec.at # "writing" /\ exec'.sent = 0
              /\ exec'.call = exec.call /\ exec'.command = exec.command
  <1>1. CASE SendSnapshot \/ ReadSnapshotResult \/ WriteFails
    BY <1>1, PartsOfExec DEF SendSnapshot, ReadSnapshotResult, ReportWanted, WriteFails
  <1>2. CASE Handles
    <2>1. PICK at, rep, reply : /\ exec # NoExec /\ exec.at # "writing"
                                /\ exec' = Exec(at, exec.call, exec.command, rep, reply, 0)
      BY <1>2 DEF Handles, BeginCommand, Respond, RespondMoved, ReportFails, FinishCommand, ExecAt
    <2> QED
      BY <2>1, PartsOfExec
  <1> QED
    BY <1>1, <1>2

LEMMA SentKept ==
    ASSUME Base, SentIsOK, Next
    PROVE  SentIsOK'
  <1>1. CASE WriteReply /\ exec' # NoExec
    <2>1. exec.at = "writing" /\ exec.sent # exec.reply.outputs /\ exec.sent <= exec.reply.outputs
          /\ exec'.at = "writing" /\ exec'.reply = exec.reply /\ exec # NoExec
      BY <1>1, PartsOfExec DEF WriteReply, Base, RepliesProper
    <2>2. exec.sent \in Nat /\ exec.reply.outputs \in Nat
      BY <2>1, ExecFields, LinkAssumption DEF Base, TypeOK
    <2>3. exec.reply.outputs # 0
      BY <2>1, <2>2
    <2>4. exec.reply.outcome = "ok"
      BY <2>1, <2>3 DEF Base, RepliesProper, Proper
    <2> QED
      BY <2>1, <2>4 DEF SentIsOK
  <1> QED
    BY <1>1, ExecSteps, PartsOfExec DEF SentIsOK

LEMMA SlotMoves ==
    ASSUME Base, Handled, SentIsOK,
           \/ Connect \/ ClientLoses \/ Closes \/ Calling \/ ReadSnapshot \/ ReadResult \/ Accepts
           \/ Hears \/ Skips \/ ChangeOccupant \/ Resolves \/ WriteNotice
           \/ SendSnapshot \/ ReadSnapshotResult \/ Handles \/ WriteFails
    PROVE  SlotKept
  <1>1. \/ UNCHANGED exec
        \/ exec' = NoExec
        \/ /\ exec # NoExec /\ exec.at # "writing" /\ exec'.sent = 0
           /\ exec'.call = exec.call /\ exec'.command = exec.command
    BY HandlerMoves DEF Connect, ClientLoses, Closes, CloseServer, Calling, Waiting, Execute, TimeOut,
       LoseCall, TakeResult, RemoveCommand, ForgetExpired, ReadSnapshot, ReadResult, Accepts,
       AcceptResult, Hears, AcceptOutput, Skips, IgnoreOutput, ChangeOccupant, Resolves,
       ResolveNotice, WriteNotice, clientVars, execVars
  <1>2. exec' # NoExec => exec # NoExec /\ exec'.call = exec.call /\ exec'.command = exec.command
    BY <1>1
  <1>3. OnLink' => OnLink
    <2>1. CASE Connect
      <3>1. link' = link + 1 /\ exec' = exec /\ link \in Nat
        BY <2>1, LinkAssumption DEF Connect, execVars, Base, TypeOK, Links
      <3>2. exec # NoExec => exec.command.link \in Nat /\ exec.command.link <= link
        BY ExecFields, LinkAssumption DEF Handled, Links, Base, TypeOK
      <3> QED
        BY <3>1, <3>2 DEF OnLink
    <2>2. CASE ~Connect
      <3>1. UNCHANGED link /\ (clientState' # "down" => clientState # "down")
        BY <2>2 DEF ClientLoses, Closes, CloseServer, Calling, Waiting, Execute, TimeOut,
           LoseCall, TakeResult, RemoveCommand, ForgetExpired, ReadSnapshot, ReadResult, Accepts,
           AcceptResult, Hears, AcceptOutput, Skips, IgnoreOutput, ChangeOccupant, Resolves,
           ResolveNotice, SendSnapshot, ReadSnapshotResult, Handles, BeginCommand, Respond,
           RespondMoved, ReportFails, FinishCommand, WriteFails, WriteNotice, net
      <3> QED
        BY <1>2, <3>1 DEF OnLink
    <2> QED
      BY <2>1, <2>2
  <1>4. exec' # NoExec => /\ exec'.sent = 0 => exec.sent = 0
                          /\ exec'.sent # 0 => exec' = exec
    BY <1>1 DEF SentIsOK
  <1> QED
    BY <1>2, <1>3, <1>4 DEF SlotKept, InSlot, Held, Writes, OnLink

LEMMA Shrinks ==
    ASSUME SlotKept, NEW d \in {0, 1}, ServerMoved(d), NEW e \in {0, 1}, ClientMoved(e),
           \A c \in Calls : Looked(c)' => Looked(c)
    PROVE  /\ \A c \in Calls, i \in Places(toServer)' :
                 /\ SentAt(c, i)' => i \in Nat /\ i + d \in Places(toServer) /\ SentAt(c, i + d)
                 /\ OutputAt(c, i)' => i \in Nat /\ i + d \in Places(toServer) /\ OutputAt(c, i + d)
                 /\ SentAt(c, i)' \/ OutputAt(c, i)' => toServer'[i] = toServer[i + d]
           /\ \A c \in Calls, i \in Places(toClient)' :
                 AskedAt(c, i)' => i \in Nat /\ i + e \in Places(toClient) /\ AskedAt(c, i + e)
           /\ \A c \in Calls : /\ Sent(c)' => Sent(c)
                               /\ Asked(c)' => Asked(c)
                               /\ Unheard(c)' => Unheard(c)
                               /\ InSlot(c)' => InSlot(c)
                               /\ Open(c)' => Open(c)
                               /\ Followed(c)' => Followed(c)
  <1>1. \A c \in Calls, i \in Places(toServer)' :
           /\ SentAt(c, i)' => i \in Nat /\ i + d \in Places(toServer) /\ SentAt(c, i + d)
           /\ OutputAt(c, i)' => i \in Nat /\ i + d \in Places(toServer) /\ OutputAt(c, i + d)
           /\ SentAt(c, i)' \/ OutputAt(c, i)' => toServer'[i] = toServer[i + d]
    BY DEF ServerMoved, SentAt, OutputAt
  <1>2. \A c \in Calls, i \in Places(toClient)' :
           AskedAt(c, i)' => i \in Nat /\ i + e \in Places(toClient) /\ AskedAt(c, i + e)
    BY DEF ClientMoved, AskedAt
  <1>3. \A c \in Calls : /\ Sent(c)' => Sent(c)
                         /\ Asked(c)' => Asked(c)
                         /\ Unheard(c)' => Unheard(c)
    BY <1>1, <1>2 DEF Sent, Asked, Unheard
  <1>4. \A c \in Calls : Open(c)' => Open(c)
    BY <1>3 DEF Open, SlotKept
  <1>5. \A c \in Calls : Followed(c)' => Followed(c)
    BY <1>1 DEF Followed, SlotKept
  <1> QED
    BY <1>1, <1>2, <1>3, <1>4, <1>5 DEF SlotKept

(* Exchanges that only come nearer to their end.                           *)
LEMMA ExchangesShrink ==
    ASSUME Exchanges, SentIsOK', SlotKept,
           NEW d \in {0, 1}, ServerMoved(d), NEW e \in {0, 1}, ClientMoved(e),
           \A c \in Calls : Looked(c)' => Looked(c),
           \A c \in Calls : Asked(c)' \/ InSlot(c)' => command'[c].link = link',
           \A c \in Calls : Unheard(c)' => Here(c)',
           \A c \in Calls : Open(c)' => mail'[c] = NoMail /\ phase'[c] \in {"waiting", "timedout", "lost"}
    PROVE  Exchanges'
  <1>1. \A c \in Calls, i \in Places(toServer)' :
           /\ SentAt(c, i)' => i \in Nat /\ i + d \in Places(toServer) /\ SentAt(c, i + d)
           /\ OutputAt(c, i)' => i + d \in Places(toServer) /\ OutputAt(c, i + d)
    BY Shrinks
  <1>2. \A c \in Calls, i \in Places(toClient)' :
           AskedAt(c, i)' => i \in Nat /\ i + e \in Places(toClient) /\ AskedAt(c, i + e)
    BY Shrinks
  <1>3. \A c \in Calls : /\ Sent(c)' => Sent(c)
                         /\ Asked(c)' => Asked(c)
                         /\ Unheard(c)' => Unheard(c)
    BY Shrinks
  <1>4. \A c \in Calls, i, j \in Places(toClient)' : AskedAt(c, i)' /\ AskedAt(c, j)' => i = j
    BY <1>2 DEF Exchanges
  <1>5. \A c \in Calls, i, j \in Places(toServer)' : SentAt(c, i)' /\ SentAt(c, j)' => i = j
    BY <1>1 DEF Exchanges
  <1>6. \A c \in Calls : ~(Asked(c)' /\ InSlot(c)') /\ ~(Asked(c)' /\ Unheard(c)')
    BY <1>3 DEF Exchanges, SlotKept
  <1>7. \A c \in Calls : ~(Held(c)' /\ Unheard(c)') /\ ~(Sent(c)' /\ Looked(c)')
    BY <1>3 DEF Exchanges, SlotKept
  <1>8. \A c \in Calls, i \in Places(toServer)' : OutputAt(c, i)' => ~Asked(c)' /\ ~Held(c)'
    BY <1>1, <1>3 DEF Exchanges, SlotKept
  <1> QED
    BY <1>4, <1>5, <1>6, <1>7, <1>8 DEF Exchanges

(* The steps that change neither a call nor what the server knows of one.  *)
Still ==
    \/ ClientLoses \/ ReadSnapshot \/ Skips \/ ChangeOccupant \/ Resolves \/ SendSnapshot
    \/ ReadSnapshotResult \/ Handles \/ WriteFails \/ WriteNotice
Listens == Still \/ Hears

LEMMA StillAre ==
    ASSUME Base, Handled, SentIsOK, Next, Listens
    PROVE  /\ UNCHANGED <<link, phase, command, mail, pending, expired, withdrawing, reader>>
           /\ Still => UNCHANGED routes
           /\ serverState' = "down" <=> serverState = "down"
           /\ \E d \in {0, 1} : /\ ServerMoved(d) /\ ServerKept(d)
                                /\ d = 1 => /\ toServer # <<>> /\ Received = toServer[1] /\ reader = NoMessage
                                            /\ 1 \in Places(toServer)
                                            /\ ReadSnapshot \/ Skips \/ Hears
           /\ \E e \in {0, 1} : ClientMoved(e)
           /\ SlotKept
  <1>0. TypeOK
    BY DEF Base
  <1>1. /\ UNCHANGED <<link, phase, command, mail, pending, expired, withdrawing, reader>>
        /\ Still => UNCHANGED routes
        /\ serverState' = "down" <=> serverState = "down"
    BY HearsAre DEF Listens, Still, ClientLoses, ReadSnapshot, Arrived,
     Skips, IgnoreOutput, ChangeOccupant, Resolves,
     ResolveNotice, SendSnapshot, ReadSnapshotResult, Handles, BeginCommand, Respond,
     RespondMoved, ReportFails, FinishCommand, WriteFails, WriteNotice, net, tables, callVars, serverVars
  <1>2. ReadSnapshot \/ Skips \/ Hears =>
           toServer # <<>> /\ Received = toServer[1] /\ reader = NoMessage /\ 1 \in Places(toServer)
    BY <1>0, TailPlaces DEF ReadSnapshot, Skips, Hears, Arrived, Received, TypeOK
  <1>3. \E d \in {0, 1} : /\ ServerMoved(d) /\ ServerKept(d)
                          /\ d = 1 => ReadSnapshot \/ Skips \/ Hears
    BY ServerMoves DEF Listens, Still
  <1>4. \E e \in {0, 1} : ClientMoved(e)
    BY ClientMoves DEF Listens, Still
  <1>5. SlotKept
    BY SlotMoves DEF Listens, Still
  <1> QED
    BY <1>1, <1>2, <1>3, <1>4, <1>5

LEMMA ExchangesOfTheRest ==
    ASSUME OnceInv, TablesInv, Exchanges, Next,
           Connect \/ Closes \/ Waiting \/ Accepts \/ Listens
    PROVE  Exchanges'
  <1> USE DEF OnceInv
  <1>0. TypeOK /\ SentIsOK /\ SentIsOK'
    BY SentKept DEF Exchanges, Base
  <1>1. CASE Connect
    <2>1. SlotKept /\ ServerMoved(0) /\ ClientMoved(0) /\ reader' = reader
      BY <1>0, <1>1, SlotMoves, ServerMoves, ClientMoves DEF Connect, serverVars
    <2>2. \A c \in Calls : ~Open(c) /\ ~InSlot(c)
      <3>1. toClient = <<>> /\ clientState = "down" /\ serverState = "down"
        BY <1>1 DEF Connect, Base, EndsDown
      <3>2. \A c \in Calls : ~Asked(c)
        BY <3>1, NoPlaces DEF Asked
      <3>3. \A c \in Calls : ~Unheard(c) /\ ~InSlot(c)
        BY <3>1 DEF Exchanges, Here, InSlot, OnLink
      <3> QED
        BY <3>2, <3>3 DEF Open, Held
    <2>3. \A c \in Calls : Looked(c)' => Looked(c)
      BY <2>1 DEF Looked
    <2>4. \A c \in Calls : ~Open(c)' /\ ~InSlot(c)' /\ ~Asked(c)' /\ ~Unheard(c)'
      BY <2>1, <2>2, <2>3, Shrinks DEF Open
    <2> QED
      BY <1>0, <2>1, <2>3, <2>4, ExchangesShrink
  <1>2. CASE Closes
    <2>1. SlotKept /\ ServerMoved(0) /\ ClientMoved(0)
      BY <1>0, <1>2, SlotMoves, ServerMoves, ClientMoves
    <2>2. /\ reader' = NoMessage /\ toServer' = <<>> /\ UNCHANGED <<link, mail, command>>
          /\ \A c \in Calls : phase'[c] = phase[c] \/ phase'[c] = "lost"
      BY <1>0, <1>2 DEF Closes, CloseServer, ServerRestart, TypeOK
    <2>3. \A c \in Calls : ~Looked(c)' /\ ~Unheard(c)'
      BY <2>2, NoPlaces DEF Looked, Unheard, Sent
    <2>4. \A c \in Calls : Open(c)' => Open(c)
      BY <2>1, <2>3, Shrinks
    <2>5. \A c \in Calls : Asked(c)' \/ InSlot(c)' => Asked(c) \/ InSlot(c)
      BY <2>1, <2>3, Shrinks
    <2>6. \A c \in Calls : Asked(c)' \/ InSlot(c)' => command'[c].link = link'
      BY <2>2, <2>5 DEF Exchanges
    <2>7. \A c \in Calls : Open(c)' => mail'[c] = NoMail /\ phase'[c] \in {"waiting", "timedout", "lost"}
      BY <2>2, <2>4 DEF Exchanges
    <2> QED
      BY <1>0, <2>1, <2>3, <2>6, <2>7, ExchangesShrink
  <1>3. CASE Waiting
    <2>1. SlotKept /\ ServerMoved(0) /\ ClientMoved(0)
      BY <1>0, <1>3, SlotMoves, ServerMoves, ClientMoves DEF Calling
    <2>2. UNCHANGED <<link, serverState, command, reader>>
      BY <1>3 DEF Waiting, TimeOut, LoseCall, TakeResult, RemoveCommand, ForgetExpired, net, callVars,
         serverVars
    <2>3. \A c \in Calls :
             \/ UNCHANGED <<phase[c], mail[c]>>
             \/ mail'[c] = mail[c] /\ phase'[c] \in {"timedout", "lost"}
             \/ mail[c] # NoMail /\ phase'[c] # "idle"
      BY <1>0, <1>3, NothingAssumption DEF Waiting, TimeOut, LoseCall, TakeResult, RemoveCommand,
         ForgetExpired, tables, callVars, TypeOK, Outcomes
    <2>4. \A c \in Calls : Looked(c)' => Looked(c)
      BY <2>2 DEF Looked
    <2>5. \A c \in Calls : /\ Open(c)' => Open(c)
                           /\ Asked(c)' \/ InSlot(c)' => Asked(c) \/ InSlot(c)
                           /\ Unheard(c)' => Unheard(c)
      BY <2>1, <2>4, Shrinks
    <2>6. \A c \in Calls : Here(c) => Here(c)'
      BY <2>2, <2>3 DEF Here
    <2>7. \A c \in Calls : Asked(c)' \/ InSlot(c)' => command'[c].link = link'
      BY <2>2, <2>5 DEF Exchanges
    <2>8. \A c \in Calls : Unheard(c)' => Here(c)'
      BY <2>5, <2>6 DEF Exchanges
    <2>9. \A c \in Calls : Open(c)' => mail'[c] = NoMail /\ phase'[c] \in {"waiting", "timedout", "lost"}
      BY <2>3, <2>5 DEF Exchanges
    <2> QED
      BY <1>0, <2>1, <2>4, <2>7, <2>8, <2>9, ExchangesShrink
  <1>4. CASE Accepts
    <2>1. SlotKept /\ ServerMoved(0) /\ ClientMoved(0)
      BY <1>0, <1>4, SlotMoves, ServerMoves, ClientMoves
    <2>2. /\ reader' = NoMessage /\ UNCHANGED <<link, serverState, phase, command>>
          /\ reader # NoMessage /\ reader.call \in Calls
          /\ \A c \in Calls \ {reader.call} : mail'[c] = mail[c]
      BY <1>4, AcceptsAre DEF net, Accepts
    <2>3. \A c \in Calls : ~Looked(c)'
      BY <2>2 DEF Looked
    <2>4. \A c \in Calls : /\ Open(c)' => Open(c)
                           /\ Asked(c)' \/ InSlot(c)' => Asked(c) \/ InSlot(c)
                           /\ Unheard(c)' => Unheard(c)
                           /\ (Sent(c)' => Sent(c)) /\ (Asked(c)' => Asked(c)) /\ (Held(c)' => Held(c))
      BY <2>1, <2>3, Shrinks DEF SlotKept
    <2>5. ASSUME NEW c \in Calls, c = reader.call
          PROVE  ~Open(c)'
      <3>1. Looked(c)
        BY <2>2, <2>5 DEF Looked
      <3>2. ~Asked(c) /\ ~Held(c) /\ ~Sent(c)
        BY <3>1 DEF Exchanges, Unheard
      <3> QED
        BY <2>3, <2>4, <3>2 DEF Open, Unheard
    <2>6. \A c \in Calls : Open(c)' => mail'[c] = NoMail /\ phase'[c] \in {"waiting", "timedout", "lost"}
      BY <2>2, <2>4, <2>5 DEF Exchanges
    <2>7. /\ \A c \in Calls : Asked(c)' \/ InSlot(c)' => command'[c].link = link'
          /\ \A c \in Calls : Unheard(c)' => Here(c)'
      BY <2>2, <2>4 DEF Exchanges, Here
    <2> QED
      BY <1>0, <2>1, <2>3, <2>6, <2>7, ExchangesShrink
  <1>5. CASE Listens
    <2>1. UNCHANGED <<link, phase, command, mail, reader>> /\ (serverState' = "down" <=> serverState = "down")
          /\ SlotKept
      BY <1>0, <1>5, StillAre
    <2>2. PICK d \in {0, 1} : ServerMoved(d)
      BY <1>0, <1>5, StillAre
    <2>3. PICK e \in {0, 1} : ClientMoved(e)
      BY <1>0, <1>5, StillAre
    <2>4. \A c \in Calls : Looked(c)' => Looked(c)
      BY <2>1 DEF Looked
    <2>5. \A c \in Calls : /\ Open(c)' => Open(c)
                           /\ Asked(c)' \/ InSlot(c)' => Asked(c) \/ InSlot(c)
                           /\ Unheard(c)' => Unheard(c)
      BY <2>1, <2>2, <2>3, <2>4, Shrinks
    <2>6. /\ \A c \in Calls : Asked(c)' \/ InSlot(c)' => command'[c].link = link'
          /\ \A c \in Calls : Unheard(c)' => Here(c)'
          /\ \A c \in Calls : Open(c)' => mail'[c] = NoMail /\ phase'[c] \in {"waiting", "timedout", "lost"}
      BY <2>1, <2>5 DEF Exchanges, Here
    <2> QED
      BY <1>0, <2>1, <2>2, <2>3, <2>4, <2>6, ExchangesShrink
  <1> QED
    BY <1>1, <1>2, <1>3, <1>4, <1>5

LEMMA ExchangesOfExecute ==
    ASSUME OnceInv, TablesInv, Exchanges, OutputsFollowOK, Next,
           NEW c \in Calls, NEW m \in Messages, Execute(c, m)
    PROVE  Exchanges'
  <1> USE DEF OnceInv
  <1>1. /\ UNCHANGED <<link, serverState, clientState, reader, exec, mail, toServer>>
        /\ phase[c] = "idle" /\ phase'[c] = "waiting" /\ command'[c].link = link
        /\ \A d \in Calls \ {c} : phase'[d] = phase[d] /\ command'[d] = command[d]
    BY DEF Execute, Base, TypeOK, clientVars, serverVars, execVars, Command
  <1>2. Places(toServer)' = Places(toServer)
    BY <1>1 DEF Places
  <1>3. \A d \in Calls : /\ InSlot(d)' <=> InSlot(d)
                         /\ Held(d)' <=> Held(d)
                         /\ Sent(d)' <=> Sent(d)
                         /\ Looked(d)' <=> Looked(d)
                         /\ Unheard(d)' <=> Unheard(d)
                         /\ \A i \in Places(toServer) : /\ SentAt(d, i)' <=> SentAt(d, i)
                                                        /\ OutputAt(d, i)' <=> OutputAt(d, i)
    BY <1>1, <1>2 DEF InSlot, OnLink, Held, Sent, Looked, Unheard, SentAt, OutputAt
  <1>4. \A i \in Places(toClient)' :
           \/ i \in Places(toClient) /\ toClient'[i] = toClient[i] /\ i # Len(toClient) + 1
           \/ i = Len(toClient) + 1 /\ toClient'[i] = ExecuteMsg(c, m, directory)
    BY ClientMoves
  <1>5. ExecuteMsg(c, m, directory).call = c
    BY PartsOfMessages
  <1>6. ~Open(c) /\ ~InSlot(c) /\ mail[c] = NoMail /\ \A i \in Places(toServer) : ~OutputAt(c, i)
    <2>1. ~Open(c)
      BY <1>1 DEF Exchanges
    <2>2. ~InSlot(c)
      BY <1>1 DEF AnswersTruthful, IsFor, InSlot, OnLink
    <2>3. mail[c] = NoMail
      BY <1>1 DEF TablesInv
    <2>4. \A i \in Places(toServer) : ~OutputAt(c, i)
      BY <1>1 DEF OutputsFollowOK, Here
    <2> QED
      BY <2>1, <2>2, <2>3, <2>4
  <1>7. /\ \A d \in Calls \ {c}, i \in Places(toClient)' :
              AskedAt(d, i)' => i \in Places(toClient) /\ AskedAt(d, i)
        /\ \A i \in Places(toClient)' : AskedAt(c, i)' => i = Len(toClient) + 1
    <2>1. \A i \in Places(toClient) : ~AskedAt(c, i)
      BY <1>6 DEF Open, Asked
    <2> QED
      BY <1>4, <1>5, <2>1 DEF AskedAt
  <1>8. \A d \in Calls \ {c} : Asked(d)' => Asked(d)
    BY <1>7 DEF Asked
  <1>9. \A d \in Calls, i, j \in Places(toClient)' : AskedAt(d, i)' /\ AskedAt(d, j)' => i = j
    BY <1>7 DEF Exchanges
  <1>10. \A d \in Calls, i, j \in Places(toServer)' : SentAt(d, i)' /\ SentAt(d, j)' => i = j
    BY <1>2, <1>3 DEF Exchanges
  <1>11. \A d \in Calls : ~(Asked(d)' /\ InSlot(d)') /\ ~(Asked(d)' /\ Unheard(d)')
    BY <1>3, <1>6, <1>8 DEF Exchanges, Open
  <1>12. \A d \in Calls : ~(Held(d)' /\ Unheard(d)') /\ ~(Sent(d)' /\ Looked(d)')
    BY <1>3 DEF Exchanges
  <1>13. \A d \in Calls : Asked(d)' \/ InSlot(d)' => command'[d].link = link'
    BY <1>1, <1>3, <1>8 DEF Exchanges
  <1>14. \A d \in Calls : Unheard(d)' => Here(d)'
    BY <1>1, <1>3, <1>6 DEF Exchanges, Here, Open
  <1>15. \A d \in Calls : Open(d)' => mail'[d] = NoMail /\ phase'[d] \in {"waiting", "timedout", "lost"}
    <2>1. ASSUME NEW d \in Calls, d # c, Open(d)'
          PROVE  Open(d)
      BY <1>3, <1>8, <2>1 DEF Open
    <2> QED
      BY <1>1, <1>6, <2>1 DEF Exchanges
  <1>16. SentIsOK'
    BY <1>1 DEF Exchanges, SentIsOK
  <1>17. \A d \in Calls, i \in Places(toServer)' : OutputAt(d, i)' => ~Asked(d)' /\ ~Held(d)'
    BY <1>2, <1>3, <1>6, <1>8 DEF Exchanges
  <1> QED
    BY <1>9, <1>10, <1>11, <1>12, <1>13, <1>14, <1>15, <1>16, <1>17 DEF Exchanges

LEMMA ExchangesOfReadResult ==
    ASSUME OnceInv, Exchanges, Next, ReadResult
    PROVE  Exchanges'
  <1> USE DEF OnceInv
  <1>1. /\ UNCHANGED <<link, serverState, clientState, exec, mail, phase, command>>
        /\ reader = NoMessage /\ toServer # <<>> /\ Received.type = "result"
        /\ reader' \in {NoMessage, Received}
    BY DEF ReadResult, Arrived, Received, tables, callVars, clientVars, execVars
  <1>2. SlotKept /\ ServerMoved(1) /\ ClientMoved(0)
    BY SlotMoves, ServerMoves, ClientMoves DEF Exchanges, Base
  <1>3. 1 \in Places(toServer) /\ Received = toServer[1]
    BY <1>1, TailPlaces DEF Base, TypeOK, Received
  <1>4. \A d \in Calls : Looked(d)' => SentAt(d, 1)
    BY <1>1, <1>3 DEF Looked, SentAt
  <1>5. \A d \in Calls, i \in Places(toServer)' :
           /\ SentAt(d, i)' => i \in Nat /\ i + 1 \in Places(toServer) /\ SentAt(d, i + 1)
           /\ OutputAt(d, i)' => i + 1 \in Places(toServer) /\ OutputAt(d, i + 1)
    BY <1>2 DEF ServerMoved, SentAt, OutputAt
  <1>6. \A d \in Calls, i \in Places(toClient)' :
           AskedAt(d, i)' => i \in Nat /\ i + 0 \in Places(toClient) /\ AskedAt(d, i + 0)
    BY <1>2 DEF ClientMoved, AskedAt
  <1>7. \A i \in Places(toServer)' : i \in Nat /\ i + 1 # 1
    BY DEF Places
  <1>8. \A d \in Calls : /\ Sent(d)' => Sent(d)
                         /\ Asked(d)' => Asked(d)
                         /\ Unheard(d)' => Unheard(d)
                         /\ ~(Sent(d)' /\ Looked(d)')
    <2>1. \A d \in Calls : (Sent(d)' => Sent(d)) /\ (Asked(d)' => Asked(d))
      BY <1>5, <1>6 DEF Sent, Asked
    <2>2. \A d \in Calls : Looked(d)' => Sent(d)
      BY <1>3, <1>4 DEF Sent
    <2>3. \A d \in Calls : ~(Sent(d)' /\ Looked(d)')
      BY <1>3, <1>4, <1>5, <1>7 DEF Sent, Exchanges
    <2> QED
      BY <2>1, <2>2, <2>3 DEF Unheard
  <1>9. \A d \in Calls : Open(d)' => Open(d)
    BY <1>2, <1>8 DEF Open, SlotKept
  <1>10. \A d \in Calls, i, j \in Places(toClient)' : AskedAt(d, i)' /\ AskedAt(d, j)' => i = j
    BY <1>6 DEF Exchanges
  <1>11. \A d \in Calls, i, j \in Places(toServer)' : SentAt(d, i)' /\ SentAt(d, j)' => i = j
    BY <1>5 DEF Exchanges
  <1>12. \A d \in Calls : /\ ~(Asked(d)' /\ InSlot(d)') /\ ~(Asked(d)' /\ Unheard(d)')
                          /\ ~(Held(d)' /\ Unheard(d)') /\ ~(Sent(d)' /\ Looked(d)')
    BY <1>2, <1>8 DEF Exchanges, SlotKept
  <1>13. \A d \in Calls : /\ Asked(d)' \/ InSlot(d)' => command'[d].link = link'
                          /\ Unheard(d)' => Here(d)'
    BY <1>1, <1>2, <1>8 DEF Exchanges, SlotKept, Here
  <1>14. \A d \in Calls : Open(d)' => mail'[d] = NoMail /\ phase'[d] \in {"waiting", "timedout", "lost"}
    BY <1>1, <1>9 DEF Exchanges
  <1>15. \A d \in Calls, i \in Places(toServer)' : OutputAt(d, i)' => ~Asked(d)' /\ ~Held(d)'
    BY <1>2, <1>5, <1>8 DEF Exchanges, SlotKept
  <1>16. SentIsOK'
    BY <1>1 DEF Exchanges, SentIsOK
  <1> QED
    BY <1>10, <1>11, <1>12, <1>13, <1>14, <1>15, <1>16 DEF Exchanges

(* The reader takes a command for the slot, or answers it busy.            *)
LEMMA TakenOrBusy ==
    ASSUME OnceInv, SentIsOK, Next, ReadExecute
    PROVE  /\ UNCHANGED <<link, serverState, clientState, reader, mail, phase, command, routes, expired>>
           /\ ClientMoved(1) /\ clientState # "down"
           /\ \E c \in Calls :
                 /\ 1 \in Places(toClient) /\ AskedAt(c, 1)
                 /\ \/ /\ exec = NoExec /\ ServerMoved(0) /\ ServerKept(0)
                       /\ exec'.call = c /\ exec'.sent = 0 /\ exec'.at # "writing"
                    \/ /\ exec # NoExec /\ exec' = exec
                       /\ ServerAdds(ResultMsg(c, "rejected", NoSession))
  <1> USE DEF OnceInv
  <1>0. TypeOK
    BY DEF Base
  <1>1. /\ UNCHANGED <<link, serverState, clientState, reader, mail, phase, command, routes, expired>>
        /\ ClientMoved(1) /\ clientState # "down"
    BY ClientMoves DEF ReadExecute, tables, callVars, serverVars
  <1>2. 1 \in Places(toClient) /\ toClient[1] = Head(toClient) /\ toClient[1].type = "execute"
        /\ toClient[1] \in ServerMessages
    BY <1>0, TailPlaces DEF ReadExecute, Delivered, TypeOK
  <1>3. toClient[1].call \in Calls /\ AskedAt(toClient[1].call, 1)
    BY <1>2, ServerMessageFields DEF AskedAt
  <1>4. \/ /\ exec = NoExec /\ ServerMoved(0) /\ ServerKept(0)
           /\ exec'.call = toClient[1].call /\ exec'.sent = 0 /\ exec'.at # "writing"
        \/ /\ exec # NoExec /\ exec' = exec
           /\ ServerAdds(ResultMsg(toClient[1].call, "rejected", NoSession))
    BY <1>2, ServerMoves, PartsOfExec DEF ReadExecute
  <1> QED
    BY <1>1, <1>2, <1>3, <1>4

(* What the queue to the server holds after an envelope m of a call c.     *)
LEMMA AddedIs ==
    ASSUME TypeOK, NEW m, ServerAdds(m)
    PROVE  /\ \A d \in Calls, i \in Places(toServer)' :
                 /\ SentAt(d, i)' =>
                       \/ i \in Places(toServer) /\ SentAt(d, i) /\ toServer'[i] = toServer[i]
                          /\ i < Len(toServer) + 1
                       \/ /\ serverState # "down" /\ i = Len(toServer) + 1 /\ toServer'[i] = m
                          /\ m.type = "result" /\ m.call = d
                 /\ OutputAt(d, i)' =>
                       \/ i \in Places(toServer) /\ OutputAt(d, i) /\ toServer'[i] = toServer[i]
                          /\ i < Len(toServer) + 1
                       \/ /\ serverState # "down" /\ i = Len(toServer) + 1 /\ toServer'[i] = m
                          /\ m.type = "output" /\ m.call = d
           /\ \A d \in Calls : Sent(d)' =>
                 Sent(d) \/ (serverState # "down" /\ m.type = "result" /\ m.call = d)
           /\ \A i \in Places(toServer)' : i \in Nat
           /\ \A i \in Places(toServer) : i \in Nat
           /\ Len(toServer) \in Nat
           /\ Len(toServer) + 1 \notin Places(toServer)
  <1>1. \A d \in Calls, i \in Places(toServer)' :
           /\ SentAt(d, i)' =>
                 \/ i \in Places(toServer) /\ SentAt(d, i) /\ toServer'[i] = toServer[i]
                    /\ i < Len(toServer) + 1
                 \/ /\ serverState # "down" /\ i = Len(toServer) + 1 /\ toServer'[i] = m
                    /\ m.type = "result" /\ m.call = d
           /\ OutputAt(d, i)' =>
                 \/ i \in Places(toServer) /\ OutputAt(d, i) /\ toServer'[i] = toServer[i]
                    /\ i < Len(toServer) + 1
                 \/ /\ serverState # "down" /\ i = Len(toServer) + 1 /\ toServer'[i] = m
                    /\ m.type = "output" /\ m.call = d
    BY DEF ServerAdds, SentAt, OutputAt
  <1>2. Len(toServer) \in Nat /\ Len(toServer) + 1 \notin Places(toServer)
        /\ \A i \in Places(toServer) : i \in Nat
    BY DEF TypeOK, Places
  <1>3. \A i \in Places(toServer)' : i \in Nat
    BY DEF Places
  <1>4. \A d \in Calls : Sent(d)' =>
           Sent(d) \/ (serverState # "down" /\ m.type = "result" /\ m.call = d)
    <2>1. SUFFICES ASSUME NEW d \in Calls, NEW i \in Places(toServer)', SentAt(d, i)'
                   PROVE  Sent(d) \/ (serverState # "down" /\ m.type = "result" /\ m.call = d)
      BY DEF Sent
    <2> QED
      BY <1>1, <2>1 DEF Sent
  <1> QED
    BY <1>1, <1>2, <1>3, <1>4

LEMMA ExchangesOfReadExecute ==
    ASSUME OnceInv, Exchanges, OutputsFollowOK, Next, ReadExecute
    PROVE  Exchanges'
  <1> USE DEF OnceInv
  <1>0. TypeOK /\ SentIsOK
    BY DEF Base, Exchanges
  <1>1. /\ UNCHANGED <<link, serverState, clientState, reader, mail, phase, command>>
        /\ ClientMoved(1) /\ clientState # "down"
    BY <1>0, TakenOrBusy
  <1>2. PICK c \in Calls :
           /\ 1 \in Places(toClient) /\ AskedAt(c, 1)
           /\ \/ /\ exec = NoExec /\ ServerMoved(0) /\ ServerKept(0)
                 /\ exec'.call = c /\ exec'.sent = 0 /\ exec'.at # "writing"
              \/ /\ exec # NoExec /\ exec' = exec
                 /\ ServerAdds(ResultMsg(c, "rejected", NoSession))
    BY <1>0, TakenOrBusy
  <1>3. \A d \in Calls, i \in Places(toClient)' :
           AskedAt(d, i)' => i \in Nat /\ i + 1 \in Places(toClient) /\ AskedAt(d, i + 1) /\ i + 1 # 1
    BY <1>1 DEF ClientMoved, AskedAt, Places
  <1>4. /\ Asked(c) /\ ~Asked(c)'
        /\ \A d \in Calls : Asked(d)' => Asked(d)
    BY <1>2, <1>3 DEF Exchanges, Asked
  <1>5. \A d \in Calls, i, j \in Places(toClient)' : AskedAt(d, i)' /\ AskedAt(d, j)' => i = j
    BY <1>3 DEF Exchanges
  <1>6. command[c].link = link /\ ~Unheard(c) /\ ~InSlot(c) /\ Open(c)
        /\ \A i \in Places(toServer) : ~OutputAt(c, i)
    BY <1>2, <1>4 DEF Exchanges, Open
  <1>7. SentIsOK'
    BY <1>0, SentKept
  <1>8. CASE exec = NoExec
    <2>1. ServerMoved(0) /\ exec'.call = c /\ exec'.sent = 0
      BY <1>2, <1>8
    <2>2. \A d \in Calls, i \in Places(toServer)' :
             /\ SentAt(d, i)' => i \in Nat /\ i + 0 \in Places(toServer) /\ SentAt(d, i + 0)
             /\ OutputAt(d, i)' => i + 0 \in Places(toServer) /\ OutputAt(d, i + 0)
      BY <2>1 DEF ServerMoved, SentAt, OutputAt
    <2>3. \A d \in Calls : /\ Unheard(d)' => Unheard(d)
                           /\ Sent(d)' => Sent(d)
                           /\ Looked(d)' => Looked(d)
                           /\ InSlot(d)' => d = c
                           /\ Held(d)' => d = c
      BY <1>1, <2>1, <2>2 DEF Unheard, Sent, Looked, InSlot, Held
    <2>4. \A d \in Calls : Open(d)' => Open(d)
      BY <1>4, <1>6, <2>3 DEF Open
    <2>5. \A d \in Calls, i, j \in Places(toServer)' : SentAt(d, i)' /\ SentAt(d, j)' => i = j
      BY <2>2 DEF Exchanges
    <2>6. \A d \in Calls : /\ ~(Asked(d)' /\ InSlot(d)') /\ ~(Asked(d)' /\ Unheard(d)')
                           /\ ~(Held(d)' /\ Unheard(d)') /\ ~(Sent(d)' /\ Looked(d)')
      BY <1>4, <1>6, <2>3 DEF Exchanges
    <2>7. \A d \in Calls : /\ Asked(d)' \/ InSlot(d)' => command'[d].link = link'
                           /\ Unheard(d)' => Here(d)'
      BY <1>1, <1>4, <1>6, <2>3 DEF Exchanges, Here
    <2>8. \A d \in Calls : Open(d)' => mail'[d] = NoMail /\ phase'[d] \in {"waiting", "timedout", "lost"}
      BY <1>1, <2>4 DEF Exchanges
    <2>9. \A d \in Calls, i \in Places(toServer)' : OutputAt(d, i)' => ~Asked(d)' /\ ~Held(d)'
      BY <1>4, <1>6, <2>2, <2>3 DEF Exchanges
    <2> QED
      BY <1>5, <1>7, <2>5, <2>6, <2>7, <2>8, <2>9 DEF Exchanges
  <1>9. CASE exec # NoExec
    <2>1. PICK m : exec' = exec /\ ServerAdds(m) /\ m = ResultMsg(c, "rejected", NoSession)
      BY <1>2, <1>9
    <2>2. m.type = "result" /\ m.call = c
      BY <2>1, PartsOfMessages
    <2>3. \A d \in Calls, i \in Places(toServer)' :
             /\ SentAt(d, i)' =>
                   \/ i \in Places(toServer) /\ SentAt(d, i)
                   \/ serverState # "down" /\ d = c /\ i = Len(toServer) + 1
             /\ OutputAt(d, i)' => i \in Places(toServer) /\ OutputAt(d, i)
      BY <1>0, <2>1, <2>2, AddedIs
    <2>4. \A d \in Calls : /\ Sent(d)' => Sent(d) \/ (d = c /\ serverState # "down")
                           /\ Looked(d)' <=> Looked(d)
                           /\ Unheard(d)' => Unheard(d) \/ (d = c /\ serverState # "down")
                           /\ InSlot(d)' <=> InSlot(d)
                           /\ Held(d)' <=> Held(d)
      BY <1>1, <2>1, <2>3 DEF Sent, Looked, Unheard, InSlot, OnLink, Held
    <2>5. \A d \in Calls : Open(d)' => Open(d)
      BY <1>4, <1>6, <2>4 DEF Open
    <2>6. \A d \in Calls, i, j \in Places(toServer)' : SentAt(d, i)' /\ SentAt(d, j)' => i = j
      <3>1. \A i \in Places(toServer) : ~SentAt(c, i)
        BY <1>6 DEF Unheard, Sent
      <3> QED
        BY <2>3, <3>1 DEF Exchanges
    <2>7. \A d \in Calls : ~(Asked(d)' /\ InSlot(d)') /\ ~(Asked(d)' /\ Unheard(d)')
      BY <1>4, <2>4 DEF Exchanges
    <2>8. \A d \in Calls : ~(Held(d)' /\ Unheard(d)') /\ ~(Sent(d)' /\ Looked(d)')
      BY <1>6, <2>4 DEF Exchanges, Unheard, Held
    <2>9. \A d \in Calls : /\ Asked(d)' \/ InSlot(d)' => command'[d].link = link'
                           /\ Unheard(d)' => Here(d)'
      <3>1. phase[c] # "idle"
        BY <1>6 DEF Exchanges
      <3> QED
        BY <1>1, <1>4, <1>6, <2>4, <3>1 DEF Exchanges, Here
    <2>10. \A d \in Calls : Open(d)' => mail'[d] = NoMail /\ phase'[d] \in {"waiting", "timedout", "lost"}
      BY <1>1, <2>5 DEF Exchanges
    <2>11. \A d \in Calls, i \in Places(toServer)' : OutputAt(d, i)' => ~Asked(d)' /\ ~Held(d)'
      BY <1>4, <2>3, <2>4 DEF Exchanges
    <2> QED
      BY <1>5, <1>7, <2>6, <2>7, <2>8, <2>9, <2>10, <2>11 DEF Exchanges
  <1> QED
    BY <1>8, <1>9

(* One write of the handler: its result, or its next output.               *)
Result(c) == ResultMsg(c, exec.reply.outcome, exec.reply.replacement)
Output(c) ==
    OutputMsg(c, BoundTo(c, exec.reply.replacement), exec.sent, exec.sent = exec.reply.outputs)

LEMMA ReplyWritten ==
    ASSUME OnceInv, SentIsOK, Next, WriteReply
    PROVE  /\ UNCHANGED <<link, serverState, clientState, reader, mail, phase, command, routes, expired,
                          toClient>>
           /\ clientState # "down" /\ exec # NoExec /\ exec.at = "writing" /\ exec.sent \in Nat
           /\ \/ exec' = NoExec
              \/ /\ exec' # NoExec /\ exec'.call = exec.call /\ exec'.command = exec.command
                 /\ exec'.reply = exec.reply /\ exec'.sent = exec.sent + 1 /\ exec'.at = "writing"
                 /\ exec.sent # exec.reply.outputs
           /\ \E c \in Calls :
                 /\ exec.call = c /\ InSlot(c)
                 /\ exec.sent = 0 => ServerAdds(Result(c))
                 /\ exec.sent # 0 => ServerAdds(Output(c))
  <1> USE DEF OnceInv
  <1>1. /\ UNCHANGED <<link, serverState, clientState, reader, mail, phase, command, routes, expired,
                       toClient>>
        /\ clientState # "down" /\ exec # NoExec /\ exec.at = "writing"
        /\ exec.command.link = link
    BY DEF WriteReply, SessionAlive, tables, callVars, serverVars
  <1>2. exec.sent \in Nat /\ exec.call \in Calls
    BY <1>1, ExecFields, LinkAssumption DEF Base, TypeOK
  <1>3. \/ exec' = NoExec
        \/ /\ exec' # NoExec /\ exec'.call = exec.call /\ exec'.command = exec.command
           /\ exec'.reply = exec.reply /\ exec'.sent = exec.sent + 1 /\ exec'.at = "writing"
           /\ exec.sent # exec.reply.outputs
    BY PartsOfExec DEF WriteReply
  <1>4. InSlot(exec.call)
    BY <1>1 DEF InSlot, OnLink
  <1>5. exec.command.session = command[exec.call].session
    BY <1>1 DEF AnswersTruthful, IsFor
  <1>6. ServerAdds(Envelope(exec.sent))
    BY ServerMoves
  <1>7. /\ exec.sent = 0 => Envelope(exec.sent) = Result(exec.call)
        /\ exec.sent # 0 => Envelope(exec.sent) = Output(exec.call)
    BY <1>1, <1>5, EnvelopeIs DEF Base, Result, Output, BoundTo
  <1> QED
    BY <1>1, <1>2, <1>3, <1>4, <1>6, <1>7

LEMMA ExchangesOfReply ==
    ASSUME OnceInv, Exchanges, OutputsFollowOK, Next, WriteReply
    PROVE  Exchanges'
  <1> USE DEF OnceInv
  <1>0. TypeOK /\ SentIsOK
    BY DEF Base, Exchanges
  <1>1. /\ UNCHANGED <<link, serverState, clientState, reader, mail, phase, command, toClient>>
        /\ clientState # "down" /\ exec # NoExec /\ exec.at = "writing" /\ exec.sent \in Nat
    BY <1>0, ReplyWritten
  <1>2. PICK c \in Calls :
           /\ exec.call = c /\ InSlot(c)
           /\ exec.sent = 0 => ServerAdds(Result(c))
           /\ exec.sent # 0 => ServerAdds(Output(c))
    BY <1>0, ReplyWritten
  <1>3. \A d \in Calls : /\ InSlot(d)' => d = c
                         /\ ~Held(d)'
                         /\ Asked(d)' => Asked(d)
                         /\ Looked(d)' <=> Looked(d)
    <2>1. exec' # NoExec => exec'.call = c /\ exec'.sent = exec.sent + 1
      BY <1>0, <1>2, ReplyWritten
    <2>2. exec.sent + 1 # 0
      BY <1>1
    <2>3. Places(toClient)' = Places(toClient)
      BY <1>1 DEF Places
    <2> QED
      BY <1>1, <2>1, <2>2, <2>3 DEF InSlot, OnLink, Held, Asked, AskedAt, Looked
  <1>4. SentIsOK'
    BY <1>0, SentKept
  <1>5. \A d \in Calls, i, j \in Places(toClient)' : AskedAt(d, i)' /\ AskedAt(d, j)' => i = j
    BY <1>1 DEF Exchanges, AskedAt, Places
  <1>6. command[c].link = link /\ ~Asked(c)
    BY <1>2 DEF Exchanges
  <1>7. CASE exec.sent = 0
    <2>1. PICK m : ServerAdds(m) /\ m.type = "result" /\ m.call = c
      BY <1>2, <1>7, PartsOfMessages DEF Result
    <2>2. \A d \in Calls, i \in Places(toServer)' :
             /\ SentAt(d, i)' =>
                   \/ i \in Places(toServer) /\ SentAt(d, i)
                   \/ serverState # "down" /\ d = c /\ i = Len(toServer) + 1
             /\ OutputAt(d, i)' => i \in Places(toServer) /\ OutputAt(d, i)
      BY <1>0, <2>1, AddedIs
    <2>3. Held(c)
      BY <1>2, <1>7 DEF Held
    <2>4. ~Unheard(c) /\ Open(c)
      BY <2>3 DEF Exchanges, Open
    <2>5. \A d \in Calls : /\ Sent(d)' => Sent(d) \/ (d = c /\ serverState # "down")
                           /\ Unheard(d)' => Unheard(d) \/ (d = c /\ serverState # "down")
      BY <1>3, <2>2 DEF Sent, Unheard
    <2>6. \A d \in Calls : Open(d)' => Open(d)
      BY <1>3, <2>4, <2>5 DEF Open
    <2>7. \A d \in Calls, i, j \in Places(toServer)' : SentAt(d, i)' /\ SentAt(d, j)' => i = j
      <3>1. \A i \in Places(toServer) : ~SentAt(c, i)
        BY <2>4 DEF Unheard, Sent
      <3> QED
        BY <2>2, <3>1 DEF Exchanges
    <2>8. \A d \in Calls : ~(Asked(d)' /\ InSlot(d)') /\ ~(Asked(d)' /\ Unheard(d)')
      BY <1>3, <1>6, <2>5 DEF Exchanges
    <2>9. \A d \in Calls : ~(Held(d)' /\ Unheard(d)') /\ ~(Sent(d)' /\ Looked(d)')
      BY <1>3, <2>4, <2>5 DEF Exchanges, Unheard
    <2>10. \A d \in Calls : /\ Asked(d)' \/ InSlot(d)' => command'[d].link = link'
                            /\ Unheard(d)' => Here(d)'
      <3>1. phase[c] # "idle"
        BY <2>4 DEF Exchanges
      <3> QED
        BY <1>1, <1>3, <1>6, <2>5, <3>1 DEF Exchanges, Here
    <2>11. \A d \in Calls : Open(d)' => mail'[d] = NoMail /\ phase'[d] \in {"waiting", "timedout", "lost"}
      BY <1>1, <2>6 DEF Exchanges
    <2>12. \A d \in Calls, i \in Places(toServer)' : OutputAt(d, i)' => ~Asked(d)' /\ ~Held(d)'
      BY <1>3, <2>2 DEF Exchanges
    <2> QED
      BY <1>4, <1>5, <2>7, <2>8, <2>9, <2>10, <2>11, <2>12 DEF Exchanges
  <1>8. CASE exec.sent # 0
    <2>1. PICK m : ServerAdds(m) /\ m.type = "output" /\ m.call = c
      BY <1>2, <1>8, PartsOfMessages DEF Output
    <2>2. \A d \in Calls, i \in Places(toServer)' :
             /\ SentAt(d, i)' => i \in Places(toServer) /\ SentAt(d, i)
             /\ OutputAt(d, i)' => d = c \/ (i \in Places(toServer) /\ OutputAt(d, i))
      BY <1>0, <2>1, AddedIs
    <2>3. \A d \in Calls : (Sent(d)' => Sent(d)) /\ (Unheard(d)' => Unheard(d))
      BY <1>3, <2>2 DEF Sent, Unheard
    <2>4. \A d \in Calls : Open(d)' => Open(d)
      BY <1>3, <2>3 DEF Open
    <2>5. \A d \in Calls, i, j \in Places(toServer)' : SentAt(d, i)' /\ SentAt(d, j)' => i = j
      BY <2>2 DEF Exchanges
    <2>6. \A d \in Calls : ~(Asked(d)' /\ InSlot(d)') /\ ~(Asked(d)' /\ Unheard(d)')
      BY <1>3, <1>6, <2>3 DEF Exchanges
    <2>7. \A d \in Calls : ~(Held(d)' /\ Unheard(d)') /\ ~(Sent(d)' /\ Looked(d)')
      BY <1>3, <2>3 DEF Exchanges
    <2>8. \A d \in Calls : /\ Asked(d)' \/ InSlot(d)' => command'[d].link = link'
                           /\ Unheard(d)' => Here(d)'
      BY <1>1, <1>3, <1>6, <2>3 DEF Exchanges, Here
    <2>9. \A d \in Calls : Open(d)' => mail'[d] = NoMail /\ phase'[d] \in {"waiting", "timedout", "lost"}
      BY <1>1, <2>4 DEF Exchanges
    <2>10. \A d \in Calls, i \in Places(toServer)' : OutputAt(d, i)' => ~Asked(d)' /\ ~Held(d)'
      BY <1>3, <1>6, <2>2 DEF Exchanges
    <2> QED
      BY <1>4, <1>5, <2>5, <2>6, <2>7, <2>8, <2>9, <2>10 DEF Exchanges
  <1> QED
    BY <1>7, <1>8

LEMMA ExchangesKept ==
    ASSUME OnceInv, TablesInv, Exchanges, OutputsFollowOK, Next
    PROVE  Exchanges'
  <1>1. \/ Connect \/ Closes \/ Waiting \/ Accepts \/ Listens
        \/ \E c \in Calls, m \in Messages : Execute(c, m)
        \/ ReadResult \/ ReadExecute \/ WriteReply
    BY StepsAre DEF Calling, Listens, Still
  <1> QED
    BY <1>1, ExchangesOfTheRest, ExchangesOfExecute, ExchangesOfReadResult, ExchangesOfReadExecute,
       ExchangesOfReply

(* Only an OK answer is followed by outputs.                               *)
LEMMA FollowShrinks ==
    ASSUME OutputsFollowOK, NEW d \in {0, 1}, ServerMoved(d),
           \A c \in Calls : Writes(c)' => Writes(c),
           \A c \in Calls : Followed(c) =>
              /\ Looked(c)' => reader'.outcome = "ok"
              /\ mail'[c] \in {NoMail, "ok"} /\ phase'[c] \in {"waiting", "timedout", "lost", "ok"},
           \A c \in Calls, i \in Places(toServer)' : OutputAt(c, i)' => Here(c)'
    PROVE  OutputsFollowOK'
  <1>1. \A c \in Calls, i \in Places(toServer)' :
           /\ SentAt(c, i)' => /\ i + d \in Places(toServer) /\ SentAt(c, i + d)
                              /\ toServer'[i] = toServer[i + d]
           /\ OutputAt(c, i)' => i + d \in Places(toServer) /\ OutputAt(c, i + d)
    BY DEF ServerMoved, SentAt, OutputAt
  <1>2. \A c \in Calls : Followed(c)' => Followed(c)
    BY <1>1 DEF Followed
  <1>3. \A c \in Calls : Followed(c)' =>
           \A i \in Places(toServer)' : SentAt(c, i)' => toServer'[i].outcome = "ok"
    BY <1>1, <1>2 DEF OutputsFollowOK, ResultOK
  <1>4. \A c \in Calls : Followed(c)' => ResultOK(c)'
    BY <1>2, <1>3 DEF ResultOK
  <1> QED
    BY <1>4 DEF OutputsFollowOK

LEMMA FollowOKOfTheRest ==
    ASSUME OnceInv, TablesInv, Exchanges, OutputsFollowOK, Next,
           Connect \/ Closes \/ Calling \/ Accepts \/ Listens \/ ReadResult
    PROVE  OutputsFollowOK'
  <1> USE DEF OnceInv
  <1>0. TypeOK /\ SentIsOK
    BY DEF Base, Exchanges
  <1>1. SlotKept
    BY <1>0, SlotMoves, StillAre
  <1>2. \A c \in Calls : Writes(c)' => Writes(c)
    BY <1>1 DEF SlotKept
  <1>3. PICK d \in {0, 1} : ServerMoved(d)
    BY <1>0, ServerMoves, StillAre
  <1>4. \A c \in Calls, i \in Places(toServer)' : OutputAt(c, i)' =>
           /\ i + d \in Places(toServer) /\ OutputAt(c, i + d) /\ Here(c)
    BY <1>3 DEF ServerMoved, OutputAt, OutputsFollowOK
  <1>5. CASE Connect
    <2>1. serverState = "down" /\ UNCHANGED <<phase, mail, reader>>
      BY <1>5 DEF Connect, tables, callVars, serverVars
    <2>2. \A c \in Calls, i \in Places(toServer)' : ~OutputAt(c, i)'
      BY <1>4, <2>1 DEF Here
    <2> QED
      BY <1>2, <1>3, <2>1, <2>2, FollowShrinks DEF OutputsFollowOK, ResultOK, Looked
  <1>6. CASE Closes
    <2>1. /\ reader' = NoMessage /\ Places(toServer)' = {} /\ mail' = mail
          /\ \A c \in Calls : phase'[c] = phase[c] \/ phase'[c] = "lost"
      BY <1>0, <1>6, NoPlaces DEF Closes, CloseServer, ServerRestart, TypeOK, Places
    <2> QED
      BY <1>2, <1>3, <2>1, FollowShrinks DEF OutputsFollowOK, ResultOK, Looked
  <1>7. CASE Waiting
    <2>1. UNCHANGED <<link, serverState, command, reader>>
      BY <1>7 DEF Waiting, TimeOut, LoseCall, TakeResult, RemoveCommand, ForgetExpired, net, callVars,
         serverVars
    <2>2. \A c \in Calls :
             \/ UNCHANGED <<phase[c], mail[c]>>
             \/ mail'[c] = mail[c] /\ phase'[c] \in {"timedout", "lost"}
             \/ mail[c] # NoMail /\ phase'[c] = mail[c] /\ mail'[c] = NoMail
      BY <1>0, <1>7 DEF Waiting, TimeOut, LoseCall, TakeResult, RemoveCommand,
         ForgetExpired, tables, callVars, TypeOK
    <2>3. \A c \in Calls : Here(c) => Here(c)'
      BY <1>0, <2>1, <2>2 DEF Here, TypeOK, Outcomes
    <2>4. \A c \in Calls : Followed(c) =>
             /\ Looked(c)' => reader'.outcome = "ok"
             /\ mail'[c] \in {NoMail, "ok"} /\ phase'[c] \in {"waiting", "timedout", "lost", "ok"}
      BY <2>1, <2>2 DEF OutputsFollowOK, ResultOK, Looked
    <2> QED
      BY <1>2, <1>3, <1>4, <2>3, <2>4, FollowShrinks
  <1>8. ASSUME NEW c \in Calls, NEW m \in Messages, Execute(c, m)
        PROVE  OutputsFollowOK'
    <2>1. /\ UNCHANGED <<link, serverState, reader, mail>>
          /\ phase[c] = "idle" /\ \A e \in Calls \ {c} : phase'[e] = phase[e] /\ command'[e] = command[e]
      BY <1>0, <1>8 DEF Execute, TypeOK, serverVars
    <2>2. ~Followed(c) /\ ~Here(c)
      BY <2>1 DEF OutputsFollowOK, ResultOK, Here
    <2>3. \A e \in Calls : Here(e) => Here(e)'
      BY <2>1, <2>2 DEF Here
    <2>4. \A e \in Calls : Followed(e) =>
             /\ Looked(e)' => reader'.outcome = "ok"
             /\ mail'[e] \in {NoMail, "ok"} /\ phase'[e] \in {"waiting", "timedout", "lost", "ok"}
      BY <2>1, <2>2 DEF OutputsFollowOK, ResultOK, Looked
    <2> QED
      BY <1>2, <1>3, <1>4, <2>3, <2>4, FollowShrinks
  <1>9. CASE Accepts
    <2>1. /\ reader' = NoMessage /\ UNCHANGED <<link, serverState, phase, command>>
          /\ \A c \in Calls : mail'[c] = mail[c] \/ (Looked(c) /\ mail'[c] = reader.outcome)
      BY <1>9, AcceptsAre DEF net, Accepts, Looked
    <2>2. \A c \in Calls : Followed(c) =>
             /\ Looked(c)' => reader'.outcome = "ok"
             /\ mail'[c] \in {NoMail, "ok"} /\ phase'[c] \in {"waiting", "timedout", "lost", "ok"}
      BY <2>1 DEF OutputsFollowOK, ResultOK, Looked
    <2>3. \A c \in Calls : Here(c) => Here(c)'
      BY <2>1 DEF Here
    <2> QED
      BY <1>2, <1>3, <1>4, <2>2, <2>3, FollowShrinks
  <1>10. CASE Listens
    <2>1. UNCHANGED <<link, phase, command, mail, reader>> /\ (serverState' = "down" <=> serverState = "down")
      BY <1>0, <1>10, StillAre
    <2>2. /\ \A c \in Calls : Here(c) => Here(c)'
          /\ \A c \in Calls : Followed(c) =>
                /\ Looked(c)' => reader'.outcome = "ok"
                /\ mail'[c] \in {NoMail, "ok"} /\ phase'[c] \in {"waiting", "timedout", "lost", "ok"}
      BY <2>1 DEF OutputsFollowOK, ResultOK, Looked, Here
    <2> QED
      BY <1>2, <1>3, <1>4, <2>2, FollowShrinks
  <1>11. CASE ReadResult
    <2>1. /\ UNCHANGED <<link, serverState, mail, phase, command>>
          /\ toServer # <<>> /\ Received.type = "result" /\ reader' \in {NoMessage, Received}
      BY <1>11 DEF ReadResult, Arrived, Received, tables, callVars
    <2>2. 1 \in Places(toServer) /\ Received = toServer[1]
      BY <1>0, <2>1, TailPlaces DEF TypeOK, Received
    <2>3. \A c \in Calls : Looked(c)' => SentAt(c, 1) /\ reader' = toServer[1]
      BY <2>1, <2>2 DEF Looked, SentAt
    <2>4. \A c \in Calls : Followed(c) =>
             /\ Looked(c)' => reader'.outcome = "ok"
             /\ mail'[c] \in {NoMail, "ok"} /\ phase'[c] \in {"waiting", "timedout", "lost", "ok"}
      BY <2>1, <2>2, <2>3 DEF OutputsFollowOK, ResultOK
    <2>5. \A c \in Calls : Here(c) => Here(c)'
      BY <2>1 DEF Here
    <2> QED
      BY <1>2, <1>3, <1>4, <2>4, <2>5, FollowShrinks
  <1> QED
    BY <1>5, <1>6, <1>7, <1>8, <1>9, <1>10, <1>11 DEF Calling

LEMMA FollowOKOfReadExecute ==
    ASSUME OnceInv, Exchanges, OutputsFollowOK, Next, ReadExecute
    PROVE  OutputsFollowOK'
  <1> USE DEF OnceInv
  <1>0. TypeOK /\ SentIsOK
    BY DEF Base, Exchanges
  <1>1. UNCHANGED <<link, serverState, clientState, reader, mail, phase, command>>
    BY <1>0, TakenOrBusy
  <1>2. PICK c \in Calls :
           /\ 1 \in Places(toClient) /\ AskedAt(c, 1)
           /\ \/ /\ exec = NoExec /\ ServerMoved(0) /\ ServerKept(0)
                 /\ exec'.call = c /\ exec'.sent = 0 /\ exec'.at # "writing"
              \/ /\ exec # NoExec /\ exec' = exec
                 /\ ServerAdds(ResultMsg(c, "rejected", NoSession))
    BY <1>0, TakenOrBusy
  <1>3. /\ \A d \in Calls : Here(d) => Here(d)'
        /\ \A d \in Calls : Followed(d) =>
              /\ Looked(d)' => reader'.outcome = "ok"
              /\ mail'[d] \in {NoMail, "ok"} /\ phase'[d] \in {"waiting", "timedout", "lost", "ok"}
    BY <1>1 DEF OutputsFollowOK, ResultOK, Looked, Here
  <1>4. \A d \in Calls : Writes(d)' => Writes(d)
    BY <1>1, <1>2 DEF Writes, InSlot, OnLink
  <1>5. CASE exec = NoExec
    <2>1. ServerMoved(0)
      BY <1>2, <1>5
    <2>2. \A d \in Calls, i \in Places(toServer)' : OutputAt(d, i)' => Here(d)'
      BY <1>3, <2>1 DEF ServerMoved, OutputAt, OutputsFollowOK
    <2> QED
      BY <1>3, <1>4, <2>1, <2>2, FollowShrinks
  <1>6. CASE exec # NoExec
    <2>1. PICK m : ServerAdds(m) /\ m.type = "result" /\ m.call = c
      BY <1>2, <1>6, PartsOfMessages
    <2>2. \A d \in Calls, i \in Places(toServer)' :
             /\ SentAt(d, i)' =>
                   \/ i \in Places(toServer) /\ SentAt(d, i) /\ toServer'[i] = toServer[i]
                   \/ d = c
             /\ OutputAt(d, i)' => i \in Places(toServer) /\ OutputAt(d, i)
      BY <1>0, <2>1, AddedIs
    <2>3. Asked(c)
      BY <1>2 DEF Asked
    <2>4. ~Followed(c)
      BY <2>3 DEF Exchanges, Followed, Writes
    <2>5. \A d \in Calls : Followed(d)' => Followed(d)
      BY <1>4, <2>2 DEF Followed
    <2>6. \A d \in Calls : Followed(d)' => ResultOK(d)'
      BY <1>3, <2>2, <2>4, <2>5 DEF OutputsFollowOK, ResultOK
    <2> QED
      BY <1>3, <2>2, <2>6 DEF OutputsFollowOK
  <1> QED
    BY <1>5, <1>6

LEMMA FollowOKOfReply ==
    ASSUME OnceInv, Exchanges, OutputsFollowOK, Next, WriteReply
    PROVE  OutputsFollowOK'
  <1> USE DEF OnceInv
  <1>0. TypeOK /\ SentIsOK
    BY DEF Base, Exchanges
  <1>1. /\ UNCHANGED <<link, serverState, clientState, reader, mail, phase, command>>
        /\ clientState # "down" /\ exec # NoExec /\ exec.at = "writing" /\ exec.sent \in Nat
    BY <1>0, ReplyWritten
  <1>2. PICK c \in Calls :
           /\ exec.call = c /\ InSlot(c)
           /\ exec.sent = 0 => ServerAdds(Result(c))
           /\ exec.sent # 0 => ServerAdds(Output(c))
    BY <1>0, ReplyWritten
  <1>3. exec' # NoExec =>
           /\ exec'.call = c /\ exec'.command = exec.command /\ exec'.reply = exec.reply
           /\ exec'.sent = exec.sent + 1 /\ exec'.at = "writing" /\ exec.sent # exec.reply.outputs
    BY <1>0, <1>2, ReplyWritten
  <1>4. \A d \in Calls : Writes(d)' => d = c /\ exec' # NoExec
    BY <1>3 DEF Writes, InSlot, OnLink
  <1>5. \A d \in Calls : /\ Here(d)' <=> Here(d)
                         /\ Looked(d)' <=> Looked(d)
    BY <1>1 DEF Here, Looked
  <1>6. command[c].link = link
    BY <1>2 DEF Exchanges
  <1>7. CASE exec.sent = 0
    <2>1. PICK m : ServerAdds(m) /\ m.type = "result" /\ m.call = c /\ m.outcome = exec.reply.outcome
      BY <1>2, <1>7, PartsOfMessages DEF Result
    <2>2. \A d \in Calls, i \in Places(toServer)' :
             /\ SentAt(d, i)' =>
                   \/ i \in Places(toServer) /\ SentAt(d, i) /\ toServer'[i] = toServer[i]
                   \/ d = c /\ toServer'[i] = m
             /\ OutputAt(d, i)' => i \in Places(toServer) /\ OutputAt(d, i)
      BY <1>0, <2>1, AddedIs
    <2>3. Held(c) /\ Open(c)
      BY <1>2, <1>7 DEF Held, Open
    <2>4. /\ ~Unheard(c) /\ mail[c] = NoMail /\ phase[c] \in {"waiting", "timedout", "lost"}
          /\ \A i \in Places(toServer) : ~OutputAt(c, i)
      BY <2>3 DEF Exchanges
    <2>5. ASSUME Writes(c)'
          PROVE  ResultOK(c)'
      <3>1. exec.reply.outputs # 0
        BY <1>3, <1>4, <1>7, <2>5
      <3>2. m.outcome = "ok"
        BY <1>1, <2>1, <3>1 DEF Base, RepliesProper, Proper
      <3> QED
        BY <1>1, <1>5, <2>2, <2>4, <3>2 DEF ResultOK, Unheard, Sent
    <2>6. \A d \in Calls \ {c} : Followed(d)' => Followed(d)
      BY <1>4, <2>2 DEF Followed
    <2>7. \A d \in Calls \ {c} : Followed(d)' => ResultOK(d)'
      BY <1>1, <1>5, <2>2, <2>6 DEF OutputsFollowOK, ResultOK
    <2>8. Followed(c)' => Writes(c)'
      BY <2>2, <2>4 DEF Followed
    <2>9. \A d \in Calls, i \in Places(toServer)' : OutputAt(d, i)' => Here(d)'
      BY <1>5, <2>2 DEF OutputsFollowOK
    <2> QED
      BY <2>5, <2>7, <2>8, <2>9 DEF OutputsFollowOK
  <1>8. CASE exec.sent # 0
    <2>1. PICK m : ServerAdds(m) /\ m.type = "output" /\ m.call = c
      BY <1>2, <1>8, PartsOfMessages DEF Output
    <2>2. \A d \in Calls, i \in Places(toServer)' :
             /\ SentAt(d, i)' => i \in Places(toServer) /\ SentAt(d, i) /\ toServer'[i] = toServer[i]
             /\ OutputAt(d, i)' =>
                   \/ i \in Places(toServer) /\ OutputAt(d, i)
                   \/ d = c /\ serverState # "down"
      BY <1>0, <2>1, AddedIs
    <2>3. Writes(c) /\ Followed(c)
      BY <1>1, <1>2, <1>8 DEF Writes, Followed
    <2>4. \A d \in Calls : Followed(d)' => Followed(d)
      BY <1>4, <2>2, <2>3 DEF Followed
    <2>5. \A d \in Calls : Followed(d)' => ResultOK(d)'
      BY <1>1, <1>5, <2>2, <2>4 DEF OutputsFollowOK, ResultOK
    <2>6. phase[c] # "idle"
      BY <2>3 DEF OutputsFollowOK, ResultOK
    <2>7. serverState # "down" => Here(c)
      BY <1>6, <2>6 DEF Here
    <2>8. \A d \in Calls, i \in Places(toServer)' : OutputAt(d, i)' => Here(d)'
      BY <1>5, <2>2, <2>7 DEF OutputsFollowOK
    <2> QED
      BY <2>5, <2>8 DEF OutputsFollowOK
  <1> QED
    BY <1>7, <1>8

LEMMA FollowOKKept ==
    ASSUME OnceInv, TablesInv, Exchanges, OutputsFollowOK, Next
    PROVE  OutputsFollowOK'
  <1>1. \/ Connect \/ Closes \/ Calling \/ Accepts \/ Listens \/ ReadResult
        \/ ReadExecute \/ WriteReply
    BY StepsAre DEF Listens, Still
  <1> QED
    BY <1>1, FollowOKOfTheRest, FollowOKOfReadExecute, FollowOKOfReply

(* Until its result is taken, a call's route is as it was made; and result *)
(* and outputs are for the same session.                                   *)
LEMMA SpeakShrinks ==
    ASSUME RoutesNotAhead, NEW d \in {0, 1}, ServerMoved(d),
           \A c \in Calls : Writes(c)' => Writes(c) /\ exec'.reply = exec.reply,
           \A c \in Calls : Open(c)' => Fresh(c)',
           \A c \in Calls : Followed(c) => command'[c] = command[c],
           \A c \in Calls : \A s : Followed(c) /\ Speaks(c, s) => Speaks(c, s)'
    PROVE  RoutesNotAhead'
  <1>1. \A c \in Calls, i \in Places(toServer)' :
           /\ SentAt(c, i)' => i \in Nat /\ i + d \in Places(toServer) /\ SentAt(c, i + d)
           /\ OutputAt(c, i)' => /\ i \in Nat /\ i + d \in Places(toServer) /\ OutputAt(c, i + d)
                                /\ toServer'[i] = toServer[i + d]
    BY DEF ServerMoved, SentAt, OutputAt
  <1>2. ASSUME NEW c \in Calls, NEW i \in Places(toServer)', OutputAt(c, i)'
        PROVE  Speaks(c, toServer[i].session)'
    <2>1. PICK s : s = toServer[i + d].session
      OBVIOUS
    <2>2. Followed(c) /\ Speaks(c, s)
      BY <1>1, <1>2, <2>1 DEF Followed, RoutesNotAhead
    <2>3. Speaks(c, s)' /\ s = toServer'[i].session
      BY <1>1, <1>2, <2>1, <2>2
    <2> QED
      BY <2>3 DEF Speaks
  <1>3. ASSUME NEW c \in Calls, Writes(c)'
        PROVE  Speaks(c, BoundTo(c, exec.reply.replacement))'
    <2>1. PICK s : s = BoundTo(c, exec.reply.replacement)
      OBVIOUS
    <2>2. Followed(c) /\ Speaks(c, s)
      BY <1>3, <2>1 DEF Followed, RoutesNotAhead
    <2>3. Speaks(c, s)' /\ s = BoundTo(c, exec.reply.replacement)'
      BY <1>3, <2>1, <2>2 DEF BoundTo
    <2> QED
      BY <2>3 DEF Speaks
  <1>4. ASSUME NEW c \in Calls, NEW i \in Places(toServer)', NEW j \in Places(toServer)',
               SentAt(c, i)', OutputAt(c, j)'
        PROVE  i < j
    <2>1. i + d < j + d /\ i \in Nat /\ j \in Nat
      BY <1>1, <1>4 DEF RoutesNotAhead
    <2> QED
      BY <2>1
  <1> QED
    BY <1>2, <1>3, <1>4 DEF RoutesNotAhead

LEMMA SpeaksOn ==
    ASSUME NEW d \in {0, 1}, ServerMoved(d), NEW c \in Calls, NEW s, Speaks(c, s),
           command'[c] = command[c],
           Looked(c)' => \/ Looked(c) /\ reader' = reader
                         \/ \E k \in Places(toServer) : SentAt(c, k) /\ reader' = toServer[k],
           ~Unheard(c)' /\ Counted(c)' =>
              ~Unheard(c) /\ Counted(c) /\ routes'[c].session = routes[c].session
    PROVE  Speaks(c, s)'
  <1>1. \A i \in Places(toServer)' : SentAt(c, i)' =>
           i + d \in Places(toServer) /\ SentAt(c, i + d) /\ toServer'[i] = toServer[i + d]
    BY DEF ServerMoved, SentAt
  <1>2. \A r : BoundTo(c, r)' = IF r = NoSession THEN command[c].session ELSE r
    BY DEF BoundTo
  <1>3. \A i \in Places(toServer)' : SentAt(c, i)' => s = BoundTo(c, toServer[i].replacement)'
    BY <1>1 DEF Speaks, BoundTo
  <1>4. Looked(c)' => s = BoundTo(c, reader.replacement)'
    BY DEF Speaks, BoundTo
  <1>5. ~Unheard(c)' /\ routes'[c] # NoRoute /\ c \notin expired' => routes'[c].session = s
    BY DEF Speaks, Counted
  <1> QED
    BY <1>3, <1>4, <1>5 DEF Speaks

(* Results that stay in the queue.                                         *)
LEMMA SentStays ==
    ASSUME NEW d \in {0, 1}, ServerKept(d), NEW c \in Calls, Sent(c),
           d = 1 => ~SentAt(c, 1)
    PROVE  Sent(c)'
  <1>1. PICK k \in Places(toServer) : SentAt(c, k)
    BY DEF Sent
  <1>2. k - d \in Places(toServer)' /\ toServer'[k - d] = toServer[k]
    BY <1>1 DEF ServerKept
  <1>3. SentAt(c, k - d)'
    BY <1>1, <1>2 DEF SentAt
  <1> QED
    BY <1>2, <1>3 DEF Sent

(* Where a route still counts, a step of Waiting has not touched it.       *)
LEMMA WaitingCounts ==
    ASSUME OnceInv, TablesInv, Next, Waiting, NEW c \in Calls
    PROVE  /\ routes'[c] = routes[c] \/ routes'[c] = NoRoute
           /\ Counted(c)' => Counted(c) /\ routes'[c] = routes[c]
           /\ UNCHANGED <<toServer, serverState, reader, command, exec, link, clientState>>
  <1>0. TypeOK
    BY DEF OnceInv, Base
  <1>1. UNCHANGED <<toServer, serverState, reader, command, exec, link, clientState>>
    BY DEF Waiting, TimeOut, LoseCall, TakeResult, RemoveCommand, ForgetExpired, net, callVars, serverVars,
       clientVars, execVars
  <1>2. \/ UNCHANGED <<routes>> /\ expired \subseteq expired'
        \/ \E e \in Calls : /\ routes' = [routes EXCEPT ![e] = NoRoute]
                            /\ expired' = expired
        \/ \E e \in expired \ withdrawing : /\ expired' = expired \ {e}
                                             /\ UNCHANGED <<routes>>
    BY DEF Waiting, TimeOut, LoseCall, TakeResult, RemoveCommand, ForgetExpired, tables
  <1>3. \A e \in expired \ withdrawing : routes[e] = NoRoute
    BY <1>0 DEF TablesInv, RoutesFollowRequests, TypeOK
  <1> QED
    BY <1>0, <1>1, <1>2, <1>3 DEF Counted, TypeOK

LEMMA RoutesOfTheRest ==
    ASSUME OnceInv, TablesInv, Exchanges, OutputsFollowOK, RoutesNotAhead, Next,
           Connect \/ Closes \/ Calling \/ Accepts \/ Listens \/ ReadResult
    PROVE  RoutesNotAhead'
  <1> USE DEF OnceInv
  <1>0. TypeOK /\ SentIsOK
    BY DEF Base, Exchanges
  <1>1. SlotKept
    BY <1>0, SlotMoves, StillAre
  <1>2. \A c \in Calls : Writes(c)' => Writes(c) /\ exec'.reply = exec.reply
    BY <1>1 DEF SlotKept
  <1>3. \E d \in {0, 1} : ServerMoved(d)
    BY <1>0, ServerMoves, StillAre
  <1>4. CASE Connect
    <2>1. PICK d \in {0, 1} : ServerMoved(d)
      BY <1>3
    <2>2. serverState = "down" /\ UNCHANGED <<routes, reader>> /\ clientState = "down" /\ ClientMoved(0)
      BY <1>4, ClientMoves DEF Connect, tables, serverVars
    <2>3. toClient = <<>> /\ \A c \in Calls : ~InSlot(c) /\ ~Unheard(c)
      BY <2>2 DEF Base, EndsDown, InSlot, OnLink, Exchanges, Here
    <2>4. \A c \in Calls : ~Open(c) /\ ~Followed(c)
      <3>1. \A c \in Calls : ~Asked(c)
        BY <2>3, NoPlaces DEF Asked
      <3>2. \A c \in Calls, i \in Places(toServer) : ~OutputAt(c, i)
        BY <2>2 DEF OutputsFollowOK, Here
      <3> QED
        BY <2>3, <3>1, <3>2 DEF Open, Held, Followed, Writes
    <2>5. \A c \in Calls : Looked(c)' => Looked(c)
      BY <2>2 DEF Looked
    <2>6. \A c \in Calls : ~Open(c)'
      BY <1>1, <2>1, <2>2, <2>4, <2>5, Shrinks
    <2> QED
      BY <1>2, <2>1, <2>4, <2>6, SpeakShrinks
  <1>5. CASE Closes
    <2>1. /\ ServerMoved(0) /\ Places(toServer)' = {} /\ reader' = NoMessage /\ command' = command
          /\ \A c \in Calls : routes'[c] = NoRoute
      BY <1>0, <1>5, ServerMoves, NoPlaces DEF Closes, CloseServer, Places
    <2>2. \A c \in Calls : Fresh(c)'
      BY <2>1 DEF Fresh
    <2>3. \A c \in Calls : \A s : Speaks(c, s)'
      BY <2>1 DEF Speaks, Looked
    <2> QED
      BY <1>2, <2>1, <2>2, <2>3, SpeakShrinks
  <1>6. CASE Waiting
    <2>1. ServerMoved(0) /\ ServerKept(0) /\ ClientMoved(0)
      BY <1>6, ServerMoves, ClientMoves DEF Calling
    <2>2. \A c \in Calls :
             /\ routes'[c] = routes[c] \/ routes'[c] = NoRoute
             /\ Counted(c)' => Counted(c) /\ routes'[c] = routes[c]
             /\ UNCHANGED <<toServer, serverState, reader, command>>
      BY <1>6, WaitingCounts
    <2>3. \A c \in Calls : /\ Looked(c)' <=> Looked(c)
                           /\ command'[c] = command[c]
      BY <2>2 DEF Looked
    <2>4. \A c \in Calls : Open(c)' => Fresh(c)'
      <3>1. \A c \in Calls : Open(c)' => Open(c)
        BY <1>1, <2>1, <2>3, Shrinks
      <3> QED
        BY <2>2, <2>3, <3>1 DEF RoutesNotAhead, Fresh
    <2>5. \A c \in Calls : Unheard(c) => Unheard(c)'
      BY <2>1, <2>3, SentStays DEF Unheard
    <2>6. \A c \in Calls : \A s : Speaks(c, s) => Speaks(c, s)'
      BY <2>1, <2>2, <2>3, <2>5, SpeaksOn
    <2> QED
      BY <1>2, <2>1, <2>3, <2>4, <2>6, SpeakShrinks
  <1>7. ASSUME NEW c \in Calls, NEW m \in Messages, Execute(c, m)
        PROVE  RoutesNotAhead'
    <2>1. /\ phase[c] = "idle" /\ directory \in Sessions
          /\ command'[c] = Command(m, directory, link) /\ routes'[c] = Route(directory, 1, FALSE)
          /\ \A e \in Calls \ {c} : command'[e] = command[e] /\ routes'[e] = routes[e]
          /\ UNCHANGED <<toServer, expired, reader, exec, clientState, link>>
      BY <1>0, <1>7 DEF Execute, TypeOK, Base, EndsDown, serverVars, clientVars, execVars
    <2>2. ServerMoved(0) /\ ServerKept(0)
      BY <1>7, ServerMoves DEF Calling
    <2>3. ~Followed(c)
      BY <2>1 DEF OutputsFollowOK, ResultOK
    <2>4. Fresh(c)'
      BY <2>1 DEF Fresh, Command
    <2>5. \A e \in Calls : /\ Looked(e)' <=> Looked(e)
                           /\ Held(e)' <=> Held(e)
      BY <2>1 DEF Looked, Held, InSlot, OnLink
    <2>6. \A e \in Calls \ {c} : Asked(e)' => Asked(e)
      <3>1. \A i \in Places(toClient)' :
               \/ i \in Places(toClient) /\ toClient'[i] = toClient[i]
               \/ toClient'[i].call = c
        BY <1>7, ClientMoves, PartsOfMessages
      <3> QED
        BY <3>1 DEF Asked, AskedAt
    <2>7. \A e \in Calls : Sent(e)' => Sent(e)
      BY <2>1 DEF Sent, SentAt, Places
    <2>8. \A e \in Calls \ {c} : Open(e)' => Open(e)
      BY <2>5, <2>6, <2>7 DEF Open, Unheard
    <2>9. \A e \in Calls : Open(e)' => Fresh(e)'
      BY <2>1, <2>4, <2>8 DEF RoutesNotAhead, Fresh
    <2>10. \A e \in Calls : Unheard(e) => Unheard(e)'
      BY <2>2, <2>5, SentStays DEF Unheard
    <2>11. \A e \in Calls \ {c} : \A s : Speaks(e, s) => Speaks(e, s)'
      <3>1. \A e \in Calls \ {c} : Counted(e)' <=> Counted(e)
        BY <2>1 DEF Counted
      <3> QED
        BY <2>1, <2>2, <2>5, <2>10, <3>1, SpeaksOn
    <2> QED
      BY <1>2, <2>1, <2>2, <2>3, <2>9, <2>11, SpeakShrinks
  <1>8. CASE Accepts
    <2>1. ServerMoved(0) /\ ServerKept(0) /\ ClientMoved(0)
      BY <1>8, ServerMoves, ClientMoves
    <2>2. PICK c \in Calls : c = reader.call
      BY <1>8, AcceptsAre
    <2>3. /\ Looked(c) /\ reader' = NoMessage /\ UNCHANGED <<command, expired>>
          /\ \A e \in Calls \ {c} : routes'[e] = routes[e] /\ ~Looked(e)
          /\ routes'[c] = IF reader.replacement = NoSession THEN routes[c]
                          ELSE Route(reader.replacement, routes[c].next, routes[c].completed)
      BY <1>8, <2>2, AcceptsAre DEF Accepts, Looked
    <2>4. \A e \in Calls : ~Looked(e)'
      BY <2>3 DEF Looked
    <2>5. \A e \in Calls : /\ Open(e)' => Open(e)
                           /\ Sent(e)' => Sent(e)
                           /\ Asked(e)' => Asked(e)
                           /\ Held(e)' => Held(e)
      BY <1>1, <2>1, <2>4, Shrinks DEF SlotKept
    <2>6. ~Sent(c) /\ ~Asked(c) /\ ~Held(c) /\ Open(c)
      BY <2>3 DEF Exchanges, Open, Unheard
    <2>7. ~Open(c)' /\ ~Sent(c)'
      BY <2>4, <2>5, <2>6 DEF Open, Unheard
    <2>8. \A e \in Calls : Open(e)' => Fresh(e)'
      BY <2>3, <2>5, <2>7 DEF RoutesNotAhead, Fresh
    <2>9. \A e \in Calls \ {c} : \A s : Speaks(e, s) => Speaks(e, s)'
      <3>1. \A e \in Calls \ {c} : /\ Counted(e)' <=> Counted(e)
                                   /\ Unheard(e) => Unheard(e)'
        BY <2>1, <2>3, SentStays DEF Counted, Unheard
      <3> QED
        BY <2>1, <2>3, <2>4, <3>1, SpeaksOn
    <2>10. ASSUME NEW s, Speaks(c, s)
           PROVE  Speaks(c, s)'
      <3>1. s = BoundTo(c, reader.replacement)
        BY <2>3, <2>10 DEF Speaks
      <3>2. routes'[c] # NoRoute => routes'[c].session = s
        <4>1. CASE reader.replacement = NoSession
          <5>1. routes[c] # NoRoute => routes[c] = Route(command[c].session, 1, FALSE)
            BY <2>6 DEF RoutesNotAhead, Fresh
          <5>2. Route(command[c].session, 1, FALSE).session = s
            BY <3>1, <4>1 DEF Route, BoundTo
          <5> QED
            BY <2>3, <4>1, <5>1, <5>2
        <4>2. CASE reader.replacement # NoSession
          BY <2>3, <3>1, <4>2, RoutesAre, <1>0 DEF BoundTo
        <4> QED
          BY <4>1, <4>2
      <3>3. \A i \in Places(toServer)' : ~SentAt(c, i)'
        BY <2>7 DEF Sent
      <3> QED
        BY <2>4, <3>2, <3>3 DEF Speaks
    <2>11. \A e \in Calls : \A s : Speaks(e, s) => Speaks(e, s)'
      BY <2>9, <2>10
    <2> QED
      BY <1>2, <2>1, <2>3, <2>8, <2>11, SpeakShrinks
  <1>9. CASE Listens
    <2>1. UNCHANGED <<command, expired, reader>>
      BY <1>0, <1>9, StillAre
    <2>2. PICK d \in {0, 1} :
             /\ ServerMoved(d) /\ ServerKept(d)
             /\ d = 1 => /\ toServer # <<>> /\ Received = toServer[1] /\ reader = NoMessage
                         /\ 1 \in Places(toServer)
                         /\ ReadSnapshot \/ Skips \/ Hears
      BY <1>0, <1>9, StillAre
    <2>3. PICK e \in {0, 1} : ClientMoved(e)
      BY <1>0, <1>9, StillAre
    <2>4. \A c \in Calls : Looked(c)' <=> Looked(c)
      BY <2>1 DEF Looked
    <2>5. \A c \in Calls : Open(c)' => Open(c)
      BY <1>1, <2>2, <2>3, <2>4, Shrinks
    <2>6. \A c \in Calls : d = 1 => ~SentAt(c, 1)
      BY <2>2 DEF ReadSnapshot, Skips, Hears, Arrived, Received, SentAt
    <2>7. \A c \in Calls : Unheard(c) => Unheard(c)'
      BY <2>2, <2>4, <2>6, SentStays DEF Unheard
    <2>8. \A c \in Calls : /\ Counted(c)' => Counted(c) /\ routes'[c].session = routes[c].session
                           /\ routes'[c] = routes[c] \/ ~Open(c)
      <3>1. CASE Still
        BY <1>0, <2>1, <3>1, StillAre DEF Counted, Listens
      <3>2. CASE Hears
        <4>1. PICK c \in Calls : c = Received.call
          BY <3>2, HearsAre
        <4>2. /\ routes[c] # NoRoute /\ routes[c].session = Received.session /\ c \notin expired
              /\ \A f \in Calls \ {c} : routes'[f] = routes[f]
              /\ routes'[c] = Route(Received.session, Received.sequence + 1, Received.final)
              /\ toServer # <<>> /\ Received.type = "output" /\ reader = NoMessage
          BY <3>2, <4>1, HearsAre
        <4>3. 1 \in Places(toServer) /\ OutputAt(c, 1)
          BY <1>0, <4>1, <4>2, TailPlaces DEF TypeOK, Received, OutputAt
        <4>4. ~Asked(c) /\ ~Held(c)
          BY <4>3 DEF Exchanges
        <4>5. ~Sent(c)
          <5>1. \A k \in Places(toServer) : ~(k < 1)
            BY DEF Places
          <5> QED
            BY <4>3, <5>1 DEF Sent, RoutesNotAhead
        <4>6. ~Open(c)
          BY <4>2, <4>4, <4>5 DEF Open, Unheard, Looked
        <4>7. routes'[c].session = routes[c].session
          BY <4>2, RoutesAre, <1>0
        <4> QED
          BY <2>1, <4>2, <4>6, <4>7 DEF Counted
      <3> QED
        BY <1>9, <3>1, <3>2 DEF Listens
    <2>9. \A c \in Calls : Open(c)' => Fresh(c)'
      BY <2>1, <2>5, <2>8 DEF RoutesNotAhead, Fresh
    <2>10. \A c \in Calls : \A s : Speaks(c, s) => Speaks(c, s)'
      BY <2>1, <2>2, <2>4, <2>7, <2>8, SpeaksOn
    <2> QED
      BY <1>2, <2>1, <2>2, <2>9, <2>10, SpeakShrinks
  <1>10. CASE ReadResult
    <2>1. /\ UNCHANGED <<command, routes, expired, exec, link, clientState>>
          /\ toServer # <<>> /\ Received.type = "result"
          /\ reader = NoMessage /\ reader' = IF Received.call \in expired THEN NoMessage ELSE Received
      BY <1>10 DEF ReadResult, Arrived, Received, tables, callVars, clientVars, execVars
    <2>2. 1 \in Places(toServer) /\ Received = toServer[1] /\ Received \in ResultMessages
          /\ Received # NoMessage
      <3>1. 1 \in Places(toServer) /\ Received = toServer[1] /\ Received \in PalMessages
        BY <1>0, <2>1, TailPlaces DEF TypeOK, Received
      <3> QED
        BY <2>1, <3>1, PalMessageFields, NothingAssumption
    <2>3. ServerMoved(1) /\ ServerKept(1) /\ ClientMoved(0)
      BY <1>10, ServerMoves, ClientMoves
    <2>4. \A c \in Calls : /\ ~Looked(c)
                           /\ Looked(c)' => SentAt(c, 1) /\ reader' = toServer[1]
                           /\ SentAt(c, 1) /\ c \notin expired => Looked(c)'
      BY <2>1, <2>2 DEF Looked, SentAt
    <2>5. \A c \in Calls : Open(c)' => Open(c)
      <3>1. \A c \in Calls : (Asked(c)' => Asked(c)) /\ (Sent(c)' => Sent(c))
        BY <2>3 DEF Asked, AskedAt, Sent, SentAt, ClientMoved, ServerMoved
      <3>2. \A c \in Calls : Looked(c)' => Sent(c)
        BY <2>2, <2>4 DEF Sent
      <3> QED
        BY <1>1, <3>1, <3>2 DEF Open, Unheard, SlotKept
    <2>6. \A c \in Calls : Open(c)' => Fresh(c)'
      BY <2>1, <2>5 DEF RoutesNotAhead, Fresh
    <2>7. \A c \in Calls : c \notin expired /\ Unheard(c) => Unheard(c)'
      BY <2>3, <2>4, SentStays DEF Unheard
    <2>8. \A c \in Calls : Counted(c)' <=> Counted(c)
      BY <2>1 DEF Counted
    <2>9. \A c \in Calls : \A s : Speaks(c, s) => Speaks(c, s)'
      <3>1. \A c \in Calls : ~Unheard(c)' /\ Counted(c)' => ~Unheard(c) /\ Counted(c)
        BY <2>7, <2>8 DEF Counted
      <3> QED
        BY <2>1, <2>2, <2>3, <2>4, <3>1, SpeaksOn
    <2> QED
      BY <1>2, <2>1, <2>3, <2>6, <2>9, SpeakShrinks
  <1> QED
    BY <1>4, <1>5, <1>6, <1>7, <1>8, <1>9, <1>10 DEF Calling

LEMMA RoutesOfReadExecute ==
    ASSUME OnceInv, Exchanges, OutputsFollowOK, RoutesNotAhead, Next, ReadExecute
    PROVE  RoutesNotAhead'
  <1> USE DEF OnceInv
  <1>0. TypeOK /\ SentIsOK
    BY DEF Base, Exchanges
  <1>1. UNCHANGED <<link, clientState, reader, command, routes, expired>> /\ ClientMoved(1)
    BY <1>0, TakenOrBusy
  <1>2. PICK c \in Calls :
           /\ 1 \in Places(toClient) /\ AskedAt(c, 1)
           /\ \/ /\ exec = NoExec /\ ServerMoved(0) /\ ServerKept(0)
                 /\ exec'.call = c /\ exec'.sent = 0 /\ exec'.at # "writing"
              \/ /\ exec # NoExec /\ exec' = exec
                 /\ ServerAdds(ResultMsg(c, "rejected", NoSession))
    BY <1>0, TakenOrBusy
  <1>3. \A d \in Calls : /\ Asked(d)' => Asked(d)
                         /\ Looked(d)' <=> Looked(d)
                         /\ Counted(d)' <=> Counted(d)
                         /\ Fresh(d)' <=> Fresh(d)
    BY <1>1 DEF ClientMoved, Asked, AskedAt, Looked, Counted, Fresh
  <1>4. Asked(c) /\ Open(c)
    BY <1>2 DEF Asked, Open
  <1>5. CASE exec = NoExec
    <2>1. ServerMoved(0) /\ ServerKept(0) /\ exec'.call = c /\ exec'.sent = 0
      BY <1>2, <1>5
    <2>2. \A d \in Calls : /\ ~Writes(d)'
                           /\ Held(d)' => d = c
                           /\ Sent(d)' => Sent(d)
      BY <2>1 DEF Writes, Held, InSlot, ServerMoved, Sent, SentAt
    <2>3. \A d \in Calls : Open(d)' => Open(d)
      BY <1>3, <1>4, <2>2 DEF Open, Unheard
    <2>4. \A d \in Calls : Open(d)' => Fresh(d)'
      BY <1>3, <2>3 DEF RoutesNotAhead
    <2>5. \A d \in Calls : Unheard(d) => Unheard(d)'
      BY <1>3, <2>1, SentStays DEF Unheard
    <2>6. \A d \in Calls : \A s : Speaks(d, s) => Speaks(d, s)'
      BY <1>1, <1>3, <2>1, <2>5, SpeaksOn
    <2> QED
      BY <1>1, <2>1, <2>2, <2>4, <2>6, SpeakShrinks
  <1>6. CASE exec # NoExec
    <2>1. PICK m : ServerAdds(m) /\ m.type = "result" /\ m.call = c
      BY <1>2, <1>6, PartsOfMessages
    <2>2. \A d \in Calls, i \in Places(toServer)' :
             /\ SentAt(d, i)' =>
                   \/ i \in Places(toServer) /\ SentAt(d, i) /\ toServer'[i] = toServer[i]
                   \/ d = c
             /\ OutputAt(d, i)' =>
                   i \in Places(toServer) /\ OutputAt(d, i) /\ toServer'[i] = toServer[i]
      BY <1>0, <2>1, AddedIs
    <2>3. \A d \in Calls : /\ InSlot(d)' <=> InSlot(d)
                           /\ Held(d)' <=> Held(d)
                           /\ Writes(d)' <=> Writes(d)
      BY <1>1, <1>2, <1>6 DEF InSlot, Held, Writes, OnLink
    <2>4. \A d \in Calls : Open(d)' => Open(d)
      BY <1>3, <1>4, <2>2, <2>3 DEF Open, Unheard, Sent
    <2>5. /\ ~Writes(c)
          /\ \A i \in Places(toServer) : ~OutputAt(c, i)
      BY <1>4 DEF Exchanges, Writes
    <2>6. \A d \in Calls : Sent(d) => Sent(d)'
      BY <2>1 DEF Sent, SentAt, ServerAdds
    <2>7. ASSUME NEW d \in Calls, d # c, NEW s, Speaks(d, s)
          PROVE  Speaks(d, s)'
      BY <1>1, <1>3, <2>2, <2>6, <2>7 DEF Speaks, BoundTo, Unheard, Looked
    <2>8. \A d \in Calls : Open(d)' => Fresh(d)'
      BY <1>3, <2>4 DEF RoutesNotAhead
    <2>9. ASSUME NEW d \in Calls, NEW i \in Places(toServer)', OutputAt(d, i)'
          PROVE  Speaks(d, toServer[i].session)'
      <3>1. PICK s : s = toServer[i].session
        OBVIOUS
      <3>2. Speaks(d, s) /\ d # c /\ s = toServer'[i].session
        BY <2>2, <2>5, <2>9, <3>1 DEF RoutesNotAhead
      <3>3. Speaks(d, s)'
        BY <2>7, <3>2
      <3> QED
        BY <3>2, <3>3 DEF Speaks
    <2>10. ASSUME NEW d \in Calls, Writes(d)'
           PROVE  Speaks(d, BoundTo(d, exec.reply.replacement))'
      <3>1. PICK s : s = BoundTo(d, exec.reply.replacement)
        OBVIOUS
      <3>2. Speaks(d, s) /\ d # c
        BY <2>3, <2>5, <2>10, <3>1 DEF RoutesNotAhead
      <3>3. Speaks(d, s)' /\ s = BoundTo(d, exec.reply.replacement)'
        BY <1>1, <1>2, <1>6, <2>7, <3>1, <3>2 DEF BoundTo
      <3> QED
        BY <3>3 DEF Speaks
    <2>11. \A d \in Calls, i, j \in Places(toServer)' : SentAt(d, i)' /\ OutputAt(d, j)' => i < j
      BY <2>2, <2>5 DEF RoutesNotAhead
    <2> QED
      BY <2>8, <2>9, <2>10, <2>11 DEF RoutesNotAhead
  <1> QED
    BY <1>5, <1>6

LEMMA RoutesOfReply ==
    ASSUME OnceInv, TablesInv, Exchanges, OutputsFollowOK, RoutesNotAhead, Next, WriteReply
    PROVE  RoutesNotAhead'
  <1> USE DEF OnceInv
  <1>0. TypeOK /\ SentIsOK
    BY DEF Base, Exchanges
  <1>1. /\ UNCHANGED <<link, serverState, clientState, reader, command, routes, expired, toClient>>
        /\ exec # NoExec /\ exec.at = "writing" /\ exec.sent \in Nat
    BY <1>0, ReplyWritten
  <1>2. PICK c \in Calls :
           /\ exec.call = c /\ InSlot(c)
           /\ exec.sent = 0 => ServerAdds(Result(c))
           /\ exec.sent # 0 => ServerAdds(Output(c))
    BY <1>0, ReplyWritten
  <1>3. exec' # NoExec => /\ exec'.call = c /\ exec'.command = exec.command /\ exec'.reply = exec.reply
                          /\ exec'.sent = exec.sent + 1
    BY <1>0, <1>2, ReplyWritten
  <1>4. \A d \in Calls : /\ Writes(d)' => d = c /\ exec' # NoExec /\ exec'.reply = exec.reply
                         /\ ~Held(d)'
    <2>1. exec.sent + 1 # 0
      BY <1>1
    <2> QED
      BY <1>3, <2>1 DEF Writes, Held, InSlot, OnLink
  <1>5. \A d \in Calls : /\ Asked(d)' <=> Asked(d)
                         /\ Looked(d)' <=> Looked(d)
                         /\ Counted(d)' <=> Counted(d)
                         /\ Fresh(d)' <=> Fresh(d)
    BY <1>1 DEF Asked, AskedAt, Looked, Counted, Fresh, Places
  <1>6. CASE exec.sent = 0
    <2>1. PICK m : /\ ServerAdds(m) /\ m.type = "result" /\ m.call = c
                   /\ m.replacement = exec.reply.replacement
      BY <1>2, <1>6, PartsOfMessages DEF Result
    <2>2. \A d \in Calls, i \in Places(toServer)' :
             /\ SentAt(d, i)' =>
                   \/ i \in Places(toServer) /\ SentAt(d, i) /\ toServer'[i] = toServer[i]
                   \/ d = c /\ toServer'[i] = m
             /\ OutputAt(d, i)' =>
                   i \in Places(toServer) /\ OutputAt(d, i) /\ toServer'[i] = toServer[i]
      BY <1>0, <2>1, AddedIs
    <2>3. Held(c) /\ Open(c)
      BY <1>2, <1>6 DEF Held, Open
    <2>4. ~Unheard(c) /\ \A i \in Places(toServer) : ~OutputAt(c, i)
      BY <2>3 DEF Exchanges
    <2>5. \A d \in Calls : Open(d)' => Open(d)
      BY <1>4, <1>5, <2>2, <2>3 DEF Open, Unheard, Sent
    <2>6. \A d \in Calls : Open(d)' => Fresh(d)'
      BY <1>5, <2>5 DEF RoutesNotAhead
    <2>7. \A d \in Calls : Sent(d) => Sent(d)'
      BY <2>1 DEF Sent, SentAt, ServerAdds
    <2>8. ASSUME NEW d \in Calls, d # c, NEW s, Speaks(d, s)
          PROVE  Speaks(d, s)'
      BY <1>1, <1>5, <2>2, <2>7, <2>8 DEF Speaks, BoundTo, Unheard, Looked
    <2>9. ASSUME NEW d \in Calls, NEW i \in Places(toServer)', OutputAt(d, i)'
          PROVE  Speaks(d, toServer[i].session)'
      <3>1. PICK s : s = toServer[i].session
        OBVIOUS
      <3>2. Speaks(d, s) /\ d # c /\ s = toServer'[i].session
        BY <2>2, <2>4, <2>9, <3>1 DEF RoutesNotAhead
      <3>3. Speaks(d, s)'
        BY <2>8, <3>2
      <3> QED
        BY <3>2, <3>3 DEF Speaks
    <2>10. ASSUME Writes(c)'
           PROVE  Speaks(c, BoundTo(c, exec.reply.replacement))'
      <3>1. exec'.reply = exec.reply
        BY <1>4, <2>10
      <3>2. \A i \in Places(toServer)' : SentAt(c, i)' => toServer'[i] = m
        BY <2>2, <2>4 DEF Unheard, Sent
      <3>3. ~Looked(c)'
        BY <1>5, <2>4 DEF Unheard
      <3>4. serverState # "down" => Unheard(c)'
        BY <2>1 DEF ServerAdds, Unheard, Sent, SentAt
      <3>5. routes[c] # NoRoute => serverState # "down"
        BY DEF TablesInv, Here
      <3> QED
        BY <1>1, <2>1, <3>1, <3>2, <3>3, <3>4, <3>5 DEF Speaks, BoundTo
    <2>11. \A d \in Calls : Writes(d)' => Speaks(d, BoundTo(d, exec.reply.replacement))'
      BY <1>4, <2>10
    <2>12. \A d \in Calls, i, j \in Places(toServer)' : SentAt(d, i)' /\ OutputAt(d, j)' => i < j
      BY <2>2, <2>4 DEF RoutesNotAhead
    <2> QED
      BY <2>6, <2>9, <2>11, <2>12 DEF RoutesNotAhead
  <1>7. CASE exec.sent # 0
    <2>1. PICK m : /\ ServerAdds(m) /\ m.type = "output" /\ m.call = c
                   /\ m.session = BoundTo(c, exec.reply.replacement)
      BY <1>2, <1>7, PartsOfMessages DEF Output
    <2>2. \A d \in Calls, i \in Places(toServer)' :
             /\ SentAt(d, i)' => /\ i \in Places(toServer) /\ SentAt(d, i) /\ toServer'[i] = toServer[i]
                                /\ i < Len(toServer) + 1
             /\ OutputAt(d, i)' =>
                   \/ i \in Places(toServer) /\ OutputAt(d, i) /\ toServer'[i] = toServer[i]
                   \/ d = c /\ toServer'[i] = m /\ i = Len(toServer) + 1
      BY <1>0, <2>1, AddedIs
    <2>3. Writes(c)
      BY <1>1, <1>2, <1>7 DEF Writes
    <2>4. \A d \in Calls : /\ Sent(d)' => Sent(d)
                           /\ Sent(d) => Sent(d)'
      BY <2>1, <2>2 DEF Sent, SentAt, ServerAdds
    <2>5. \A d \in Calls : Open(d)' => Open(d)
      BY <1>4, <1>5, <2>4 DEF Open, Unheard
    <2>6. \A d \in Calls : Open(d)' => Fresh(d)'
      BY <1>5, <2>5 DEF RoutesNotAhead
    <2>7. ASSUME NEW d \in Calls, NEW s, Speaks(d, s)
          PROVE  Speaks(d, s)'
      BY <1>1, <1>5, <2>2, <2>4, <2>7 DEF Speaks, BoundTo, Unheard, Looked
    <2>8. PICK t : t = BoundTo(c, exec.reply.replacement)
      OBVIOUS
    <2>9. Speaks(c, t) /\ Speaks(c, t)'
      BY <2>3, <2>7, <2>8 DEF RoutesNotAhead
    <2>10. ASSUME NEW d \in Calls, NEW i \in Places(toServer)', OutputAt(d, i)'
           PROVE  Speaks(d, toServer[i].session)'
      <3>1. CASE i \in Places(toServer) /\ OutputAt(d, i) /\ toServer'[i] = toServer[i]
        <4>1. PICK s : s = toServer[i].session
          OBVIOUS
        <4>2. Speaks(d, s)' /\ s = toServer'[i].session
          BY <2>7, <3>1, <4>1 DEF RoutesNotAhead
        <4> QED
          BY <4>2 DEF Speaks
      <3>2. CASE d = c /\ toServer'[i] = m
        BY <2>1, <2>8, <2>9, <3>2 DEF Speaks
      <3> QED
        BY <2>2, <2>10, <3>1, <3>2
    <2>11. \A d \in Calls : Writes(d)' => Speaks(d, BoundTo(d, exec.reply.replacement))'
      <3>1. ASSUME Writes(c)'
            PROVE  Speaks(c, BoundTo(c, exec.reply.replacement))'
        <4>1. t = BoundTo(c, exec.reply.replacement)'
          BY <1>1, <1>4, <2>8, <3>1 DEF BoundTo
        <4> QED
          BY <2>9, <4>1 DEF Speaks
      <3> QED
        BY <1>4, <3>1
    <2>12. \A d \in Calls, i, j \in Places(toServer)' : SentAt(d, i)' /\ OutputAt(d, j)' => i < j
      BY <2>2 DEF RoutesNotAhead
    <2> QED
      BY <2>6, <2>10, <2>11, <2>12 DEF RoutesNotAhead
  <1> QED
    BY <1>6, <1>7

LEMMA RoutesKept ==
    ASSUME OnceInv, TablesInv, Exchanges, OutputsFollowOK, RoutesNotAhead, Next
    PROVE  RoutesNotAhead'
  <1>1. \/ Connect \/ Closes \/ Calling \/ Accepts \/ Listens \/ ReadResult
        \/ ReadExecute \/ WriteReply
    BY StepsAre DEF Listens, Still
  <1> QED
    BY <1>1, RoutesOfTheRest, RoutesOfReadExecute, RoutesOfReply

(* Outputs come in order and from the one that the route has next.         *)
LEMMA CountShrinks ==
    ASSUME OutputsCounted, NEW d \in {0, 1}, ServerMoved(d),
           \A c \in Calls : Writes(c)' => Writes(c) /\ exec'.sent = exec.sent,
           \A c \in Calls : Followed(c) /\ Counted(c)' =>
              /\ Counted(c) /\ routes'[c].next = routes[c].next
              /\ routes'[c].completed = routes[c].completed
              /\ ServerKept(d) /\ serverState # "down" /\ (d = 1 => ~OutputAt(c, 1))
    PROVE  OutputsCounted'
  <1>1. \A c \in Calls, i \in Places(toServer)' :
           OutputAt(c, i)' => /\ i \in Nat /\ i + d \in Places(toServer) /\ OutputAt(c, i + d)
                              /\ toServer'[i] = toServer[i + d] /\ Followed(c)
    BY DEF ServerMoved, OutputAt, Followed
  <1>2. \A c \in Calls, k \in Places(toServer) : OutputAt(c, k) /\ Counted(c)' =>
           /\ k \in Nat /\ k - d \in Places(toServer)' /\ OutputAt(c, k - d)'
           /\ toServer'[k - d] = toServer[k]
    <2>1. \A c \in Calls, k \in Places(toServer) : OutputAt(c, k) /\ Counted(c)' =>
             ServerKept(d) /\ ~(d = 1 /\ k = 1)
      BY DEF Followed
    <2> QED
      BY <2>1 DEF ServerKept, OutputAt
  <1>3. ASSUME NEW c \in Calls, NEW i \in Places(toServer)', NEW j \in Places(toServer)',
               OutputAt(c, i)', OutputAt(c, j)'
        PROVE  /\ i < j => toServer'[i].sequence < toServer'[j].sequence
               /\ i # j => ~(toServer'[i].final /\ i < j)
    <2>1. /\ i + d < j + d => toServer[i + d].sequence < toServer[j + d].sequence
          /\ i + d # j + d => ~(toServer[i + d].final /\ i + d < j + d)
      BY <1>1, <1>3 DEF OutputsCounted
    <2>2. i \in Nat /\ j \in Nat
      BY <1>1, <1>3
    <2>3. (i < j => i + d < j + d) /\ (i # j => i + d # j + d)
      BY <2>2
    <2>4. toServer'[i] = toServer[i + d] /\ toServer'[j] = toServer[j + d]
      BY <1>1, <1>3
    <2> QED
      BY <2>1, <2>3, <2>4
  <1>4. ASSUME NEW c \in Calls, NEW i \in Places(toServer)', OutputAt(c, i)', Counted(c)'
        PROVE  /\ toServer'[i].sequence >= routes'[c].next /\ ~routes'[c].completed
               /\ \/ toServer'[i].sequence = routes'[c].next
                  \/ \E j \in Places(toServer)' :
                        /\ j < i /\ OutputAt(c, j)'
                        /\ toServer'[j].sequence = toServer'[i].sequence - 1
    <2>1. /\ Counted(c) /\ routes'[c].next = routes[c].next
          /\ routes'[c].completed = routes[c].completed
      BY <1>1, <1>4
    <2>2. /\ toServer'[i].sequence >= routes'[c].next /\ ~routes'[c].completed
          /\ \/ toServer'[i].sequence = routes'[c].next
             \/ \E j \in Places(toServer) :
                   /\ j < i + d /\ OutputAt(c, j)
                   /\ toServer[j].sequence = toServer'[i].sequence - 1
      BY <1>1, <1>4, <2>1 DEF OutputsCounted
    <2>3. ASSUME NEW j \in Places(toServer), j < i + d, OutputAt(c, j),
                 toServer[j].sequence = toServer'[i].sequence - 1
          PROVE  \E k \in Places(toServer)' :
                    /\ k < i /\ OutputAt(c, k)'
                    /\ toServer'[k].sequence = toServer'[i].sequence - 1
      <3>1. j \in Nat /\ i \in Nat /\ j - d < i
        BY <1>1, <1>2, <1>4, <2>3
      <3> QED
        BY <1>2, <1>4, <2>3, <3>1
    <2> QED
      BY <2>2, <2>3
  <1>5. ASSUME NEW c \in Calls, Writes(c)'
        PROVE  \A i \in Places(toServer)' : OutputAt(c, i)' =>
                  toServer'[i].sequence < exec'.sent /\ ~toServer'[i].final
    BY <1>1, <1>5 DEF OutputsCounted
  <1>6. ASSUME NEW c \in Calls, Writes(c)', Counted(c)', serverState' # "down"
        PROVE  /\ exec'.sent >= routes'[c].next /\ ~routes'[c].completed
               /\ \/ exec'.sent = routes'[c].next
                  \/ \E j \in Places(toServer)' :
                        OutputAt(c, j)' /\ toServer'[j].sequence = exec'.sent - 1
    <2>1. /\ Writes(c) /\ exec'.sent = exec.sent /\ Counted(c) /\ routes'[c].next = routes[c].next
          /\ routes'[c].completed = routes[c].completed /\ serverState # "down"
      BY <1>6 DEF Followed
    <2>2. /\ exec'.sent >= routes'[c].next /\ ~routes'[c].completed
          /\ \/ exec'.sent = routes'[c].next
             \/ \E j \in Places(toServer) : OutputAt(c, j) /\ toServer[j].sequence = exec'.sent - 1
      BY <2>1 DEF OutputsCounted
    <2> QED
      BY <1>2, <1>6, <2>2
  <1> QED
    BY <1>3, <1>4, <1>5, <1>6 DEF OutputsCounted

LEMMA CountsOfTheRest ==
    ASSUME OnceInv, TablesInv, Exchanges, OutputsFollowOK, OutputsCounted, Next,
           Connect \/ Closes \/ Calling \/ Accepts \/ Still \/ ReadResult
    PROVE  OutputsCounted'
  <1> USE DEF OnceInv
  <1>0. TypeOK /\ SentIsOK /\ (Still => Listens)
    BY DEF Base, Exchanges, Listens
  <1>1. \A c \in Calls : Writes(c)' => Writes(c) /\ exec'.sent = exec.sent
    <2>1. SlotKept
      BY <1>0, SlotMoves, StillAre
    <2> QED
      BY <2>1 DEF SlotKept
  <1>2. \A c \in Calls : Counted(c) => serverState # "down"
    BY DEF Counted, TablesInv, Here
  <1>3. CASE Connect \/ Closes
    <2>1. ServerMoved(0)
      BY <1>3, ServerMoves
    <2>2. \A c \in Calls : ~Counted(c)'
      BY <1>2, <1>3 DEF Counted, Connect, Closes, CloseServer, tables
    <2> QED
      BY <1>1, <2>1, <2>2, CountShrinks
  <1>4. CASE Waiting
    <2>1. ServerMoved(0) /\ ServerKept(0)
      BY <1>4, ServerMoves DEF Calling
    <2>2. \A c \in Calls : Counted(c)' => Counted(c) /\ routes'[c] = routes[c]
      BY <1>4, WaitingCounts
    <2> QED
      BY <1>1, <1>2, <2>1, <2>2, CountShrinks
  <1>5. ASSUME NEW c \in Calls, NEW m \in Messages, Execute(c, m)
        PROVE  OutputsCounted'
    <2>1. /\ phase[c] = "idle" /\ expired' = expired
          /\ \A e \in Calls \ {c} : routes'[e] = routes[e]
      BY <1>0, <1>5 DEF Execute, TypeOK
    <2>2. ~Followed(c)
      BY <2>1 DEF OutputsFollowOK, ResultOK
    <2>3. ServerMoved(0) /\ ServerKept(0)
      BY <1>5, ServerMoves DEF Calling
    <2>4. \A e \in Calls : Followed(e) /\ Counted(e)' => Counted(e) /\ routes'[e] = routes[e]
      BY <2>1, <2>2 DEF Counted
    <2> QED
      BY <1>1, <1>2, <2>3, <2>4, CountShrinks
  <1>6. CASE Accepts
    <2>1. ServerMoved(0) /\ ServerKept(0)
      BY <1>6, ServerMoves
    <2>2. PICK c \in Calls : c = reader.call
      BY <1>6, AcceptsAre
    <2>3. /\ expired' = expired
          /\ \A e \in Calls \ {c} : routes'[e] = routes[e]
          /\ reader.replacement = NoSession => routes'[c] = routes[c]
          /\ reader.replacement # NoSession =>
                /\ routes[c] # NoRoute
                /\ routes'[c] = Route(reader.replacement, routes[c].next, routes[c].completed)
      BY <1>6, <2>2, AcceptsAre
    <2>4. \A e \in Calls : Counted(e)' =>
             /\ Counted(e) /\ routes'[e].next = routes[e].next
             /\ routes'[e].completed = routes[e].completed
      BY <2>3 DEF Counted, Route
    <2> QED
      BY <1>1, <1>2, <2>1, <2>4, CountShrinks
  <1>7. CASE Still
    <2>1. UNCHANGED <<expired, routes>>
      BY <1>0, <1>7, StillAre
    <2>2. PICK d \in {0, 1} :
             /\ ServerMoved(d) /\ ServerKept(d)
             /\ d = 1 => /\ toServer # <<>> /\ Received = toServer[1] /\ reader = NoMessage
                         /\ 1 \in Places(toServer)
                         /\ ReadSnapshot \/ Skips \/ Hears
      BY <1>0, <1>7, StillAre
    <2>3. \A c \in Calls : Counted(c)' => Counted(c) /\ routes'[c] = routes[c]
      BY <2>1 DEF Counted
    <2>4. ASSUME d = 1, NEW c \in Calls, Counted(c), OutputAt(c, 1)
          PROVE  FALSE
      <3>1. 1 \in Places(toServer) /\ Received = toServer[1] /\ Received.type = "output" /\ Received.call = c
        BY <2>2, <2>4 DEF OutputAt
      <3>2. Skips \/ Hears
        BY <2>2, <2>4, <3>1 DEF ReadSnapshot, Arrived, Received
      <3>3. OutputFault(Received) = "repeated" \/ OutputFault(Received) = "none"
        BY <2>4, <3>1, <3>2 DEF Skips, Hears, Arrived, Received, Counted
      <3>4. Received.sequence >= routes[c].next
        BY <2>4, <3>1 DEF OutputsCounted
      <3>5. Received.sequence \in Nat /\ routes[c].next \in Nat
        <4>1. Received \in PalMessages /\ routes[c] # NoRoute
          BY <1>0, <2>2, <2>4, TailPlaces DEF TypeOK, Received, Counted
        <4>2. Received.sequence \in 1..MaxOutputs
          BY <3>1, <4>1, PalMessageFields
        <4> QED
          BY <1>0, <4>1, <4>2, RoutesAre
      <3>6. ~(Received.sequence < routes[c].next)
        BY <3>4, <3>5
      <3>7. OutputFault(Received) # "repeated"
        BY <3>1, <3>6 DEF OutputFault
      <3>8. Hears
        BY <2>4, <3>1, <3>2, <3>7 DEF Skips, Arrived, Received, Counted
      <3>9. /\ routes[c].next = Received.sequence
            /\ routes[c] = Route(Received.session, Received.sequence + 1, Received.final)
        BY <2>1, <3>1, <3>8, HearsAre
      <3>10. routes[c].next = Received.sequence + 1
        BY <3>9 DEF Route
      <3> QED
        BY <3>5, <3>9, <3>10
    <2> QED
      BY <1>1, <1>2, <2>2, <2>3, <2>4, CountShrinks
  <1>8. CASE ReadResult
    <2>1. /\ UNCHANGED <<routes, expired>> /\ toServer # <<>> /\ toServer[1].type = "result"
          /\ ServerMoved(1) /\ ServerKept(1)
      BY <1>0, <1>8, ServerMoves, TailPlaces DEF ReadResult, Arrived, Received, tables, TypeOK
    <2>2. \A c \in Calls : /\ ~OutputAt(c, 1)
                           /\ Counted(c)' => Counted(c) /\ routes'[c] = routes[c]
      BY <2>1 DEF OutputAt, Counted
    <2> QED
      BY <1>1, <1>2, <2>1, <2>2, CountShrinks
  <1> QED
    BY <1>3, <1>4, <1>5, <1>6, <1>7, <1>8 DEF Calling

LEMMA CountsOfHears ==
    ASSUME OnceInv, Exchanges, OutputsCounted, Next, Hears
    PROVE  OutputsCounted'
  <1> USE DEF OnceInv
  <1>0. TypeOK /\ SentIsOK /\ Listens
    BY DEF Base, Exchanges, Listens
  <1>1. ServerMoved(1) /\ ServerKept(1)
    BY ServerMoves
  <1>2. PICK c \in Calls : c = Received.call
    BY HearsAre
  <1>3. PICK n \in Nat : n = Received.sequence
    BY HearsAre
  <1>4. /\ toServer # <<>> /\ Received.type = "output" /\ UNCHANGED <<expired, exec, link, clientState>>
        /\ c \notin expired /\ routes[c] # NoRoute /\ routes[c].next = n
        /\ serverState # "down"
        /\ \A f \in Calls \ {c} : routes'[f] = routes[f]
        /\ routes'[c] = Route(Received.session, n + 1, Received.final) /\ routes'[c] # NoRoute
    BY <1>2, <1>3, HearsAre
  <1>5. 1 \in Places(toServer) /\ Received = toServer[1] /\ OutputAt(c, 1) /\ Counted(c)
        /\ toServer[1].sequence = n
    BY <1>0, <1>2, <1>3, <1>4, TailPlaces DEF TypeOK, Received, OutputAt, Counted
  <1>6. routes'[c].next = n + 1 /\ routes'[c].completed = toServer[1].final
    BY <1>4, <1>5 DEF Route
  <1>7. \A f \in Calls : Writes(f)' <=> Writes(f)
    BY <1>4 DEF Writes, InSlot, OnLink
  <1>8. \A f \in Calls : Counted(f)' <=> Counted(f)
    BY <1>4 DEF Counted
  <1>9. \A f \in Calls, i \in Places(toServer)' :
           OutputAt(f, i)' => /\ i \in Nat /\ i + 1 \in Places(toServer) /\ OutputAt(f, i + 1)
                              /\ toServer'[i] = toServer[i + 1] /\ 1 < i + 1
    <2>1. \A i \in Places(toServer)' : i \in Nat /\ 1 < i + 1
      BY DEF Places
    <2> QED
      BY <1>1, <2>1 DEF ServerMoved, OutputAt
  <1>10. \A f \in Calls, k \in Places(toServer) : OutputAt(f, k) /\ k # 1 =>
            /\ k \in Nat /\ k - 1 \in Places(toServer)' /\ OutputAt(f, k - 1)'
            /\ toServer'[k - 1] = toServer[k]
    BY <1>1 DEF ServerKept, OutputAt
  <1>11. \A f \in Calls \ {c} : ~OutputAt(f, 1)
    BY <1>5 DEF OutputAt
  <1>12. ASSUME NEW f \in Calls, NEW i \in Places(toServer)', NEW j \in Places(toServer)',
                OutputAt(f, i)', OutputAt(f, j)'
         PROVE  /\ i < j => toServer'[i].sequence < toServer'[j].sequence
                /\ i # j => ~(toServer'[i].final /\ i < j)
    <2>1. /\ i + 1 < j + 1 => toServer[i + 1].sequence < toServer[j + 1].sequence
          /\ i + 1 # j + 1 => ~(toServer[i + 1].final /\ i + 1 < j + 1)
      BY <1>9, <1>12 DEF OutputsCounted
    <2>2. i \in Nat /\ j \in Nat
      BY <1>9, <1>12
    <2>3. (i < j => i + 1 < j + 1) /\ (i # j => i + 1 # j + 1)
      BY <2>2
    <2>4. toServer'[i] = toServer[i + 1] /\ toServer'[j] = toServer[j + 1]
      BY <1>9, <1>12
    <2> QED
      BY <2>1, <2>3, <2>4
  <1>13. ASSUME NEW i \in Places(toServer), OutputAt(c, i), i # 1
         PROVE  /\ toServer[i].sequence \in Nat /\ n < toServer[i].sequence /\ ~toServer[1].final
    <2>1. 1 < i
      BY <1>13 DEF Places
    <2>2. n < toServer[i].sequence /\ ~toServer[1].final
      BY <1>5, <1>13, <2>1 DEF OutputsCounted
    <2>3. toServer[i] \in PalMessages /\ toServer[i].type = "output"
      BY <1>0, <1>13 DEF TypeOK, Places, OutputAt
    <2>4. toServer[i].sequence \in 1..MaxOutputs
      BY <2>3, PalMessageFields
    <2> QED
      BY <2>2, <2>4
  <1>14. ASSUME NEW i \in Places(toServer)', OutputAt(c, i)'
         PROVE  /\ toServer'[i].sequence >= n + 1 /\ ~toServer[1].final
                /\ \/ toServer'[i].sequence = n + 1
                   \/ \E j \in Places(toServer)' :
                         /\ j < i /\ OutputAt(c, j)'
                         /\ toServer'[j].sequence = toServer'[i].sequence - 1
    <2>1. /\ i + 1 \in Places(toServer) /\ OutputAt(c, i + 1) /\ i + 1 # 1 /\ i \in Nat
          /\ toServer'[i] = toServer[i + 1]
      BY <1>9, <1>14
    <2>2. PICK q : q = toServer'[i].sequence
      OBVIOUS
    <2>3. q \in Nat /\ n < q /\ ~toServer[1].final
      BY <1>13, <2>1, <2>2
    <2>4. q = n \/ \E j \in Places(toServer) : /\ j < i + 1 /\ OutputAt(c, j)
                                               /\ toServer[j].sequence = q - 1
      BY <1>4, <1>5, <2>1, <2>2 DEF OutputsCounted
    <2>5. PICK j \in Places(toServer) : j < i + 1 /\ OutputAt(c, j) /\ toServer[j].sequence = q - 1
      BY <2>3, <2>4
    <2>6. CASE j = 1
      <3>1. n = q - 1
        BY <1>5, <2>5, <2>6
      <3>2. q = n + 1 /\ q >= n + 1
        BY <2>3, <3>1
      <3> QED
        BY <2>2, <2>3, <3>2
    <2>7. CASE j # 1
      <3>1. /\ j \in Nat /\ j - 1 \in Places(toServer)' /\ OutputAt(c, j - 1)'
            /\ toServer'[j - 1].sequence = q - 1
        BY <1>10, <2>5, <2>7
      <3>2. j - 1 < i /\ q >= n + 1
        BY <2>1, <2>3, <2>5, <3>1
      <3> QED
        BY <2>2, <2>3, <3>1, <3>2
    <2> QED
      BY <2>6, <2>7
  <1>15. ASSUME NEW f \in Calls, f # c, NEW i \in Places(toServer)', OutputAt(f, i)', Counted(f)'
         PROVE  /\ toServer'[i].sequence >= routes'[f].next /\ ~routes'[f].completed
                /\ \/ toServer'[i].sequence = routes'[f].next
                   \/ \E j \in Places(toServer)' :
                         /\ j < i /\ OutputAt(f, j)'
                         /\ toServer'[j].sequence = toServer'[i].sequence - 1
    <2>1. /\ i + 1 \in Places(toServer) /\ OutputAt(f, i + 1) /\ i \in Nat
          /\ toServer'[i] = toServer[i + 1] /\ Counted(f) /\ routes'[f] = routes[f]
      BY <1>4, <1>8, <1>9, <1>15
    <2>2. /\ toServer'[i].sequence >= routes'[f].next /\ ~routes'[f].completed
          /\ \/ toServer'[i].sequence = routes'[f].next
             \/ \E j \in Places(toServer) : /\ j < i + 1 /\ OutputAt(f, j)
                                            /\ toServer[j].sequence = toServer'[i].sequence - 1
      BY <2>1 DEF OutputsCounted
    <2>3. ASSUME NEW j \in Places(toServer), j < i + 1, OutputAt(f, j),
                 toServer[j].sequence = toServer'[i].sequence - 1
          PROVE  \E k \in Places(toServer)' :
                    /\ k < i /\ OutputAt(f, k)'
                    /\ toServer'[k].sequence = toServer'[i].sequence - 1
      <3>1. /\ j \in Nat /\ j - 1 \in Places(toServer)' /\ OutputAt(f, j - 1)'
            /\ toServer'[j - 1] = toServer[j]
        BY <1>10, <1>11, <1>15, <2>3
      <3>2. j - 1 < i
        BY <2>1, <2>3, <3>1
      <3> QED
        BY <2>3, <3>1, <3>2
    <2> QED
      BY <2>2, <2>3
  <1>16. ASSUME NEW f \in Calls, Writes(f)'
         PROVE  \A i \in Places(toServer)' : OutputAt(f, i)' =>
                   toServer'[i].sequence < exec'.sent /\ ~toServer'[i].final
    BY <1>4, <1>7, <1>9, <1>16 DEF OutputsCounted
  <1>17. ASSUME NEW f \in Calls, f # c, Writes(f)', Counted(f)'
         PROVE  /\ exec'.sent >= routes'[f].next /\ ~routes'[f].completed
                /\ \/ exec'.sent = routes'[f].next
                   \/ \E j \in Places(toServer)' :
                         OutputAt(f, j)' /\ toServer'[j].sequence = exec'.sent - 1
    <2>1. Writes(f) /\ Counted(f) /\ routes'[f] = routes[f] /\ exec' = exec /\ serverState # "down"
      BY <1>4, <1>7, <1>8, <1>17
    <2>2. /\ exec'.sent >= routes'[f].next /\ ~routes'[f].completed
          /\ \/ exec'.sent = routes'[f].next
             \/ \E j \in Places(toServer) : OutputAt(f, j) /\ toServer[j].sequence = exec'.sent - 1
      BY <2>1 DEF OutputsCounted
    <2> QED
      BY <1>10, <1>11, <1>17, <2>2
  <1>18. ASSUME Writes(c)'
         PROVE  /\ exec'.sent >= n + 1 /\ ~toServer[1].final
                /\ \/ exec'.sent = n + 1
                   \/ \E j \in Places(toServer)' :
                         OutputAt(c, j)' /\ toServer'[j].sequence = exec'.sent - 1
    <2>1. PICK q : q = exec.sent /\ q = exec'.sent
      BY <1>4
    <2>2. Writes(c) /\ q \in Nat
      <3>1. Writes(c) /\ exec # NoExec
        BY <1>7, <1>18 DEF Writes, InSlot, OnLink
      <3>2. exec \in ExecRecords
        BY <1>0, <3>1 DEF TypeOK
      <3>3. exec.sent \in 0..MaxOutputs /\ MaxOutputs \in Nat
        BY <3>2, ExecFields, LinkAssumption
      <3> QED
        BY <2>1, <3>1, <3>3
    <2>3. n < q /\ ~toServer[1].final
      BY <1>5, <2>1, <2>2 DEF OutputsCounted
    <2>4. q = n \/ \E j \in Places(toServer) : OutputAt(c, j) /\ toServer[j].sequence = q - 1
      BY <1>4, <1>5, <2>1, <2>2 DEF OutputsCounted
    <2>5. PICK j \in Places(toServer) : OutputAt(c, j) /\ toServer[j].sequence = q - 1
      BY <2>2, <2>3, <2>4
    <2>6. q >= n + 1
      BY <2>2, <2>3
    <2>7. CASE j = 1
      <3>1. n = q - 1
        BY <1>5, <2>5, <2>7
      <3>2. q = n + 1
        BY <2>2, <3>1
      <3> QED
        BY <2>1, <2>3, <2>6, <3>2
    <2>8. CASE j # 1
      BY <1>10, <2>1, <2>3, <2>5, <2>6, <2>8
    <2> QED
      BY <2>7, <2>8
  <1>19. \A f \in Calls, i \in Places(toServer)' : OutputAt(f, i)' /\ Counted(f)' =>
            /\ toServer'[i].sequence >= routes'[f].next /\ ~routes'[f].completed
            /\ \/ toServer'[i].sequence = routes'[f].next
               \/ \E j \in Places(toServer)' :
                     /\ j < i /\ OutputAt(f, j)'
                     /\ toServer'[j].sequence = toServer'[i].sequence - 1
    BY <1>6, <1>14, <1>15
  <1>20. \A f \in Calls : Writes(f)' /\ Counted(f)' =>
            /\ exec'.sent >= routes'[f].next /\ ~routes'[f].completed
            /\ \/ exec'.sent = routes'[f].next
               \/ \E j \in Places(toServer)' :
                     OutputAt(f, j)' /\ toServer'[j].sequence = exec'.sent - 1
    BY <1>6, <1>17, <1>18
  <1> QED
    BY <1>12, <1>16, <1>19, <1>20 DEF OutputsCounted

LEMMA CountsOfReadExecute ==
    ASSUME OnceInv, Exchanges, OutputsCounted, TablesInv, Next, ReadExecute
    PROVE  OutputsCounted'
  <1> USE DEF OnceInv
  <1>0. TypeOK /\ SentIsOK
    BY DEF Base, Exchanges
  <1>1. UNCHANGED <<link, serverState, clientState, routes, expired>>
    BY <1>0, TakenOrBusy
  <1>2. PICK c \in Calls :
           \/ /\ exec = NoExec /\ ServerMoved(0) /\ ServerKept(0)
              /\ exec'.call = c /\ exec'.sent = 0 /\ exec'.at # "writing"
           \/ /\ exec # NoExec /\ exec' = exec
              /\ ServerAdds(ResultMsg(c, "rejected", NoSession))
    BY <1>0, TakenOrBusy
  <1>3. \A d \in Calls : /\ Writes(d)' => Writes(d) /\ exec'.sent = exec.sent
                         /\ Counted(d)' => Counted(d) /\ routes'[d] = routes[d]
                         /\ Counted(d) => serverState # "down"
    BY <1>1, <1>2 DEF Writes, InSlot, OnLink, Counted, TablesInv, Here
  <1>4. CASE exec = NoExec
    BY <1>2, <1>3, <1>4, CountShrinks
  <1>5. CASE exec # NoExec
    <2>1. PICK m : ServerAdds(m) /\ m.type = "result"
      BY <1>2, <1>5, PartsOfMessages
    <2>2. \A d \in Calls, i \in Places(toServer)' : OutputAt(d, i)' =>
             /\ i \in Places(toServer) /\ OutputAt(d, i) /\ toServer'[i] = toServer[i]
      BY <1>0, <2>1, AddedIs
    <2>3. \A d \in Calls, i \in Places(toServer) : OutputAt(d, i) =>
             /\ i \in Places(toServer)' /\ OutputAt(d, i)' /\ toServer'[i] = toServer[i]
      BY <2>1 DEF ServerAdds, OutputAt
    <2>4. \A d \in Calls, i, j \in Places(toServer)' : OutputAt(d, i)' /\ OutputAt(d, j)' =>
             /\ i < j => toServer'[i].sequence < toServer'[j].sequence
             /\ i # j => ~(toServer'[i].final /\ i < j)
      BY <2>2 DEF OutputsCounted
    <2>5. ASSUME NEW d \in Calls, NEW i \in Places(toServer)', OutputAt(d, i)', Counted(d)'
          PROVE  /\ toServer'[i].sequence >= routes'[d].next /\ ~routes'[d].completed
                 /\ \/ toServer'[i].sequence = routes'[d].next
                    \/ \E j \in Places(toServer)' :
                          /\ j < i /\ OutputAt(d, j)'
                          /\ toServer'[j].sequence = toServer'[i].sequence - 1
      <3>1. /\ i \in Places(toServer) /\ OutputAt(d, i) /\ toServer'[i] = toServer[i]
            /\ Counted(d) /\ routes'[d] = routes[d]
        BY <1>3, <2>2, <2>5
      <3>2. /\ toServer[i].sequence >= routes[d].next /\ ~routes[d].completed
            /\ \/ toServer[i].sequence = routes[d].next
               \/ \E j \in Places(toServer) : /\ j < i /\ OutputAt(d, j)
                                              /\ toServer[j].sequence = toServer[i].sequence - 1
        BY <3>1 DEF OutputsCounted
      <3> QED
        BY <2>3, <3>1, <3>2
    <2>6. ASSUME NEW d \in Calls, Writes(d)'
          PROVE  \A i \in Places(toServer)' : OutputAt(d, i)' =>
                    toServer'[i].sequence < exec'.sent /\ ~toServer'[i].final
      BY <1>3, <2>2, <2>6 DEF OutputsCounted
    <2>7. ASSUME NEW d \in Calls, Writes(d)', Counted(d)'
          PROVE  /\ exec'.sent >= routes'[d].next /\ ~routes'[d].completed
                 /\ \/ exec'.sent = routes'[d].next
                    \/ \E j \in Places(toServer)' :
                          OutputAt(d, j)' /\ toServer'[j].sequence = exec'.sent - 1
      <3>1. Writes(d) /\ exec'.sent = exec.sent /\ Counted(d) /\ routes'[d] = routes[d] /\ serverState # "down"
        BY <1>3, <2>7
      <3>2. /\ exec.sent >= routes[d].next /\ ~routes[d].completed
            /\ \/ exec.sent = routes[d].next
               \/ \E j \in Places(toServer) : OutputAt(d, j) /\ toServer[j].sequence = exec.sent - 1
        BY <3>1 DEF OutputsCounted
      <3> QED
        BY <2>3, <3>1, <3>2
    <2> QED
      BY <2>4, <2>5, <2>6, <2>7 DEF OutputsCounted
  <1> QED
    BY <1>4, <1>5

LEMMA CountsOfReply ==
    ASSUME OnceInv, TablesInv, Exchanges, RoutesNotAhead, OutputsCounted, Next, WriteReply
    PROVE  OutputsCounted'
  <1> USE DEF OnceInv
  <1>0. TypeOK /\ SentIsOK
    BY DEF Base, Exchanges
  <1>1. /\ UNCHANGED <<link, serverState, clientState, routes, expired>>
        /\ exec # NoExec /\ exec.at = "writing" /\ exec.sent \in Nat
    BY <1>0, ReplyWritten
  <1>2. PICK c \in Calls :
           /\ exec.call = c /\ InSlot(c)
           /\ exec.sent = 0 => ServerAdds(Result(c))
           /\ exec.sent # 0 => ServerAdds(Output(c))
    BY <1>0, ReplyWritten
  <1>3. exec' # NoExec => /\ exec'.call = c /\ exec'.sent = exec.sent + 1
                          /\ exec.sent # exec.reply.outputs
    BY <1>0, <1>2, ReplyWritten
  <1>4. \A d \in Calls : Writes(d)' =>
           d = c /\ exec'.sent = exec.sent + 1 /\ exec.sent # exec.reply.outputs
    BY <1>3 DEF Writes, InSlot, OnLink
  <1>5. \A d \in Calls : /\ Counted(d)' <=> Counted(d)
                         /\ Counted(d) => serverState # "down"
    BY <1>1 DEF Counted, TablesInv, Here
  <1>6. CASE exec.sent = 0
    <2>1. PICK m : ServerAdds(m) /\ m.type = "result"
      BY <1>2, <1>6, PartsOfMessages DEF Result
    <2>2. \A d \in Calls, i \in Places(toServer)' : OutputAt(d, i)' =>
             /\ i \in Places(toServer) /\ OutputAt(d, i) /\ toServer'[i] = toServer[i]
      BY <1>0, <2>1, AddedIs
    <2>3. \A d \in Calls, i \in Places(toServer) : OutputAt(d, i) =>
             /\ i \in Places(toServer)' /\ OutputAt(d, i)' /\ toServer'[i] = toServer[i]
      BY <2>1 DEF ServerAdds, OutputAt
    <2>4. Held(c) /\ Open(c)
      BY <1>2, <1>6 DEF Held, Open
    <2>5. \A i \in Places(toServer) : ~OutputAt(c, i)
      BY <2>4 DEF Exchanges
    <2>6. Counted(c) => routes[c].next = 1 /\ routes[c].completed = FALSE
      <3>1. Counted(c) => routes[c] = Route(command[c].session, 1, FALSE)
        BY <2>4 DEF RoutesNotAhead, Fresh, Counted
      <3> QED
        BY <3>1 DEF Route
    <2>7. \A d \in Calls, i, j \in Places(toServer)' : OutputAt(d, i)' /\ OutputAt(d, j)' =>
             /\ i < j => toServer'[i].sequence < toServer'[j].sequence
             /\ i # j => ~(toServer'[i].final /\ i < j)
      BY <2>2 DEF OutputsCounted
    <2>8. ASSUME NEW d \in Calls, NEW i \in Places(toServer)', OutputAt(d, i)', Counted(d)'
          PROVE  /\ toServer'[i].sequence >= routes'[d].next /\ ~routes'[d].completed
                 /\ \/ toServer'[i].sequence = routes'[d].next
                    \/ \E j \in Places(toServer)' :
                          /\ j < i /\ OutputAt(d, j)'
                          /\ toServer'[j].sequence = toServer'[i].sequence - 1
      <3>1. /\ i \in Places(toServer) /\ OutputAt(d, i) /\ toServer'[i] = toServer[i]
            /\ Counted(d) /\ routes'[d] = routes[d]
        BY <1>1, <1>5, <2>2, <2>8
      <3>2. /\ toServer[i].sequence >= routes[d].next /\ ~routes[d].completed
            /\ \/ toServer[i].sequence = routes[d].next
               \/ \E j \in Places(toServer) : /\ j < i /\ OutputAt(d, j)
                                              /\ toServer[j].sequence = toServer[i].sequence - 1
        BY <3>1 DEF OutputsCounted
      <3> QED
        BY <2>3, <3>1, <3>2
    <2>9. ASSUME Writes(c)'
          PROVE  /\ exec'.sent = 1
                 /\ Counted(c)' => /\ exec'.sent >= routes'[c].next /\ ~routes'[c].completed
                                   /\ exec'.sent = routes'[c].next
      BY <1>1, <1>4, <1>5, <1>6, <2>6, <2>9
    <2> QED
      BY <1>4, <2>2, <2>5, <2>7, <2>8, <2>9 DEF OutputsCounted
  <1>7. CASE exec.sent # 0
    <2>1. PICK m : /\ ServerAdds(m) /\ m.type = "output" /\ m.call = c
                   /\ m.sequence = exec.sent /\ m.final = (exec.sent = exec.reply.outputs)
      BY <1>2, <1>7, PartsOfMessages DEF Output
    <2>2. \A d \in Calls, i \in Places(toServer)' :
             OutputAt(d, i)' =>
                \/ /\ i \in Places(toServer) /\ OutputAt(d, i) /\ toServer'[i] = toServer[i]
                   /\ i < Len(toServer) + 1
                \/ d = c /\ toServer'[i] = m /\ i = Len(toServer) + 1 /\ serverState # "down"
      BY <1>0, <2>1, AddedIs
    <2>3. /\ \A d \in Calls, i \in Places(toServer) : OutputAt(d, i) =>
                /\ i \in Places(toServer)' /\ OutputAt(d, i)' /\ toServer'[i] = toServer[i]
                /\ i \in Nat /\ i < Len(toServer) + 1
          /\ serverState # "down" => \E j \in Places(toServer)' : OutputAt(c, j)' /\ toServer'[j] = m
          /\ Len(toServer) \in Nat
      <3>1. \A d \in Calls, i \in Places(toServer) : OutputAt(d, i) =>
               /\ i \in Places(toServer)' /\ OutputAt(d, i)' /\ toServer'[i] = toServer[i]
               /\ i < Len(toServer) + 1
        BY <2>1 DEF ServerAdds, OutputAt
      <3>2. serverState # "down" => /\ Len(toServer) + 1 \in Places(toServer)'
                                    /\ toServer'[Len(toServer) + 1] = m
        BY <2>1 DEF ServerAdds
      <3>3. \A i \in Places(toServer)' : toServer'[i] = m => OutputAt(c, i)'
        BY <2>1 DEF OutputAt
      <3>4. Len(toServer) \in Nat /\ \A i \in Places(toServer) : i \in Nat
        BY <1>0, <2>1, AddedIs
      <3> QED
        BY <3>1, <3>2, <3>3, <3>4
    <2>4. Writes(c)
      BY <1>1, <1>2, <1>7 DEF Writes
    <2>5. /\ \A i \in Places(toServer) : OutputAt(c, i) =>
                toServer[i].sequence < exec.sent /\ ~toServer[i].final
          /\ Counted(c) =>
                /\ exec.sent >= routes[c].next /\ ~routes[c].completed
                /\ \/ exec.sent = routes[c].next
                   \/ \E j \in Places(toServer) : OutputAt(c, j) /\ toServer[j].sequence = exec.sent - 1
      BY <1>5, <2>4 DEF OutputsCounted
    <2>6. ASSUME NEW d \in Calls, NEW i \in Places(toServer)', NEW j \in Places(toServer)',
                 OutputAt(d, i)', OutputAt(d, j)', i < j
          PROVE  toServer'[i].sequence < toServer'[j].sequence /\ ~toServer'[i].final
      <3>1. i \in Nat /\ j \in Nat
        BY DEF Places
      <3>2. i \in Places(toServer) /\ OutputAt(d, i) /\ toServer'[i] = toServer[i]
        <4>1. i # Len(toServer) + 1
          <5>1. j < Len(toServer) + 1 \/ j = Len(toServer) + 1
            BY <2>2, <2>6
          <5> QED
            BY <2>3, <2>6, <3>1, <5>1
        <4> QED
          BY <2>2, <2>6, <4>1
      <3>3. CASE j \in Places(toServer) /\ OutputAt(d, j) /\ toServer'[j] = toServer[j]
        <4>1. i # j
          BY <2>6, <3>1
        <4> QED
          BY <2>6, <3>2, <3>3, <4>1 DEF OutputsCounted
      <3>4. CASE d = c /\ toServer'[j] = m
        BY <2>1, <2>5, <3>2, <3>4
      <3> QED
        BY <2>2, <2>6, <3>3, <3>4
    <2>7. ASSUME NEW d \in Calls, NEW i \in Places(toServer)', OutputAt(d, i)', Counted(d)'
          PROVE  /\ toServer'[i].sequence >= routes'[d].next /\ ~routes'[d].completed
                 /\ \/ toServer'[i].sequence = routes'[d].next
                    \/ \E j \in Places(toServer)' :
                          /\ j < i /\ OutputAt(d, j)'
                          /\ toServer'[j].sequence = toServer'[i].sequence - 1
      <3>1. Counted(d) /\ routes'[d] = routes[d]
        BY <1>1, <1>5, <2>7
      <3>2. CASE i \in Places(toServer) /\ OutputAt(d, i) /\ toServer'[i] = toServer[i]
        <4>1. /\ toServer[i].sequence >= routes[d].next /\ ~routes[d].completed
              /\ \/ toServer[i].sequence = routes[d].next
                 \/ \E j \in Places(toServer) : /\ j < i /\ OutputAt(d, j)
                                                /\ toServer[j].sequence = toServer[i].sequence - 1
          BY <3>1, <3>2 DEF OutputsCounted
        <4> QED
          BY <2>3, <3>1, <3>2, <4>1
      <3>3. CASE d = c /\ toServer'[i] = m /\ i = Len(toServer) + 1
        BY <2>1, <2>3, <2>5, <3>1, <3>3
      <3> QED
        BY <2>2, <2>7, <3>2, <3>3
    <2>8. ASSUME Writes(c)'
          PROVE  \A i \in Places(toServer)' : OutputAt(c, i)' =>
                    toServer'[i].sequence < exec'.sent /\ ~toServer'[i].final
      <3>1. exec'.sent = exec.sent + 1 /\ exec.sent # exec.reply.outputs
        BY <1>4, <2>8
      <3>2. m.sequence < exec'.sent /\ ~m.final
        <4>1. m.sequence < exec'.sent
          BY <1>1, <2>1, <3>1
        <4>2. ~m.final
          BY <2>1, <3>1
        <4> QED
          BY <4>1, <4>2
      <3>3. ASSUME NEW i \in Places(toServer), OutputAt(c, i)
            PROVE  toServer[i].sequence < exec'.sent /\ ~toServer[i].final
        <4>1. toServer[i] \in PalMessages /\ toServer[i].type = "output"
          BY <1>0, <3>3 DEF TypeOK, Places, OutputAt
        <4>2. toServer[i].sequence \in Nat
          BY <4>1, PalMessageFields
        <4>3. toServer[i].sequence < exec.sent /\ ~toServer[i].final
          BY <2>5, <3>3
        <4>4. toServer[i].sequence < exec'.sent
          BY <1>1, <3>1, <4>2, <4>3
        <4> QED
          BY <4>3, <4>4
      <3> QED
        BY <2>2, <3>2, <3>3
    <2>9. ASSUME Writes(c)', Counted(c)'
          PROVE  /\ exec'.sent >= routes'[c].next /\ ~routes'[c].completed
                 /\ \E j \in Places(toServer)' :
                       OutputAt(c, j)' /\ toServer'[j].sequence = exec'.sent - 1
      <3>1. exec'.sent = exec.sent + 1 /\ Counted(c) /\ routes' = routes /\ serverState # "down"
        BY <1>1, <1>4, <1>5, <2>9
      <3>2. routes[c].next \in Nat
        BY <1>0, <3>1, RoutesAre DEF Counted
      <3>3. exec'.sent >= routes'[c].next /\ exec'.sent - 1 = exec.sent
        BY <1>1, <2>5, <3>1, <3>2
      <3>4. PICK j : /\ j \in Places(toServer)' /\ OutputAt(c, j)' /\ toServer'[j] = m
        BY <2>3, <3>1
      <3>5. toServer'[j].sequence = exec'.sent - 1
        BY <2>1, <3>3, <3>4
      <3>6. ~routes'[c].completed
        BY <2>5, <3>1
      <3> QED
        BY <3>3, <3>4, <3>5, <3>6
    <2>10. \A d \in Calls, i, j \in Places(toServer)' : OutputAt(d, i)' /\ OutputAt(d, j)' =>
              /\ i < j => toServer'[i].sequence < toServer'[j].sequence
              /\ i # j => ~(toServer'[i].final /\ i < j)
      BY <2>6
    <2> QED
      BY <1>4, <2>7, <2>8, <2>9, <2>10 DEF OutputsCounted
  <1> QED
    BY <1>6, <1>7

LEMMA CountsKept ==
    ASSUME OnceInv, TablesInv, Exchanges, OutputsFollowOK, RoutesNotAhead, OutputsCounted, Next
    PROVE  OutputsCounted'
  <1>1. \/ Connect \/ Closes \/ Calling \/ Accepts \/ Still \/ ReadResult
        \/ Hears \/ ReadExecute \/ WriteReply
    BY StepsAre DEF Still
  <1> QED
    BY <1>1, CountsOfTheRest, CountsOfHears, CountsOfReadExecute, CountsOfReply

----------------------------------------------------------------------------
(* The targets of answers, and what the directory names.                   *)

(* Sessions by which the pane goes anywhere: live, in the directory, or in *)
(* a snapshot on its way there.                                            *)
Reported == {m \in Queued(toServer) : m.type = "snapshot"}
Sights == {occupant} \cup ({directory} \ {NoSession}) \cup {m.session : m \in Reported}

(* A server that is not ready knows no occupant and has heard no answer.   *)
NotReady ==
    /\ serverState # "ready" => directory = NoSession /\ reader = NoMessage
    /\ serverState = "starting" => serverSeq = 0 /\ \A m \in Queued(toServer) : m.type = "snapshot"
    /\ exec # NoExec => exec.report <= link

(* Nothing has gone by another session before the pane first changed.      *)
FirstOccupant ==
    changes = 0 =>
       /\ Sights \subseteq {occupant}
       /\ \A c \in Calls : phase[c] # "idle" => command[c].session = occupant

(* The snapshot that the server applied is the one the Pal waits for.      *)
AppliedIsAwaited ==
    Both /\ outstanding # NoSnapshot /\ serverSeq = clientSeq + 1 => directory = outstanding.session

(* A message is bound when its handler moved, and not before.              *)
BoundOnce ==
    /\ \A m \in Messages : /\ bound[m].changes <= changes
                           /\ bound[m].session = NoSession => bound[m].changes = 0
                           /\ ran[m] = NotRun => bound[m].session = NoSession
    /\ exec # NoExec /\ exec.at = "running" => bound[exec.command.message].session = NoSession

(* An OK on any way names the session that its message is bound to.        *)
BoundAt(c) == bound[command[c].message].session
NamesBound(m) ==
    /\ m.type = "result" /\ m.outcome = "ok" => m.replacement = BoundAt(m.call)
    /\ m.type = "output" => Truthful(m.call, "ok") /\ m.session = BoundTo(m.call, BoundAt(m.call))
AnswersNameBound ==
    /\ exec # NoExec /\ exec.at \in {"reporting", "reported", "finishing", "writing"}
       /\ exec.reply.outcome = "ok" =>
          exec.reply.replacement = bound[exec.command.message].session
    /\ \A m \in Messages : cache[m] # NoEntry /\ cache[m].reply.outcome = "ok" =>
          cache[m].reply.replacement = bound[m].session
    /\ \A m \in Queued(toServer) : NamesBound(m)
    /\ reader # NoMessage => NamesBound(reader)

(* Until the pane changes again, the session that an answer moved to is the *)
(* only one it goes by: when the handler is bound, that is the occupant,    *)
(* then the snapshot awaited, and when that is confirmed all there is.      *)
Steady(b) == changes = b.changes => Sights \subseteq {b.session}
Slotted == bound[exec.command.message]
BoundSteady ==
    /\ \A m \in Messages :
          cache[m] # NoEntry /\ cache[m].reply.outcome = "ok" /\ bound[m].session # NoSession =>
             Steady(bound[m])
    /\ exec # NoExec /\ exec.at = "finishing" /\ exec.reply.outcome = "ok" /\ Slotted.session # NoSession =>
          Steady(Slotted)
    /\ exec # NoExec /\ exec.at \in {"reporting", "reported"} /\ changes = Slotted.changes =>
          occupant = Slotted.session
    /\ exec # NoExec /\ exec.at = "reported" /\ exec.report = link /\ clientState # "down"
       /\ outstanding # NoSnapshot /\ changes = Slotted.changes =>
          outstanding.session = Slotted.session

TargetsInv ==
    /\ NotReady /\ FirstOccupant /\ AppliedIsAwaited
    /\ BoundOnce /\ AnswersNameBound /\ BoundSteady

TargetFault ==
    verdict.cause = "target" =>
       /\ verdict.call \in Calls /\ Truthful(verdict.call, "ok")
       /\ changes > bound[command[verdict.call].message].changes

LEMMA Bounds ==
    /\ \A t, n : Bound(t, n).session = t /\ Bound(t, n).changes = n
    /\ Unbound.session = NoSession /\ Unbound.changes = 0
  BY DEF Bound, Unbound

(* Only a handler that moved binds its message.                            *)
LEMMA BoundSteps ==
    ASSUME Next
    PROVE  \/ bound' = bound
           \/ \E n \in 0..MaxOutputs :
                 /\ RespondMoved(n) /\ exec # NoExec /\ exec.at = "running"
                 /\ bound' = [bound EXCEPT ![exec.command.message] = Bound(occupant, changes)]
  <1>1. ASSUME NEW n \in 0..MaxOutputs, RespondMoved(n)
        PROVE  /\ RespondMoved(n) /\ exec # NoExec /\ exec.at = "running"
               /\ bound' = [bound EXCEPT ![exec.command.message] = Bound(occupant, changes)]
    BY <1>1 DEF RespondMoved
  <1>2. CASE ~(\E n \in 0..MaxOutputs : RespondMoved(n))
    BY <1>2, StepsAre DEF Connect, ClientLoses, Closes, CloseServer, Calling, Waiting, Execute, TimeOut,
       LoseCall, TakeResult, RemoveCommand, ForgetExpired, ReadSnapshot, ReadResult, Accepts,
       AcceptResult, Hears, AcceptOutput, Skips, IgnoreOutput, ChangeOccupant, Resolves,
       ResolveNotice, SendSnapshot, ReadSnapshotResult, ReadExecute, Handles, BeginCommand, Respond,
       ReportFails, FinishCommand, WriteReply, WriteFails, WriteNotice, clientVars, paneVars
  <1> QED
    BY <1>1, <1>2

LEMMA PaneSteps ==
    ASSUME Next
    PROVE  \/ ChangeOccupant /\ changes' = changes + 1 /\ UNCHANGED <<bound, exec, cache, ran, link, clientState,
                                  outstanding, serverState, directory, toServer, phase, command, reader, verdict,
                                  serverSeq, clientSeq>>
           \/ UNCHANGED <<occupant, changes>>
  <1>1. CASE ChangeOccupant
    BY <1>1 DEF ChangeOccupant, net, callVars, serverVars, syncVars, execVars
  <1>2. CASE ~ChangeOccupant
    BY <1>2, StepsAre DEF Connect, ClientLoses, Closes, CloseServer, Calling, Waiting, Execute, TimeOut,
       LoseCall, TakeResult, RemoveCommand, ForgetExpired, ReadSnapshot, ReadResult, Accepts,
       AcceptResult, Hears, AcceptOutput, Skips, IgnoreOutput, Resolves,
       ResolveNotice, SendSnapshot, ReadSnapshotResult, ReadExecute, Handles, BeginCommand, Respond,
       RespondMoved, ReportFails, FinishCommand, WriteReply, WriteFails, WriteNotice, clientVars, paneVars
  <1> QED
    BY <1>1, <1>2

(* What the directory becomes.                                             *)
LEMMA DirectorySteps ==
    ASSUME Next
    PROVE  \/ UNCHANGED <<directory, serverState, serverSeq>>
           \/ Connect /\ serverState' = "starting" /\ UNCHANGED <<directory, serverSeq, reader>>
           \/ Closes /\ serverState' = "down" /\ directory' = NoSession /\ reader' = NoMessage
           \/ ReadSnapshot /\ serverState' = "ready" /\ directory' = Received.session
              /\ serverSeq' = Received.sequence /\ UNCHANGED reader
  <1>1. CASE Connect
    BY <1>1 DEF Connect, serverVars
  <1>2. CASE Closes
    BY <1>2 DEF Closes, CloseServer
  <1>3. CASE ReadSnapshot
    BY <1>3 DEF ReadSnapshot
  <1>4. CASE ~Connect /\ ~Closes /\ ~ReadSnapshot
    BY <1>4, StepsAre DEF ClientLoses, Calling, Waiting, Execute, TimeOut,
       LoseCall, TakeResult, RemoveCommand, ForgetExpired, ReadResult, Accepts,
       AcceptResult, Hears, AcceptOutput, Skips, IgnoreOutput, ChangeOccupant, Resolves,
       ResolveNotice, SendSnapshot, ReadSnapshotResult, ReadExecute, Handles, BeginCommand, Respond,
       RespondMoved, ReportFails, FinishCommand, WriteReply, WriteFails, WriteNotice, serverVars, net
  <1> QED
    BY <1>1, <1>2, <1>3, <1>4

(* While the pane does not change it goes by no new session.               *)
LEMMA SightsShrink ==
    ASSUME Base, Next, changes' = changes
    PROVE  occupant' = occupant /\ Sights' \subseteq Sights
  <1>0. TypeOK /\ changes \in Nat
    BY LinkAssumption DEF Base, TypeOK
  <1>1. occupant' = occupant
    BY <1>0, PaneSteps
  <1>2. ASSUME NEW m \in Queued(toServer)', m.type = "snapshot"
        PROVE  m.session \in Sights
    <2>1. CASE m \in Queued(toServer)
      BY <1>2, <2>1 DEF Sights, Reported
    <2>2. CASE WriteReply /\ m = Envelope(exec.sent)
      BY <1>0, <1>2, <2>2, EnvelopeIs, PartsOfMessages DEF WriteReply, Base
    <2>3. CASE m = ResultMsg(Head(toClient).call, "rejected", NoSession)
      BY <1>2, <2>3, PartsOfMessages
    <2> QED
      BY <1>2, <2>1, <2>2, <2>3, ServerQueued DEF Sights
  <1>3. directory' \in {directory, NoSession} \cup Sights
    <2>1. CASE ReadSnapshot /\ directory' = Received.session
      <3>1. Received \in Queued(toServer) /\ Received.type = "snapshot"
        BY <1>0, <2>1, QueuedMoves DEF ReadSnapshot, Arrived, Received
      <3> QED
        BY <2>1, <3>1 DEF Sights, Reported
    <2> QED
      BY <2>1, DirectorySteps
  <1> QED
    BY <1>1, <1>2, <1>3 DEF Sights, Reported

LEMMA SteadyKept ==
    ASSUME Base, Next, NEW b, b.changes \in Nat, b.changes <= changes, Steady(b)
    PROVE  Steady(b)'
  <1>0. changes \in Nat
    BY LinkAssumption DEF Base, TypeOK
  <1>1. changes' = changes \/ changes' = changes + 1
    BY PaneSteps
  <1>2. CASE changes' = changes
    BY <1>2, SightsShrink DEF Steady
  <1>3. CASE changes' = changes + 1
    BY <1>0, <1>3 DEF Steady
  <1> QED
    BY <1>1, <1>2, <1>3

(* What came of a message is in the cache, and its binding stays.          *)
LEMMA OKCached ==
    ASSUME Base, Handled, NEW m \in Messages, NEW t \in Sessions, ran[m] = Run(t, "ok")
    PROVE  cache[m] # NoEntry /\ cache[m].reply.outcome = "ok"
  <1>1. ran[m] # NotRun /\ ran[m].outcome = "ok"
    BY Runs
  <1>2. cache[m] # NoEntry
    BY <1>1, Runs DEF Handled
  <1> QED
    BY <1>1, <1>2, Runs DEF Handled

LEMMA BoundStays ==
    ASSUME Base, Handled, Next, NEW m \in Messages, cache[m] # NoEntry
    PROVE  bound'[m] = bound[m]
  <1>1. ASSUME exec # NoExec, exec.at = "running",
               bound' = [bound EXCEPT ![exec.command.message] = Bound(occupant, changes)]
        PROVE  bound'[m] = bound[m]
    <2>1. exec.command.message # m
      BY <1>1 DEF Handled, Handling
    <2> QED
      BY <1>1, <2>1 DEF Base, TypeOK
  <1> QED
    BY <1>1, BoundSteps

LEMMA NamesStay ==
    ASSUME OnceInv, Next, NEW c \in Calls, Truthful(c, "ok")
    PROVE  /\ Truthful(c, "ok")' /\ command'[c] = command[c] /\ BoundAt(c)' = BoundAt(c)
           /\ bound'[command'[c].message] = bound[command[c].message]
           /\ command[c].message \in Messages /\ command[c].session \in Sessions
           /\ cache[command[c].message] # NoEntry /\ cache[command[c].message].reply.outcome = "ok"
  <1> USE DEF OnceInv
  <1>1. command[c] \in Commands
    BY DEF Truthful, AnswersTruthful, Base, TypeOK
  <1>2. command[c].message \in Messages /\ command[c].session \in Sessions
    BY <1>1 DEF Commands
  <1>3. ran[command[c].message] = Run(command[c].session, "ok")
    BY DEF Truthful
  <1>4. cache[command[c].message] # NoEntry /\ cache[command[c].message].reply.outcome = "ok"
    BY <1>2, <1>3, OKCached
  <1>5. command'[c] = command[c]
    BY CallsKept DEF Truthful
  <1>6. Truthful(c, "ok")'
    BY TruthKept DEF Outcomes
  <1> QED
    BY <1>2, <1>4, <1>5, <1>6, BoundStays DEF BoundAt

(* What every step makes of the handler.                                   *)
HandlerAt(at, report, reply, sent) ==
    exec # NoExec /\ exec' = Exec(at, exec.call, exec.command, report, reply, sent)
LEMMA HandlerSteps ==
    ASSUME Next
    PROVE  \/ exec' \in {exec, NoExec}
           \/ \E c, k : ReadExecute /\ exec' = Exec("taken", c, k, 0, Rejected, 0)
           \/ SendSnapshot /\ exec.at = "reporting" /\ HandlerAt("reported", exec.report, exec.reply, 0)
           \/ /\ ReadSnapshotResult /\ exec.at = "reported" /\ exec.report = link
              /\ HandlerAt("finishing", exec.report, exec.reply, 0)
           \/ /\ BeginCommand /\ Hit(exec.command)
              /\ HandlerAt("writing", exec.report, cache[exec.command.message].reply, 0)
           \/ BeginCommand /\ HandlerAt("writing", exec.report, Rejected, 0)
           \/ /\ BeginCommand /\ ran[exec.command.message] = NotRun
              /\ HandlerAt("running", exec.report, Unanswered, 0)
           \/ HandlerAt("finishing", exec.report, Unanswered, 0)
           \/ \E n \in 0..MaxOutputs :
                 /\ exec.at = "running" /\ bound' = bound
                 /\ HandlerAt("finishing", exec.report, Reply("ok", NoSession, n), 0)
           \/ \E n \in 0..MaxOutputs :
                 /\ exec.at = "running" /\ RespondMoved(n)
                 /\ HandlerAt("reporting", link, Reply("ok", occupant, n), 0)
           \/ FinishCommand /\ exec.at = "finishing" /\ HandlerAt("writing", exec.report, exec.reply, 0)
           \/ /\ WriteReply /\ exec.at = "writing"
              /\ HandlerAt("writing", exec.report, exec.reply, exec.sent + 1)
  <1> USE DEF HandlerAt
  <1>1. CASE SendSnapshot \/ ReadSnapshotResult \/ ReadExecute
    BY <1>1 DEF SendSnapshot, ReportWanted, ReadSnapshotResult, ReadExecute
  <1>2. CASE BeginCommand
    BY <1>2 DEF BeginCommand, ExecAt
  <1>3. CASE ReportFails \/ FinishCommand \/ WriteReply \/ WriteFails
    BY <1>3 DEF ReportFails, FinishCommand, WriteReply, WriteFails, ExecAt
  <1>4. ASSUME NEW n \in 0..MaxOutputs, Respond(n)
        PROVE  \/ /\ exec.at = "running" /\ bound' = bound
                  /\ HandlerAt("finishing", exec.report, Reply("ok", NoSession, n), 0)
               \/ HandlerAt("finishing", exec.report, Unanswered, 0)
    BY <1>4 DEF Respond, ExecAt, paneVars
  <1>5. ASSUME NEW n \in 0..MaxOutputs, RespondMoved(n)
        PROVE  /\ exec.at = "running" /\ RespondMoved(n)
               /\ HandlerAt("reporting", link, Reply("ok", occupant, n), 0)
    BY <1>5 DEF RespondMoved
  <1>6. CASE Connect \/ ClientLoses \/ Closes \/ Calling \/ ReadSnapshot \/ ReadResult \/ Accepts
             \/ Hears \/ Skips \/ ChangeOccupant \/ Resolves \/ WriteNotice
    <2>1. exec' = exec
      BY <1>6 DEF Connect, ClientLoses, Closes, CloseServer, Calling, Waiting, Execute, TimeOut,
         LoseCall, TakeResult, RemoveCommand, ForgetExpired, ReadSnapshot, ReadResult, Accepts,
         AcceptResult, Hears, AcceptOutput, Skips, IgnoreOutput, ChangeOccupant, Resolves,
         ResolveNotice, WriteNotice, clientVars, execVars
    <2> QED
      BY <2>1
  <1>7. CASE \E n \in 0..MaxOutputs : Respond(n) \/ RespondMoved(n)
    BY <1>4, <1>5, <1>7
  <1> QED
    BY <1>1, <1>2, <1>3, <1>6, <1>7, StepsAre DEF Handles

LEMMA NotReadyKept ==
    ASSUME Base, NotReady, Next
    PROVE  NotReady'
  <1>0. /\ TypeOK /\ clientSeq \in Nat /\ serverSeq \in Nat /\ link \in Nat
        /\ exec # NoExec => exec \in ExecRecords /\ exec.report \in Nat
    BY ExecFields, LinkAssumption DEF Base, TypeOK, Links
  <1>1. serverState' # "ready" => directory' = NoSession
    <2>1. Connect => serverState = "down"
      BY DEF Connect
    <2> QED
      BY <2>1, DirectorySteps DEF NotReady
  <1>2. serverState' # "ready" => reader' = NoMessage
    <2>1. CASE ReadResult
      <3>1. serverState # "down" /\ serverState' = serverState /\ Received.type = "result"
        BY <2>1 DEF ReadResult, Arrived, Received
      <3>2. Received \in Queued(toServer)
        BY <1>0, <2>1, QueuedMoves DEF ReadResult, Arrived
      <3> QED
        BY <1>0, <3>1, <3>2 DEF NotReady, TypeOK
    <2>2. CASE Accepts
      BY <2>2 DEF Accepts, AcceptResult
    <2>3. CASE ~ReadResult /\ ~Accepts
      <3>1. reader' \in {reader, NoMessage}
        BY <2>3, StepsAre DEF Connect, ClientLoses, Closes, CloseServer, Calling, Waiting, Execute, TimeOut,
           LoseCall, TakeResult, RemoveCommand, ForgetExpired, ReadSnapshot,
           Hears, AcceptOutput, Skips, IgnoreOutput, ChangeOccupant, Resolves,
           ResolveNotice, SendSnapshot, ReadSnapshotResult, ReadExecute, Handles, BeginCommand,
           Respond, RespondMoved, ReportFails, FinishCommand, WriteReply, WriteFails, WriteNotice,
           serverVars
      <3>2. Connect => serverState = "down"
        BY DEF Connect
      <3> QED
        BY <3>1, <3>2, DirectorySteps DEF NotReady
    <2> QED
      BY <2>1, <2>2, <2>3
  <1>3. ASSUME serverState' = "starting"
        PROVE  serverSeq' = 0 /\ \A m \in Queued(toServer)' : m.type = "snapshot"
    <2>1. CASE Connect
      <3>1. serverSeq' = 0
        BY <2>1 DEF Connect, serverVars, Base, EndsDown
      <3>2. Queued(toServer)' \subseteq {SnapshotMsg(1, occupant)}
        BY <2>1 DEF Connect, Queued, Places
      <3> QED
        BY <3>1, <3>2, PartsOfMessages
    <2>2. CASE ~Connect
      <3>1. serverState = "starting" /\ serverSeq' = serverSeq /\ serverSeq = 0
        BY <1>3, <2>2, DirectorySteps DEF NotReady
      <3>2. clientState # "up"
        <4>1. clientState = "up" => clientSeq >= 1 /\ clientSeq <= serverSeq
          BY <3>1 DEF Base, EndsDown, Syncing, Both
        <4> QED
          BY <1>0, <3>1, <4>1
      <3>3. ~WriteReply /\ ~ReadExecute
        BY <3>2 DEF WriteReply, ReadExecute, SessionAlive
      <3>4. CASE WriteNotice
        <4>1. toServer' = toServer
          BY <3>2, <3>4 DEF WriteNotice, SessionAlive
        <4> QED
          BY <3>1, <4>1 DEF NotReady, Queued, Places
      <3>5. CASE ~WriteNotice
        <4>1. ASSUME NEW m \in Queued(toServer)'
              PROVE  m \in Queued(toServer) \/ m.type = "snapshot"
          <5>1. toServer' \in {toServer, <<>>} \/ (Consume /\ toServer # <<>>) \/ SendSnapshot
            BY <2>2, <3>3, <3>5, StepsAre DEF ClientLoses, Closes, CloseServer, Calling, Waiting, Execute,
               TimeOut, LoseCall, TakeResult, RemoveCommand, ForgetExpired, ReadSnapshot, ReadResult, Accepts,
               AcceptResult, Hears, AcceptOutput, Skips, IgnoreOutput, Arrived, ChangeOccupant, Resolves,
               ResolveNotice, ReadSnapshotResult, Handles,
               BeginCommand, Respond, RespondMoved, ReportFails, FinishCommand, WriteFails, net
          <5>2. ~SendSnapshot
            BY <3>2 DEF SendSnapshot
          <5> QED
            BY <1>0, <4>1, <5>1, <5>2, QueuedMoves DEF Queued, Places
        <4> QED
          BY <3>1, <4>1 DEF NotReady
      <3> QED
        BY <3>1, <3>4, <3>5
    <2> QED
      BY <2>1, <2>2
  <1>4. exec' # NoExec => exec'.report <= link'
    <2>1. link <= link' /\ link' \in Nat
      BY <1>0, LinkSteps
    <2>2. exec' # NoExec => exec'.report \in {0, link} \/ (exec # NoExec /\ exec'.report = exec.report)
      BY HandlerSteps, PartsOfExec DEF HandlerAt
    <2> QED
      BY <1>0, <2>1, <2>2 DEF NotReady
  <1> QED
    BY <1>1, <1>2, <1>3, <1>4 DEF NotReady

LEMMA FirstOccupantKept ==
    ASSUME OnceInv, FirstOccupant, Next
    PROVE  FirstOccupant'
  <1> USE DEF OnceInv
  <1> SUFFICES ASSUME changes' = 0
               PROVE  /\ Sights' \subseteq {occupant'}
                      /\ \A c \in Calls : phase'[c] # "idle" => command'[c].session = occupant'
    BY DEF FirstOccupant
  <1>0. TypeOK /\ changes \in Nat
    BY LinkAssumption DEF Base, TypeOK
  <1>1. changes = 0 /\ changes' = changes /\ occupant' = occupant
    BY <1>0, PaneSteps
  <1>2. Sights' \subseteq {occupant'}
    BY <1>1, SightsShrink DEF FirstOccupant
  <1>3. ASSUME NEW c \in Calls, phase'[c] # "idle"
        PROVE  command'[c].session = occupant'
    <2>1. CASE phase[c] # "idle"
      BY <1>1, <2>1, CallsKept DEF FirstOccupant
    <2>2. CASE phase[c] = "idle"
      <3>1. PICK m \in Messages : Starts(c, m)
        BY <1>0, <1>3, <2>2, PhaseSteps DEF Starts, Ends, Restarts, TypeOK
      <3>2. directory \in Sessions
        BY <3>1 DEF Starts, Execute, Base, EndsDown
      <3>3. directory \in Sights
        BY <3>2, LinkAssumption DEF Sights
      <3>4. command'[c].session = directory
        BY <1>0, <3>1, Runs DEF Starts, TypeOK
      <3> QED
        BY <1>1, <3>3, <3>4 DEF FirstOccupant
    <2> QED
      BY <2>1, <2>2
  <1> QED
    BY <1>2, <1>3

LEMMA AppliedIsAwaitedKept ==
    ASSUME Base, AppliedIsAwaited, Next
    PROVE  AppliedIsAwaited'
  <1> SUFFICES ASSUME Both', outstanding' # NoSnapshot, serverSeq' = clientSeq' + 1
               PROVE  directory' = outstanding'.session
    BY DEF AppliedIsAwaited
  <1>0. TypeOK /\ clientSeq \in Nat /\ serverSeq \in Nat
    BY DEF Base, TypeOK
  <1>1. ~Closes
    BY DirectorySteps DEF Both, Closes, CloseServer
  <1>2. CASE Connect
    <2>1. serverSeq' = 0 /\ clientSeq' = 0
      BY <1>2 DEF Connect, serverVars, Base, EndsDown
    <2> QED
      BY <2>1
  <1>3. CASE ReadSnapshot
    <2>1. /\ clientState' = clientState /\ clientSeq' = clientSeq /\ outstanding' = outstanding
          /\ directory' = Received.session
      BY <1>3 DEF ReadSnapshot, clientVars, syncVars
    <2>2. 1 \in Places(toServer) /\ Received = toServer[1] /\ Received.type = "snapshot"
      BY <1>0, <1>3, TailPlaces DEF ReadSnapshot, Arrived, Received, TypeOK
    <2>3. Received = outstanding
      BY <2>1, <2>2 DEF Both, Base, Syncing, Snapshots
    <2> QED
      BY <2>1, <2>3
  <1>4. CASE SendSnapshot
    <2>1. /\ outstanding = NoSnapshot /\ UNCHANGED <<serverSeq, clientSeq, serverState, clientState>>
      BY <1>4 DEF SendSnapshot, serverVars
    <2>2. serverSeq = clientSeq
      BY <2>1 DEF Both, Base, Syncing
    <2> QED
      BY <1>0, <2>1, <2>2
  <1>5. CASE ClientLoses \/ ReadSnapshotResult
    BY <1>5 DEF ClientLoses, ReadSnapshotResult
  <1>6. CASE ~Connect /\ ~ReadSnapshot /\ ~SendSnapshot /\ ~ClientLoses /\ ~ReadSnapshotResult
    <2>1. UNCHANGED <<directory, serverState, serverSeq>>
      BY <1>1, <1>6, DirectorySteps
    <2>2. UNCHANGED <<clientState, clientSeq, outstanding>>
      BY <1>1, <1>6, StepsAre DEF Calling, Waiting, Execute, TimeOut,
         LoseCall, TakeResult, RemoveCommand, ForgetExpired, ReadResult, Accepts,
         AcceptResult, Hears, AcceptOutput, Skips, IgnoreOutput, ChangeOccupant, Resolves,
         ResolveNotice, ReadExecute, Handles, BeginCommand, Respond,
         RespondMoved, ReportFails, FinishCommand, WriteReply, WriteFails, WriteNotice, net, clientVars, syncVars
    <2> QED
      BY <2>1, <2>2 DEF AppliedIsAwaited, Both
  <1> QED
    BY <1>1, <1>2, <1>3, <1>4, <1>5, <1>6

LEMMA BoundOnceKept ==
    ASSUME OnceInv, BoundOnce, Next
    PROVE  BoundOnce'
  <1> USE DEF OnceInv
  <1>0. /\ TypeOK /\ changes \in Nat /\ occupant \in Sessions /\ NoSession \notin Sessions
        /\ exec # NoExec => exec \in ExecRecords /\ exec.command.message \in Messages
                            /\ exec.command.session \in Sessions
        /\ \A m \in Messages : bound[m].changes \in Nat
    BY ExecFields, LinkAssumption DEF Base, TypeOK
  <1>1. changes <= changes' /\ changes' \in Nat
    BY <1>0, PaneSteps
  <1>2. ASSUME NEW m \in Messages, ran'[m] = NotRun
        PROVE  ran[m] = NotRun
    <2>1. CASE BeginCommand /\ ran' = [ran EXCEPT ![exec.command.message] = Run(exec.command.session, "running")]
      BY <1>0, <1>2, <2>1, Runs DEF TypeOK, BeginCommand
    <2>2. CASE FinishCommand
      <3>1. ran' = ran \/ ran' = [ran EXCEPT ![exec.command.message] =
                                     Run(exec.command.session, exec.reply.outcome)]
        BY <2>2 DEF FinishCommand
      <3>2. exec.reply.outcome \in {"ok", "failed"} /\ exec # NoExec
        BY <2>2 DEF FinishCommand, Base, RepliesProper, Handling
      <3> QED
        BY <1>0, <1>2, <3>1, <3>2, Runs DEF TypeOK
    <2> QED
      BY <1>2, <2>1, <2>2, RanSteps
  <1>3. CASE bound' = bound
    <2>1. ASSUME exec' # NoExec, exec'.at = "running"
          PROVE  bound[exec'.command.message].session = NoSession
      <3>1. CASE BeginCommand
        <4>1. exec' = Exec("running", exec.call, exec.command, exec.report, Unanswered, 0)
              /\ ran[exec.command.message] = NotRun /\ exec # NoExec
          BY <2>1, <3>1, PartsOfExec DEF BeginCommand, ExecAt
        <4> QED
          BY <1>0, <4>1, PartsOfExec DEF BoundOnce
      <3>2. CASE ~BeginCommand
        <4>1. exec' = exec
          BY <2>1, <3>2, HandlerSteps, PartsOfExec DEF HandlerAt
        <4> QED
          BY <2>1, <4>1 DEF BoundOnce
      <3> QED
        BY <3>1, <3>2
    <2> QED
      BY <1>0, <1>1, <1>2, <1>3, <2>1 DEF BoundOnce
  <1>4. ASSUME NEW n \in 0..MaxOutputs, RespondMoved(n), exec # NoExec, exec.at = "running",
               bound' = [bound EXCEPT ![exec.command.message] = Bound(occupant, changes)]
        PROVE  BoundOnce'
    <2>1. ran[exec.command.message] # NotRun
      BY <1>0, <1>4, Runs DEF Handled, Handling
    <2>2. bound'[exec.command.message] = Bound(occupant, changes)
          /\ \A m \in Messages \ {exec.command.message} : bound'[m] = bound[m]
      BY <1>0, <1>4 DEF TypeOK
    <2>3. exec'.at = "reporting"
      BY <1>4, PartsOfExec DEF RespondMoved
    <2> QED
      BY <1>0, <1>1, <1>2, <2>1, <2>2, <2>3, Bounds DEF BoundOnce
  <1> QED
    BY <1>3, <1>4, BoundSteps

LEMMA NamesKept ==
    ASSUME OnceInv, BoundOnce, AnswersNameBound, SentIsOK, Next
    PROVE  AnswersNameBound'
  <1> USE DEF OnceInv
  <1>0. /\ TypeOK
        /\ exec # NoExec => /\ exec \in ExecRecords /\ exec.call \in Calls
                            /\ exec.command.message \in Messages /\ exec.command.session \in Sessions
                            /\ exec.reply \in Replies
    BY ExecFields DEF Base, TypeOK
  <1>1. ASSUME NEW m, m \in Queued(toServer) \/ (m = reader /\ reader # NoMessage), NamesBound(m)
        PROVE  NamesBound(m)'
    <2>1. /\ m.type = "result" => Truthful(m.call, m.outcome) /\ m.call \in Calls
          /\ m.type = "output" => m.call \in Calls
      <3>1. CASE m \in Queued(toServer)
        BY <1>0, <3>1, QueuedMoves, PalMessageFields DEF AnswersTruthful
      <3>2. CASE m = reader /\ reader # NoMessage
        BY <1>0, <3>2 DEF AnswersTruthful, TypeOK, ResultMessages
      <3> QED
        BY <1>1, <3>1, <3>2
    <2>2. CASE m.type = "result" /\ m.outcome = "ok"
      <3>1. BoundAt(m.call)' = BoundAt(m.call)
        BY <2>1, <2>2, NamesStay
      <3> QED
        BY <1>1, <2>2, <3>1 DEF NamesBound
    <2>3. CASE m.type = "output"
      <3>1. m.call \in Calls /\ Truthful(m.call, "ok") /\ m.session = BoundTo(m.call, BoundAt(m.call))
        BY <1>1, <2>1, <2>3 DEF NamesBound
      <3>2. /\ Truthful(m.call, "ok")' /\ BoundAt(m.call)' = BoundAt(m.call)
            /\ command'[m.call] = command[m.call]
        BY <3>1, NamesStay
      <3> QED
        BY <2>3, <3>1, <3>2 DEF NamesBound, BoundTo
    <2>4. CASE m.type # "output" /\ ~(m.type = "result" /\ m.outcome = "ok")
      BY <2>4 DEF NamesBound
    <2> QED
      BY <2>2, <2>3, <2>4
  <1>2. \A m \in Queued(toServer)' : NamesBound(m)'
    <2>1. ASSUME WriteReply, NEW m, m = Envelope(exec.sent)
          PROVE  NamesBound(m)'
      <3>1. exec # NoExec /\ exec.at = "writing"
        BY <2>1 DEF WriteReply
      <3>2. PICK c \in Calls : c = exec.call
        BY <1>0, <3>1
      <3>3. CASE exec.reply.outcome = "ok"
        <4>0. IsFor(c, exec.command.message, exec.command.session)
          BY <3>1, <3>2 DEF AnswersTruthful
        <4>1. ran[exec.command.message] = Run(exec.command.session, "ok")
          BY <3>1, <3>3 DEF Handled
        <4>2. Truthful(c, "ok")
          BY <4>0, <4>1 DEF Truthful, IsFor
        <4>3. /\ Truthful(c, "ok")' /\ BoundAt(c)' = BoundAt(c)
              /\ command'[c] = command[c]
          BY <4>2, NamesStay
        <4>4. exec.reply.replacement = BoundAt(c)
          BY <3>1, <3>3, <4>0 DEF AnswersNameBound, BoundAt, IsFor
        <4>5. CASE exec.sent = 0
          <5>1. m.type = "result" /\ m.call = c /\ m.replacement = BoundAt(c)
            BY <2>1, <3>1, <3>2, <4>4, <4>5, EnvelopeIs, PartsOfMessages DEF Base
          <5> QED
            BY <4>3, <5>1 DEF NamesBound
        <4>6. CASE exec.sent # 0
          <5>1. /\ m.type = "output" /\ m.call = c
                /\ m.session = IF exec.reply.replacement = NoSession THEN exec.command.session
                               ELSE exec.reply.replacement
            BY <2>1, <3>1, <3>2, <4>6, EnvelopeIs, PartsOfMessages DEF Base
          <5>2. m.session = BoundTo(c, BoundAt(c))
            BY <4>0, <4>4, <5>1 DEF BoundTo, IsFor
          <5> QED
            BY <4>3, <5>1, <5>2 DEF NamesBound, BoundTo
        <4> QED
          BY <4>5, <4>6
      <3>4. CASE exec.reply.outcome # "ok"
        <4>1. exec.sent = 0
          BY <3>1, <3>4 DEF SentIsOK
        <4>2. m.type = "result" /\ m.outcome # "ok"
          BY <2>1, <3>1, <3>4, <4>1, EnvelopeIs, PartsOfMessages DEF Base
        <4> QED
          BY <4>2 DEF NamesBound
      <3> QED
        BY <3>3, <3>4
    <2>2. ASSUME NEW m, \/ m.type \in {"snapshot", "notice"}
                        \/ m = ResultMsg(Head(toClient).call, "rejected", NoSession)
          PROVE  NamesBound(m)'
      BY <2>2, PartsOfMessages DEF NamesBound
    <2> QED
      BY <1>1, <2>1, <2>2, ServerQueued DEF AnswersNameBound
  <1>3. reader' # NoMessage => NamesBound(reader)'
    <2>1. CASE ReadResult /\ reader' # NoMessage
      <3>1. reader' = Received /\ Received \in Queued(toServer)
        BY <1>0, <2>1, QueuedMoves DEF ReadResult, Arrived
      <3>2. PICK m : m = Received /\ m \in Queued(toServer)
        BY <3>1
      <3>3. NamesBound(m)'
        BY <1>1, <3>2 DEF AnswersNameBound
      <3> QED
        BY <3>1, <3>2, <3>3 DEF NamesBound, BoundAt, BoundTo, Truthful
    <2>2. CASE ~ReadResult
      <3>1. reader' \in {reader, NoMessage}
        BY <2>2, StepsAre DEF Connect, ClientLoses, Closes, CloseServer, Calling, Waiting, Execute, TimeOut,
           LoseCall, TakeResult, RemoveCommand, ForgetExpired, ReadSnapshot, Accepts,
           AcceptResult, Hears, AcceptOutput, Skips, IgnoreOutput, ChangeOccupant, Resolves,
           ResolveNotice, SendSnapshot, ReadSnapshotResult, ReadExecute, Handles, BeginCommand,
           Respond, RespondMoved, ReportFails, FinishCommand, WriteReply, WriteFails, WriteNotice,
           serverVars
      <3>2. ASSUME reader # NoMessage, reader' = reader
            PROVE  NamesBound(reader)'
        <4>1. PICK m : m = reader
          OBVIOUS
        <4>2. NamesBound(m)'
          BY <1>1, <3>2, <4>1 DEF AnswersNameBound
        <4> QED
          BY <3>2, <4>1, <4>2 DEF NamesBound, BoundAt, BoundTo, Truthful
      <3> QED
        BY <3>1, <3>2
    <2> QED
      BY <2>1, <2>2
  <1>4. \A m \in Messages : cache'[m] # NoEntry /\ cache'[m].reply.outcome = "ok" =>
           cache'[m].reply.replacement = bound'[m].session
    <2>1. ASSUME NEW m \in Messages, cache[m] # NoEntry, cache[m].reply.outcome = "ok"
          PROVE  cache[m].reply.replacement = bound'[m].session
      BY <2>1, BoundStays DEF AnswersNameBound
    <2>2. CASE FinishCommand
      <3>1. /\ exec # NoExec /\ exec.at = "finishing" /\ bound' = bound
            /\ cache' = [cache EXCEPT ![exec.command.message] = Entry(exec.command.session, exec.reply)]
        BY <2>2 DEF FinishCommand, Stored, paneVars
      <3>2. cache'[exec.command.message] = Entry(exec.command.session, exec.reply)
            /\ \A m \in Messages \ {exec.command.message} : cache'[m] = cache[m]
        BY <1>0, <3>1 DEF TypeOK
      <3> QED
        BY <2>1, <3>1, <3>2, Runs DEF AnswersNameBound
    <2> QED
      BY <2>1, <2>2, RanSteps
  <1>5. ASSUME exec' # NoExec, exec'.at \in {"reporting", "reported", "finishing", "writing"},
               exec'.reply.outcome = "ok"
        PROVE  exec'.reply.replacement = bound'[exec'.command.message].session
    <2>1. CASE bound' = bound /\ exec' = exec
      BY <1>5, <2>1 DEF AnswersNameBound
    <2>2. CASE /\ bound' = bound /\ exec # NoExec /\ exec'.command = exec.command
               /\ exec'.reply = exec.reply /\ exec.at \in {"reporting", "reported", "finishing", "writing"}
      BY <1>5, <2>2 DEF AnswersNameBound
    <2>3. CASE /\ bound' = bound /\ BeginCommand /\ Hit(exec.command)
               /\ HandlerAt("writing", exec.report, cache[exec.command.message].reply, 0)
      <3>1. exec'.command = exec.command /\ exec'.reply = cache[exec.command.message].reply
        BY <2>3, PartsOfExec DEF HandlerAt
      <3> QED
        BY <1>0, <1>5, <2>3, <3>1 DEF AnswersNameBound, HandlerAt, Hit
    <2>4. ASSUME NEW n \in 0..MaxOutputs, exec.at = "running", bound' = bound,
                 HandlerAt("finishing", exec.report, Reply("ok", NoSession, n), 0)
          PROVE  exec'.reply.replacement = bound'[exec'.command.message].session
      BY <2>4, PartsOfExec, PartsOfReplies DEF HandlerAt, BoundOnce
    <2>5. ASSUME NEW n \in 0..MaxOutputs, RespondMoved(n),
                 HandlerAt("reporting", link, Reply("ok", occupant, n), 0)
          PROVE  exec'.reply.replacement = bound'[exec'.command.message].session
      <3>1. bound' = [bound EXCEPT ![exec.command.message] = Bound(occupant, changes)] /\ exec # NoExec
        BY <2>5 DEF RespondMoved
      <3>2. bound'[exec.command.message] = Bound(occupant, changes)
        BY <1>0, <3>1 DEF TypeOK
      <3> QED
        BY <2>5, <3>2, PartsOfExec, PartsOfReplies, Bounds DEF HandlerAt
    <2>6. bound' = bound \/ \E n \in 0..MaxOutputs : RespondMoved(n)
      BY BoundSteps
    <2>7. ASSUME NEW n \in 0..MaxOutputs, RespondMoved(n)
          PROVE  HandlerAt("reporting", link, Reply("ok", occupant, n), 0)
      BY <2>7 DEF RespondMoved, HandlerAt
    <2>8. CASE bound' = bound
      <3>1. exec'.at # "taken" /\ exec'.at # "running"
            /\ exec'.reply # Rejected /\ exec'.reply # Unanswered
        BY <1>5, PartsOfReplies
      <3> QED
        BY <1>5, <2>1, <2>2, <2>3, <2>4, <2>5, <2>7, <2>8, <3>1, HandlerSteps, PartsOfExec DEF HandlerAt
    <2> QED
      BY <2>5, <2>6, <2>7, <2>8
  <1> QED
    BY <1>2, <1>3, <1>4, <1>5 DEF AnswersNameBound

LEMMA AwaitedSteps ==
    ASSUME Next, clientState' # "down", outstanding' # NoSnapshot
    PROVE  \/ Connect /\ link' = link + 1 /\ exec' = exec
           \/ SendSnapshot /\ outstanding'.session = occupant /\ link' = link
           \/ outstanding' = outstanding /\ clientState' = clientState /\ link' = link
  <1>1. CASE Connect
    BY <1>1 DEF Connect, execVars
  <1>2. CASE SendSnapshot
    BY <1>2, PartsOfMessages DEF SendSnapshot
  <1>3. CASE ~Connect /\ ~SendSnapshot
    BY <1>3, StepsAre DEF ClientLoses, Closes, CloseServer, Calling, Waiting, Execute, TimeOut,
       LoseCall, TakeResult, RemoveCommand, ForgetExpired, ReadSnapshot, ReadResult, Accepts,
       AcceptResult, Hears, AcceptOutput, Skips, IgnoreOutput, ChangeOccupant, Resolves,
       ResolveNotice, ReadSnapshotResult, ReadExecute, Handles, BeginCommand, Respond,
       RespondMoved, ReportFails, FinishCommand, WriteReply, WriteFails, WriteNotice, net, clientVars, syncVars
  <1> QED
    BY <1>1, <1>2, <1>3

(* Once its snapshot is confirmed, an answer names all that the pane goes by.*)
LEMMA ConfirmedSteady ==
    ASSUME Base, AppliedIsAwaited, NotReady, BoundSteady, ReadSnapshotResult, exec # NoExec,
           exec.at = "reported", exec.report = link
    PROVE  Steady(Slotted)
  <1> SUFFICES ASSUME changes = Slotted.changes
               PROVE  Sights \subseteq {Slotted.session}
    BY DEF Steady
  <1>0. TypeOK
    BY DEF Base
  <1>1. 1 \in Applied /\ clientState # "down"
    BY <1>0, TailPlaces DEF ReadSnapshotResult, Delivered, Applied, TypeOK
  <1>2. outstanding # NoSnapshot /\ (serverState # "down" => serverSeq = clientSeq + 1)
    BY <1>1 DEF Base, Syncing
  <1>3. occupant = Slotted.session /\ outstanding.session = Slotted.session
    BY <1>1, <1>2 DEF BoundSteady
  <1>4. directory \in {NoSession, Slotted.session}
    BY <1>1, <1>2, <1>3 DEF AppliedIsAwaited, NotReady, Both
  <1>5. Reported = {}
    BY <1>1 DEF Reported, Queued, Base, Syncing, Snapshots
  <1> QED
    BY <1>3, <1>4, <1>5 DEF Sights

LEMMA BoundSteadyKept ==
    ASSUME OnceInv, AppliedIsAwaited, NotReady, BoundOnce, BoundSteady, Next
    PROVE  BoundSteady'
  <1> USE DEF OnceInv
  <1>0. /\ TypeOK /\ changes \in Nat /\ link \in Nat
        /\ exec # NoExec => /\ exec \in ExecRecords /\ exec.command.message \in Messages
                            /\ exec.command.session \in Sessions /\ exec.report \in Nat
        /\ \A m \in Messages : bound[m].changes \in Nat /\ bound[m].changes <= changes
    BY ExecFields, LinkAssumption DEF Base, TypeOK, Links, BoundOnce
  <1>1. ASSUME NEW m \in Messages, bound'[m] = bound[m], Steady(bound[m])
        PROVE  Steady(bound[m])'
    <2>1. PICK b : b = bound[m]
      OBVIOUS
    <2>2. Steady(b)'
      BY <1>0, <1>1, <2>1, SteadyKept
    <2> QED
      BY <1>1, <2>1, <2>2 DEF Steady
  <1>2. \A m \in Messages :
           cache'[m] # NoEntry /\ cache'[m].reply.outcome = "ok" /\ bound'[m].session # NoSession =>
              Steady(bound[m])'
    <2>1. ASSUME NEW m \in Messages, cache[m] # NoEntry, cache[m].reply.outcome = "ok",
                 bound'[m].session # NoSession
          PROVE  Steady(bound[m])'
      BY <1>1, <2>1, BoundStays DEF BoundSteady
    <2>2. CASE FinishCommand
      <3>1. /\ exec # NoExec /\ exec.at = "finishing" /\ bound' = bound
            /\ cache' = [cache EXCEPT ![exec.command.message] = Entry(exec.command.session, exec.reply)]
        BY <2>2 DEF FinishCommand, Stored, paneVars
      <3>2. cache'[exec.command.message] = Entry(exec.command.session, exec.reply)
            /\ \A m \in Messages \ {exec.command.message} : cache'[m] = cache[m]
        BY <1>0, <3>1 DEF TypeOK
      <3>3. ASSUME NEW m \in Messages, m = exec.command.message, exec.reply.outcome = "ok",
                   bound'[m].session # NoSession
            PROVE  Steady(bound[m])'
        <4>1. Steady(bound[m])
          BY <3>1, <3>3 DEF BoundSteady, Slotted
        <4> QED
          BY <1>1, <3>1, <4>1
      <3> QED
        BY <1>0, <2>1, <3>1, <3>2, <3>3, Runs
    <2> QED
      BY <2>1, <2>2, RanSteps
  <1>3. exec' # NoExec /\ exec'.at \in {"reported", "finishing"} => bound' = bound
    BY BoundSteps, PartsOfExec DEF RespondMoved
  <1>4. ASSUME exec' # NoExec, exec'.at = "finishing", exec'.reply.outcome = "ok",
               Slotted'.session # NoSession
        PROVE  Steady(Slotted)'
    <2>0. bound' = bound
      BY <1>3, <1>4
    <2>1. CASE exec' = exec
      <3>1. PICK m \in Messages : m = exec.command.message
        BY <1>0, <1>4, <2>1
      <3>2. Steady(bound[m])'
        BY <1>1, <1>4, <2>0, <2>1, <3>1 DEF BoundSteady, Slotted
      <3> QED
        BY <2>1, <3>1, <3>2 DEF Steady, Slotted
    <2>2. CASE /\ ReadSnapshotResult /\ exec.at = "reported" /\ exec.report = link
               /\ HandlerAt("finishing", exec.report, exec.reply, 0)
      <3>1. exec # NoExec /\ exec'.command = exec.command
        BY <2>2, PartsOfExec DEF HandlerAt
      <3>2. PICK m \in Messages : m = exec.command.message
        BY <1>0, <3>1
      <3>3. Steady(bound[m])
        BY <2>2, <3>1, <3>2, ConfirmedSteady DEF Slotted
      <3>4. Steady(bound[m])'
        BY <1>1, <2>0, <3>3
      <3> QED
        BY <3>1, <3>2, <3>4 DEF Steady, Slotted
    <2>3. ASSUME NEW n \in 0..MaxOutputs, exec.at = "running",
                 HandlerAt("finishing", exec.report, Reply("ok", NoSession, n), 0)
          PROVE  FALSE
      BY <1>4, <2>0, <2>3, PartsOfExec DEF HandlerAt, BoundOnce, Slotted
    <2>4. exec'.reply # Unanswered
      BY <1>4, PartsOfReplies
    <2> QED
      BY <1>4, <2>1, <2>2, <2>3, <2>4, HandlerSteps, PartsOfExec DEF HandlerAt
  <1>5. ASSUME exec' # NoExec, exec'.at \in {"reporting", "reported"}, changes' = Slotted'.changes
        PROVE  occupant' = Slotted'.session
    <2>1. CASE bound' = bound /\ exec # NoExec /\ exec'.command = exec.command
               /\ exec.at \in {"reporting", "reported"}
      <3>1. changes' = changes /\ occupant' = occupant
        BY <1>0, <1>5, <2>1, PaneSteps DEF Slotted
      <3> QED
        BY <1>5, <2>1, <3>1 DEF BoundSteady, Slotted
    <2>2. ASSUME NEW n \in 0..MaxOutputs, RespondMoved(n)
          PROVE  occupant' = Slotted'.session
      <3>1. /\ exec # NoExec /\ UNCHANGED <<occupant, changes>>
            /\ bound' = [bound EXCEPT ![exec.command.message] = Bound(occupant, changes)]
            /\ exec'.command = exec.command
        BY <2>2, PartsOfExec DEF RespondMoved
      <3>2. bound'[exec.command.message] = Bound(occupant, changes)
        BY <1>0, <3>1 DEF TypeOK
      <3> QED
        BY <3>1, <3>2, Bounds DEF Slotted
    <2>3. CASE ~(\E n \in 0..MaxOutputs : RespondMoved(n))
      <3>1. bound' = bound
        BY <2>3, BoundSteps
      <3> QED
        BY <1>5, <2>1, <2>3, <3>1, HandlerSteps, PartsOfExec DEF HandlerAt
    <2> QED
      BY <2>2, <2>3
  <1>6. ASSUME exec' # NoExec, exec'.at = "reported", exec'.report = link', clientState' # "down",
               outstanding' # NoSnapshot, changes' = Slotted'.changes
        PROVE  outstanding'.session = Slotted'.session
    <2>0. bound' = bound /\ occupant' = Slotted'.session
      BY <1>3, <1>5, <1>6
    <2>1. exec' = exec \/ SendSnapshot
      BY <1>6, HandlerSteps, PartsOfExec DEF HandlerAt
    <2>2. CASE SendSnapshot
      <3>1. occupant' = occupant /\ outstanding'.session = occupant
        BY <2>2, PartsOfMessages DEF SendSnapshot, paneVars
      <3> QED
        BY <2>0, <3>1
    <2>3. CASE exec' = exec /\ ~SendSnapshot
      <3>1. ~Connect
        BY <1>0, <1>6, <2>3 DEF NotReady, Connect
      <3>2. outstanding' = outstanding /\ clientState' = clientState /\ link' = link
        BY <1>6, <2>3, <3>1, AwaitedSteps
      <3>3. changes' = changes
        BY <1>0, <1>6, <2>0, <2>3, PaneSteps DEF Slotted
      <3> QED
        BY <1>6, <2>0, <2>3, <3>2, <3>3 DEF BoundSteady, Slotted
    <2> QED
      BY <2>1, <2>2, <2>3
  <1> QED
    BY <1>2, <1>4, <1>5, <1>6 DEF BoundSteady, Slotted

LEMMA TargetsStart == Init => TargetsInv /\ TargetFault
  <1> SUFFICES ASSUME Init PROVE TargetsInv /\ TargetFault
    OBVIOUS
  <1>1. Queued(toServer) = {} /\ Reported = {}
    BY NoPlaces DEF Init, Queued, Reported
  <1>2. \A m \in Messages : bound[m].session = NoSession /\ bound[m].changes = 0
    BY Bounds DEF Init
  <1>3. Sights \subseteq {occupant}
    BY <1>1 DEF Init, Sights
  <1> QED
    BY <1>1, <1>2, <1>3 DEF Init, TargetsInv, NotReady, FirstOccupant, AppliedIsAwaited, BoundOnce,
       AnswersNameBound, BoundSteady, TargetFault

LEMMA TargetsKept ==
    ASSUME OnceInv, SentIsOK, TargetsInv, [Next]_vars
    PROVE  TargetsInv'
  <1>1. CASE Next
    BY <1>1, NotReadyKept, FirstOccupantKept, AppliedIsAwaitedKept, BoundOnceKept, NamesKept, BoundSteadyKept
       DEF TargetsInv, OnceInv
  <1>2. CASE UNCHANGED vars
    <2>1. Queued(toServer)' = Queued(toServer) /\ Reported' = Reported /\ Sights' = Sights
      BY <1>2, SameVars DEF Queued, Places, Reported, Sights
    <2>2. NotReady' /\ FirstOccupant' /\ AppliedIsAwaited' /\ BoundOnce'
      BY <1>2, <2>1, SameVars DEF TargetsInv, NotReady, FirstOccupant, AppliedIsAwaited, BoundOnce, Both
    <2>3. AnswersNameBound'
      BY <1>2, <2>1, SameVars DEF TargetsInv, AnswersNameBound, NamesBound, BoundAt, BoundTo, Truthful
    <2>4. BoundSteady'
      BY <1>2, <2>1, SameVars DEF TargetsInv, BoundSteady, Steady, Slotted
    <2> QED
      BY <2>2, <2>3, <2>4 DEF TargetsInv
  <1> QED
    BY <1>1, <1>2

(* An answer that names another session than the directory was bound to it *)
(* before the pane changed.                                                *)
LEMMA TargetOutdated ==
    ASSUME OnceInv, TargetsInv, NEW c \in Calls, Truthful(c, "ok"), serverState = "ready",
           directory # BoundTo(c, BoundAt(c))
    PROVE  changes > bound[command[c].message].changes
  <1> USE DEF OnceInv, TargetsInv
  <1>0. TypeOK /\ changes \in Nat /\ NoSession \notin Sessions
    BY LinkAssumption DEF Base, TypeOK
  <1>1. command[c] \in Commands
    BY <1>0 DEF Truthful, AnswersTruthful, TypeOK
  <1>2. PICK m \in Messages : m = command[c].message
    BY <1>1 DEF Commands
  <1>3. bound[m].changes \in Nat /\ bound[m].changes <= changes
    BY <1>0 DEF TypeOK, BoundOnce
  <1>4. directory \in Sessions /\ directory \in Sights
    BY <1>0 DEF Base, EndsDown, Sights
  <1>5. CASE bound[m].session = NoSession
    <2>1. bound[m].changes = 0 /\ directory # command[c].session
      BY <1>2, <1>5 DEF BoundOnce, BoundTo, BoundAt
    <2>2. changes # 0
      BY <1>4, <2>1 DEF FirstOccupant, Truthful
    <2> QED
      BY <1>0, <1>2, <2>1, <2>2
  <1>6. CASE bound[m].session # NoSession
    <2>1. ran[m] = Run(command[c].session, "ok") /\ command[c].session \in Sessions
      BY <1>1, <1>2 DEF Truthful, Commands
    <2>2. Steady(bound[m])
      BY <1>6, <2>1, OKCached DEF BoundSteady
    <2>3. directory # bound[m].session
      BY <1>2, <1>6 DEF BoundTo, BoundAt
    <2>4. changes # bound[m].changes
      BY <1>4, <2>2, <2>3 DEF Steady
    <2> QED
      BY <1>0, <1>2, <1>3, <2>4
  <1> QED
    BY <1>5, <1>6

LEMMA TargetFaultKept ==
    ASSUME OnceInv, TargetsInv, TargetFault, [Next]_vars
    PROVE  TargetFault'
  <1> USE DEF OnceInv
  <1>0. /\ TypeOK /\ changes \in Nat
        /\ \A m \in Messages : bound[m].changes \in Nat
    BY LinkAssumption DEF Base, TypeOK
  <1>1. CASE UNCHANGED vars
    BY <1>1, SameVars DEF TargetFault, Truthful
  <1>2. CASE Next /\ verdict' = verdict
    <2> SUFFICES ASSUME verdict.cause = "target"
                 PROVE  TargetFault'
      BY <1>2 DEF TargetFault
    <2>1. PICK c \in Calls : c = verdict.call
      BY DEF TargetFault
    <2>2. Truthful(c, "ok") /\ changes > bound[command[c].message].changes
      BY <2>1 DEF TargetFault
    <2>3. /\ Truthful(c, "ok")' /\ command[c].message \in Messages
          /\ bound'[command'[c].message] = bound[command[c].message]
      BY <1>2, <2>2, NamesStay
    <2>4. changes' >= changes /\ changes' \in Nat
      BY <1>0, <1>2, PaneSteps
    <2>5. changes' > bound'[command'[c].message].changes
      BY <1>0, <2>2, <2>3, <2>4
    <2> QED
      BY <1>2, <2>1, <2>3, <2>5 DEF TargetFault
  <1>3. ASSUME NEW c \in Calls, NEW cause, Break(cause, c),
               cause = "target" => Truthful(c, "ok") /\ changes > bound[command[c].message].changes
        PROVE  TargetFault'
    <2>1. /\ verdict' = [cause |-> cause, call |-> c]
          /\ UNCHANGED <<phase, command, ran, bound, changes>>
      BY <1>3 DEF Break, CloseServer, callVars, clientVars, execVars, paneVars
    <2>2. Truthful(c, "ok") => Truthful(c, "ok")'
      BY <2>1 DEF Truthful
    <2> QED
      BY <1>3, <2>1, <2>2 DEF TargetFault
  <1>4. CASE reader # NoMessage /\ Break(ResultFault(reader), reader.call)
    <2>1. reader \in ResultMessages
      BY <1>0, <1>4 DEF TypeOK
    <2>2. PICK c \in Calls : c = reader.call
      BY <2>1 DEF ResultMessages
    <2>3. ASSUME ResultFault(reader) = "target"
          PROVE  Truthful(c, "ok") /\ changes > bound[command[c].message].changes
      <3>1. reader.replacement \notin {NoSession, directory}
        BY <2>3 DEF ResultFault
      <3>2. reader.outcome = "ok" /\ reader.type = "result"
        BY <1>4, <2>1, <3>1 DEF Base, RepliesProper, Binds, ResultMessages
      <3>3. Truthful(c, "ok") /\ reader.replacement = BoundAt(c)
        BY <1>4, <2>2, <3>2 DEF AnswersTruthful, TargetsInv, AnswersNameBound, NamesBound
      <3>4. serverState = "ready"
        BY <1>4 DEF TargetsInv, NotReady
      <3> QED
        BY <3>1, <3>3, <3>4, TargetOutdated DEF BoundTo
    <2> QED
      BY <1>3, <1>4, <2>2, <2>3
  <1>5. CASE Arrived("output") /\ Break(OutputFault(Received), Received.call)
    <2>1. PICK m \in PalMessages : m = Received /\ m \in Queued(toServer) /\ m.type = "output"
      BY <1>0, <1>5, QueuedMoves DEF Arrived, Received
    <2>2. PICK c \in Calls : c = m.call
      BY <2>1, PalMessageFields
    <2>3. ASSUME OutputFault(m) = "target"
          PROVE  Truthful(c, "ok") /\ changes > bound[command[c].message].changes
      <3>1. m.session # directory
        BY <2>3 DEF OutputFault
      <3>2. Truthful(c, "ok") /\ m.session = BoundTo(c, BoundAt(c))
        BY <2>1, <2>2 DEF TargetsInv, AnswersNameBound, NamesBound
      <3>3. serverState = "ready"
        BY <1>0, <1>5, <2>1 DEF Arrived, TypeOK, TargetsInv, NotReady
      <3> QED
        BY <3>1, <3>2, <3>3, TargetOutdated
    <2> QED
      BY <1>3, <1>5, <2>1, <2>2, <2>3
  <1>6. CASE Break(NoticeFault(Received), 0)
    <2>1. verdict' = [cause |-> NoticeFault(Received), call |-> 0]
      BY <1>6 DEF Break
    <2> QED
      BY <2>1 DEF TargetFault, NoticeFault
  <1> QED
    BY <1>1, <1>2, <1>4, <1>5, <1>6, VerdictsAre

----------------------------------------------------------------------------
(* The links.                                                              *)
Ordered == Exchanges /\ OutputsFollowOK /\ RoutesNotAhead /\ OutputsCounted
LateOnly ==
    verdict.cause = "route" => verdict.call \in Calls /\ phase[verdict.call] = "timedout"
LinkInv ==
    /\ OnceInv /\ TablesInv /\ Ordered /\ TargetsInv
    /\ OutputsInOrder /\ LateOnly /\ TargetFault

LEMMA LinkStart == Init => LinkInv
  <1> SUFFICES ASSUME Init PROVE LinkInv
    OBVIOUS
  <1>1. OnceInv
    BY OnceStart
  <1>2. /\ \A c \in Calls : /\ phase[c] = "idle" /\ routes[c] = NoRoute /\ mail[c] = NoMail
                            /\ ~Here(c) /\ ~Looked(c) /\ ~InSlot(c) /\ ~Held(c) /\ ~Writes(c)
        /\ pending = {} /\ expired = {} /\ withdrawing = {}
        /\ Places(toServer) = {} /\ Places(toClient) = {}
    BY NoPlaces DEF Init, Here, Looked, InSlot, Held, Writes, OnLink
  <1>3. \A c \in Calls : ~Asked(c) /\ ~Sent(c) /\ ~Unheard(c) /\ ~Open(c) /\ ~Followed(c)
    BY <1>2 DEF Asked, Sent, Unheard, Open, Followed
  <1>4. TablesInv
    BY <1>2 DEF TablesInv, RoutesFollowRequests
  <1>5. SentIsOK
    BY DEF Init, SentIsOK
  <1>6. Exchanges
    BY <1>2, <1>3, <1>5 DEF Exchanges
  <1>7. OutputsFollowOK /\ RoutesNotAhead /\ OutputsCounted
    BY <1>2, <1>3 DEF OutputsFollowOK, RoutesNotAhead, OutputsCounted
  <1>8. OutputsInOrder /\ LateOnly
    BY DEF Init, OutputsInOrder, LateOnly
  <1> QED
    BY <1>1, <1>4, <1>6, <1>7, <1>8, TargetsStart DEF LinkInv, Ordered

(* A timeout stays one.                                                    *)
LEMMA TimedOutStays ==
    ASSUME OnceInv, Next, NEW c \in Calls, phase[c] = "timedout"
    PROVE  phase'[c] = "timedout"
  <1>1. phase \in [Calls -> States]
    BY DEF OnceInv, Base, TypeOK
  <1> QED
    BY <1>1, PhaseSteps DEF Starts, Ends, Restarts, OnceInv, Base

(* A result without a route is one that is late.                           *)
LEMMA ResultFaults ==
    ASSUME LinkInv, reader # NoMessage
    PROVE  /\ ResultFault(reader) \in {"route", "target", "none"} /\ reader.call \in Calls
           /\ ResultFault(reader) = "route" => phase[reader.call] = "timedout"
  <1> USE DEF LinkInv, Ordered
  <1>1. PICK c \in Calls : c = reader.call /\ Looked(c)
    BY DEF OnceInv, Base, TypeOK, ResultMessages, Looked
  <1>2. Here(c) /\ phase[c] \in {"waiting", "timedout", "lost"}
    BY <1>1 DEF Exchanges, Unheard, Open
  <1>3. ResultFault(reader) = "route" => routes[c] = NoRoute
    BY <1>1 DEF ResultFault
  <1>4. routes[c] = NoRoute => phase[c] = "timedout"
    BY <1>2 DEF TablesInv
  <1> QED
    BY <1>1, <1>3, <1>4 DEF ResultFault

(* So is an output without one; all others come as their route has them.   *)
LEMMA OutputFaults ==
    ASSUME LinkInv, Arrived("output"), Received.call \notin expired
    PROVE  /\ OutputFault(Received) \in {"target", "route", "repeated", "none"} /\ Received.call \in Calls
           /\ OutputFault(Received) = "route" => phase[Received.call] = "timedout"
  <1> USE DEF LinkInv, Ordered
  <1>0. TypeOK
    BY DEF OnceInv, Base
  <1>1. /\ toServer # <<>> /\ Received.type = "output" /\ reader = NoMessage
    BY DEF Arrived, Received
  <1>2. 1 \in Places(toServer) /\ Received = toServer[1] /\ Received \in PalMessages
    BY <1>0, <1>1, TailPlaces DEF TypeOK, Received
  <1>3. PICK c \in Calls : c = Received.call
    BY <1>1, <1>2, PalMessageFields
  <1>4. OutputAt(c, 1) /\ Followed(c)
    BY <1>1, <1>2, <1>3 DEF OutputAt, Followed
  <1>5. routes[c] = NoRoute => phase[c] = "timedout"
    <2>1. Here(c) /\ phase[c] \in {"waiting", "timedout", "lost", "ok"}
      BY <1>2, <1>4 DEF OutputsFollowOK, ResultOK
    <2> QED
      BY <2>1 DEF TablesInv
  <1>6. ASSUME routes[c] # NoRoute
        PROVE  /\ routes[c].session = Received.session
               /\ ~(Received.sequence > routes[c].next)
               /\ ~routes[c].completed
    <2>1. Counted(c)
      BY <1>3, <1>6 DEF Counted
    <2>2. ~Unheard(c)
      <3>1. \A k \in Places(toServer) : ~(k < 1)
        BY DEF Places
      <3> QED
        BY <1>1, <1>2, <1>4, <3>1 DEF Unheard, Sent, Looked, RoutesNotAhead
    <2>3. routes[c].session = Received.session
      BY <1>2, <1>4, <2>1, <2>2 DEF RoutesNotAhead, Speaks, Counted
    <2>4. ~routes[c].completed
      BY <1>2, <1>4, <2>1 DEF OutputsCounted
    <2>5. Received.sequence = routes[c].next
      <3>1. \A k \in Places(toServer) : ~(k < 1)
        BY DEF Places
      <3> QED
        BY <1>2, <1>4, <2>1, <3>1 DEF OutputsCounted
    <2>6. routes[c].next \in Nat
      BY <1>0, <1>6, RoutesAre
    <2> QED
      BY <2>3, <2>4, <2>5, <2>6
  <1> QED
    BY <1>3, <1>5, <1>6 DEF OutputFault

LEMMA LinkKept ==
    ASSUME LinkInv, [Next]_vars
    PROVE  LinkInv'
  <1> USE DEF LinkInv
  <1>0. TargetsInv' /\ TargetFault'
    BY TargetsKept, TargetFaultKept DEF Ordered, Exchanges
  <1>1. CASE UNCHANGED vars
    <2>1. OnceInv'
      BY <1>1, OnceKept
    <2>2. TablesInv' /\ OutputsInOrder' /\ LateOnly'
      BY <1>1, SameVars DEF TablesInv, RoutesFollowRequests, Here, OutputsInOrder, LateOnly
    <2>3. Exchanges'
      BY <1>1, SameVars DEF Ordered, Exchanges, Places, AskedAt, Asked, OnLink, InSlot, Held, SentAt, Sent,
         Looked, OutputAt, Unheard, Open, SentIsOK, Here
    <2>4. OutputsFollowOK'
      BY <1>1, SameVars DEF Ordered, OutputsFollowOK, Places, OnLink, InSlot, Writes, SentAt,
         Looked, OutputAt, Followed, ResultOK, Here
    <2>5. RoutesNotAhead'
      <3>0. Places(toServer)' = Places(toServer) /\ Places(toClient)' = Places(toClient)
        BY <1>1, SameVars DEF Places
      <3>1. ASSUME NEW c \in Calls
            PROVE  /\ Asked(c)' <=> Asked(c)
                   /\ Held(c)' <=> Held(c)
                   /\ Writes(c)' <=> Writes(c)
                   /\ Unheard(c)' <=> Unheard(c)
        BY <1>1, <3>0, SameVars DEF AskedAt, Asked, OnLink, InSlot, Held, Writes, SentAt, Sent, Looked, Unheard
      <3>2. \A c \in Calls : (Open(c) => Fresh(c))'
        BY <1>1, <3>1, SameVars DEF Ordered, RoutesNotAhead, Open, Fresh
      <3>3. \A c \in Calls, i \in Places(toServer) : (OutputAt(c, i) => Speaks(c, toServer[i].session))'
        <4> SUFFICES ASSUME NEW c \in Calls, NEW i \in Places(toServer), OutputAt(c, i)'
                     PROVE  Speaks(c, toServer[i].session)'
          OBVIOUS
        <4>1. Speaks(c, toServer[i].session)
          BY <1>1, SameVars DEF Ordered, RoutesNotAhead, OutputAt
        <4> QED
          BY <1>1, <3>0, <3>1, <4>1, SameVars DEF Speaks, SentAt, Looked, BoundTo
      <3>4. \A c \in Calls : (Writes(c) => Speaks(c, BoundTo(c, exec.reply.replacement)))'
        <4> SUFFICES ASSUME NEW c \in Calls, Writes(c)'
                     PROVE  Speaks(c, BoundTo(c, exec.reply.replacement))'
          OBVIOUS
        <4>1. Speaks(c, BoundTo(c, exec.reply.replacement))
          BY <3>1 DEF Ordered, RoutesNotAhead
        <4> QED
          BY <1>1, <3>0, <3>1, <4>1, SameVars DEF Speaks, SentAt, Looked, BoundTo
      <3>5. (\A c \in Calls, i, j \in Places(toServer) : SentAt(c, i) /\ OutputAt(c, j) => i < j)'
        BY <1>1, <3>0, SameVars DEF Ordered, RoutesNotAhead, SentAt, OutputAt
      <3> QED
        BY <3>0, <3>2, <3>3, <3>4, <3>5 DEF RoutesNotAhead
    <2>6. OutputsCounted'
      BY <1>1, SameVars DEF Ordered, OutputsCounted, Places, OnLink, InSlot, Writes, OutputAt, Counted
    <2> QED
      BY <1>0, <2>1, <2>2, <2>3, <2>4, <2>5, <2>6 DEF Ordered
  <1>2. CASE Next
    <2>1. OnceInv' /\ TablesInv' /\ Ordered'
      BY <1>2, OnceKept, TablesKept, ExchangesKept, FollowOKKept, RoutesKept, CountsKept DEF Ordered
    <2>2. CASE verdict' = verdict
      BY <1>0, <1>2, <2>1, <2>2, TimedOutStays DEF OutputsInOrder, LateOnly
    <2>3. CASE reader # NoMessage /\ Break(ResultFault(reader), reader.call)
      BY <1>0, <2>1, <2>3, ResultFaults DEF Break, callVars, OutputsInOrder, LateOnly
    <2>4. CASE /\ Arrived("output") /\ Received.call \notin expired
               /\ Break(OutputFault(Received), Received.call)
      BY <1>0, <2>1, <2>4, OutputFaults DEF Break, callVars, OutputsInOrder, LateOnly
    <2>5. CASE Break(NoticeFault(Received), 0)
      BY <1>0, <2>1, <2>5 DEF Break, callVars, OutputsInOrder, LateOnly, NoticeFault
    <2> QED
      BY <1>2, <2>2, <2>3, <2>4, <2>5, VerdictsAre
  <1> QED
    BY <1>1, <1>2

(* On every link the tables agree; whatever is late, replayed or cut off,  *)
(* outputs come in order for the session their result named; a reply       *)
(* without a route makes the server give the link up only when its call    *)
(* timed out, and one for a session the directory does not name only when  *)
(* the pane has changed, again after the reply was bound to that session.  *)
THEOREM LinksHoldForAll == Spec => []LinksHold
  <1>1. LinkInv => LinksHold
    BY DEF LinkInv, OnceInv, Base, TablesInv, LateOnly, TargetFault, LinksHold, OnlyLateAnswersBreak,
       TargetsBreakAfterChanges
  <1> QED
    BY <1>1, LinkStart, LinkKept, PTL DEF Spec
==============================================================================
