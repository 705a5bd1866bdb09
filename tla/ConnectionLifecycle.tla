------------------------- MODULE ConnectionLifecycle -------------------------
(***************************************************************************)
(* The life of the connections of one machine in the relay server, from    *)
(* the HTTP request to the end of its handler, against the management      *)
(* plane that revokes credentials, withdraws connections and stops the     *)
(* server.  Code: internal/server/hub.go, connection_view.go, the calls    *)
(* SessionCatalog.Attach and Detach, internal/adminservice/service.go and  *)
(* internal/credential/store.go.                                           *)
(*                                                                         *)
(* A handler verifies the credential, reserves the machine in the          *)
(* directory, upgrades, reads hello.client, enters the table `clients`     *)
(* and becomes ready with the first snapshot.  A management operation      *)
(* first persists its change, then takes matching connections out of       *)
(* `clients` under one lock, then detaches and cancels them one by one.    *)
(* Nothing orders the two.                                                 *)
(*                                                                         *)
(* Abstractions.  Machines are independent, so there is one.  A source     *)
(* rule is the set of addresses it admits.  The end of a credential's      *)
(* lifetime is left out: no code acts on it after verification.            *)
(***************************************************************************)
EXTENDS Naturals

CONSTANTS
    Conns,          \* connection identifiers; each is used once
    Credentials,    \* credential identifiers; each is issued once
    Sources,        \* addresses a machine can connect from
    Admins,         \* concurrent management calls
    Server,         \* the server's own shutdown sequence
    MaxOps,         \* bound on management operations
    NoConn

ASSUME LifecycleAssumption ==
    /\ NoConn \notin Conns
    /\ Server \notin Admins
    /\ MaxOps \in Nat

VARIABLES
    records,        \* credential -> its record
    stage,          \* connection -> where its handler is
    identity,       \* connection -> the credential and address it came with
    attached,       \* SessionCatalog: connection that holds the machine
    client,         \* ClientHub.clients: connection commands are routed to
    cancelled,      \* connections whose context was cancelled
    calls,          \* management call -> what it has still to do
    shutdown,       \* "running", "refusing" or "disconnected"
    missed,         \* handshakes a withdrawal of their credential passed by
    ops

hubVars == <<stage, identity, attached, client, cancelled>>
vars == <<records, stage, identity, attached, client, cancelled, calls, shutdown,
          missed, ops>>

Record(st, rules) == [status |-> st, sources |-> rules]
RecordStates ==
    [status : {"absent", "enabled", "disabled", "deleted"}, sources : SUBSET Sources]

(* MatchSource and the status test of VerifyRecord. *)
Usable(cr, src) ==
    /\ records[cr].status = "enabled"
    /\ src \in records[cr].sources

Identity(cr, src) == [credential |-> cr, source |-> src]
Identities == [credential : Credentials, source : Sources]

(* What is left of a management call: persisted, not yet withdrawn; or the  *)
(* connections it has taken out of the table and must still cancel.         *)
Idle == [to |-> "nothing", conns |-> {}, drop |-> {}]
Withdrawal(ids) == [to |-> "withdraw", conns |-> {}, drop |-> ids]
Cancelling(cs) == [to |-> "cancel", conns |-> cs, drop |-> {}]
CallStates ==
    [to : {"nothing", "withdraw", "cancel"}, conns : SUBSET Conns,
     drop : SUBSET Identities]

Callers == Admins \cup {Server}
Handshake == {"verified", "reserved", "upgraded"}
Stages == Handshake \cup {"idle", "installed", "ready", "closing", "removed", "closed"}

Init ==
    /\ records = [cr \in Credentials |-> Record("absent", {})]
    /\ stage = [c \in Conns |-> "idle"]
    /\ identity \in [Conns -> Identities]
    /\ attached = NoConn /\ client = NoConn
    /\ cancelled = {} /\ missed = {}
    /\ calls = [a \in Callers |-> Idle]
    /\ shutdown = "running"
    /\ ops = 0

Move(c, s) == stage' = [stage EXCEPT ![c] = s]

-----------------------------------------------------------------------------
(* The handler of a connection: ServeHTTP and serveConnection. *)

(* beginHandler and VerifyRequest. *)
Verify(c) ==
    /\ stage[c] = "idle"
    /\ shutdown = "running"
    /\ Usable(identity[c].credential, identity[c].source)
    /\ Move(c, "verified")
    /\ UNCHANGED <<records, identity, attached, client, cancelled, calls, shutdown,
                   missed, ops>>

(* SessionCatalog.Attach: the machine has one connection, or 409. *)
Reserve(c) ==
    /\ stage[c] = "verified"
    /\ IF attached = NoConn THEN attached' = c /\ Move(c, "reserved")
       ELSE UNCHANGED attached /\ Move(c, "closed")
    /\ UNCHANGED <<records, identity, client, cancelled, calls, shutdown, missed, ops>>

(* SessionCatalog.Detach does nothing for a connection already detached. *)
Detach(c) == attached' = IF attached = c THEN NoConn ELSE attached

(* websocket.Accept. *)
Upgrade(c) ==
    /\ stage[c] = "reserved"
    /\ Move(c, "upgraded")
    /\ UNCHANGED <<records, identity, attached, client, cancelled, calls, shutdown,
                   missed, ops>>

(* Mutant: a failed handshake leaves its reservation. *)
FailHandshakeReserved(c) ==
    /\ stage[c] \in {"reserved", "upgraded"}
    /\ Move(c, "closed")
    /\ UNCHANGED <<records, identity, attached, client, cancelled, calls, shutdown,
                   missed, ops>>

(* The upgrade fails, or hello.client is invalid or not there in 10 s. *)
FailHandshake(c) ==
    /\ stage[c] \in {"reserved", "upgraded"}
    /\ Detach(c)
    /\ Move(c, "closed")
    /\ UNCHANGED <<records, identity, client, cancelled, calls, shutdown, missed, ops>>

(* hello.client is valid: the connection enters the table of the hub. *)
Install(c) ==
    /\ stage[c] = "upgraded"
    /\ client' = c
    /\ Move(c, "installed")
    /\ UNCHANGED <<records, identity, attached, cancelled, calls, shutdown, missed, ops>>

(* The first snapshot: refused by the directory once the connection has    *)
(* been detached, which comes before its context is cancelled.             *)
FirstSnapshot(c) ==
    /\ stage[c] = "installed"
    /\ Move(c, IF attached = c THEN "ready" ELSE "closing")
    /\ UNCHANGED <<records, identity, attached, client, cancelled, calls, shutdown,
                   missed, ops>>

(* The link ends, the first snapshot is late, or the context is cancelled. *)
End(c) ==
    /\ stage[c] \in {"installed", "ready"}
    /\ Move(c, "closing")
    /\ UNCHANGED <<records, identity, attached, client, cancelled, calls, shutdown,
                   missed, ops>>

(* Mutant: the handler leaves the directory but not the table. *)
RemoveKeepsEntry(c) ==
    /\ stage[c] = "closing"
    /\ Move(c, "removed")
    /\ UNCHANGED <<records, identity, attached, client, cancelled, calls, shutdown,
                   missed, ops>>

(* remove: out of the table, if it is still this connection's entry ... *)
Remove(c) ==
    /\ stage[c] = "closing"
    /\ client' = IF client = c THEN NoConn ELSE client
    /\ Move(c, "removed")
    /\ UNCHANGED <<records, identity, attached, cancelled, calls, shutdown, missed, ops>>

(* ... then out of the directory; the handler returns. *)
Leave(c) ==
    /\ stage[c] = "removed"
    /\ Detach(c)
    /\ Move(c, "closed")
    /\ UNCHANGED <<records, identity, client, cancelled, calls, shutdown, missed, ops>>

-----------------------------------------------------------------------------
(* The management plane: each operation persists its change first.  A call  *)
(* that was accepted before the listeners closed may run during shutdown.   *)

Begin(a, ids) ==
    /\ calls[a] = Idle
    /\ ops < MaxOps
    /\ ops' = ops + 1
    /\ calls' = [calls EXCEPT ![a] = IF ids = {} THEN Idle ELSE Withdrawal(ids)]
    /\ UNCHANGED <<hubVars, shutdown, missed>>

Using(cr) == {i \in Identities : i.credential = cr}
Stored(cr) == records[cr].status \in {"enabled", "disabled"}
Store(cr, st, rules) == records' = [records EXCEPT ![cr] = Record(st, rules)]

(* Store.Issue: the machine has no other credential. *)
Issue(a, cr, rules) ==
    /\ records[cr].status = "absent"
    /\ \A d \in Credentials : ~Stored(d)
    /\ Store(cr, "enabled", rules)
    /\ Begin(a, {})

Enable(a, cr) ==
    /\ Stored(cr)
    /\ Store(cr, "enabled", records[cr].sources)
    /\ Begin(a, {})

(* Mutant: disabling persists and disconnects nobody. *)
DisableOnly(a, cr) ==
    /\ Stored(cr)
    /\ Store(cr, "disabled", records[cr].sources)
    /\ Begin(a, {})

Disable(a, cr) ==
    /\ Stored(cr)
    /\ Store(cr, "disabled", records[cr].sources)
    /\ Begin(a, Using(cr))

Delete(a, cr) ==
    /\ Stored(cr)
    /\ Store(cr, "deleted", {})
    /\ Begin(a, Using(cr))

(* MutateSources: adding rules reviews no connection; setting or removing   *)
(* does, by the rules this very operation has stored.                       *)
AddSources(a, cr, rules) ==
    /\ Stored(cr)
    /\ Store(cr, records[cr].status, records[cr].sources \cup rules)
    /\ Begin(a, {})

SetSources(a, cr, rules) ==
    /\ Stored(cr)
    /\ Store(cr, records[cr].status, rules)
    /\ Begin(a, {i \in Using(cr) : i.source \notin rules})

(* withdrawConnections, first part: matching entries leave the table.  A    *)
(* handler that is still in its handshake has no entry.                     *)
Matched(ids) == {c \in Conns : client = c /\ identity[c] \in ids}
PassedBy(ids) == {c \in Conns : stage[c] \in Handshake /\ identity[c] \in ids}

(* Mutant: the entries are cancelled while still in the table. *)
TakeKeepsRoute(a, ids) ==
    /\ calls' = [calls EXCEPT ![a] = IF Matched(ids) = {} THEN Idle
                                     ELSE Cancelling(Matched(ids))]
    /\ UNCHANGED <<records, stage, identity, attached, client, cancelled, ops>>

(* Mutant: whatever the table holds is taken, be it empty. *)
TakeUnchecked(a, ids) ==
    /\ client' = NoConn
    /\ calls' = [calls EXCEPT ![a] = Cancelling({client})]
    /\ UNCHANGED <<records, stage, identity, attached, cancelled, ops>>

Take(a, ids) ==
    /\ client' = IF Matched(ids) = {} THEN client ELSE NoConn
    /\ calls' = [calls EXCEPT ![a] = IF Matched(ids) = {} THEN Idle
                                     ELSE Cancelling(Matched(ids))]
    /\ UNCHANGED <<records, stage, identity, attached, cancelled, ops>>

Withdraw(a) ==
    /\ calls[a].to = "withdraw"
    /\ Take(a, calls[a].drop)
    /\ missed' = missed \cup PassedBy(calls[a].drop)
    /\ shutdown' = IF a = Server THEN "disconnected" ELSE shutdown

(* Mutant: the context is not cancelled. *)
CancelOneNot(a, c) ==
    /\ calls[a].to = "cancel"
    /\ c \in calls[a].conns
    /\ Detach(c)
    /\ calls' = [calls EXCEPT ![a] = Idle]
    /\ UNCHANGED <<records, stage, identity, client, cancelled, shutdown, missed, ops>>

(* Second part: out of the directory, then cancelled. *)
CancelOne(a, c) ==
    /\ calls[a].to = "cancel"
    /\ c \in calls[a].conns
    /\ Detach(c)
    /\ cancelled' = cancelled \cup {c}
    /\ calls' = [calls EXCEPT ![a] = Idle]
    /\ UNCHANGED <<records, stage, identity, client, shutdown, missed, ops>>

(* DisconnectConnection names the connection, the credential stays. *)
Disconnect(a, c) ==
    /\ calls[a] = Idle
    /\ ops < MaxOps
    /\ client = c
    /\ client' = NoConn
    /\ calls' = [calls EXCEPT ![a] = Cancelling({c})]
    /\ ops' = ops + 1
    /\ UNCHANGED <<records, stage, identity, attached, cancelled, shutdown, missed>>

(* The server stops: no new handler, then DisconnectAll, then Wait.  The    *)
(* shutdown of the HTTP server in between waits for handlers that are not   *)
(* upgraded yet, but only for a time.                                       *)
BeginShutdown ==
    /\ shutdown = "running"
    /\ shutdown' = "refusing"
    /\ calls' = [calls EXCEPT ![Server] = Withdrawal(Identities)]
    /\ UNCHANGED <<records, hubVars, missed, ops>>

-----------------------------------------------------------------------------
Handler(c) ==
    \/ Verify(c) \/ Reserve(c) \/ Upgrade(c) \/ FailHandshake(c)
    \/ Install(c) \/ FirstSnapshot(c) \/ End(c) \/ Remove(c) \/ Leave(c)

Manage(a) ==
    \/ \E cr \in Credentials : Enable(a, cr) \/ Disable(a, cr) \/ Delete(a, cr)
    \/ \E cr \in Credentials, rules \in SUBSET Sources \ {{}} :
           Issue(a, cr, rules) \/ AddSources(a, cr, rules) \/ SetSources(a, cr, rules)
    \/ \E c \in Conns : Disconnect(a, c)

Next ==
    \/ \E c \in Conns : Handler(c)
    \/ \E a \in Admins : Manage(a)
    \/ \E a \in Callers : Withdraw(a) \/ \E c \in Conns : CancelOne(a, c)
    \/ BeginShutdown

Spec == Init /\ [][Next]_vars

(* Handlers and management calls go on; the reads of the handshake have     *)
(* deadlines of 10 s; a cancelled context ends the read it guards.          *)
Fairness ==
    /\ \A c \in Conns :
           /\ WF_vars(Reserve(c)) /\ WF_vars(FailHandshake(c))
           /\ WF_vars(Remove(c)) /\ WF_vars(Leave(c))
           /\ WF_vars(stage[c] = "installed" /\ End(c))
           /\ WF_vars(c \in cancelled /\ End(c))
    /\ \A a \in Callers :
           WF_vars(Withdraw(a)) /\ WF_vars(\E c \in Conns : CancelOne(a, c))

FairSpec == Spec /\ Fairness

-----------------------------------------------------------------------------
(* Properties. *)

(* Every variable has its type. *)
TypeOK ==
    /\ records \in [Credentials -> RecordStates]
    /\ stage \in [Conns -> Stages]
    /\ identity \in [Conns -> Identities]
    /\ attached \in Conns \cup {NoConn}
    /\ client \in Conns \cup {NoConn}
    /\ cancelled \in SUBSET Conns
    /\ calls \in [Callers -> CallStates]
    /\ shutdown \in {"running", "refusing", "disconnected"}
    /\ missed \in SUBSET Conns
    /\ ops \in 0..MaxOps

(* The connection commands are routed to is the one that holds the machine  *)
(* in the directory, although the two tables are changed under two locks    *)
(* by handlers and management calls in any order: no stale entry routes, no *)
(* reconnect is routed past.                                                *)
OneRoutePerKey == client # NoConn => attached = client

(* A connection the management plane has taken out is never routed again,   *)
(* also while its handler is between installation and readiness.            *)
WithdrawnUnroutable ==
    \A c \in Conns :
        c \in cancelled \/ (\E a \in Callers : c \in calls[a].conns) => client # c

(* A routed connection whose credential no longer admits it is either about *)
(* to be withdrawn by a call that is still running, or was in its handshake *)
(* when that call looked: there is no other way for it to stay.             *)
RevokedStaysOut ==
    \A c \in Conns :
        client = c /\ ~Usable(identity[c].credential, identity[c].source) =>
            \/ c \in missed
            \/ \E a \in Callers : identity[c] \in calls[a].drop

(* After DisconnectAll every handler ends, except one that was in its       *)
(* handshake at that moment: hub.Wait waits for nobody else.                *)
HandlersEnd ==
    \A c \in Conns :
        (shutdown = "disconnected" /\ stage[c] # "idle" /\ c \notin missed)
            ~> (stage[c] = "closed")

(* A reservation of the machine does not outlive a failed handshake or a    *)
(* withdrawal: it becomes a ready connection or is given back.              *)
KeyFreed ==
    \A c \in Conns :
        (attached = c /\ stage[c] # "ready") ~> (attached # c \/ stage[c] = "ready")

(* README.md:463: disabling a key removes its connection at once and the    *)
(* Pal cannot come back: with no call running, no connection is routed      *)
(* under a disabled or deleted key.                                         *)
DisabledKeyDisconnected ==
    \A c \in Conns :
        client = c /\ stage[c] = "ready" /\ (\A a \in Callers : calls[a] = Idle)
            => records[identity[c].credential].status = "enabled"

(* What commands are routed to is the connection that holds the machine and *)
(* is not being withdrawn, whatever handlers, management calls and the      *)
(* shutdown do in between (hub.go install, remove, disconnect).             *)
RoutesHold == TypeOK /\ OneRoutePerKey /\ WithdrawnUnroutable

(* Handlers come to an end, and so do the reservations they made.           *)
HandlersSettle == HandlersEnd /\ KeyFreed
=============================================================================
