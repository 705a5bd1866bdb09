---------------------------- MODULE MessageIntake ----------------------------
(* From a WeCom callback to the user's task and its reply: the event loop  *)
(* (serverapp, runWeComEventLoop) dispatches each message                  *)
(* (server/router.go, queueIncoming), which is de-duplicated               *)
(* (policy/dedupe.go), queued for the user's worker (server/executor.go)   *)
(* or refused with at most one waiting notice; the worker answers through  *)
(* WeComClient.  One user: the executor shares nothing between users.      *)
(* What a message does (handleAuthorized) is the router's; here it only    *)
(* runs once or does not.  Messages are numbered in the order WeCom first  *)
(* sent them, and it may repeat one that was not confirmed.                *)
EXTENDS WeComClient

CONSTANTS QueueCap,     \* UserExecutor capacity
          DedupeCap,    \* Deduper capacity
          MaxMessages,  \* bound: distinct messages of a load
          Loads         \* bounds: what arrives, and over how many sessions

Workers == Callers      \* goroutines of runUser
Messages == 1..MaxMessages

(* A load: distinct messages the user sends, callbacks WeCom repeats,      *)
(* notifications submitted for the user, sessions dialled.                 *)
ASSUME IntakeBounds ==
    /\ QueueCap \in Nat \ {0} /\ DedupeCap \in Nat \ {0} /\ MaxMessages \in Nat
    /\ Loads \subseteq [messages : 0..MaxMessages, repeats : Nat, pushes : Nat,
                        sessions : 0..MaxSessions]
    /\ Workers # {}

VARIABLES
    load,                   \* the load, fixed
    sent, repeats, pushes,  \* what has arrived of it
    dispatched,             \* messages the event loop has taken from the channel
    keys,                   \* the Deduper's identifiers, oldest first
    refusing,               \* the message whose refusal the event loop is reporting
    tasks,                  \* the channel of the user's queue
    pendingTasks,           \* queue.pending; 0: the user has no queue
    overflowPending,        \* queue.overflowPending
    worker,                 \* each worker's step, task and attempt
    handled, refused,       \* times a message ran, was refused
    forgotten               \* times its identifier left the Deduper

boundVars == <<load, sent, repeats, pushes>>
queueVars == <<tasks, pendingTasks, overflowPending>>
messageVars == <<keys, handled, refused, forgotten>>
vars == <<clientVars, boundVars, dispatched, refusing, queueVars, worker, messageVars>>

NoMessage == 0
Tasks == [kind : {"message", "overflow", "push"}, id : 0..MaxMessages]
NoTask == [kind |-> "none", id |-> NoMessage]
IdleWorker == [step |-> "none", task |-> NoTask, attempt |-> 0]
Zero == [m \in Messages |-> 0]

Init ==
    /\ ClientInit
    /\ load \in Loads
    /\ sent = 0 /\ repeats = 0 /\ pushes = 0 /\ dispatched = 0
    /\ keys = <<>> /\ refusing = NoMessage
    /\ tasks = <<>> /\ pendingTasks = 0 /\ overflowPending = FALSE
    /\ worker = [w \in Workers |-> IdleWorker]
    /\ handled = Zero /\ refused = Zero /\ forgotten = Zero

--------------------------------------------------------------------------
(* WeCom sends a new message or repeats one.                               *)
NewMessage ==
    /\ sent < load.messages
    /\ sent' = sent + 1
    /\ Receive(sent + 1)
    /\ UNCHANGED <<load, repeats, pushes, dispatched, refusing, queueVars, worker, messageVars>>

RepeatMessage(m) ==
    /\ m <= sent /\ repeats < load.repeats
    /\ repeats' = repeats + 1
    /\ Receive(m)
    /\ UNCHANGED <<load, sent, pushes, dispatched, refusing, queueVars, worker, messageVars>>

(* The client's own steps.                                                 *)
OnlyClient == UNCHANGED <<boundVars, dispatched, refusing, queueVars, worker, messageVars>>
EndOfSession == (CloseDone \/ HeartbeatFails) /\ OnlyClient
DialBound == phase = "dial" => session < load.sessions
RunStep == DialBound /\ Run /\ OnlyClient
ReaderStep == Reader /\ OnlyClient
ReaderEnds == link # "open" /\ ReadFails("unavailable") /\ OnlyClient
CallStep(w) == Request(w) /\ OnlyClient
AnswerStep(w) == (\E result \in {"ok", "rejected"} : Answer(w, result)) /\ OnlyClient

--------------------------------------------------------------------------
(* Mutant: every refused message gets a notice.                            *)
FullNoMark(overflow) == ~overflow /\ pendingTasks >= QueueCap

(* UserExecutor.enqueue, under its mutex.  The first task of a user starts *)
(* a worker; one task beyond the capacity is kept for the overflow notice. *)
Full(overflow) == IF overflow THEN overflowPending ELSE pendingTasks >= QueueCap

Spawn ==
    LET w == CHOOSE v \in Workers : worker[v].step = "none" IN
    worker' = [worker EXCEPT ![w].step = "take"]

Enqueue(task) ==
    /\ tasks' = Append(tasks, task)
    /\ pendingTasks' = pendingTasks + 1
    /\ overflowPending' = (overflowPending \/ task.kind = "overflow")
    /\ IF pendingTasks = 0 THEN Spawn ELSE UNCHANGED worker

(* AddIfNew: identifiers whose time is over go first (any number of the    *)
(* oldest may have expired), then the oldest if there is no room.          *)
Forget(k) ==
    forgotten' = [m \in Messages |->
        forgotten[m] + Cardinality({i \in 1..k : keys[i] = m})]

Leaving(id, expired) ==
    LET live == SubSeq(keys, expired + 1, Len(keys)) IN
    IF Len(live) = DedupeCap /\ \A i \in 1..Len(live) : live[i] # id
    THEN expired + 1 ELSE expired

IsNew(id, k) == \A i \in (k + 1)..Len(keys) : keys[i] # id

(* Mutant: the identifier is kept only when the message was queued.        *)
RememberQueued(id, k) ==
    keys' = SubSeq(keys, k + 1, Len(keys))
              \o (IF IsNew(id, k) /\ ~Full(FALSE) THEN <<id>> ELSE <<>>)

Remember(id, k) ==
    keys' = SubSeq(keys, k + 1, Len(keys)) \o (IF IsNew(id, k) THEN <<id>> ELSE <<>>)

(* The event loop takes a message and tries to queue it.                   *)
TakeEvent ==
    /\ events # <<>> /\ refusing = NoMessage
    /\ events' = Tail(events) /\ dispatched' = Head(events).n
    /\ UNCHANGED <<runVars, readVars, link, reason, subscription, call, boundVars>>

Reserve(id, expired) ==
    LET k == Leaving(id, expired) IN Forget(k) /\ Remember(id, k)

Duplicate(expired) ==
    /\ TakeEvent /\ ~IsNew(Head(events).id, Leaving(Head(events).id, expired))
    /\ Reserve(Head(events).id, expired)
    /\ UNCHANGED <<refusing, queueVars, worker, handled, refused>>

Queue(expired) ==
    /\ TakeEvent /\ IsNew(Head(events).id, Leaving(Head(events).id, expired))
    /\ Reserve(Head(events).id, expired)
    /\ IF Full(FALSE)
       THEN /\ refusing' = Head(events).id
            /\ refused' = [refused EXCEPT ![Head(events).id] = @ + 1]
            /\ UNCHANGED <<queueVars, worker>>
       ELSE /\ Enqueue([kind |-> "message", id |-> Head(events).id])
            /\ UNCHANGED <<refusing, refused>>
    /\ UNCHANGED handled

(* A refused message gets a notice unless one is already pending; the      *)
(* worker may have made room since.                                        *)
Notify ==
    /\ refusing # NoMessage
    /\ refusing' = NoMessage
    /\ IF Full(TRUE) THEN UNCHANGED <<queueVars, worker>>
       ELSE Enqueue([kind |-> "overflow", id |-> refusing])
    /\ UNCHANGED <<clientVars, boundVars, dispatched, messageVars>>

EventLoop == Notify \/ \E expired \in 0..Len(keys) : Duplicate(expired) \/ Queue(expired)

(* SendNotification, SendCommandOutput: submitted by a connection's        *)
(* goroutine, refused when the queue is full.                              *)
Push ==
    /\ pushes < load.pushes /\ ~Full(FALSE)
    /\ pushes' = pushes + 1
    /\ Enqueue([kind |-> "push", id |-> NoMessage])
    /\ UNCHANGED <<clientVars, load, sent, repeats, dispatched, refusing, messageVars>>

--------------------------------------------------------------------------
(* runUser.                                                                *)
OnlyWorker == UNCHANGED <<runVars, readVars, link, reason, subscription, events,
                          boundVars, dispatched, refusing, keys, refused, forgotten>>

StartCall(w, owed) ==
    call' = [call EXCEPT ![w] = [NoCall EXCEPT !.step = "start", !.owed = owed]]

Take(w) ==
    /\ worker[w].step = "take" /\ tasks # <<>>
    /\ tasks' = Tail(tasks)
    /\ worker' = [worker EXCEPT ![w] = [step |-> "reply", task |-> Head(tasks), attempt |-> 1]]
    /\ IF Head(tasks).kind = "message"
       THEN handled' = [handled EXCEPT ![Head(tasks).id] = @ + 1]
       ELSE UNCHANGED handled
    /\ StartCall(w, 0)
    /\ UNCHANGED <<pendingTasks, overflowPending>> /\ OnlyWorker

(* The context of a submitted task is over: it is skipped.                 *)
Skip(w) ==
    /\ worker[w].step = "take" /\ tasks # <<>> /\ Head(tasks).kind = "push"
    /\ tasks' = Tail(tasks)
    /\ worker' = [worker EXCEPT ![w].step = "end", ![w].task = Head(tasks)]
    /\ UNCHANGED <<pendingTasks, overflowPending, handled, call>> /\ OnlyWorker

(* A reply that failed is sent a second time: under the callback's         *)
(* identifier as an error message (sendContentReply, then reply), or for   *)
(* the overflow notice as a message of its own.                            *)
SecondAttempt(w) ==
    /\ worker[w].step = "reply" /\ worker[w].attempt = 1 /\ worker[w].task.kind # "push"
    /\ call[w].step = "returned" /\ call[w].outcome # "ok"
    /\ worker' = [worker EXCEPT ![w].attempt = 2]
    /\ StartCall(w, IF worker[w].task.kind = "message" THEN call[w].owed ELSE 0)
    /\ UNCHANGED <<queueVars, handled>> /\ OnlyWorker

(* A message whose reply is not repeated, a notice that was sent.          *)
Replied(w) ==
    /\ worker[w].step = "reply" /\ call[w].step = "returned"
    /\ worker[w].task.kind = "overflow" /\ worker[w].attempt = 1 => call[w].outcome = "ok"
    /\ worker' = [worker EXCEPT ![w].step = "end"]
    /\ call' = [call EXCEPT ![w] = NoCall]
    /\ UNCHANGED <<queueVars, handled>> /\ OnlyWorker

(* The task is over: the counts are taken back and the last one removes    *)
(* the queue and ends the worker, all under the mutex.                     *)
End(w) ==
    /\ worker[w].step = "end"
    /\ pendingTasks' = pendingTasks - 1
    /\ overflowPending' = (overflowPending /\ worker[w].task.kind # "overflow")
    /\ worker' = [worker EXCEPT ![w] =
         IF pendingTasks = 1 THEN IdleWorker ELSE [IdleWorker EXCEPT !.step = "take"]]
    /\ UNCHANGED <<tasks, handled, call>> /\ OnlyWorker

WorkerStep(w) == Take(w) \/ Skip(w) \/ SecondAttempt(w) \/ Replied(w) \/ End(w)

Next ==
    \/ NewMessage \/ (\E m \in Messages : RepeatMessage(m)) \/ Push
    \/ EndOfSession \/ RunStep \/ ReaderStep \/ EventLoop
    \/ \E w \in Workers : CallStep(w) \/ AnswerStep(w) \/ WorkerStep(w)

Spec == Init /\ [][Next]_vars

(* Goroutines are scheduled, requests time out and a closed socket ends its *)
(* reader; WeCom need not answer and a live session need not end.          *)
Fairness ==
    /\ WF_vars(EventLoop) /\ WF_vars(RunStep) /\ WF_vars(CloseDone /\ OnlyClient)
    /\ WF_vars(ReaderEnds)
    /\ \A w \in Workers : WF_vars(CallStep(w)) /\ WF_vars(WorkerStep(w))

FairSpec == Spec /\ Fairness

--------------------------------------------------------------------------
(* A task's count, its place in the channel and its overflow mark agree,   *)
(* one worker at most serves the user, and the channel of capacity + 1     *)
(* never blocks enqueue, which holds the mutex (UserExecutor.enqueue,      *)
(* runUser).                                                               *)
QueueOK ==
    /\ Len(tasks) <= QueueCap + 1
    /\ Cardinality({w \in Workers : worker[w].step # "none"}) = IF pendingTasks = 0 THEN 0 ELSE 1

(* Every variable keeps its type and every channel its capacity.           *)
TypeOK ==
    /\ ClientTypeOK
    /\ QueueOK /\ load \in Loads
    /\ sent \in 0..load.messages /\ repeats \in Nat /\ pushes \in Nat
    /\ dispatched \in Nat /\ refusing \in 0..MaxMessages
    /\ {events, queued, flushing} \subseteq Seq([n : Nat, id : Messages])
    /\ keys \in Seq(Messages) /\ Len(keys) <= DedupeCap
    /\ tasks \in Seq(Tasks) /\ pendingTasks \in Nat /\ overflowPending \in BOOLEAN
    /\ worker \in [Workers -> [step : {"none", "take", "reply", "end"},
                              task : Tasks \cup {NoTask}, attempt : 0..2]]
    /\ {handled, refused, forgotten} \subseteq [Messages -> Nat]

(* Messages are dispatched in the order WeCom sent them and none is        *)
(* skipped, across activation, full queues and reconnections, except those *)
(* of a session that never got subscribed or ended with a protocol error   *)
(* (session.enqueue, activate, flushQueued).                               *)
EventsInOrder ==
    LET waiting == events \o flushing \o queued IN
    /\ received = dispatched + Len(waiting)
    /\ \A i \in 1..Len(waiting) : waiting[i].n = dispatched + i

(* A message runs or is refused, once for each time its identifier was     *)
(* unknown: a message the full queue refused is not run when WeCom repeats *)
(* it, as its user was told (router.queueIncoming, Deduper.AddIfNew).      *)
OneVerdict == \A m \in Messages : handled[m] + refused[m] <= 1 + forgotten[m]

(* WeCom's messages are told to the router in order and each gets its one  *)
(* verdict, with types and counters that agree.                            *)
HandledOnce == TypeOK /\ EventsInOrder /\ OneVerdict

(* Every message accepted from WeCom is dispatched or dropped and every    *)
(* task ends, answered or not: nothing waits for WeCom to answer or to     *)
(* come back (Client.Run, UserExecutor.runUser).                           *)
Busy == pendingTasks > 0 \/ queued # <<>> \/ flushing # <<>> \/ events # <<>>
IntakeRests == Busy ~> ~Busy
=============================================================================
