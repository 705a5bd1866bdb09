----------------------------- MODULE WeComClient -----------------------------
(* The server's connection to WeCom (wecom/client.go): one goroutine,      *)
(* Run, dials, subscribes, activates and buries one session after the      *)
(* other; the session's reader matches responses to requests and queues    *)
(* the text messages; any goroutine may send a request on the session it   *)
(* finds installed.  Only the callers of MessageIntake send requests, so   *)
(* this module has actions but no specification of its own.                *)
(*                                                                         *)
(* A text message is [n, id]: the n-th one accepted from WeCom and its     *)
(* message identifier.  Request identifiers are fresh (the subscription,   *)
(* heartbeats, SendMarkdownTo) or the callback's (RespondMarkdown), which  *)
(* one caller may use twice, one attempt after the other.                  *)
EXTENDS Naturals, Sequences, FiniteSets

CONSTANTS Callers,      \* goroutines that send requests
          EventCap,     \* capacity of the channel Events()
          MaxSessions   \* bound: connections dialled

ASSUME ClientBounds == EventCap \in Nat \ {0} /\ MaxSessions \in Nat \ {0}

VARIABLES
    phase,         \* where Run stands
    session,       \* sessions dialled so far; the last one is the only live one
    installed,     \* c.current is that session (else nil)
    link,          \* its finish: not begun, begun (pending cancelled), done closed
    reason,        \* its finalErr
    reading,       \* its reader runs
    ready,         \* its ready flag
    queued,        \* its queued messages
    subscription,  \* its subscribe request
    flushing,      \* what flushQueued has left to hand over
    events,        \* the channel
    received,      \* messages accepted so far and not dropped
    call           \* the request of each caller

runVars == <<phase, session, installed, flushing>>
readVars == <<reading, ready, queued, received>>
clientVars == <<runVars, readVars, link, reason, subscription, events, call>>

Reasons == {"unavailable", "full", "protocol"}
Phases == {"dial", "subscribe", "giveUp", "retry", "activate", "activating",
           "live", "settle", "flush", "stopped"}
Steps == {"idle", "start", "captured", "registered", "sent", "cancelling", "finishing", "returned"}
Results == {"none", "ok", "rejected", "failed"}
Calls == [step : Steps, session : 0..MaxSessions, pending : BOOLEAN, result : Results,
          outcome : Results, owed : 0..MaxSessions]
NoCall == [step |-> "idle", session |-> 0, pending |-> FALSE, result |-> "none",
           outcome |-> "none", owed |-> 0]

ClientInit ==
    /\ phase = "dial" /\ session = 0 /\ installed = FALSE
    /\ link = "closed" /\ reason = "unavailable" /\ reading = FALSE
    /\ ready = FALSE /\ queued = <<>> /\ subscription = "none"
    /\ flushing = <<>> /\ events = <<>> /\ received = 0
    /\ call = [c \in Callers |-> NoCall]

--------------------------------------------------------------------------
(* The end of a session.  finish() runs once: it fails every pending       *)
(* request, cancels the context and closes the socket, and only then       *)
(* closes done.  A request registered in between is in nobody's list.      *)
CancelAll(r) ==
    /\ call' = [c \in Callers |->
         IF call[c].pending /\ call[c].session = session
         THEN [call[c] EXCEPT !.pending = FALSE, !.result = "failed"] ELSE call[c]]
    /\ subscription' = IF subscription = "waiting" THEN r ELSE subscription

Finish(r) ==
    IF link = "open" THEN link' = "closing" /\ reason' = r /\ CancelAll(r)
    ELSE UNCHANGED <<link, reason, call, subscription>>

CloseDone ==
    /\ link = "closing"
    /\ link' = "closed"
    /\ UNCHANGED <<runVars, readVars, reason, subscription, events, call>>

HeartbeatFails ==
    /\ phase = "live" /\ link = "open"
    /\ Finish("unavailable")
    /\ UNCHANGED <<runVars, readVars, events>>

--------------------------------------------------------------------------
(* The reader.  It may handle the frame it has already read after the      *)
(* session began to end; activate() shuts it out with readyMu.             *)

(* The socket fails, WeCom asks to disconnect, or a frame is invalid.      *)
ReadFails(r) ==
    /\ reading
    /\ reading' = FALSE
    /\ Finish(r)
    /\ UNCHANGED <<runVars, ready, queued, received, events>>

(* Mutant: the message that does not fit is not kept.                      *)
RefuseDropped(message) ==
    /\ reading' = FALSE
    /\ Finish("full")
    /\ UNCHANGED <<queued, events>>

(* enqueue() of a text message.                                            *)
Refuse(message) ==
    /\ queued' = Append(queued, message)
    /\ reading' = FALSE
    /\ Finish("full")
    /\ UNCHANGED events

Accept(message) ==
    /\ IF ready THEN events' = Append(events, message) /\ UNCHANGED queued
                ELSE queued' = Append(queued, message) /\ UNCHANGED events
    /\ UNCHANGED <<reading, link, reason, call, subscription>>

QueueFull == IF ready THEN Len(events) >= EventCap ELSE Len(queued) >= EventCap

Receive(id) ==
    LET message == [n |-> received + 1, id |-> id] IN
    /\ reading /\ phase # "activating"
    /\ received' = received + 1
    /\ IF QueueFull THEN Refuse(message) ELSE Accept(message)
    /\ UNCHANGED <<runVars, ready>>

(* resolve(): the response takes its request out of pending and puts the   *)
(* result in its channel.  A request timed out earlier under the same      *)
(* callback identifier may be answered now: the response is taken for the  *)
(* second attempt's.  A response without a request changes nothing.        *)
Answer(c, result) ==
    /\ reading /\ call[c].session = session /\ call[c].pending
    /\ call[c].owed = session
    /\ call' = [call EXCEPT ![c].pending = FALSE, ![c].owed = 0, ![c].result = result]
    /\ UNCHANGED <<runVars, readVars, link, reason, subscription, events>>

AnswerSubscription(result) ==
    /\ reading /\ subscription = "waiting"
    /\ subscription' = result
    /\ UNCHANGED <<runVars, readVars, link, reason, events, call>>

--------------------------------------------------------------------------
(* Run.                                                                    *)
DialSession ==
    /\ phase = "dial" /\ session < MaxSessions
    /\ session' = session + 1 /\ phase' = "subscribe"
    /\ link' = "open" /\ reading' = TRUE /\ ready' = FALSE
    /\ subscription' = "waiting"
    /\ UNCHANGED <<installed, flushing, reason, queued, received, events, call>>

Subscribed ==
    /\ phase = "subscribe" /\ subscription = "accepted"
    /\ phase' = "activate" /\ installed' = TRUE /\ subscription' = "none"
    /\ UNCHANGED <<session, flushing, readVars, link, reason, events, call>>

(* A protocol error, a rejection or a full queue ends Run; a timeout or a  *)
(* lost connection is tried again.                                         *)
SubscribeFails ==
    /\ phase = "subscribe"
    /\ \/ subscription \in {"rejected", "full", "protocol"} /\ phase' = "giveUp"
       \/ subscription \in {"waiting", "unavailable"} /\ phase' = "retry"
    /\ subscription' = "none"
    /\ IF link = "open"
       THEN link' = "closing" /\ reason' = "unavailable"
       ELSE UNCHANGED <<link, reason>>
    /\ UNCHANGED <<session, installed, flushing, readVars, events, call>>

Ended == link = "closed" /\ ~reading

Drop == queued' = <<>> /\ received' = received - Len(queued)

(* The failed session is forgotten with what it had queued.                *)
Abandon ==
    /\ phase \in {"giveUp", "retry"} /\ Ended
    /\ phase' = IF phase = "giveUp" THEN "stopped" ELSE "dial"
    /\ Drop
    /\ UNCHANGED <<session, installed, flushing, reading, ready, link, reason,
                   subscription, events, call>>

(* activate(): under readyMu the queued messages move to the channel; it   *)
(* fails when done is closed or the channel is full.                       *)
StartActivation ==
    /\ phase = "activate"
    /\ phase' = IF link = "closed" THEN "settle" ELSE "activating"
    /\ UNCHANGED <<session, installed, flushing, readVars, link, reason,
                   subscription, events, call>>

MoveQueued ==
    /\ phase = "activating" /\ queued # <<>> /\ Len(events) < EventCap
    /\ events' = Append(events, Head(queued)) /\ queued' = Tail(queued)
    /\ UNCHANGED <<runVars, reading, ready, received, link, reason, subscription, call>>

ActivationFull ==
    /\ phase = "activating" /\ queued # <<>> /\ Len(events) >= EventCap
    /\ phase' = "settle"
    /\ Finish("unavailable")
    /\ UNCHANGED <<session, installed, flushing, readVars, events>>

Activated ==
    /\ phase = "activating" /\ queued = <<>>
    /\ phase' = "live" /\ ready' = TRUE
    /\ UNCHANGED <<session, installed, flushing, reading, queued, received, link,
                   reason, subscription, events, call>>

(* A live session has ended, or one whose activation failed: Run waits for *)
(* its goroutines and, unless a live session ended with a protocol error,  *)
(* hands over what is still queued.                                        *)
Flush == flushing' = queued /\ queued' = <<>> /\ UNCHANGED received

Bury ==
    /\ phase \in {"live", "settle"} /\ Ended
    /\ installed' = FALSE
    /\ IF phase = "live" /\ reason = "protocol"
       THEN phase' = "stopped" /\ Drop /\ UNCHANGED flushing
       ELSE phase' = "flush" /\ Flush
    /\ UNCHANGED <<session, reading, ready, link, reason, subscription, events, call>>

FlushOne ==
    /\ phase = "flush" /\ flushing # <<>> /\ Len(events) < EventCap
    /\ events' = Append(events, Head(flushing)) /\ flushing' = Tail(flushing)
    /\ UNCHANGED <<phase, session, installed, readVars, link, reason, subscription, call>>

Flushed ==
    /\ phase = "flush" /\ flushing = <<>>
    /\ phase' = "dial"
    /\ UNCHANGED <<session, installed, flushing, readVars, link, reason,
                   subscription, events, call>>

Run == \/ DialSession \/ Subscribed \/ SubscribeFails \/ Abandon
       \/ StartActivation \/ MoveQueued \/ ActivationFull \/ Activated
       \/ Bury \/ FlushOne \/ Flushed

--------------------------------------------------------------------------
(* A caller's request(): it takes the installed session, registers, writes *)
(* and waits.  The session may end, and a newer one begin, between any two *)
(* of these steps.                                                         *)
Return(c, outcome) ==
    call' = [call EXCEPT ![c].step = "returned", ![c].pending = FALSE,
                         ![c].outcome = outcome]

Closed(c) == call[c].session # session \/ link = "closed"

Capture(c) ==
    /\ call[c].step = "start"
    /\ IF installed
       THEN call' = [call EXCEPT ![c].step = "captured", ![c].session = session]
       ELSE Return(c, "failed")
    /\ UNCHANGED <<runVars, readVars, link, reason, subscription, events>>

Register(c) ==
    /\ call[c].step = "captured"
    /\ call' = [call EXCEPT ![c].step = "registered", ![c].pending = TRUE]
    /\ UNCHANGED <<runVars, readVars, link, reason, subscription, events>>

Write(c) ==
    /\ call[c].step = "registered" /\ ~Closed(c)
    /\ call' = [call EXCEPT ![c].step = "sent", ![c].owed = session]
    /\ UNCHANGED <<runVars, readVars, link, reason, subscription, events>>

(* The write fails.  Somebody else may have taken the request: then its    *)
(* result counts.  A transport error ends the session, and the caller      *)
(* returns when it has ended.                                              *)
WriteTimesOut(c) ==
    /\ call[c].step = "registered" /\ ~Closed(c)
    /\ call' = [call EXCEPT ![c].step = "cancelling", ![c].owed = session]
    /\ UNCHANGED <<runVars, readVars, link, reason, subscription, events>>

WriteFails(c) ==
    /\ call[c].step = "registered"
    /\ IF ~call[c].pending
       THEN call' = [call EXCEPT ![c].step = "cancelling"]
            /\ UNCHANGED <<link, reason, subscription>>
       ELSE IF Closed(c)
       THEN Return(c, "failed") /\ UNCHANGED <<link, reason, subscription>>
       ELSE /\ call' = [d \in Callers |->
                 IF d = c THEN [call[d] EXCEPT !.step = "finishing", !.pending = FALSE]
                 ELSE IF call[d].pending /\ call[d].session = session /\ link = "open"
                 THEN [call[d] EXCEPT !.pending = FALSE, !.result = "failed"]
                 ELSE call[d]]
            /\ link' = "closing"
            /\ reason' = IF link = "open" THEN "unavailable" ELSE reason
            /\ UNCHANGED subscription
    /\ UNCHANGED <<runVars, readVars, events>>

Finished(c) ==
    /\ call[c].step = "finishing" /\ Closed(c)
    /\ Return(c, "failed")
    /\ UNCHANGED <<runVars, readVars, link, reason, subscription, events>>

TakeResult(c) ==
    /\ call[c].step = "sent" /\ ~call[c].pending
    /\ Return(c, call[c].result)
    /\ UNCHANGED <<runVars, readVars, link, reason, subscription, events>>

(* Mutant: the request has no timeout of its own.                          *)
StopWaitingOnlyDone(c) ==
    /\ call[c].step = "sent" /\ Closed(c)
    /\ call' = [call EXCEPT ![c].step = "cancelling"]
    /\ UNCHANGED <<runVars, readVars, link, reason, subscription, events>>

(* The select's other branches: the request's context, or done.            *)
StopWaiting(c) ==
    /\ call[c].step = "sent"
    /\ call' = [call EXCEPT ![c].step = "cancelling"]
    /\ UNCHANGED <<runVars, readVars, link, reason, subscription, events>>

(* Mutant: whoever stops waiting reports a failure.                        *)
OutcomeFailed(c) == "failed"

(* cancel(): whoever takes the request out of pending decides its end.     *)
Outcome(c) == IF call[c].pending THEN "failed" ELSE call[c].result

Cancel(c) ==
    /\ call[c].step = "cancelling"
    /\ Return(c, Outcome(c))
    /\ UNCHANGED <<runVars, readVars, link, reason, subscription, events>>

Request(c) ==
    \/ Capture(c) \/ Register(c) \/ Write(c) \/ WriteTimesOut(c)
    \/ WriteFails(c) \/ Finished(c) \/ TakeResult(c) \/ StopWaiting(c) \/ Cancel(c)

Reader == \/ \E r \in {"unavailable", "protocol"} : ReadFails(r)
          \/ \E result \in {"accepted", "rejected"} : AnswerSubscription(result)

--------------------------------------------------------------------------
ClientTypeOK ==
    /\ phase \in Phases
    /\ session \in 0..MaxSessions
    /\ installed \in BOOLEAN /\ reading \in BOOLEAN /\ ready \in BOOLEAN
    /\ link \in {"open", "closing", "closed"} /\ reason \in Reasons
    /\ subscription \in {"none", "waiting", "accepted", "rejected"} \cup Reasons
    /\ received \in Nat
    /\ Len(events) <= EventCap
    /\ Len(queued) <= EventCap + 1 /\ Len(flushing) <= EventCap + 1
    /\ call \in [Callers -> Calls]
    /\ \A c \in Callers : call[c].session <= session /\ call[c].owed <= session

(* An answer that was matched is what the request returns: neither a       *)
(* timeout, nor a failed write, nor the end of the session that comes      *)
(* between makes the caller repeat what WeCom has already confirmed        *)
(* (session.request, pendingRequests.take).                                *)
AnswerKept ==
    \A c \in Callers :
        call[c].step = "returned" /\ call[c].result \in {"ok", "rejected"}
            => call[c].outcome = call[c].result
=============================================================================
