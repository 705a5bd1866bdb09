-------------------------- MODULE InteractiveAdapter --------------------------
(* The terminal as a chat (interactive/adapter.go): Run takes the lines    *)
(* its scanner reads and sends them as messages to a bounded channel,      *)
(* while goroutines of the bridge write replies and notices to the output. *)
(* The first write that fails is fatal: fatalPending is closed at once, to *)
(* wake Run if it holds deliveryMu before a full channel, and the error is *)
(* recorded and fatalReady closed under deliveryMu.                        *)
EXTENDS Naturals

CONSTANTS
    Writers,             \* goroutines that write replies and notices
    InboxCap,            \* eventsCapacity
    MaxLines, MaxWrites  \* bounds

VARIABLES
    runAt,        \* the step of Run; "returned": stop is closed
    scanned,      \* the result Run has taken from its scanner, or "none"
    result,       \* why Run ends or ended
    scanAt,       \* the scanner's goroutine
    offered,      \* the result it has read and not yet put in the channel
    readCap,      \* the channel results, of capacity 1
    lines,        \* lines read
    inbox,        \* messages in the channel events
    delivered,     \* history: messages sent to it
    writeAt,      \* writer -> its step in write; "write" and "record" hold writeMu
    writes,       \* writes begun
    fatalPending, fatalReady,  \* closed
    cancelled     \* ctx

runnerVars == <<runAt, scanned, result, delivered>>
scannerVars == <<scanAt, offered, readCap, lines>>
outputVars == <<writeAt, writes, fatalPending, fatalReady>>
adapterVars == <<runnerVars, scannerVars, outputVars, inbox, cancelled>>

(* Run writes the banner itself.                                           *)
Banner == "banner"

AdapterInit ==
    /\ runAt = "idle" /\ scanned = "none" /\ result = "none"
    /\ scanAt = "off" /\ offered = "none" /\ readCap = "none" /\ lines = 0
    /\ inbox = 0 /\ delivered = 0
    /\ writeAt = [w \in Writers \cup {Banner} |-> "idle"] /\ writes = 0
    /\ fatalPending = FALSE /\ fatalReady = FALSE /\ cancelled = FALSE

(* Run holds deliveryMu while it waits for room in the channel.            *)
DeliveryHeldLong == runAt \in {"send", "fatal"}
DeliveryUnheld == FALSE
DeliveryHeld == runAt = "send"
OutputHeld == \E w \in DOMAIN writeAt : writeAt[w] \in {"write", "record"}

--------------------------------------------------------------------------
(* Writers.  A write that meets the failure waits for its error, one that  *)
(* meets the end of its context returns.                                   *)

BeginWrite(w) ==
    /\ w \in Writers /\ writeAt[w] = "idle" /\ writes < MaxWrites /\ ~cancelled
    /\ writeAt' = [writeAt EXCEPT ![w] = IF fatalPending THEN "refused" ELSE "lock"]
    /\ writes' = writes + 1
    /\ UNCHANGED <<fatalPending, fatalReady, runnerVars, scannerVars, inbox, cancelled>>

LockOutput(w) ==
    /\ writeAt[w] = "lock" /\ ~OutputHeld
    /\ writeAt' = [writeAt EXCEPT ![w] =
         IF fatalPending \/ cancelled THEN "refused" ELSE "write"]
    /\ UNCHANGED <<writes, fatalPending, fatalReady, runnerVars, scannerVars, inbox, cancelled>>

(* For the banner, Run goes on with what write returned.                   *)
WriteReturns(w, next, why) ==
    /\ writeAt' = [writeAt EXCEPT ![w] = "idle"]
    /\ IF w = Banner THEN runAt' = next /\ result' = why ELSE UNCHANGED <<runAt, result>>
    /\ UNCHANGED <<scanned, delivered, writes, scannerVars, inbox, cancelled>>

Refused(w) ==
    /\ writeAt[w] = "refused" /\ (fatalPending => fatalReady)
    /\ WriteReturns(w, "resolve", IF fatalPending THEN "output" ELSE "cancelled")
    /\ UNCHANGED <<fatalPending, fatalReady>>

WriteString(w) ==
    /\ writeAt[w] = "write" /\ WriteReturns(w, "check", "none")
    /\ UNCHANGED <<fatalPending, fatalReady>>

(* recordFatal: the signal first, then the lock.                           *)
OutputFails(w) ==
    /\ writeAt[w] = "write" /\ writeAt' = [writeAt EXCEPT ![w] = "record"]
    /\ fatalPending' = TRUE
    /\ UNCHANGED <<writes, fatalReady, runnerVars, scannerVars, inbox, cancelled>>

RecordFatal(w) ==
    /\ writeAt[w] = "record" /\ ~DeliveryHeld
    /\ fatalReady' = TRUE /\ WriteReturns(w, "resolve", "output") /\ UNCHANGED fatalPending

Writing(w) == LockOutput(w) \/ Refused(w) \/ RecordFatal(w)

--------------------------------------------------------------------------
(* The scanner: lines, the end of the input or an error, each given to Run *)
(* or, once Run has returned, dropped.                                     *)

Scan ==
    /\ scanAt = "read" /\ scanAt' = "put"
    /\ \/ lines < MaxLines /\ offered' = "line" /\ lines' = lines + 1
       \/ offered' \in {"closed", "unread"} /\ UNCHANGED lines
    /\ UNCHANGED <<readCap, runnerVars, outputVars, inbox, cancelled>>

SendScanResult ==
    /\ scanAt = "put" /\ readCap = "none" /\ readCap' = offered
    /\ scanAt' = (IF offered = "line" THEN "read" ELSE "done")
    /\ UNCHANGED <<offered, lines, runnerVars, outputVars, inbox, cancelled>>

ScanStopped ==
    /\ scanAt = "put" /\ runAt = "returned" /\ scanAt' = "done"
    /\ UNCHANGED <<offered, readCap, lines, runnerVars, outputVars, inbox, cancelled>>

--------------------------------------------------------------------------
(* Run.  Checks that follow one another are one step, since neither the    *)
(* failure nor the end of the context goes away.                           *)

RunGoes(from, to) == runAt = from /\ runAt' = to

RunOnly == UNCHANGED <<delivered, outputVars, inbox, cancelled>>

(* Another Run returns errRepeatedRun.                                     *)
StartRun ==
    /\ RunGoes("idle", IF fatalPending THEN "fatal" ELSE "started")
    /\ UNCHANGED <<scanned, result, scannerVars>> /\ RunOnly

WriteBanner ==
    /\ IF cancelled
       THEN RunGoes("started", "returned") /\ result' = "cancelled" /\ UNCHANGED writeAt
       ELSE /\ RunGoes("started", Banner) /\ UNCHANGED result
            /\ writeAt' = [writeAt EXCEPT ![Banner] = "lock"]
    /\ UNCHANGED <<scanned, delivered, scannerVars, writes, fatalPending, fatalReady, inbox, cancelled>>

(* runtimeError, and what Run does next where there is none.               *)
RuntimeError ==
    /\ IF fatalPending THEN RunGoes("check", "fatal") /\ UNCHANGED result
       ELSE IF cancelled THEN RunGoes("check", "resolve") /\ result' = "cancelled"
       ELSE /\ RunGoes("check", CASE scanned = "none" -> "wait"
                                  [] scanned = "line" -> "lock"
                                  [] OTHER -> "resolve")
            /\ result' = (IF scanned \in {"closed", "unread"} THEN scanned ELSE result)
    /\ scanAt' = (IF scanAt = "off" /\ runAt' = "wait" THEN "read" ELSE scanAt)
    /\ UNCHANGED <<scanned, offered, readCap, lines>> /\ RunOnly

TakeScanned ==
    /\ readCap # "none" /\ RunGoes("wait", "check")
    /\ scanned' = readCap /\ readCap' = "none"
    /\ UNCHANGED <<result, scanAt, offered, lines>> /\ RunOnly

(* The selects' other cases, before a result and before a full channel.    *)
Done(step) ==
    /\ cancelled /\ RunGoes(step, "resolve") /\ result' = "cancelled"
    /\ UNCHANGED <<scanned, scannerVars>> /\ RunOnly

Failed(step) ==
    /\ fatalPending /\ RunGoes(step, "fatal")
    /\ UNCHANGED <<scanned, result, scannerVars>> /\ RunOnly

LockDelivery ==
    /\ RunGoes("lock", IF fatalPending THEN "fatal" ELSE "send")
    /\ UNCHANGED <<scanned, result, scannerVars>> /\ RunOnly

SendEvent ==
    /\ inbox < InboxCap /\ RunGoes("send", "check")
    /\ inbox' = inbox + 1 /\ delivered' = delivered + 1 /\ scanned' = "none"
    /\ UNCHANGED <<result, scannerVars, outputVars, cancelled>>

(* A failure that is pending by now goes before any other reason.          *)
FallsBack == runAt' = "returned"
Resolved == runAt' = IF fatalPending THEN "fatal" ELSE "returned"
ResolveTerminal ==
    /\ runAt = "resolve" /\ Resolved
    /\ UNCHANGED <<scanned, result, scannerVars>> /\ RunOnly

CurrentFatalError ==
    /\ fatalReady /\ RunGoes("fatal", "returned") /\ result' = "output"
    /\ UNCHANGED <<scanned, scannerVars>> /\ RunOnly

RunStarted ==
    \/ WriteBanner \/ RuntimeError \/ TakeScanned \/ LockDelivery \/ SendEvent
    \/ (\E step \in {"wait", "send"} : Done(step) \/ Failed(step))
    \/ ResolveTerminal \/ CurrentFatalError

--------------------------------------------------------------------------
(* The bridge takes messages when it likes, and the context may end.       *)
TakeMessage ==
    /\ inbox > 0 /\ inbox' = inbox - 1
    /\ UNCHANGED <<runnerVars, scannerVars, outputVars, cancelled>>

CancelRun ==
    /\ ~cancelled /\ cancelled' = TRUE
    /\ UNCHANGED <<runnerVars, scannerVars, outputVars, inbox>>

AdapterNext ==
    \/ StartRun \/ RunStarted \/ Scan \/ SendScanResult \/ ScanStopped
    \/ TakeMessage \/ CancelRun
    \/ \E w \in DOMAIN writeAt :
        BeginWrite(w) \/ WriteString(w) \/ OutputFails(w) \/ Writing(w)

(* Goroutines run; nobody need take a message, type a line or let a write  *)
(* to the terminal return.                                                 *)
AdapterFairness ==
    /\ WF_adapterVars(RunStarted) /\ WF_adapterVars(SendScanResult \/ ScanStopped)
    /\ \A w \in Writers \cup {Banner} : WF_adapterVars(Writing(w))

--------------------------------------------------------------------------
(* No message is sent after the failure was recorded: the bridge never     *)
(* acts on a line whose answer it could not show (sendEvent: the lock      *)
(* orders the end of a delivery and the record of the error).              *)
DeliveryStops == [][fatalReady => delivered' = delivered]_adapterVars

(* Run has returned and its scanner does not wait with a result.           *)
RunOver == runAt = "returned" /\ scanAt # "put"

(* Once a write failed, a Run that has begun its work ends, with that      *)
(* failure, whatever else would end it and although the channel is full    *)
(* and nobody takes from it (recordFatal, resolveTerminal).                *)
FailureEndsRun ==
    fatalPending /\ runAt \notin {"idle", "started", "returned"} ~>
        RunOver /\ result = "output"

(* A cancelled Run ends, unless the terminal does not take its banner, and *)
(* leaves no scanner behind that has something to say (sendScanResult).    *)
CancelEndsRun == cancelled /\ runAt \notin {"idle", Banner} ~> RunOver

(* The adapter ends when it must and is silent afterwards.                 *)
AdapterEnds == DeliveryStops /\ FailureEndsRun /\ CancelEndsRun
=============================================================================
