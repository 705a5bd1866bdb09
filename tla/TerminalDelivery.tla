--------------------------- MODULE TerminalDelivery ---------------------------
(* What a session has to tell goes to its user's chat: a notice or a       *)
(* command's output over the connection's outbound queue (server/hub.go    *)
(* readLoop, enqueueOutbound, runOutbound), or the result of the user's    *)
(* own command; the terminal fetched for a notice, a request answered by   *)
(* Pal (relayclient handleTerminalSnapshot) while the session may be       *)
(* replaced, the connection lost or the answer late; and the terminal      *)
(* sent, as text in parts or as an image uploaded in chunks, with text     *)
(* where the image fails (server/router.go, wecom/client.go UploadImage).  *)
(* One user, one connection, one slot whose sessions are numbered.         *)
EXTENDS Naturals, Sequences, FiniteSets

CONSTANTS
    MaxItems, MaxReplaced,           \* bounds
    OutboundCap, KeyCap,             \* the outbound queue, the notices remembered
    ImageSizes, ChunkSize, MaxParts, \* an image in units, a chunk, a text in parts
    ModesSet,                        \* the user's choice of presentation
    None

ASSUME DeliveryAssumption ==
    /\ MaxItems \in Nat /\ MaxReplaced \in Nat \ {0} /\ KeyCap \in Nat \ {0}
    /\ ImageSizes \subseteq Nat \ {0} /\ ChunkSize \in Nat \ {0} /\ MaxParts \in Nat \ {0}

VARIABLES
    up,          \* the connection's context
    real,        \* the slot's session as Pal has it
    shown,       \* the slot's session in the directory, 0 once detached
    items,       \* what there was to tell: its kind and its session
    wire,        \* from Pal to the server
    gets,        \* requests for a terminal, on their way to Pal
    palReads,    \* the request in Pal's one slot
    noticeKeys,  \* event keys of accepted notices, oldest first
    lastSeq,     \* session -> the largest sequence accepted
    outbound,    \* outboundQueue
    carried,     \* what runOutbound has given to the executor, 0 for nothing
    pendingGet,  \* the request that waits for its result
    expired,     \* requests given up
    job,         \* what the user's executor runs
    chat,        \* item -> what the user got of it
    audits,      \* item -> its audit event
    accepted,    \* history: what went into the queue
    toldItems    \* history: what the worker was done with

palVars == <<real, items, gets, palReads>>
outboundVars == <<noticeKeys, lastSeq, outbound, carried, accepted, toldItems>>
chatVars == <<chat, audits>>
deliveryVars == <<up, shown, wire, pendingGet, expired, job, palVars, outboundVars, chatVars>>

Items == 1..MaxItems
Idle ==
    [item |-> 0, step |-> "none", content |-> None, count |-> 0, as |-> "none", failed |-> FALSE]
NothingSent == [status |-> FALSE, header |-> FALSE, parts |-> 0, image |-> 0, late |-> FALSE]

DeliveryInit ==
    /\ up = TRUE /\ real = 1 /\ shown = 1 /\ items = <<>> /\ wire = <<>>
    /\ gets = <<>> /\ palReads = None /\ pendingGet = None /\ expired = {}
    /\ noticeKeys = <<>> /\ lastSeq = [s \in 1..MaxReplaced |-> 0] /\ outbound = <<>> /\ carried = 0
    /\ accepted = <<>> /\ toldItems = <<>> /\ job = Idle
    /\ chat = [i \in Items |-> NothingSent] /\ audits = [i \in Items |-> None]

--------------------------------------------------------------------------
(* Pal.                                                                    *)
PalOnly == UNCHANGED <<up, shown, pendingGet, expired, job, outboundVars, chatVars>>
Says(type, n) == [type |-> type, item |-> n, outcome |-> "none", content |-> None]

(* An output and a status are of the slot's session, an end is of one it   *)
(* had.  What was sent may come again.                                     *)
SendItem(kind) ==
    /\ up /\ Len(items) < MaxItems
    /\ \E s \in (IF kind = "invalidated" THEN 1..real ELSE {real}) :
        items' = Append(items, [kind |-> kind, session |-> s])
    /\ wire' = Append(wire, Says("item", Len(items) + 1))
    /\ UNCHANGED <<real, gets, palReads>> /\ PalOnly

SendAgain ==
    /\ up /\ Len(wire) = 1 /\ wire[1].type = "item"
    /\ items[wire[1].item].kind \in {"working", "done"}
    /\ wire' = Append(wire, wire[1])
    /\ UNCHANGED palVars /\ PalOnly

SessionReplaced ==
    /\ up /\ real = shown /\ real < MaxReplaced
    /\ real' = real + 1 /\ wire' = Append(wire, Says("snapshot", real + 1))
    /\ UNCHANGED <<items, gets, palReads>> /\ PalOnly

TerminalResult(get, outcome, content) ==
    [type |-> "result", item |-> get.item, outcome |-> outcome, content |-> content]
Changed(get) == items[get.item].session # real

(* The request slot is taken as the request is read.                       *)
ReceiveGet ==
    /\ up /\ gets # <<>> /\ gets' = Tail(gets)
    /\ IF palReads = None THEN palReads' = Head(gets) /\ UNCHANGED wire
       ELSE wire' = Append(wire, TerminalResult(Head(gets), "busy", None)) /\ UNCHANGED palReads
    /\ UNCHANGED <<real, items>> /\ PalOnly

(* A terminal as it was rendered, its text in MaxParts messages.           *)
Terminal(mode, s) ==
    [mode : {mode}, session : {s}, parts : {MaxParts},
     size : IF mode = "image" THEN ImageSizes ELSE {0}]

(* The terminal is read under a lease of its session.  An image that could *)
(* not be made leaves its text.                                            *)
Rendered(get) ==
    IF Changed(get) THEN {TerminalResult(get, "changed", None)}
    ELSE {TerminalResult(get, "failed", None)}
         \cup {TerminalResult(get, "ok", c) : c \in Terminal(get.mode, real)}
         \cup {TerminalResult(get, "fallback", c) : c \in {t \in Terminal("text", real) : get.mode = "image"}}

HandleTerminalSnapshot ==
    /\ up /\ palReads # None /\ palReads' = None
    /\ \E result \in Rendered(palReads) : wire' = Append(wire, result)
    /\ UNCHANGED <<real, items, gets>> /\ PalOnly

--------------------------------------------------------------------------
(* The connection's read loop.                                             *)
(* The context is cancelled.  The directory keeps the sessions until the   *)
(* worker is done with what it carries (serveConnection, remove).          *)
Received == Head(wire)
Disconnected ==
    /\ up' = FALSE /\ wire' = <<>> /\ gets' = <<>> /\ palReads' = None
    /\ UNCHANGED <<shown, real, items, pendingGet, expired, job, outboundVars, chatVars>>

Disconnect == up /\ Disconnected

DetachView ==
    /\ ~up /\ carried = 0 /\ shown # 0 /\ shown' = 0 /\ outbound' = <<>>
    /\ UNCHANGED <<up, wire, pendingGet, expired, job, palVars, chatVars>>
    /\ UNCHANGED <<noticeKeys, lastSeq, carried, accepted, toldItems>>

ReadPast == wire' = Tail(wire) /\ UNCHANGED <<up, expired, palVars, chatVars>>
Ignored == ReadPast /\ UNCHANGED <<shown, pendingGet, job, outboundVars>>

ReadSnapshot ==
    /\ up /\ wire # <<>> /\ Received.type = "snapshot"
    /\ ReadPast /\ shown' = Received.item /\ UNCHANGED <<pendingGet, job, outboundVars>>

(* acceptNotification.  Keys expire, oldest first, and then repeat nothing. *)
IsKey(n, known) == n \in {known[k] : k \in 1..Len(known)}
AcceptedByKey(n, known) == ~IsKey(n, known)
AcceptNotification(n, known) == ~IsKey(n, known) /\ n > lastSeq[items[n].session]

NoticesKept == LET size == Len(noticeKeys) IN {SubSeq(noticeKeys, k, size) : k \in 1..size + 1}
Remembered(n, known) == Append(IF Len(known) >= KeyCap THEN Tail(known) ELSE known, n)

(* A full queue ends the connection, so that nothing is lost in silence.   *)
OutboundHasRoom(n) == Len(outbound) < OutboundCap
EnqueueOutbound(n) ==
    /\ outbound' = Append(outbound, n) /\ accepted' = Append(accepted, n) /\ ReadPast
    /\ UNCHANGED <<shown, carried, toldItems, job, pendingGet>>

ReadItem ==
    /\ up /\ wire # <<>> /\ Received.type = "item"
    /\ LET n == Received.item
           resolves == items[n].kind = "invalidated" \/ shown = items[n].session
       IN IF ~resolves THEN Disconnected
          ELSE IF items[n].kind = "output"
          THEN IF OutboundHasRoom(n) THEN EnqueueOutbound(n) /\ UNCHANGED <<noticeKeys, lastSeq>>
               ELSE Disconnected
          ELSE \E known \in NoticesKept :
                 IF ~AcceptNotification(n, known) THEN Ignored
                 ELSE IF ~OutboundHasRoom(n) THEN Disconnected
                 ELSE /\ EnqueueOutbound(n) /\ noticeKeys' = Remembered(n, known)
                      /\ lastSeq' = [lastSeq EXCEPT ![items[n].session] = n]

(* deliverTerminal.  A request given up is remembered for a while, and its *)
(* late result passed over; then a result without request is refused.      *)
ReadResult ==
    /\ up /\ wire # <<>> /\ Received.type = "result"
    /\ IF pendingGet # None /\ pendingGet.item = Received.item
       THEN /\ ReadPast /\ pendingGet' = None /\ UNCHANGED <<shown, outboundVars>>
            /\ job' = [job EXCEPT !.content = Received.content]
       ELSE (Received.item \in expired /\ Ignored) \/ Disconnected

--------------------------------------------------------------------------
(* runOutbound hands one at a time to the user's executor, which runs one  *)
(* task at a time.  A task's context is its connection's, but a reply's is *)
(* the user's message's.                                                   *)
ServerOnly == UNCHANGED <<up, shown, wire, palVars>>
QueueKept == UNCHANGED <<outboundVars, pendingGet, expired>>
TaskOnly == QueueKept /\ UNCHANGED chatVars /\ ServerOnly
JobTo(step) == [job EXCEPT !.step = step]

TakeOutbound ==
    /\ shown # 0 /\ carried = 0 /\ outbound # <<>>
    /\ carried' = Head(outbound) /\ outbound' = Tail(outbound)
    /\ UNCHANGED <<noticeKeys, lastSeq, accepted, toldItems, pendingGet, expired, job, chatVars>>
    /\ ServerOnly

(* The worker goes on.                                                     *)
Told ==
    /\ carried' = 0 /\ toldItems' = Append(toldItems, carried)
    /\ UNCHANGED <<noticeKeys, lastSeq, outbound, accepted>>

RunCarried ==
    /\ job = Idle /\ carried # 0 /\ up
    /\ job' = [Idle EXCEPT !.item = carried, !.step = "start"] /\ TaskOnly

(* The user's queue is full, or the context was cancelled before the task  *)
(* ran.                                                                    *)
SkipCarried ==
    /\ carried # 0 /\ job.item # carried /\ Told
    /\ UNCHANGED <<pendingGet, expired, job, chatVars>> /\ ServerOnly

(* The result of a command of the user, with the terminal it left.         *)
RunReply ==
    /\ up /\ job = Idle /\ Len(items) < MaxItems /\ real = shown
    /\ items' = Append(items, [kind |-> "reply", session |-> shown])
    /\ \E mode \in ModesSet : \E c \in Terminal(mode, shown) :
        job' = [Idle EXCEPT !.item = Len(items) + 1, !.step = "push", !.content = c]
    /\ UNCHANGED <<up, shown, wire, real, gets, palReads, chatVars>> /\ QueueKept

Item == items[job.item]
Here == shown = Item.session

(* sendNotification and sendCommandOutput, up to the first message.        *)
StartTask ==
    /\ job.step = "start"
    /\ CASE Item.kind = "invalidated" -> job' = JobTo("tell")
         [] Item.kind # "invalidated" /\ ~Here -> job' = JobTo("end")
         [] Item.kind = "output" /\ Here ->
              \E mode \in ModesSet : \E c \in Terminal(mode, Item.session) :
                  job' = [JobTo("push") EXCEPT !.content = c]
         [] Item.kind = "working" /\ Here -> job' = JobTo("tell")
         [] Item.kind = "done" /\ Here -> \E step \in {"status", "tell"} : job' = JobTo(step)
    /\ TaskOnly

(* A request to WeCom is answered, fails, or fails after it was served; it *)
(* is not answered once its context is cancelled.                          *)
Outcomes == IF up \/ Item.kind = "reply" THEN {"ok", "failed", "late"} ELSE {"failed", "late"}
Call(got, next, otherwise) ==
    \E outcome \in Outcomes :
        /\ chat' = IF outcome = "failed" THEN chat ELSE [chat EXCEPT ![job.item] = got]
        /\ job' = IF outcome = "ok" THEN next ELSE otherwise
        /\ QueueKept /\ UNCHANGED audits /\ ServerOnly

Got == chat[job.item]
Audited(as, failure) == [job EXCEPT !.step = "audit", !.as = as, !.failed = failure]

(* A short message: a status that needs no terminal, the end of a session, *)
(* or that another session than the selected one has output.               *)
TellStatus ==
    \/ job.step = "tell" /\ Call([Got EXCEPT !.status = TRUE], JobTo("end"), JobTo("end"))
    \/ job.step = "status" /\ Call([Got EXCEPT !.status = TRUE], JobTo("fetch"), JobTo("end"))

(* FetchTerminalSnapshot: refused too where the connection has no room.    *)
FetchTerminal ==
    /\ job.step = "fetch"
    /\ \/ /\ up /\ Here /\ job' = JobTo("waiting")
          /\ \E mode \in ModesSet :
              /\ pendingGet' = [item |-> job.item, mode |-> mode]
              /\ gets' = Append(gets, pendingGet')
       \/ job' = JobTo("end") /\ UNCHANGED <<pendingGet, gets>>
    /\ UNCHANGED <<up, shown, wire, real, items, palReads, expired, outboundVars, chatVars>>

(* requestTargetMode: the wait ends with the result, its time or the       *)
(* connection, with the result at hand or not.                             *)
TakeFetched ==
    /\ job.step = "waiting" /\ pendingGet = None
    /\ job' = JobTo(IF job.content = None THEN "end" ELSE "push") /\ TaskOnly

FetchEnds ==
    /\ job.step = "waiting" /\ job' = [JobTo("end") EXCEPT !.content = None] /\ pendingGet' = None
    /\ expired' = IF pendingGet # None /\ up THEN expired \cup {job.item} ELSE expired
    /\ UNCHANGED <<outboundVars, chatVars>> /\ ServerOnly

(* sendContentReply, sendContentPush.  The text is rendered, and the image *)
(* has its header, under the number the session has in the list: none, if  *)
(* it is gone.                                                             *)
PushContent ==
    /\ job.step = "push"
    /\ job' = IF Here THEN JobTo(IF job.content.mode = "image" THEN "header" ELSE "text")
               ELSE Audited(job.content.mode, TRUE)
    /\ TaskOnly

SendHeader ==
    /\ job.step = "header"
    /\ Call([Got EXCEPT !.header = TRUE], [JobTo("upload") EXCEPT !.count = 0], Audited("image", TRUE))

(* UploadImage: the chunks one after the other, then the end of the upload.*)
WholeChunks(size) == size \div ChunkSize
TotalChunks(size) == (size + ChunkSize - 1) \div ChunkSize

UploadImage ==
    /\ job.step = "upload"
    /\ \/ /\ "ok" \in Outcomes
          /\ job' = IF job.count = TotalChunks(job.content.size) THEN JobTo("send")
                     ELSE [job EXCEPT !.count = @ + 1]
       \/ job' = JobTo("fallback")
    /\ TaskOnly

Smaller(m, n) == IF m < n THEN m ELSE n

(* SendImageTo, of what was uploaded.                                      *)
SendImage ==
    /\ job.step = "send"
    /\ \E outcome \in Outcomes :
        /\ chat' = IF outcome = "failed" THEN chat
                   ELSE [chat EXCEPT ![job.item].image =
                                        Smaller(job.count * ChunkSize, job.content.size),
                                     ![job.item].late = outcome = "late"]
        /\ job' = IF outcome = "ok" THEN Audited("image", FALSE) ELSE JobTo("fallback")
    /\ QueueKept /\ UNCHANGED audits /\ ServerOnly

FallBack ==
    /\ job.step = "fallback" /\ job' = (IF Here THEN JobTo("text") ELSE Audited("text", TRUE)) /\ TaskOnly

SendText ==
    /\ job.step = "text"
    /\ Call([Got EXCEPT !.parts = @ + 1],
            IF Got.parts + 1 = job.content.parts THEN Audited("text", FALSE) ELSE job,
            Audited("text", TRUE))

(* emitTerminalAudit                                                       *)
Audit ==
    /\ job.step = "audit" /\ job' = JobTo("end")
    /\ audits' = [audits EXCEPT ![job.item] =
                    [as |-> job.as, delivered |-> ~job.failed, content |-> job.content]]
    /\ QueueKept /\ UNCHANGED chat /\ ServerOnly

EndTask ==
    /\ job.step = "end" /\ job' = Idle
    /\ IF Item.kind = "reply" THEN UNCHANGED outboundVars ELSE Told
    /\ UNCHANGED <<pendingGet, expired, chatVars>> /\ ServerOnly

--------------------------------------------------------------------------
DeliveryNext ==
    \/ \E kind \in {"working", "done", "invalidated", "output"} : SendItem(kind)
    \/ SendAgain \/ SessionReplaced \/ ReceiveGet \/ HandleTerminalSnapshot
    \/ Disconnect \/ DetachView \/ ReadSnapshot \/ ReadItem \/ ReadResult
    \/ TakeOutbound \/ RunCarried \/ SkipCarried \/ RunReply \/ StartTask \/ TellStatus \/ FetchTerminal
    \/ TakeFetched \/ FetchEnds
    \/ PushContent \/ SendHeader \/ UploadImage \/ SendImage \/ FallBack \/ SendText
    \/ Audit \/ EndTask

DeliverySpec == DeliveryInit /\ [][DeliveryNext]_deliveryVars

--------------------------------------------------------------------------
(* Until the connection is detached, what was accepted from it goes to the *)
(* user's executor in the order it came, each once, and nothing is left    *)
(* out: it was handled, is with the worker, or is in the queue, whatever   *)
(* the queue, the chat and the fetches did (hub.go enqueueOutbound).       *)
ToldInOrder ==
    /\ shown # 0 => toldItems \o (IF carried = 0 THEN <<>> ELSE <<carried>>) \o outbound = accepted
    /\ \A j, k \in 1..Len(accepted) : j < k => accepted[j] < accepted[k]

(* An audit event tells what the user got: the whole image after its       *)
(* header, or every part of the text, of the session the item is about;    *)
(* and the user gets a terminal once, the text only where the image failed *)
(* or WeCom's answer to it was lost.                                       *)
ScreensAudited ==
    \A n \in 1..Len(items) :
        /\ audits[n] # None =>
            /\ audits[n].content.session = items[n].session
            /\ audits[n].delivered =>
                IF audits[n].as = "image"
                THEN chat[n].header /\ chat[n].image = audits[n].content.size /\ chat[n].parts = 0
                ELSE chat[n].parts = audits[n].content.parts
        /\ chat[n].image # 0 /\ chat[n].parts # 0 => chat[n].late

(* What a session told is passed on once and in order, and its terminal as *)
(* the audit says.                                                         *)
ToldTruly == ToldInOrder /\ ScreensAudited
=============================================================================
