----------------------------- MODULE DshBackend -----------------------------
(* One dsh session seen from Pal: the plugin in dsh that lists it, reads   *)
(* it and gives it prompts (plugins/dsh-herdr-pal/src/bridge.mjs), Pal's   *)
(* executor with its directory, selection and page buffer                  *)
(* (dsh/executor.go, dsh/client.go), and the mux that hands a command to   *)
(* this backend or to Herdr (relayclient/mux.go).                          *)
(*                                                                         *)
(* The plugin is one thread: a call's code runs to its next await.  An     *)
(* agent is an instance of the session in dsh, 0 when only its history is  *)
(* there; an incarnation is the plugin's name for the session.  The text   *)
(* of a session is numbered, a row's revision is what it shows of it.      *)
EXTENDS Naturals, Sequences, FiniteSets

CONSTANTS
    Nobody,
    MaxAgents, MaxIncarnations, MaxRevisions, MaxCommands   \* bounds

ASSUME DshAssumption ==
    /\ \A n \in {MaxAgents, MaxIncarnations, MaxRevisions, MaxCommands} : n \in Nat
    /\ Nobody \notin {"herdr", "dsh"}
    /\ Nobody \notin [inc : Nat, agent : Nat] \cup [inc : Nat, accepted : BOOLEAN]
    /\ Nobody \notin [live : BOOLEAN, text : Nat]

VARIABLES
    listed,          \* dsh: the session is among its rows
    agent,           \* agents.roots(): the instance, or 0
    lastAgent,
    working,         \* its status
    revision,        \* its text, by number
    entry,           \* identities: [inc, agent], or Nobody
    lastInc,
    cache,           \* message -> [inc, accepted], or Nobody
    calls,           \* call -> where the plugin is with it
    followups,       \* the prompts given to an agent
    known,       \* Executor.sessions: [inc, working, revision], or Nobody
    chosen,        \* Executor.selected: an incarnation, or 0
    buffered,        \* whose text the page buffer holds, or 0
    muxed,           \* ExecutorMux.selected: "dsh", "herdr" or Nobody
    command,         \* what the request slot holds
    given,        \* commands so far
    acted,           \* what the last command acted on, or Nobody
    told,            \* the revision that the user was told of or has found, or Nobody
    missed           \* the revision whose notice failed since, or Nobody

worldParts == <<listed, agent, lastAgent, working, revision>>
pluginParts == <<entry, lastInc, cache, followups>>
palParts == <<known, chosen, buffered, muxed, command, given, acted, told, missed>>
dshVars == <<worldParts, pluginParts, calls, palParts>>

Calls == {"list", "first", "second"}
NoCall == [at |-> "none", op |-> "none", message |-> 0, inc |-> 0, agent |-> 0,
           row |-> FALSE, awaited |-> FALSE, result |-> Nobody]
NoCommand == [at |-> "none", target |-> 0, op |-> "none", call |-> "none"]

(* A row's revision: the time of a history's last change, the digest of a  *)
(* live agent's text.                                                      *)
Shown == [live |-> agent # 0, text |-> revision]

(* Pal has just started, or has asked once.                                *)
DshInit ==
    /\ listed = TRUE /\ agent = 0 /\ lastAgent = 0 /\ working = FALSE /\ revision = 1
    /\ \/ entry = Nobody /\ lastInc = 0 /\ known = Nobody /\ told = Nobody
       \/ /\ entry = [inc |-> 1, agent |-> 0] /\ lastInc = 1 /\ told = Shown
          /\ known = [inc |-> 1, working |-> FALSE, revision |-> Shown]
    /\ missed = Nobody
    /\ cache = [m \in 1..MaxCommands |-> Nobody]
    /\ calls = [c \in Calls |-> NoCall] /\ followups = {}
    /\ chosen = 0 /\ buffered = 0 /\ muxed = Nobody
    /\ command = NoCommand /\ given = 0 /\ acted = Nobody

--------------------------------------------------------------------------
(* dsh: an agent is loaded, replaced or unloaded, works, and is listed.    *)
World == UNCHANGED <<pluginParts, calls, palParts>>

AgentChanges ==
    /\ \/ lastAgent < MaxAgents /\ agent' = lastAgent + 1 /\ lastAgent' = agent'
       \/ agent # 0 /\ agent' = 0 /\ UNCHANGED lastAgent
    /\ working' = FALSE
    /\ World /\ UNCHANGED <<listed, revision>>

RoundBegins ==
    /\ agent # 0 /\ ~working /\ working' = TRUE
    /\ World /\ UNCHANGED <<listed, agent, lastAgent, revision>>

RoundEnds ==
    /\ working /\ revision < MaxRevisions
    /\ working' = FALSE /\ revision' = revision + 1
    /\ World /\ UNCHANGED <<listed, agent, lastAgent>>

RowChanges ==
    /\ listed' = ~listed
    /\ World /\ UNCHANGED <<agent, lastAgent, working, revision>>

--------------------------------------------------------------------------
(* The plugin.  It looks when a call arrives, after the rows and before a  *)
(* prompt is given whether the call was aborted, by its own limit or       *)
(* because Pal hung up, and then fails it: any look may find that.  A call *)
(* that nobody waits for is gone when it ends.                             *)
CallAt(c, at) == calls[c].at = at
Moved(c, call) == calls' = [calls EXCEPT ![c] = call]
Step(c, at) == Moved(c, [calls[c] EXCEPT !.at = at])
AnswerCall(c, result) ==
    Moved(c, IF calls[c].awaited THEN [NoCall EXCEPT !.at = "answered", !.result = result] ELSE NoCall)
FailCall(c) == Moved(c, IF calls[c].awaited THEN [NoCall EXCEPT !.at = "failed"] ELSE NoCall)
Plugin == UNCHANGED <<worldParts, palParts>>

(* Every call begins with a list, and awaits its rows.                     *)
ListRows(c) ==
    /\ CallAt(c, "sent")
    /\ \/ FailCall(c)
       \/ Moved(c, [calls[c] EXCEPT !.at = "rows", !.row = listed])
    /\ Plugin /\ UNCHANGED pluginParts

(* identity: another agent than the one it knew is another incarnation.    *)
Identity ==
    IF entry = Nobody THEN [inc |-> lastInc + 1, agent |-> agent]
    ELSE [inc |-> IF entry.agent \in {0, agent} THEN entry.inc ELSE lastInc + 1, agent |-> agent]

ListDone(c) ==
    LET call == calls[c]
    IN  /\ CallAt(c, "rows")
        /\ \/ FailCall(c) /\ UNCHANGED <<entry, lastInc>>
           \/ /\ ~call.row
              /\ entry' = Nobody /\ UNCHANGED lastInc
              /\ IF c = "list" THEN AnswerCall(c, Nobody) ELSE FailCall(c)
           \/ /\ call.row /\ Identity.inc <= MaxIncarnations
              /\ entry' = Identity
              /\ lastInc' = IF Identity.inc > lastInc THEN Identity.inc ELSE lastInc
              /\ IF c = "list"
                 THEN AnswerCall(c, [inc |-> Identity.inc, working |-> working, revision |-> Shown])
                 ELSE IF Identity.inc = call.inc THEN Step(c, "listed") ELSE FailCall(c)
        /\ Plugin /\ UNCHANGED <<cache, followups>>

(* resolve, after its list: the entry is still the one of the request.     *)
Resolve(c) ==
    /\ CallAt(c, "listed")
    /\ IF entry = [inc |-> calls[c].inc, agent |-> agent]
       THEN Moved(c, [calls[c] EXCEPT !.at = "resolved", !.agent = agent]) ELSE FailCall(c)
    /\ Plugin /\ UNCHANGED pluginParts

Read(c) ==
    /\ CallAt(c, "resolved") /\ calls[c].op = "read"
    /\ \/ AnswerCall(c, calls[c].inc)
       \/ calls[c].agent = 0 /\ FailCall(c)
    /\ Plugin /\ UNCHANGED pluginParts

Placeholder(call) == [inc |-> call.inc, accepted |-> FALSE]

SameEntry(call) == entry # Nobody /\ entry.inc = call.inc

MaySubmit(call) == SameEntry(call) /\ agent = call.agent /\ ~working

(* followup: the agent begins a round.                                     *)
Submit(c, call) ==
    /\ followups' = followups \cup {[inc |-> call.inc, agent |-> call.agent]}
    /\ cache' = [cache EXCEPT ![call.message] = [inc |-> call.inc, accepted |-> TRUE]]
    /\ working' = TRUE /\ AnswerCall(c, call.inc)

NotSubmitted(c, call) ==
    /\ cache' = [cache EXCEPT ![call.message] = Placeholder(call)]
    /\ FailCall(c) /\ UNCHANGED <<working, followups>>

(* A key that was used answers at once, a live agent is given the prompt,  *)
(* a history is resumed first, with its key reserved.                      *)
PromptRefused(call) ==
    LET old == cache[call.message]
    IN  \/ ~SameEntry(call)
        \/ old # Nobody /\ (old.inc # call.inc \/ ~old.accepted)
        \/ old = Nobody /\ call.agent # 0 /\ working

ReserveKey(c) ==
    LET call == calls[c]
    IN  /\ CallAt(c, "resolved") /\ call.op = "prompt"
        /\ CASE PromptRefused(call) -> FailCall(c) /\ UNCHANGED <<cache, followups, working>>
             [] ~PromptRefused(call) /\ cache[call.message] # Nobody ->
                  AnswerCall(c, call.inc) /\ UNCHANGED <<cache, followups, working>>
             [] ~PromptRefused(call) /\ cache[call.message] = Nobody /\ call.agent = 0 ->
                  /\ Step(c, "resuming") /\ cache' = [cache EXCEPT ![call.message] = Placeholder(call)]
                  /\ UNCHANGED <<followups, working>>
             [] OTHER -> \/ MaySubmit(call) /\ Submit(c, call)
                         \/ NotSubmitted(c, call)
        /\ UNCHANGED <<listed, agent, lastAgent, revision, entry, lastInc, palParts>>

(* resolveAgent finds an agent or loads the history as one; it may fail.   *)
ResumeAgent(c) ==
    /\ CallAt(c, "resuming")
    /\ \/ FailCall(c) /\ UNCHANGED <<agent, lastAgent>>
       \/ /\ IF agent = 0 THEN lastAgent < MaxAgents /\ agent' = lastAgent + 1 /\ lastAgent' = agent'
             ELSE UNCHANGED <<agent, lastAgent>>
          /\ Moved(c, [calls[c] EXCEPT !.at = "resumed", !.agent = agent'])
    /\ UNCHANGED <<listed, working, revision, pluginParts, palParts>>

(* The entry takes the resumed agent, unless it has another one by now.    *)
SubmitResumed(c) ==
    LET call == calls[c]
        taken == SameEntry(call) /\ entry.agent \in {0, call.agent}
    IN  /\ CallAt(c, "resumed")
        /\ entry' = IF taken THEN [entry EXCEPT !.agent = call.agent] ELSE entry
        /\ \/ taken /\ MaySubmit(call) /\ Submit(c, call)
           \/ NotSubmitted(c, call)
        /\ UNCHANGED <<listed, agent, lastAgent, revision, lastInc, palParts>>

PluginRestarts ==
    /\ entry # Nobody /\ entry' = Nobody /\ cache' = [m \in 1..MaxCommands |-> Nobody]
    /\ calls' = [c \in Calls |-> IF calls[c].at \in {"none", "answered", "failed"} THEN calls[c]
                                 ELSE IF calls[c].awaited THEN [NoCall EXCEPT !.at = "failed"]
                                 ELSE NoCall]
    /\ Plugin /\ UNCHANGED <<lastInc, followups>>

--------------------------------------------------------------------------
(* Executor.Run: the directory is the last answer, or nothing.             *)
SendCall(c, op, message, inc) ==
    Moved(c, [NoCall EXCEPT !.at = "sent", !.op = op, !.message = message, !.inc = inc,
                            !.awaited = TRUE])

RefreshAsks ==
    /\ CallAt("list", "none") /\ SendCall("list", "list", 0, 0)
    /\ UNCHANGED <<worldParts, pluginParts, palParts>>

Same(next) == known # Nobody /\ next # Nobody /\ known.inc = next.inc

(* Mutant: a round between two refreshes is not noticed.                   *)
NotifiesStatus(next) == Same(next) /\ known.working # next.working

Notifies(next) ==
    /\ Same(next)
    /\ known.working # next.working \/ (~next.working /\ known.revision # next.revision)

(* The directory is the answer already when the notices are sent, and one  *)
(* that fails, for want of a link, is not kept.                            *)
DshRefresh ==
    LET next == calls["list"].result
        done == next # Nobody /\ Notifies(next) /\ ~next.working
    IN  /\ calls["list"].at \in {"answered", "failed"} /\ Moved("list", NoCall)
        /\ known' = next
        /\ \/ next = Nobody /\ told' = Nobody /\ missed' = Nobody
           \/ next # Nobody /\ (done \/ ~Same(next)) /\ told' = next.revision /\ missed' = Nobody
           \/ done /\ missed' = next.revision /\ UNCHANGED told
           \/ next # Nobody /\ Same(next) /\ ~done /\ UNCHANGED <<told, missed>>
        /\ UNCHANGED <<worldParts, pluginParts, chosen, buffered, muxed, command, given, acted>>

--------------------------------------------------------------------------
(* A command names its target, an incarnation or 0 for Herdr's, which is   *)
(* selected first; then the message goes to the backend selected last.     *)
Owner(target) ==
    IF target = 0 THEN "herdr"
    ELSE IF known # Nobody /\ known.inc = target THEN "dsh" ELSE Nobody

Command(target, op) ==
    /\ command = NoCommand /\ given < MaxCommands /\ given' = given + 1
    /\ IF Owner(target) = Nobody THEN UNCHANGED command
       ELSE command' = [NoCommand EXCEPT !.at = "owned", !.target = target, !.op = op]
    /\ acted' = Nobody
    /\ UNCHANGED <<worldParts, pluginParts, calls, known, chosen, buffered, muxed, told, missed>>

BufferAfter(target) == IF chosen # target THEN 0 ELSE buffered

(* Mutant: the mux stays with the backend of its first selection.          *)
MuxedFirst(owner) == IF muxed = Nobody THEN owner ELSE muxed

MuxedAfter(owner) == owner

SelectTarget ==
    LET target == command.target
    IN  /\ command.at = "owned"
        /\ IF Owner(target) = Nobody
           THEN command' = NoCommand /\ UNCHANGED <<chosen, buffered, muxed>>
           ELSE /\ command' = [command EXCEPT !.at = "selected"]
                /\ muxed' = MuxedAfter(Owner(target))
                /\ IF target = 0 THEN UNCHANGED <<chosen, buffered>>
                   ELSE chosen' = target /\ buffered' = BufferAfter(target)
        /\ UNCHANGED <<worldParts, pluginParts, calls, known, given, acted, told, missed>>

Acted(what) == acted' = [target |-> command.target, by |-> what]
Done == command' = NoCommand

(* HandleMessage of the selected backend.  A prompt is refused while the   *)
(* directory has the session at work; pagedown shows what is buffered.     *)
HandleMessage ==
    /\ command.at = "selected"
    /\ CASE muxed = "herdr" -> Acted(0) /\ Done /\ UNCHANGED calls
         [] muxed = "dsh" /\ Owner(chosen) = "dsh" /\ command.op = "pageDown" ->
              /\ IF buffered = 0 THEN UNCHANGED acted ELSE Acted(buffered)
              /\ Done /\ UNCHANGED calls
         [] muxed = "dsh" /\ Owner(chosen) = "dsh" /\ command.op \in {"read", "prompt"}
              /\ ~(command.op = "prompt" /\ known.working) ->
              \E c \in Calls \ {"list"}, m \in {given, given - 1} \ {0} :
                  /\ CallAt(c, "none") /\ (command.op = "read" => m = given)
                  /\ (c = "second" => ~CallAt("first", "none"))
                  /\ SendCall(c, command.op, m, known.inc)
                  /\ command' = [command EXCEPT !.at = "calling", !.call = c] /\ UNCHANGED acted
         [] OTHER -> Done /\ UNCHANGED <<calls, acted>>
    /\ UNCHANGED <<worldParts, pluginParts, known, chosen, buffered, muxed, given, told, missed>>

HandleAnswer ==
    LET call == calls[command.call]
    IN  /\ command.at = "calling" /\ call.at \in {"answered", "failed"}
        /\ Moved(command.call, NoCall) /\ Done
        /\ IF call.at = "answered" THEN Acted(call.result) ELSE UNCHANGED acted
        /\ buffered' = IF call.at = "answered" /\ command.op = "read" THEN chosen ELSE buffered
        /\ UNCHANGED <<worldParts, pluginParts, known, chosen, muxed, given, told, missed>>

(* The client's own limit: the call goes on without it.                    *)
GivesUp ==
    /\ command.at = "calling" /\ calls[command.call].at \notin {"answered", "failed"}
    /\ Moved(command.call, [calls[command.call] EXCEPT !.awaited = FALSE]) /\ Done
    /\ UNCHANGED <<worldParts, pluginParts, known, chosen, buffered, muxed, given,
                   acted, told, missed>>

DshNext ==
    \/ AgentChanges \/ RoundBegins \/ RoundEnds \/ RowChanges
    \/ \E c \in Calls :
          \/ ListRows(c) \/ ListDone(c) \/ Resolve(c) \/ Read(c) \/ ReserveKey(c)
          \/ ResumeAgent(c) \/ SubmitResumed(c)
    \/ PluginRestarts \/ RefreshAsks \/ DshRefresh
    \/ \E target \in 0..lastInc, op \in {"prompt", "read", "pageDown"} : Command(target, op)
    \/ SelectTarget \/ HandleMessage \/ HandleAnswer \/ GivesUp

DshSpec == DshInit /\ [][DshNext]_dshVars

--------------------------------------------------------------------------
(* An incarnation is given prompts through one agent only, and whatever a  *)
(* command shows or sends concerns the target it named, though the session *)
(* is replaced, resumed or listed anew during any call (bridge.mjs resolve *)
(* and dispatch, Executor.SelectTarget and HandleMessage, ExecutorMux).    *)
DshTargetsHold ==
    /\ \A f, g \in followups : f.inc = g.inc => f.agent = g.agent
    /\ \A f \in followups : entry # Nobody /\ entry.inc = f.inc => entry.agent = f.agent
    /\ acted # Nobody => acted.target = acted.by

(* While a history is resumed for a message, its key is reserved and not   *)
(* accepted, for one call only: the prompt that follows was not given      *)
(* before, also when the message came again, within the ten minutes that   *)
(* a key is kept (bridge.mjs dispatch).                                    *)
Resumes(c) == calls[c].at \in {"resuming", "resumed"}
KeysReserved ==
    \A c \in Calls : Resumes(c) =>
        /\ cache[calls[c].message] = Placeholder(calls[c])
        /\ \A d \in Calls \ {c} : Resumes(d) => calls[d].message # calls[c].message

(* When the directory shows the session at rest, the user was told of what *)
(* it shows, or first saw the session so, or the notice of it was tried    *)
(* and failed, and is not sent again: no round that ends between two       *)
(* refreshes goes without its notice (Executor.refresh).                   *)
FinishedRoundNoticed ==
    known # Nobody /\ ~known.working => known.revision \in {told, missed}

(* A command reaches the session it names, once, and the end of a round is *)
(* given its notice.                                                       *)
DshSessionsServed == DshTargetsHold /\ KeysReserved /\ FinishedRoundNoticed
=============================================================================
