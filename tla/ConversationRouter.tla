-------------------------- MODULE ConversationRouter --------------------------
(* What a user's commands and pushed messages do to the directory          *)
(* (server/router.go over SessionCatalog).  The tasks of one user run one  *)
(* after the other (UserExecutor), those of different users at the same    *)
(* time, and between any two calls a task makes the connection side may    *)
(* attach, replace or detach a machine.  A request to the machine is its   *)
(* outcome: RelayLink models the exchange.  Texts are left out but for     *)
(* what a reply claims of the user's selection.                            *)
(*                                                                         *)
(* A task is at the step it does next.  /N picks a position of the         *)
(* numbered list, named by its target as in SessionCatalog.                *)
EXTENDS SessionCatalog, FiniteSets

CONSTANTS Commands,     \* sets of the kinds of task that meet in one behaviour
          MaxRelinks    \* bound: connections attached

Kinds == {"list",         \* /ls
          "select",       \* /N
          "text",         \* plain text
          "directed",     \* #N text
          "switch",       \* /N text
          "mode",         \* mode command
          "directedMode", \* #N mode
          "switchMode",   \* /N mode
          "status",       \* a pushed status notification that shows the terminal
          "output"}       \* a pushed command output

ASSUME RouterAssumption ==
    /\ \A mix \in Commands : mix \subseteq Kinds
    /\ Waiters = Users /\ NoWait \notin Wait /\ MaxRelinks \in Nat

VARIABLES
    commands,   \* the kinds of this behaviour
    relinks,    \* connections attached so far
    task        \* user -> the task its worker runs, or NoTask

catalogVars == vars
routerVars == <<catalogVars, commands, relinks, task>>

Pushed == {"status", "output"}
ByNumber == {"select", "directed", "switch", "directedMode", "switchMode"}
NoTask == [kind |-> "none", step |-> "idle", target |-> NoTarget,
           before |-> NoTarget, said |-> "nothing"]

RouterInit ==
    /\ Init
    /\ commands \in Commands
    /\ relinks = 0
    /\ task = [u \in Users |-> NoTask]

(* The connection side, as SessionCatalog has it.                          *)
Connection ==
    /\ \/ /\ relinks < MaxRelinks /\ relinks' = relinks + 1
          /\ \E c \in Conns, k \in Keys : Attach(c, k)
       \/ /\ \/ \E c \in Conns, seq \in 1..MaxSeq, panes \in Panes :
                    connections[c] # NoKey /\ seq = machines[connections[c]].seq + 1
                    /\ ApplySnapshot(c, seq, panes)
             \/ \E c \in Conns : Detach(c)
          /\ UNCHANGED relinks
    /\ UNCHANGED <<commands, task>>

--------------------------------------------------------------------------
At(u, step) == task[u].step = step
KindIn(u, kinds) == task[u].kind \in kinds

(* The task goes on at `step`, with what else it has learnt.               *)
GoTo(u, step) == task' = [task EXCEPT ![u].step = step]
Say(u, claim) == task' = [task EXCEPT ![u].step = "reply", ![u].said = claim]
Fail(u) == Say(u, IF KindIn(u, {"select", "switch", "switchMode"})
                  THEN "notSwitched" ELSE "nothing")

OnlyTask == UNCHANGED <<catalogVars, commands, relinks>>
Directory == UNCHANGED <<commands, relinks>>

(* handleAuthorized: a command needs a session; a push is submitted as it  *)
(* comes, for a target its connection had a moment ago.                    *)
FirstStep(kind) ==
    CASE kind = "list" -> "number"
      [] kind \in ByNumber -> "resolveNumber"
      [] kind \in {"text", "mode"} -> "resolveSelection"
      [] OTHER -> "resolveTarget"

Start(u, kind, t) ==
    /\ task[u] = NoTask /\ kind \in commands
    /\ kind \notin Pushed => Entries(u) # {}
    /\ task' = [task EXCEPT ![u] = [kind |-> kind, step |-> FirstStep(kind), target |-> t,
                                    before |-> selected[u], said |-> "nothing"]]
    /\ OnlyTask

Begin(u) ==
    \E kind \in Kinds : \E t \in Targets \cup {NoTarget} :
        /\ IF kind \in ByNumber THEN numberedValid[u] /\ t \in numbered[u]
           ELSE IF kind \in Pushed THEN t # NoTarget ELSE t = NoTarget
        /\ Start(u, kind, t)

(* catalog.Selected: a good selection is returned as it is.                *)
Settled(u) ==
    IF selected[u] = NoTarget THEN Cardinality(Entries(u)) # 1
    ELSE Visible(u, selected[u])

CallSelected(u) == IF Settled(u) THEN UNCHANGED catalogVars ELSE Selected(u)

CallEnsureNumber(u, t) ==
    IF numberedValid[u] /\ t \in numbered[u] THEN UNCHANGED catalogVars
    ELSE EnsureNumberedIndex(u, t)

(* handleList: the list is made, then the selection is looked up.          *)
Number(u) ==
    /\ At(u, "number")
    /\ CreateNumberedSnapshot(u)
    /\ GoTo(u, IF Entries(u) = {} THEN "reply" ELSE "mark") /\ Directory

(* ResolveNumbered.                                                        *)
ResolveNumber(u) ==
    /\ At(u, "resolveNumber")
    /\ IF numberedValid[u] /\ task[u].target \in numbered[u] /\ Visible(u, task[u].target)
       THEN GoTo(u, CASE KindIn(u, {"select"}) -> "relaySelect"
                      [] KindIn(u, {"directedMode", "switchMode"}) -> "setMode"
                      [] OTHER -> "lookBefore")
       ELSE Fail(u)
    /\ OnlyTask

(* The selection a plain text or a mode command is meant for.              *)
ResolveSelection(u) ==
    /\ At(u, "resolveSelection")
    /\ CallSelected(u)
    /\ task' = [task EXCEPT ![u].target = selected'[u], ![u].before = selected'[u],
                  ![u].step = IF selected'[u] = NoTarget THEN "reply"
                              ELSE IF KindIn(u, {"mode"}) THEN "setMode" ELSE "execute"]
    /\ Directory

(* handleDirectedExecute remembers the selection before it executes.       *)
LookBefore(u) ==
    /\ At(u, "lookBefore")
    /\ CallSelected(u)
    /\ task' = [task EXCEPT ![u].before = selected'[u], ![u].step = "execute"]
    /\ Directory

(* relay.Select.                                                           *)
RelaySelect(u) ==
    /\ At(u, "relaySelect")
    /\ GoTo(u, "setSelection") \/ Fail(u)
    /\ OnlyTask

(* Mutant: the error of SetSelection is ignored.                           *)
SetChosenUnchecked(u, next) ==
    /\ IF Visible(u, task[u].target) THEN SetSelection(u, task[u].target)
                                     ELSE UNCHANGED catalogVars
    /\ GoTo(u, next)

(* catalog.SetSelection.                                                   *)
SetChosen(u, next) ==
    IF Visible(u, task[u].target)
    THEN SetSelection(u, task[u].target) /\ GoTo(u, next)
    ELSE UNCHANGED catalogVars /\ Fail(u)

ChooseTarget(u) ==
    /\ At(u, "setSelection")
    /\ SetChosen(u, CASE KindIn(u, {"select"}) -> "execute"
                      [] KindIn(u, {"switchMode"}) -> "confirm"
                      [] OTHER -> "header")
    /\ Directory

(* setOutputMode, which the machine may not support.                       *)
SetMode(u) ==
    /\ At(u, "setMode")
    /\ \/ Fail(u) /\ UNCHANGED catalogVars
       \/ /\ \E mode \in Modes : SetOutputMode(u, task[u].target, mode)
          /\ GoTo(u, IF KindIn(u, {"switchMode"}) THEN "setSelection" ELSE "reply")
    /\ Directory

Confirm(u) ==
    /\ At(u, "confirm")
    /\ Say(u, "switched")
    /\ OnlyTask

--------------------------------------------------------------------------
(* relay.Execute.  It fails or times out, which says nothing of what the   *)
(* machine did, or succeeds; the hub passes on a replacement only while    *)
(* the directory has it in the command's own pane.                         *)
ExecuteFails(u) ==
    /\ At(u, "execute")
    /\ IF KindIn(u, {"select"}) THEN Say(u, "switched") ELSE Fail(u)
    /\ OnlyTask

Executed(u) ==
    /\ At(u, "execute")
    /\ GoTo(u, IF KindIn(u, {"switch"}) THEN "setSelection" ELSE "header")
    /\ OnlyTask

(* Mutant: #N text takes the selection along with the replaced session.    *)
FollowAlways(u) == IF KindIn(u, {"switch", "directed"}) THEN "select" ELSE "rebind"

(* Who waits for the replacement: /N text selects it, the selection        *)
(* follows it if the command went to the selected session, otherwise it is *)
(* only the source of the reply.                                           *)
Follow(u) ==
    IF KindIn(u, {"switch"}) THEN "select"
    ELSE IF KindIn(u, {"directed"}) /\ task[u].before # task[u].target THEN "target"
    ELSE "rebind"

Replaced(u, v) ==
    /\ At(u, "execute")
    /\ v # task[u].target /\ SameSlot(v, task[u].target) /\ Visible(u, v)
    /\ LET op == Follow(u)
       IN  BeginWait(u, op, u, IF op = "rebind" THEN task[u].target ELSE v, v)
    /\ task' = [task EXCEPT ![u].target = v, ![u].step = "await"] /\ Directory

(* The wait on the directory, under the request's timeout.  After the      *)
(* selection has been written, handleDirectedExecute waits once more for   *)
(* the target and the other handlers look it up.                           *)
AfterWait(u) ==
    IF waits[u].op # "target" /\ KindIn(u, {"directed", "switch"}) THEN "awaitTarget"
    ELSE IF waits[u].op = "target" THEN "header" ELSE "lookUp"

(* What the reply to a failed wait claims: /N has selected before it, and  *)
(* the second wait of /N text comes after the switch.                      *)
WaitFailed(u) ==
    IF KindIn(u, {"select"}) THEN "switched"
    ELSE IF KindIn(u, {"switch"}) /\ waits[u].op = "select" THEN "notSwitched" ELSE "nothing"

Await(u) ==
    /\ At(u, "await")
    /\ \/ /\ EndWait(u)
          /\ IF Answered(waits[u]) THEN GoTo(u, AfterWait(u)) ELSE Say(u, WaitFailed(u))
       \/ Park(u) /\ UNCHANGED task
    /\ Directory

RequestTimeout(u) ==
    /\ At(u, "await")
    /\ Timeout(u)
    /\ Say(u, WaitFailed(u))
    /\ Directory

AwaitTarget(u) ==
    /\ At(u, "awaitTarget")
    /\ BeginWait(u, "target", u, task[u].target, task[u].target)
    /\ GoTo(u, "await") /\ Directory

LookUp(u) ==
    /\ At(u, "lookUp")
    /\ GoTo(u, IF Visible(u, task[u].target) THEN "header" ELSE "reply")
    /\ OnlyTask

--------------------------------------------------------------------------
(* The reply, or the pushed content.  Terminal content gets a header with  *)
(* the session's number and a warning unless it is the selected one.       *)
Header(u) ==
    /\ At(u, "header")
    /\ IF Visible(u, task[u].target)
       THEN CallEnsureNumber(u, task[u].target)
            /\ GoTo(u, IF KindIn(u, {"status"}) THEN "reply" ELSE "mark")
       ELSE UNCHANGED catalogVars /\ GoTo(u, "reply")
    /\ Directory

PlainReply(u) ==
    /\ At(u, "header") /\ ~KindIn(u, Pushed)
    /\ Say(u, IF KindIn(u, {"select", "switch"}) THEN "switched" ELSE "nothing")
    /\ OnlyTask

Mark(u) ==
    /\ At(u, "mark")
    /\ CallSelected(u)
    /\ GoTo(u, "reply") /\ Directory

(* sendNotification, sendCommandOutput.  A status of a session that is not *)
(* selected is announced with its number to a user who is active;          *)
(* otherwise the terminal is read and pushed.                              *)
ResolveTarget(u) ==
    /\ At(u, "resolveTarget")
    /\ GoTo(u, IF ~Visible(u, task[u].target) THEN "reply"
               ELSE IF KindIn(u, {"status"}) THEN "announce" ELSE "header")
    /\ OnlyTask

Announce(u) ==
    /\ At(u, "announce")
    /\ CallSelected(u)
    /\ \/ /\ selected'[u] \notin {NoTarget, task[u].target}
          /\ GoTo(u, "header")
       \/ task' = [task EXCEPT ![u].kind = "output", ![u].step = "fetch"]
    /\ Directory

Fetch(u) ==
    /\ At(u, "fetch")
    /\ GoTo(u, "header") \/ GoTo(u, "reply")
    /\ OnlyTask

(* The reply is sent, or fails, and the task ends.                         *)
Reply(u) ==
    /\ At(u, "reply")
    /\ task' = [task EXCEPT ![u] = NoTask]
    /\ OnlyTask

Handle(u) ==
    \/ Number(u) \/ ResolveNumber(u) \/ ResolveSelection(u) \/ LookBefore(u)
    \/ RelaySelect(u) \/ ChooseTarget(u) \/ SetMode(u) \/ Confirm(u)
    \/ ExecuteFails(u) \/ Executed(u) \/ (\E v \in Targets : Replaced(u, v))
    \/ Await(u) \/ RequestTimeout(u) \/ AwaitTarget(u) \/ LookUp(u)
    \/ Header(u) \/ PlainReply(u) \/ Mark(u)
    \/ ResolveTarget(u) \/ Announce(u) \/ Fetch(u) \/ Reply(u)

RouterNext == Connection \/ \E u \in Users : Begin(u) \/ Handle(u)

RouterSpec == RouterInit /\ [][RouterNext]_routerVars

--------------------------------------------------------------------------
InPane(t, v) == t # NoTarget /\ SameSlot(t, v)

(* A selection moves to another pane only by the user's /N, by a /N text   *)
(* or /N mode whose execution succeeded, or because one session is left;   *)
(* #N, the list, a reply that comes late and whatever is pushed leave it   *)
(* where it is or let it follow its own pane's next session.               *)
MayMove(u, t) ==
    \/ Entries(u) = {t}
    \/ /\ KindIn(u, {"select", "switch", "switchMode"})
       /\ task[u].step \in {"setSelection", "await"}
       /\ SameSlot(t, task[u].target)

SelectionFollowsCommands ==
    [][\A u \in Users : selected'[u] \notin {NoTarget, selected[u]} =>
          \/ InPane(selected[u], selected'[u])
          \/ InPane(invalidated[u], selected'[u])
          \/ MayMove(u, selected'[u])]_routerVars

(* What a reply claims of a switch is what happened: after "not switched"  *)
(* the user's input does not go to the pane of the command unless it did   *)
(* before, and after "switched" it goes to that pane or nowhere            *)
(* (handleSelect, handleDirectedExecute, handleDirectedMode).              *)
SwitchReported ==
    \A u \in Users : selected[u] # NoTarget =>
        /\ task[u].said = "notSwitched" /\ SameSlot(selected[u], task[u].target)
               => InPane(task[u].before, task[u].target)
        /\ task[u].said = "switched" => SameSlot(selected[u], task[u].target)

(* The user's input goes where the user was told it goes.                   *)
SwitchesHonest == []SwitchReported /\ SelectionFollowsCommands
=============================================================================
