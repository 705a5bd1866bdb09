--------------------------- MODULE BridgeSupervisor ---------------------------
(* How Pal's directory follows Herdr (bridge/supervisor.go over            *)
(* session/registry.go and herdr/subscription.go): one cycle subscribes,   *)
(* reads a snapshot, and then applies status events and new snapshots in   *)
(* one loop, fed by the readers of two event streams and a timer.          *)
(*                                                                         *)
(* A pane is the agent in it (its OccupantKey) and the agent's status.     *)
(* Herdr is external: it announces a change of the agent on the lifecycle  *)
(* stream, or the announcement is lost; a pane that is subscribed sends    *)
(* its status, with the agent's name and not its session, whenever either  *)
(* changes.  The user's /ls writes the directory too, with a snapshot of   *)
(* its own.  The notices that a status change causes are in                *)
(* NotificationDispatcher, the locks of the Service in BridgeService.      *)
EXTENDS Naturals, Sequences, FiniteSets

CONSTANTS PaneIDs, OccupantKeys,
          AgentOf,       \* OccupantKey -> the agent's name
          Statuses,
          NoAgent,
          Capacity,      \* of the loop's channel
          MaxChanges,    \* bound: changes of a pane
          MaxCycles,     \* bound: connections to Herdr
          MaxRebinds     \* bound: prompts that find another session

ASSUME SupervisorAssumption ==
    /\ NoAgent \notin OccupantKeys /\ DOMAIN AgentOf = OccupantKeys
    /\ Capacity \in Nat \ {0} /\ MaxChanges \in Nat /\ MaxCycles \in Nat
    /\ MaxRebinds \in Nat

VARIABLES
    world,        \* Herdr: pane -> [key, status]
    changes,
    unseen,       \* an agent changed since the last snapshot and it is not announced
    targets,      \* Registry.targets: the directory
    stage,        \* where the cycle stands
    healthy,      \* the cycle's first snapshot is applied, its readers run
    rebuilt,      \* refreshSnapshot has replaced the status stream
    latest,       \* the last answer of session.snapshot
    planned,      \* statusPlan.identities: pane -> OccupantKey
    stream,       \* the status stream: its panes, unread events, whether it is read
    announced,    \* unread events of the lifecycle stream
    generation,   \* statusGeneration
    messages,     \* the channel of the loop
    leftover,     \* messages that readers and timers which were stopped still hold
    debounce,     \* debounceGeneration, and whether its timer runs
    answer,       \* a prompt: its pane, the key it expects, what agent.get saw of it
    rebinds,
    listing,      \* handleList: the snapshot it has read and not applied, or NoAgent
    overtaken,    \* history: panes that a prompt or a list gave what Herdr had left, not
                  \* replaced since
    cycles

loopVars == <<stage, healthy, rebuilt, latest, planned, generation>>
feedVars == <<stream, announced, messages, leftover, debounce>>
worldVars == <<world, changes>>
promptVars == <<answer, rebinds, listing, overtaken>>
supervisorVars == <<worldVars, unseen, targets, loopVars, feedVars, promptVars, cycles>>

Empty == [key |-> NoAgent, status |-> "none"]
Occupancy == [key : OccupantKeys, status : Statuses]
NoStream == [panes |-> {}, events |-> <<>>, reading |-> FALSE]
Unplanned == [p \in PaneIDs |-> NoAgent]
EmptyView == [p \in PaneIDs |-> Empty]

SupervisorInit ==
    /\ world \in [PaneIDs -> Occupancy \cup {Empty}] /\ changes = 0 /\ unseen = FALSE
    /\ targets = EmptyView
    /\ stage = "down" /\ healthy = FALSE /\ rebuilt = FALSE
    /\ latest = EmptyView /\ planned = Unplanned /\ generation = 0
    /\ stream = NoStream /\ announced = 0 /\ messages = <<>> /\ leftover = {}
    /\ debounce = [gen |-> 0, running |-> FALSE]
    /\ answer = NoAgent /\ rebinds = 0 /\ listing = NoAgent /\ overtaken = {} /\ cycles = 0

Identities(view) == [p \in PaneIDs |-> view[p].key]
AgentPanes(plan) == {p \in PaneIDs : plan[p] # NoAgent}

(* subscribeStatus: no stream for no panes; events from now on.            *)
Subscribed(plan) == [panes |-> AgentPanes(plan), events |-> <<>>, reading |-> FALSE]

--------------------------------------------------------------------------
(* Herdr.                                                                  *)
StatusOf(p, pane) ==
    [kind |-> "status", pane |-> p, agent |-> AgentOf[pane.key], status |-> pane.status]

Sent(p, pane) ==
    IF p \in stream.panes /\ pane # Empty
    THEN [stream EXCEPT !.events = Append(@, StatusOf(p, pane))] ELSE stream

PaneChanges(p) ==
    /\ changes < MaxChanges /\ changes' = changes + 1
    /\ \E pane \in (Occupancy \cup {Empty}) \ {world[p]} :
           /\ world' = [world EXCEPT ![p] = pane]
           /\ stream' = Sent(p, pane)
           /\ IF pane.key = world[p].key THEN UNCHANGED <<announced, unseen>>
              ELSE \/ stage # "down" /\ announced' = announced + 1 /\ UNCHANGED unseen
                   \/ unseen' = TRUE /\ UNCHANGED announced
    /\ UNCHANGED <<targets, loopVars, messages, leftover, debounce, promptVars,
                   cycles>>

--------------------------------------------------------------------------
(* prepareSubscriptions.                                                   *)
ConnectHerdr ==
    /\ stage = "down" /\ cycles < MaxCycles
    /\ cycles' = cycles + 1 /\ stage' = "discovery"
    /\ UNCHANGED <<worldVars, unseen, targets, healthy, rebuilt, latest, planned,
                   generation, feedVars, promptVars>>

Discover ==
    /\ stage = "discovery"
    /\ planned' = Identities(world) /\ stage' = "lifecycle"
    /\ UNCHANGED <<worldVars, unseen, targets, healthy, rebuilt, latest,
                   generation, feedVars, promptVars, cycles>>

(* The lifecycle stream may begin with an event that is already known.     *)
SubscribeLifecycle ==
    /\ stage = "lifecycle"
    /\ announced' \in {0, 1} /\ stage' = "status"
    /\ UNCHANGED <<worldVars, unseen, targets, healthy, rebuilt, latest, planned,
                   generation, stream, messages, leftover, debounce, promptVars, cycles>>

SubscribeStatus ==
    /\ stage = "status"
    /\ stream' = Subscribed(planned)
    /\ stage' = "snapshot"
    /\ UNCHANGED <<worldVars, unseen, targets, healthy, rebuilt, latest, planned,
                   generation, announced, messages, leftover, debounce, promptVars, cycles>>

ReadSnapshot ==
    /\ stage = "snapshot"
    /\ latest' = world /\ unseen' = FALSE /\ stage' = "reconcile"
    /\ UNCHANGED <<worldVars, targets, healthy, rebuilt, planned, generation,
                   feedVars, promptVars, cycles>>

--------------------------------------------------------------------------
(* reconcileStatusSubscriptions.                                           *)

(* Mutant: beforeReplace is not called.                                    *)
SameGeneration == generation

NextGeneration == IF healthy THEN generation + 1 ELSE generation

(* The reader of the closed stream may have an event it has not sent yet,  *)
(* and then sends the error of the closed stream.                          *)
StoppedReader ==
    IF stream.reading
    THEN {[kind |-> "closed", gen |-> generation]}
           \cup (IF stream.events = <<>> THEN {}
                 ELSE {[event |-> Head(stream.events), kind |-> "status", gen |-> generation]})
    ELSE {}

CloseStream ==
    /\ stage = "reconcile" /\ planned # Identities(latest)
    /\ generation' = NextGeneration
    /\ planned' = Identities(latest)
    /\ leftover' = leftover \cup StoppedReader
    /\ stream' = NoStream /\ stage' = "resubscribe"
    /\ UNCHANGED <<worldVars, unseen, targets, healthy, rebuilt, latest, announced,
                   messages, debounce, promptVars, cycles>>

Resubscribe ==
    /\ stage = "resubscribe"
    /\ stream' = Subscribed(planned)
    /\ rebuilt' = TRUE /\ stage' = "snapshot"
    /\ UNCHANGED <<worldVars, unseen, targets, healthy, latest, planned,
                   generation, announced, messages, leftover, debounce, promptVars, cycles>>

(* Registry.replace; a status stream that was not replaced knows better    *)
(* than the snapshot.                                                      *)
Preserving(view) ==
    [p \in PaneIDs |-> IF targets[p].key = view[p].key THEN targets[p] ELSE view[p]]

(* The input barrier of the replacement waits for a prompt, but not for its*)
(* rebind, which comes after the prompt's release.                         *)
Prompting == answer # NoAgent /\ answer.seen = Empty

ReplaceSnapshot ==
    /\ stage = "reconcile" /\ planned = Identities(latest) /\ ~Prompting
    /\ IF ~healthy \/ rebuilt THEN targets' = latest /\ overtaken' = {}
       ELSE /\ targets' = Preserving(latest)
            /\ overtaken' = {p \in overtaken : targets[p].key = latest[p].key}
    /\ generation' = IF ~healthy /\ stream.panes # {} THEN generation + 1 ELSE generation
    /\ stream' = [stream EXCEPT !.reading = @ \/ stream.panes # {}]
    /\ healthy' = TRUE /\ stage' = "select" /\ rebuilt' = FALSE /\ latest' = EmptyView
    /\ UNCHANGED <<worldVars, unseen, planned, announced, messages, leftover, debounce,
                   answer, rebinds, listing, cycles>>

--------------------------------------------------------------------------
(* The readers and the debounce timer.                                     *)
Room == Len(messages) < Capacity

FeedQuiet == UNCHANGED <<worldVars, unseen, targets, loopVars, promptVars, cycles>>

RecvStatus ==
    /\ stream.reading /\ stream.events # <<>> /\ Room
    /\ messages' = Append(messages, [event |-> Head(stream.events), kind |-> "status",
                                     gen |-> generation])
    /\ stream' = [stream EXCEPT !.events = Tail(@)]
    /\ FeedQuiet /\ UNCHANGED <<announced, leftover, debounce>>

RecvLifecycle ==
    /\ healthy /\ announced > 0 /\ Room
    /\ announced' = announced - 1
    /\ messages' = Append(messages, [kind |-> "lifecycle"])
    /\ FeedQuiet /\ UNCHANGED <<stream, leftover, debounce>>

SendLeftover ==
    /\ Room
    /\ \E m \in leftover : messages' = Append(messages, m) /\ leftover' = leftover \ {m}
    /\ FeedQuiet /\ UNCHANGED <<stream, announced, debounce>>

DebounceElapses ==
    /\ debounce.running /\ Room
    /\ messages' = Append(messages, [kind |-> "debounce", gen |-> debounce.gen])
    /\ debounce' = [debounce EXCEPT !.running = FALSE]
    /\ FeedQuiet /\ UNCHANGED <<stream, announced, leftover>>

--------------------------------------------------------------------------
(* The loop of runHealthyCycle.                                            *)
Refresh == stage' = "snapshot"

SnapshotTick ==
    /\ stage = "select"
    /\ Refresh
    /\ UNCHANGED <<worldVars, unseen, targets, healthy, rebuilt, latest, planned,
                   generation, feedVars, promptVars, cycles>>

Message(kind) ==
    /\ stage = "select" /\ messages # <<>> /\ Head(messages).kind = kind
    /\ messages' = Tail(messages)

(* The timer is restarted; the old one may have elapsed by now.            *)
OnLifecycle ==
    /\ Message("lifecycle")
    /\ debounce' = [gen |-> debounce.gen + 1, running |-> TRUE]
    /\ \/ UNCHANGED leftover
       \/ debounce.running
          /\ leftover' = leftover \cup {[kind |-> "debounce", gen |-> debounce.gen]}
    /\ UNCHANGED <<worldVars, unseen, targets, loopVars, stream, announced, promptVars,
                   cycles>>

(* Registry.ApplyStatus: an event of an unknown pane or of another agent   *)
(* is ignored.                                                             *)
Applied(event) ==
    IF targets[event.pane] # Empty /\ AgentOf[targets[event.pane].key] = event.agent
    THEN [targets EXCEPT ![event.pane].status = event.status] ELSE targets

OnStatus ==
    /\ Message("status")
    /\ targets' = IF Head(messages).gen = generation THEN Applied(Head(messages).event)
                    ELSE targets
    /\ UNCHANGED <<worldVars, unseen, loopVars, stream, announced, leftover, debounce,
                   promptVars, cycles>>

OnDebounce ==
    /\ Message("debounce")
    /\ IF Head(messages).gen = debounce.gen THEN Refresh ELSE UNCHANGED stage
    /\ UNCHANGED <<worldVars, unseen, targets, healthy, rebuilt, latest, planned,
                   generation, stream, announced, leftover, debounce, promptVars, cycles>>

(* The cycle ends: an error of a stream in use or of a request.  Its       *)
(* goroutines end with it, the directory stays (degrade).                  *)
Ended ==
    /\ stage' = "down" /\ healthy' = FALSE /\ rebuilt' = FALSE /\ generation' = 0
    /\ stream' = NoStream /\ announced' = 0 /\ messages' = <<>> /\ leftover' = {}
    /\ latest' = EmptyView /\ planned' = Unplanned
    /\ debounce' = [gen |-> 0, running |-> FALSE]
    /\ answer' = IF Prompting THEN NoAgent ELSE answer
    /\ UNCHANGED <<worldVars, unseen, targets, rebinds, listing, overtaken, cycles>>

CycleFails == stage # "down" /\ cycles < MaxCycles /\ Ended

OnClosed ==
    /\ stage = "select" /\ messages # <<>> /\ Head(messages).kind = "closed"
    /\ IF Head(messages).gen = generation THEN Ended
       ELSE /\ messages' = Tail(messages)
            /\ UNCHANGED <<worldVars, unseen, targets, loopVars, stream, announced,
                           leftover, debounce, promptVars, cycles>>

--------------------------------------------------------------------------
(* handlePrompt: its agent is the selected one; it finds the same session  *)
(* after its prompt, or another one of the same agent, and gives up its    *)
(* lease before it binds the directory to that (rebindExpected).           *)
PromptQuiet == UNCHANGED <<worldVars, unseen, loopVars, feedVars, cycles>>

BeginPrompt(p) ==
    /\ healthy /\ answer = NoAgent /\ rebinds < MaxRebinds
    /\ targets[p] # Empty /\ world[p].key = targets[p].key
    /\ answer' = [pane |-> p, expected |-> targets[p].key, seen |-> Empty]
    /\ PromptQuiet /\ UNCHANGED <<targets, rebinds, listing, overtaken>>

GetAgent ==
    /\ Prompting
    /\ LET seen == world[answer.pane]
       IN  IF seen # Empty /\ seen.key # answer.expected
              /\ AgentOf[seen.key] = AgentOf[answer.expected]
           THEN answer' = [answer EXCEPT !.seen = seen] /\ rebinds' = rebinds + 1
           ELSE answer' = NoAgent /\ UNCHANGED rebinds
    /\ PromptQuiet /\ UNCHANGED <<targets, listing, overtaken>>

RebindSelected ==
    /\ answer # NoAgent /\ ~Prompting /\ answer' = NoAgent
    /\ LET p == answer.pane
       IN  IF targets[p].key = answer.expected
           THEN /\ targets' = [targets EXCEPT ![p] = answer.seen]
                /\ overtaken' = IF world[p] = answer.seen THEN overtaken ELSE overtaken \cup {p}
           ELSE UNCHANGED <<targets, overtaken>>
    /\ PromptQuiet /\ UNCHANGED <<rebinds, listing>>

--------------------------------------------------------------------------
(* handleList: it reads a snapshot under an operation's lease, gives the   *)
(* lease up, and applies the snapshot as one that a stream outlives; the   *)
(* directory, the stream and the cycle may be others by then.              *)
ListReads ==
    /\ healthy /\ listing = NoAgent
    /\ listing' = world
    /\ PromptQuiet /\ UNCHANGED <<targets, answer, rebinds, overtaken>>

ListApplies ==
    /\ listing # NoAgent /\ ~Prompting /\ listing' = NoAgent
    /\ targets' = Preserving(listing)
    /\ overtaken' = {p \in PaneIDs : IF targets[p].key = listing[p].key THEN p \in overtaken
                                     ELSE listing[p] # world[p]}
    /\ PromptQuiet /\ UNCHANGED <<answer, rebinds>>

SupervisorNext ==
    \/ \E p \in PaneIDs : PaneChanges(p) \/ BeginPrompt(p)
    \/ ConnectHerdr \/ Discover \/ SubscribeLifecycle \/ SubscribeStatus \/ ReadSnapshot
    \/ CloseStream \/ Resubscribe \/ ReplaceSnapshot
    \/ RecvStatus \/ RecvLifecycle \/ SendLeftover \/ DebounceElapses
    \/ SnapshotTick \/ OnLifecycle \/ OnStatus \/ OnDebounce \/ OnClosed
    \/ GetAgent \/ RebindSelected \/ ListReads \/ ListApplies \/ CycleFails

SupervisorSpec == SupervisorInit /\ [][SupervisorNext]_supervisorVars

--------------------------------------------------------------------------
Quiet ==
    /\ stage = "select" /\ messages = <<>> /\ announced = 0 /\ stream.events = <<>>
    /\ ~debounce.running

(* When everything Herdr has said is worked off, the directory is Herdr's, *)
(* status by status, unless an announcement was lost since the last        *)
(* snapshot, but for a pane to which a prompt's late rebind or a list's    *)
(* late snapshot gave what Herdr had left: no event or timer of a replaced *)
(* stream and no snapshot of the cycle leaves it behind (runHealthyCycle,  *)
(* reconcileStatusSubscriptions, Registry.replace, Service.handleList,     *)
(* Service.rebindExpected).                                                *)
DirectoryFollowsHerdr ==
    Quiet /\ ~unseen => \A p \in PaneIDs \ overtaken : targets[p] = world[p]
=============================================================================
