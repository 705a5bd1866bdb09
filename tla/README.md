# herdr-pal: models, checks and proofs

TLA+ modules for the concurrent and stateful parts of herdr-pal, the TLC
configurations that check them on small instances, and proofs checked by TLAPS.
Definitions keep the names of the Go code; `PROJECT.json` maps every definition
to the lines it stands for, lists the runs, the mutants that show each property
can fail, and the hazards the properties are aimed at.

## The system

A WeCom user talks to coding agents that run in panes of a terminal
multiplexer (Herdr) on the user's own machines.

    WeCom chat -> herdr-pal-server                          herdr-pal (one per machine)
                  wecom.Client                              relayclient.Client
                  ConversationRouter, UserExecutor          ExecutorMux -> bridge.Service -> Herdr
                  SessionCatalog, ClientHub  <= HPRP/1 =>   bridge.Supervisor, dispatcher, notifier
                  machinereg, credential, adminservice

One server serves one bot. One client connection exists per (user, machine).
The two sides exchange JSON envelopes over one WebSocket: hello, full session
snapshots with a sequence number and an acknowledgement, commands with a result
and later outputs, terminal reads, notifications.

| Component | State | Operations | What makes it correct |
|---|---|---|---|
| SessionCatalog | connection, key and machine tables; per user: numbered list, selection, withdrawn selection, output modes; update channel | attach, snapshot, detach, number, select, rebind, wait | the tables agree; nothing stored outlives its target; only the user moves a live selection; no lost wakeup |
| ClientHub / clientConnection | clients by key, pending replies, expired requests, command routes, outbound queue | handshake, request, read loop, withdraw, heartbeat | an answer reaches the call that asked; late answers do no harm; a revoked key has no connection |
| relayclient.Client | current session, request slot, idempotency cache, snapshot sequence | run session, execute, reply, report snapshot, notify | a command runs at most once per key; repeated answers equal the first; outputs follow their result |
| machinereg.Service, Store; credential.Store | pending requests, credentials, next identifier, principal locks | register, approve, reject, issue, delete | one owner per machine; no credential without a delivered key except after a crash; approvals by number approve what was shown |
| RegistrationApprovalCoordinator | rotation cursor, one numbered snapshot per administrator | list, commit, approve, reject | a number is used once and names the shown request |
| ConversationRouter, UserExecutor, Deduper, rate limiter | per-user queue, reserved message identifiers, time windows | dispatch, run, reply | one task per user at a time, in order; a message is handled at most once |
| wecom.Client | session, pending requests, queued events, status | run, request, enqueue, finish | every request ends exactly once; events keep their order |
| bridge.Service, session.Registry, panel.Buffer | selection, panel, generation, operation counters | prompt, keys, pages, snapshot replacement | no input to a changed occupant; stale reads are dropped; no self-deadlock |
| notificationDispatcher, Notifier | queue, active task, epoch, recent keys | enqueue, deliver, retry, drop | only the newest status of a pane is sent; no duplicate; invalidations survive epochs |
| bridge.Supervisor | streams, generations, debounce, back-off | cycle, refresh, reconcile, reconnect | after the last event the registry equals Herdr; delays stay within their bounds |
| adminauth, webadmin | login buckets, administrators, browser sessions, tokens | begin, finish, rotate, change, revoke | one password check at a time; locks hold; no session outlives a change |
| serverapp, adminserver | lock, ports, socket, files, components, stop reservation | start, stop, drain | a serving server is reachable; nothing left behind blocks the next; a stop is answered first |
| app (Pal's process) | process lock, dial path, loops | run, stop, time out | what still runs keeps the lock |
| dsh, its plugin, ExecutorMux | incarnations, agents, message cache, selection | list, select, prompt, read | a prompt reaches the session it named, once |
| the three stores' files | memory, temporary file, file | load, persist | the rename is the commit point |
| interactive.Adapter | event channel, scanner, failure signals | run, scan, write | the first output failure ends Run and every later delivery |
| audit.AsyncAuditor | queue, byte count, counters | emit, flush, shutdown | accepted = exported + failed + waiting; bounds hold |

The hard behaviours are concurrency inside one process (goroutines that look,
unlock and look again), requests that time out while their answer is under way,
reconnects between the steps of one command, crashes between two persisted
steps, and bounded queues.


A run's TypeOK is a conjunct of one of its invariants, and related properties
are stated as one conjunction: the parts keep their names in the modules, and
each part that says more than types has a mutant.

| Run | Module | Question |
|---|---|---|
| `catalog` | `MCSessionCatalog` | does the directory stay consistent, and does nobody wait in vain |
| `relay_commands` | `MCRelayLink` | is a command run once and answered with its outcome |
| `relay_sync` | `MCRelayLink` | are the slot returned and the directory brought up to date |
| `relay_late_answer`, `relay_notice_target` | `MCRelayLink` | two statements of the protocol document that the code breaks |
| `connection_lifecycle` | `MCConnectionLifecycle` | is only the machine's own connection routed, and does every handler end |
| `disabled_key` | `MCConnectionLifecycle` | a statement of the manual that the code breaks |
| `machine_registration` | `MCMachineRegistration` | who owns a machine and a key, through failures and restarts |
| `notifications` | `MCNotificationDispatcher` | are notices sent, replaced and suppressed as they must be |
| `bridge` | `MCBridgeService` | do inputs and panels belong to the selection, and does the directory follow Herdr |
| `messages` | `MCMessageIntake` | what becomes of messages, of servers that follow each other, and of the terminal front end |
| `parts` | `MCParts` | thirteen parts that share no state |

## SessionCatalog (internal/server/catalog.go)

`SessionCatalog.tla` models the directory. Every operation runs under one mutex
and is one action. The three waiting operations are the exception: `BeginWait`
enters, `EndWait` and `Park` are one pass of the loop each, `Timeout` is the
expiring context. `Park` is the moment at which the goroutine sleeps on the
`updates` channel it captured under the mutex; every state change replaces that
channel, which is `Signalled`. A snapshot is a function from panes to
occupants, because the validator refuses two sessions in one pane. The position
in the numbered list is named by its target, so sorting is not modelled.

Run `catalog` (`MCSessionCatalog.cfg`): one user, two machines with one pane
each, two occupants, two connections, one waiting call, one mode, sequence
numbers up to 2. Two machines are needed for selections that survive another
machine's disconnect, two occupants for a replaced session, two connections for
a reconnect, sequence 2 for a snapshot that replaces a snapshot. All state of
the code is per user, so a second user adds no interaction. Sequence 3 was also
run (717,000 states, same result). Fairness: a goroutine that is not parked
runs (`WF` on `EndWait \/ Park`); no context has to expire and no snapshot has
to arrive.

The run's `CatalogConsistent` is the conjunction of `TypeOK` and the first
three of these:

* `ConnectionIndexes`: the three tables agree, also when `Detach` is called
  twice around a reconnect.
* `RoutingLive`: selections and modes name visible sessions, a withdrawn
  selection waits beside no newer one, usable numbers name online machines.
* `NoLostWakeup`: nobody sleeps while the answer is there.
* `NoStuckWait` (liveness): nobody is kept from returning it.
* `SelectionStable`: a live selection moves only by its user's choice.
* `ModeFollowsSlot`: an explicit output mode stays with its pane across
  occupants.

### What is proved

`SessionCatalogProofs.tla` proves the type invariant, `ConnectionIndexes`,
`RoutingLive`, `NoLostWakeup`, their conjunction `CatalogConsistent`, and
`SelectionStable` for every set of users,
machines, panes, occupants, connections and goroutines and every bound, under
the assumptions that the null values are not members of the sets they stand
beside and that the bound is a natural number.

The inductive invariant `IInv` adds `AbsentMachines` (a machine without a
connection has no snapshot) to the checked properties. Without it, `Attach`
could make a selection visible that no snapshot brought. The argument: the
connection side keeps the three tables (`NextDirectory`); a snapshot re-examines
the one user's selection and moves the modes with the panes
(`SnapshotRouting`); a disconnect clears what names the machine
(`DetachRouting`); the routing side writes only targets it has just looked up
(`ChooseRouting`, `NextRouting`). `NoLostWakeup` is proved from it: a step either
signals, and then nobody is parked, or changes nothing a parked goroutine looks
at (`QuietStep`). `SelectionStable` needs one more invariant, that a rebind
stays in its pane, which makes its "old or new" guard mean that a live
selection is the expected one or already the replacement.

`ModeFollowsSlot` follows from `IInv`: a mode is of a visible session
(`ModesLive`), so only an attach under the same key, which `ConnectionIndexes`
excludes, a snapshot, whose panes `MigratedModes` goes through, and a disconnect
can touch it (`ModeSteps`).

The liveness property `NoStuckWait` is only model-checked; liveness under
fairness is outside the prover's reach.


## Command exchange (`RelayLink.tla`, `RelayOnce.tla`)

One user, one machine, one pane whose occupant changes by itself. A target is
named by its session, because machine and slot are fixed. A *link* is one
WebSocket connection: either end may lose it and the other end learns so later.

| Code | Model |
|---|---|
| `runSession`, `serveConnection` handshake | `Connect`; first snapshot and its result are ordinary messages |
| `Execute`, `requestTargetMode` | `Execute`, then one of `TimeOut`, `LoseCall`, `TakeResult`; the deferred `removeCommand` is the separate step `RemoveCommand` |
| server `readLoop` | `ReadSnapshot`, `ReadResult` (expiry test) and `HandleResult` (validation, replacement, delivery), `ReadOutput`, `ReadNotice`; a refused message is `Break`, whose cause stays in `verdict` |
| client `readLoop`, `handleCommand` | `ReadExecute`, `BeginCommand`, `Respond`, `RespondMoved`, `ReportFails`, `FinishCommand`, one `WriteReply` per envelope, `WriteFails` |
| `sendSnapshot` | `SendSnapshot`, `ReadSnapshotResult` |
| `SendNotification` | `ResolveNotice`, `WriteNotice` |
| process and link failures | `ClientLoses`, `ServerLoses`, `ServerRestart` |

`RelayOnce` is the promise: a message is handled at most once, and a call that
is told `ok` or `failed` is told the outcome of that handling for its own
target. `ImplementsOnce` is the refinement: `answer` is computed from the phase
of each call.

Timing assumptions: the idempotency window and the routes (10 minutes) outlive
the exchange; the deferred removal of a route runs within the minute for which
a request stays marked as expired; that mark may lapse (`Lapses`).

Runs:

- `relay_commands` (`LinksHold`, the conjunction of `TypeOK`,
  `RoutesFollowRequests`, `OutputsInOrder`, `OnlyLateAnswersBreak` and
  `TargetsBreakAfterChanges`, and `ImplementsOnce`): two calls, two messages, two links, one occupant change,
  one restart of the server after which WeCom may deliver a message again, up
  to two outputs. Two calls and two links suffice for the interesting overlaps:
  an old handler holding the slot for a dead link while a new call arrives, and
  a replay on another link. Messages and sessions are symmetric.
  A reply breaks the link in two cases. One is a missing route, and then its call
  timed out. The other is a session that the directory does not name, which also
  an OK result in time can meet (hub.go:477-486 and 528-539): the pane changes
  while the command runs and the next snapshot overtakes its result.
  `TargetsBreakAfterChanges` says that this takes a change of the pane, and for a
  reply that moved to the new occupant another one after it moved, since
  `respondContent` has the new occupant confirmed before the result names it. The
  history variable `bound` remembers the session a message's reply moved to, and
  the number of changes then. With the run's one change the first case happens and
  the second must not; that two changes break a moved reply only by the second
  rests on the theorem.
- `relay_sync` (`NoticesNameAckedSnapshots`, and `LinkSettles`, the conjunction
  of `SlotReturned` and `DirectoryCatchesUp`): one call and one notification over two links, with liveness.
  The fairness is that goroutines go on, that the local executor answers or
  returns (its calls to Herdr have deadlines), and that an end whose peer is
  gone learns so (heartbeat on the server, deadline of the calibration snapshot
  on the Pal). Nothing is assumed about connecting again.
- `relay_late_answer` (violation): docs/HPRP_PROTOCOL_DESIGN.md:555-557 promises
  that a late result never drops the link. It can: the expiry test and the
  validation are two steps, and a call can time out and withdraw its route
  between them.
- `relay_notice_target` (violation): docs/HPRP_PROTOCOL_DESIGN.md:437 asks the
  Pal to wait for the confirmation of a snapshot before it names a new session.
  `SendNotification` looks at the live registry instead, and the server drops
  the link.

Proved in `RelayLinkProofs`, for any number of calls, messages, sessions, links,
changes, restarts, outputs and notices:

* `NoticesAcked` (`NoticesNameAckedSnapshots`), from `Base`: the ends of a link
  that are down hold nothing of it (`EndsDown`), and one snapshot at a time is
  under way, which is the one the Pal waits for (`Syncing`).
* `HandledOnceForAll` (`ImplementsOnce`): the initial state maps to one of
  `RelayOnce` and every step to a step or a stutter. It needs `Handled`, a
  message is in the slot or its cache entry holds what came of it, and
  `AnswersTruthful`, whatever stands on the way of an answer (the slot, either
  queue, the reader's hand, the cache) names the message and session of its call
  and tells what came of the handling.
* `LinksHoldForAll` (`LinksHold`). None of its parts is inductive alone, because
  the server's tables are judged by what the Pal may still send. `TablesInv` says
  what the tables are; `Exchanges`, that a call has one exchange, which stands in
  one place (asked, in the slot, answered, between the reader's two looks);
  `OutputsFollowOK`, `RoutesNotAhead` and `OutputsCounted`, that outputs follow
  an OK result, for the session it named, numbered from where the route stands;
  `LateOnly`, that a result or output without a route is one of a call that
  timed out. `TargetsInv` says that an OK on any way names the session its
  message is bound to (`AnswersNameBound`), that a message is bound once, when its
  handler moves (`BoundOnce`), and that until the pane changes again Pal, the
  snapshots on their way and the directory know no other session (`BoundSteady`; and
  `FirstOccupant` for replies that did not move). So an answer whose session is not
  in the directory comes after such a change (`TargetFault`).

Timing enters as the guards named above, so it is an assumption of the proofs as
well. `LinkSettles` (liveness) and the two findings stay with TLC.

Not modelled here: `Select` (the same pending table, without
routes), the periodic snapshot without a change, the limits of the cache in
entries and bytes, output modes. Terminal snapshots and the de-duplication of
notifications are in `TerminalDelivery`.

## Connections and credentials (`ConnectionLifecycle.tla`)

One machine, several connections (each identifier used once), the management
calls of concurrent administrators, and the server's shutdown.

| Code | Model |
|---|---|
| `ServeHTTP` | `Verify` (handler count and credential), `Reserve` (`SessionCatalog.Attach`, or 409), `Upgrade`, `FailHandshake` |
| `serveConnection` | `Install`, `FirstSnapshot`, `End`; its deferred `remove` is `Remove` then `Leave` |
| `SetCredentialEnabled`, `DeleteCredential`, `MutateSources` | `Enable`, `Disable`, `Delete`, `AddSources`, `SetSources`: persist, then leave a `Withdrawal` to do |
| `withdrawConnections` | `Withdraw` (under the lock of the table), then `CancelOne` |
| `DisconnectConnection`, shutdown | `Disconnect`, `BeginShutdown` then a `Withdrawal` of everything |

The run's `RoutesHold` is the conjunction of `TypeOK`, `OneRoutePerKey` and
`WithdrawnUnroutable`, and `HandlersSettle` that of the liveness properties
`HandlersEnd` and `KeyFreed`.

`missed` is a history variable: the connections a withdrawal of their
credential found in the handshake, so not in the table.

Runs:

- `connection_lifecycle`: two connections (a reconnect beside a dying one), two
  credentials, two addresses, three management operations, one shutdown. The
  fairness is that handlers and calls go on, that reads of the handshake have
  deadlines, and that a cancelled context ends the read it guards. Nothing is
  assumed of a live link: it may last forever.
- `disabled_key` (violation): README.md:463 of the repository says that a
  disabled key's connection is removed at once. The key is verified at hub.go:140
  and the connection enters the table after `hello.client`, so a key disabled in
  between removes nothing, and the Pal becomes ready afterwards. At shutdown the
  same window leaves a handler that `DisconnectAll` does not cancel; `HandlersEnd`
  therefore excludes it, and `hub.Wait` ends by its deadline.

Proved in `ConnectionLifecycleProofs`, for any number of connections,
credentials, addresses and calls: `TypeOK`, `OneRoutePerKey`,
`WithdrawnUnroutable`, their conjunction `RoutesHold`, and `RevokedStaysOut`.
The two about routes need that a connection
holds the machine from its reservation to its removal, and that what a call has
taken is past its handshake (`Agreement`). The last needs the same statement
already for connections in the handshake (`RevokedCovered`), since installation
does not look at the credential, and that a call that is cancelling has nothing
left to drop (`CallShape`).

Not modelled here: the end of a credential's lifetime (no code acts on it after
verification), the failures of persistence (nothing changes), `Wait`.

## Registration of machines (`MachineRegistration.tla`)

The two persistent stores (credentials, pending requests), the calls that work
on them under one lock per principal, and the administrators who decide by
number in the chat.

| Code | Model |
|---|---|
| `principalLock` | `lock`; `Locked` is taken together with the first look of each operation |
| `Service.Register` | `StartRegister`, `LookRegister` (credentials), `LookPending` (requests), then `Create` or `IssueKey`, delivery, rollback |
| `Service.Approve` | `StartDecision`, `LookApprove`, `IssueKey`, `Deliver` or `DeliveryFails`, then `Cleanup` or a rollback |
| `Service.Reject` | `StartDecision`, `Discard` |
| `Service.Issue`, `Service.Delete` | `StartIssue`, `LookIssue`, `IssueKey`; `StartDelete`, `DeleteKey` |
| a write that fails | `Fail`, `RollbackFails`, `CleanupFails` |
| `LoadStore` of both stores | `Restart` at any point, `NextIDs` |
| `PrepareList`, `Invalidate`, reply, `CommitList` | `SendList`, or `ListFails` if the reply breaks off |
| `resolveSelection`, the loops of `Approve` and `Reject` | `ResolveSelection`, `NextDecision` |

`fate`, `marks` and `shown` are history variables: what became of each key and
request, and the list an administrator was sent last. A key is `stuck` when its
rollback failed or a restart came before its delivery was recorded; a request is
`leftover` when its key was delivered and it could not be removed.
`docs/MACHINE_SELF_REGISTRATION_DESIGN.md` names both outcomes, and the
properties allow exactly them.

Run:

- `machine_registration`: one user with two machines (the first is served at
  once, the second needs a decision), two requests, two calls of the console or
  of `/reg` beside one chat administrator, two credential identifiers and one
  restart. Two users add nothing that one user does not show: they share only
  the order of the list, and the proof is for any number. The model stops when
  the identifiers are used up, so deadlock is not checked. No fairness is
  assumed: nothing here promises that an administrator decides.

Proved in `MachineRegistrationProofs`, for any users, machines, requests, calls
and administrators: every property of the run (`MachinesClaimedOnce` is the
conjunction of `TypeOK`, `OneOwnerPerMachine` and `FirstMachineOnly`). The inductive invariant says
what a call with the lock relies on (`Holds`): what it read of the two stores is
still so. It is preserved because any other call at work has another principal
(`Alone`) and a step changes only keys and requests of its call's owner
(`Effect`); the latter needs that a request named by a call still belongs to the
owner the call knows (`Named`) and that unused identifiers are free
(`FreshIDs`). `Undecided` connects the stored requests with what has happened to
them, `Attended` the undelivered keys with the call that holds them, and
`ChatAgrees` the numbers with the list that was sent.

Not modelled here: `NotifyPending` (which administrator is told of a request),
source rules and the status of a credential (`ConnectionLifecycle`), the text of
the messages, and the steps of a write (`StoreFile`).

## Notices of Pal (`NotificationDispatcher.tla`)

The Supervisor's cycle, the dispatcher's one worker, and the Notifier's
de-duplication. The Supervisor enqueues from its event loop and never waits for
a delivery; the worker delivers one task at a time, and only the lock of the
dispatcher and that of the Notifier order the two.

| Code | Model |
|---|---|
| `runHealthyCycle` | `BeginEpoch` (with the registry's baseline), `Reset`, then `StatusEvent`, `Refresh`, and the deferred `EndEpoch` |
| `Registry.ApplyStatus`, `replace` | `status` and `occupant` in `StatusEvent` and `Refresh`; the removed and replaced targets are `gone` |
| `EnqueueStatus`, `EnqueueInvalidated` | operators of the same names; a full queue sets `stage = "full"`, after which `EndEpoch` stops the run |
| `dropStatusLocked`, `dropPaneStatusLocked`, `discardStatus` | operators of the same names |
| `next` | `Take`, `Sleep`, `Awake` (the channel of one is `wake`), `Exit` |
| `HandleTransition`, `deliverOnce` | `Get`, `Check`, `Send`: look the agent up, compare with `recent`, call the sink and store |
| the retry loop of `Run` | `Retries` inside `Send`, then `Timer` or `WaitCancelled` |
| `finish` | `Finish` |

The queue is a set, since tasks are numbered under the lock that appends them.
`owed`, `owedGone`, `acked` and `late` are history variables: what was accepted
and not yet decided, what the sink last acknowledged for a pane, and the sends
begun after the context of the task was done. `Get` may fail at any time, and
`HandleTransition` then returns nil: the notice is given up and logged as sent.
`NoticesCarried` counts this as decided, as the code does.

The run `notifications` has two panes with one possible occupant each, statuses
`done` and `idle` (one transition worth a notice, one not), two connection
cycles, three tasks and a queue of two: enough for a task with the worker, one
behind it and a full queue, for an invalidation that crosses a reconnection, for
a Reset during a send, and for a baseline that comes back after `discardStatus`
because the send it belongs to ended later. That last one is why
`SuppressedOnlyRepeats` is stated over acknowledgements: the baseline that comes
back is still the last notice the user has seen. Fairness: the worker's
goroutine runs, its timers fire, and a sink that is tried again and again in the
end takes the notice or refuses it for good; `InvalidationsEnd` needs all three.

The run's `SendsJustified` is the conjunction of `TypeOK`,
`SuppressedOnlyRepeats` and `LateSendIsLast`. The last one does not say that a
cancelled notice is never sent: the cancel may come while an attempt is looking the
agent up, and a retry begins when the wait's select finds its timer and the context
ready together and takes the timer (notifier.go:196-212). It says that only one of the
two happens, once, and that the loop ends after it.

Proved in `NotificationDispatcherProofs`, for any panes, occupants and capacity:
both invariants of the run. `NoticesCarried` rests on `Core`: task numbers
are unique, a pane's index names its one waiting task and that task is of the
current epoch, and a status task whose context is live has nothing newer waiting
(`ActiveLive`); without the last the retry loop could give up the newest
notice. `SuppressedOnlyRepeats` needs that a send which a Reset overtook meets
only empty baselines (`Overtaken`). `InvalidationsEnd` is only model-checked.

Outside this module: `/ls` applies its snapshot without enqueuing invalidations
(service.go:381-387), so a target that it removes before the Supervisor's next
snapshot is not announced as gone.

## Pal's Service and its supervisor (`BridgeService.tla`, `BridgeSupervisor.tla`)

`BridgeService` has the calls of the user (handlers) beside the transitions of
the Supervisor: who may talk to Herdr, what is selected, and what the panel
shows. `BridgeSupervisor` has one cycle of the Supervisor as a queue of messages
from two event streams and a timer. They share only the registry, so each
behaviour of the run is of one of them.

| Code | Model |
|---|---|
| `beginOperationDetailed`, `endOperation` | `Begin`, `BeginUnavailable`; `Release`, `Reply` |
| `transitionMu`, `beginInputBarrierLocked`, `opCond` | `LockTransition`, then `Transit` once `Barrier` holds |
| `handleList`, `handleSelect`, `SelectTarget` | the plans of a transition and the step `listing` |
| `handleContent`, `handlePageUp`, `handlePageDown`, `applyRefresh`, `applyExpand` | capture, read, apply; `fresh` is the comparison of `generation` |
| `panel.Buffer` | an interval of numbered lines: `Refreshed`, `Expanded`, `PageFrom`, `PageTo` |
| `handlePrompt`, `handleKeys`, `retryPromptStateChange` | check the target, send, confirm, then rebind or invalidate |
| `SetHerdr`, `ReplaceSnapshot`, `ReplaceSnapshotPreservingStatus`, `InvalidateSelection` | the Supervisor's plans and its `Drained` wait |
| `handleList` beside the Supervisor's loop | `ListReads`, `ListApplies` in `BridgeSupervisor` |
| `runHealthyCycle` of the Supervisor | subscription, snapshot and the loop over `messages`; `generation` and `debounce` tell old feeds from new |
| `reconcileStatusSubscriptions` | the same loop, with the stream replaced in between |

Run `bridge`. For the Service: one pane with two possible occupants, two
handlers, a page of two lines and a cache of six, a terminal that starts with
five or six lines, and one client that may be replaced. Seven mixes of calls
(`MixesOf`) meet: input against selections and against the list, a read against
a selection, paging by one handler on full and short pages, `/ls` with `/N`, and
a terminal snapshot. Paging by two handlers at once is left to `PanelCurrent`.
For the Supervisor: one pane with three occupants of which two are the same
agent, two statuses and a channel of one, in two parts: beside a prompt two changes
in one cycle or one in two (`prompts`), beside a list one change in one cycle or
none in two (`lists`).

* `PanelHolds`: the panel is the selection's, shows nothing older than its last
  change, and paging up skips no line of a terminal at rest.
* `LeasesHold`: an input acts on what is selected, with the client in use.
* `TransitionsEnd`: no transition waits for a call that waits for a transition.
  Fairness: calls of Herdr return (they have deadlines) and goroutines run.
* `DirectoryFollowsHerdr`: when everything Herdr said is worked off, the
  directory equals Herdr's, unless an announcement was lost since the last
  snapshot, and but for a pane in `overtaken`.

Assumed of Herdr (docs/HERDR_API_AUDIT.md, sections 5.3 and 5.4): a subscribed
pane sends its status with every change of status or agent; lifecycle
announcements may be lost.

`overtaken` has the panes that one of two late writers left behind. `handlePrompt` releases its lease
before `replyPromptTargetChanged` asks `rebindExpected` to bind the pane to the
session that `agent.get` saw (service.go:466-469, 825-838), so neither a snapshot
nor a status event waits for that rebind: it can write what Herdr has left by
then, session or status. `handleList` reads a snapshot under its lease, releases
it, and only then replaces the registry (service.go:381-387; `ListReads`,
`ListApplies`): the older snapshot can overwrite the one the loop applied in
between. A pane is in `overtaken` from such a late write until its
target is replaced; a write that is still true, that keeps the pane's target, or
whose target was replaced in the meantime, makes no exception. No document promises more, and the pane's
next event or the next snapshot that differs corrects it.

Proved in `BridgeServiceProofs`, for every set of handlers, panes and occupants,
every mix of calls, any terminal, page and cache: types (`BridgeTypeOK`),
`LeasesHold` and `PanelHolds`. Neither of the two is inductive alone; `IInv`
adds, each checked by TLC first on instances of the `bridge` run:

* `InUse`: with the client gone no lease is left, because `SetHerdr(nil)` waits
  for them, and only a transition past its `Barrier` changes selection or client.
* `ReadsTrue`: a read under way that came back short reached the oldest line of
  the terminal it was made of, and no other read that ends at the same line
  reached further. Only then may a page say that nothing older exists.
* `FreshReads`: whatever changes the panel makes every captured generation stale,
  so a read that is still fresh belongs to the panel it is applied to.
* `PanelOfSelection`, `PagesMeet`: the panel is the selection's, and a page was
  turned only once the older one was full, the limit of the cache was reached, or
  nothing older could be read. `PagesContiguous` follows from `PagesMeet` by arithmetic alone.

Proved there too, for any panes, agents, statuses, channel and number of changes,
cycles and rebinds: `DirectoryFollowsHerdr` (`DirectoryFollows`). It says nothing of
a state that is not quiet, so `SupervisorInv` says what must still be on its way
whenever the directory lags, again checked by TLC first (up to three changes, two
rebinds, two panes):

* `Generations`: a status message of a replaced stream, in the channel or with a
  stopped reader, has an earlier generation. Without `beforeReplace` this fails.
* `EventsFresh`: a pane with an event on its way is subscribed, and the last such
  event tells its present status. A pane without one has nothing to tell.
* `KeysFollow`: while a session of Herdr differs from the directory, or in `select`
  from the one the stream is planned for, or from the answer about to be applied,
  an announcement, the debounce timer or a message
  asks for another snapshot (`RefreshDue`), or the announcement was lost.
* `StatusesFollow`: where the session agrees, in the plan and the directory, and no
  event is awaited, so does the status, in the directory while its stream is in use and in the last answer.

`ServiceAssumption` and `SupervisorAssumption` are all that is assumed of the
constants (a page within the cache, names that differ, a channel with room).
Liveness is only model-checked. Not modelled: replies, the styles of lines, `Interactive`'s
formatting; a read of several attempts is one read.

## The chat side of the server (`WeComClient.tla`, `MessageIntake.tla`, `ServerStartup.tla`)

Run `messages` hosts three parts that share no state, the two of this section and
the terminal front end of the next; a behaviour is of one of them, and the others
stay in an initial state.

**From WeCom and back.** `WeComClient` has the goroutine `Run` with its
sessions, the reader, and the callers' requests; it has no specification of its
own. `MessageIntake` extends it with what uses it: the event loop, the Deduper,
the user's queue, its workers and the answers.

| Code | Model |
|---|---|
| `Client.Run`, `activate`, `flushQueued` | `RunStep`, a step per lock or channel |
| `session.read`, `enqueue`, `finish` | `ReaderStep`, `EndOfSession` |
| `session.request`, `pendingRequests.take`, `cancel` | `CallStep`, `AnswerStep`; whoever takes the pending entry decides |
| `runWeComEventLoop`, `queueIncoming` | `TakeEvent`, `Queue`, `Duplicate`, `Notify` |
| `AddIfNew`, `removeExpired`, `removeOldest` | `Reserve`, `Remember`, `Forget` (expiry at any time) |
| `UserExecutor.enqueue`, `runUser` | `Enqueue`, `Take`, `Skip`, `End` |

Bounds: one user, since the executor shares nothing between users; a channel, a
queue and a Deduper of one entry; three loads (three messages over two sessions;
two messages of which one is repeated; two and a pushed notification). Capacity
one makes each limit bite with two messages. Fairness: goroutines run, requests
time out, a closed socket ends its reader; WeCom need not answer, and a live
session need not end. The order of messages holds except for those of a session
that never got subscribed or ended with a protocol error, which the code drops.

**Start and stop.** `ServerStartup` has processes of one bot that start, fail,
are killed and follow each other: lock, help file, administrators, certificate,
socket and ports. Its two servers may be configured with different addresses.
Servers of different bots that share a state directory are not modelled: between
the look and the removal in `prepareSocketPath` and `removeSocketIfSame` nothing
keeps them apart, since the lock is the bot's. External certificates are not
modelled. `bootstrap.txt` is created and then written in place, so a kill in
between leaves it empty, while
docs/SERVER_RUNTIME_FILES_AND_ADMIN_DESIGN.md:27 speaks of an atomic write; the
model has that outcome, and no property depends on the file.

* `HandledOnce`: types and counters of the intake, no message skipped or
  overtaken (`EventsInOrder`), and one verdict per reservation (`OneVerdict`).
* `AnswerKept`: an answer that arrived is what the caller is told.
* `IntakeRests` (liveness): everything accepted ends without WeCom's help.
* `ServerReachable`, `NothingLeftBlocks`: a serving server owns its socket and
  its ports; nothing that was left behind stops a start.

Proved in `MessageIntakeProofs`, for any workers, loads, messages, sessions and
capacities (`ClientBounds`, `IntakeBounds`; one user's queue, as above):
`MessagesHandledOnce` and `AnswersKept`. Neither invariant is inductive. The
invariant `IInv` adds

* `SessionShape`: where a session's events may be. Moving them keeps the order
  only because nothing is queued behind the reader's back: `queued` is empty once
  the session is ready, or its reader has stopped and what it left is handed over.
* `CallShape`: a pending request has no result yet, so the one who removes the
  entry is the only one to set it; `AnswerKept` follows.
* `QueueShape`: at most one worker; `pendingTasks` counts the channel and the task
  in hand, and passes the capacity by one only while an overflow notice waits. So
  the channel always has room and a worker exists whenever a task waits.
* `Verdicts`: the runs, the refusals and the tasks still in the channel of a
  message are no more than the times its identifier was forgotten, plus one while
  it is remembered. `OneVerdict` forgets the channel and is not inductive.

Each action is proved to keep four parts of it that share few variables (`Flow`,
`CallInv`, `QueueInv`, `VerdictInv`), with lemmas about ordered sequences, about
the positions a message has in a queue (`PlacesAppend`, `PlacesTail`) and about
the Deduper's window (`ReserveKeeps`). `MaxMessages` bounds the identifiers of a
load; the proof is for every value.

`ServingServerReached` and `LaterServerStarts` are proved there too, for any
servers, addresses, sockets and key pairs: `ServerReachable` and
`NothingLeftBlocks` hold of `StartupSpec`. `StartupAssumption` only says that the
values for "no server", "no socket", "no pair" and "half a file" are none of
these. `StartupInv` adds

* `OneUp`: who is up has the lock, so there is at most one.
* `PortsOwned`, `PortsServed`, `SocketsOwned`: a bound port or a listening socket
  belongs to a process at a step that has it; one that is down owns nothing.
* `PathKept`: what a start found at the socket's path, or made there, is still
  there when it acts on it.
* `PairsKept`: the certificate is written last, so where there is one the key
  beside it is its own.

Only model-checked: `IntakeRests`, a liveness property.

## The terminal as a chat (`InteractiveAdapter.tla`, run `messages`)

| Code | Model |
|---|---|
| `Adapter.Run` | `StartRun`, `WriteBanner`, `RuntimeError`, `TakeScanned`, `ResolveTerminal`; `runAt` is the place it stands |
| `sendEvent` | `LockDelivery`, `SendEvent`, and the select's other cases `Done`, `Failed` |
| `scan`, `sendScanResult` | `Scan`, `SendScanResult`, `ScanStopped` |
| `write`, `RespondMarkdown`, `SendMarkdown` | `BeginWrite`, `LockOutput`, `WriteString`, `OutputFails`, `Refused` |
| `recordFatal` | `OutputFails` closes `fatalPending`; `RecordFatal` needs `deliveryMu` |

The two mutexes are not variables: `deliveryMu` is held while Run stands at
"send" (`DeliveryHeld`), `writeMu` by a writer that writes or records
(`OutputHeld`). Checks that follow one another without a lock or a channel in
between are one step, because neither the failure nor the end of the context goes
away. `AdapterEnds` has three parts: `DeliveryStops` (nothing is delivered after
the failure is recorded), `FailureEndsRun` (a write that failed is what Run
returns, whatever else would end it) and `CancelEndsRun` (a cancelled Run ends,
and its scanner does not stay behind with a result: `RunOver`). Run's look at its context
before `startRun` is the one place where a failure of the same moment does not go
first; `FailureEndsRun` speaks of a Run that is past it.

Bounds: two writers beside the banner, two writes, two lines, a channel of
one (64 in the code), so that it fills with one message. Fairness: goroutines
run and mutexes are handed on; nobody need read the channel, type a line, or let
a write to the terminal return. Only model-checked.

## Parts with no shared state (run `parts`)

`MCParts` hosts thirteen parts: each behaviour is of one of them, chosen at the
start, while the others stay in an initial state. Their state spaces add up and
do not multiply. No fairness is assumed. Where a part stops (all commands given,
clock at its bound) there is nothing left to do, so deadlock is not checked.

| Module | Code | Property |
|---|---|---|
| `ConversationRouter` (over `SessionCatalog`) | `server/router.go`: list, selection, directed, switching and mode commands, pushed messages | `SwitchesHonest`: a reply claims of a switch what happened, and only a user's command moves the selection to another pane |
| `UserRateLimiter` | `server/rate_limiter.go` | `RetryExact`: the wait a refused user is told is exact |
| `AsyncAuditor` | `audit/async.go` | `AuditAccounted`: each event is counted once, limits hold, nothing is left at the end |
| `ClientRuntime` | `app/app.go`, `relay.go`, `dsh.go` | `RunsContained`: lock and dial path stay with loops that still run, and the error names what ended the run |
| `LoginGuard` | `adminauth/login_guard.go` | `LockExact`: a login is refused exactly when its name or source is closed by the attempts so far, or the table is full |
| `AdminConsole` | `adminauth/store.go`, `session.go`, `webadmin/` handlers | `AccessEnds`: no session outlives its user's change, sessions expire, one administrator always remains |
| `ServerRuntime` | `serverapp/app.go`, `adminservice` stop, both adapters | `StopKept`: one stop is told, requested after its answer, and Run's result says why it ended |
| `DshBackend` (two parts: directory, prompts) | `dsh/`, the plugin's `bridge.mjs`, `relayclient/mux.go` | `DshSessionsServed`: a command concerns the target it named, a resumed history takes a message under one reserved key, a finished round is given its notice |
| `StoreFile` | `credential/store.go`, `adminauth/store.go`, `machinereg/store.go` | `StoreDurable`: the path leads to a whole file, file, memory and answers change together, a removed key stays out |
| `ReconnectDelay` | three backoffs | `DelaysGrow`: delays double, return to the minimum, and never pass the maximum |
| `TerminalDelivery` | hub, Pal and router on a session's way to the chat | `ToldTruly`: told once and in order, audited as it happened |
| `PageSplit` | `panel/split.go` | `SplitWhole`: the parts are the whole text, no character is torn, and no message exceeds the limit with its marker |

`ConversationRouter`. A task does one call of the catalog per step; the catalog's
own actions are `SessionCatalog`'s, so anything the connection side does may come
between two calls. A request to the machine is its outcome, which `RelayLink`
models. One user with one machine of two panes, and connections attached twice:
docs/HANDOFF_CONTEXT.md:154 of the repository promises that `/N` with content
switches only after success, which `SwitchReported` states of the replies.
`EnsureNumberedIndex` renumbers a list when a pushed message names a session
that is not in it, so that a number the user still sees may mean another
session; README.md documents this, and nothing is claimed of it.

`UserRateLimiter`. Limits of zero to three per window, windows of two and five
ticks, a clock that may be set back anywhere. The code sorts the times it keeps
before it counts them, so they are a set: a time and the number it has among equal
times.

`AsyncAuditor`. Events of four sizes that fit, fill and exceed a batch and the
queue; one export fails or succeeds.

`ClientRuntime`. One run of each of five kinds; a second run meets it at the
lock file where the first is interactive or of dsh (the lock is the same code for
all).

`LoginGuard`. Two names, two sources, two logins in their handlers, three
admitted attempts, tables of one and two entries. Assumed: a verification takes
less than the time of a lock (`MaxVerifyTime < LockDuration`); otherwise its own
reservation expires under it.

`AdminConsole`. Three administrators, two of them, or a new file, two requests, two
sessions, and four sets of operations that meet (the third administrator is there
where one is deleted; time passes where sessions are asked for). The file holds what memory holds, since
the store persists first and under its lock; the file itself is `StoreFile`.
Promised in docs/SERVER_RUNTIME_FILES_AND_ADMIN_DESIGN.md:57 and
docs/WEB_ADMIN_CONSOLE_DESIGN.md:153 and 157.

`ServerRuntime`. Two stops over either adapter beside a cancelled context and
components that fail (docs/HPAP_ADMIN_DESIGN.md:406 and 459).

`DshBackend`. The directory part follows a session through two agents, two
incarnations and two revisions; the prompts part keeps it listed and gives it two
commands, those to Herdr reads, and lets no notice fail (the directory part does). Of a finished round it is promised only that its
notice is tried (`FinishedRoundNoticed`): `refresh` has replaced the directory when
it sends, drops the error (executor.go:99-101), and without a link
`SendNotification` fails and caches nothing (client.go:307-312), as the plugin's
README says (plugins/dsh-herdr-pal/README.md:143). The revision of a history is the
time of its last change and that of a live agent a digest of its text
(bridge.mjs:46), so loading or unloading an agent at rest is noticed as a finished
round too, and a session that was out of the directory counts as first seen.

`StoreFile`. Two identifiers, two secrets, two faults. A power failure may take
back an acknowledged change only if the directory could not be synced, which the
code treats as best effort; without that the rename is the commit point.

`ReconnectDelay`. A word of 8 bits in place of 64, so that overflow happens within
nine failures, and four pairs of bounds, one nearly as wide as the word. Pal's
doubling stops at half of its maximum (1 s to 30 s tops out at 16 s before
jitter), and the jitter may go below the minimum; `DelaysGrow` allows both.

`PageSplit`. Every text of up to four characters of one or three bytes with line
ends, and lines of up to ten bytes; numbers are written in base two, so that ten
parts already need markers of four digits (the code's base is ten), and every
limit that makes parts of one byte, of several, or none.

`TerminalDelivery`. A notice or an output from the wire over the connection's
bounded queue into the chat, with the terminal fetched for it, and the result of a
user's own command. A lost connection cancels the context its tasks run under at
once, but leaves the directory only when its worker is done with the item it
carries (`DetachView`), so that a task may still find the session and have every
request refused. Bounds: two items, one replacement of the session, a queue and a
table of keys of one, an image of three units in chunks of two, a text in two
parts; a terminal made after the replacement is a text. Pal sends the notices of a target from one worker, so that a repeated notice
can only come from the peer that docs/HPRP_PROTOCOL_DESIGN.md:822 allows. A request
to WeCom succeeds, fails, or is served and its answer comes late; in the last case
the user gets an image and the text. Capability checks, and an image that does not
decode, are the outcomes `fallback` and `failed`; a late terminal is passed over
while its request is remembered, and then ends the connection.

Proved in `ManagementProofs`, for any number of administrators, sessions, requests,
identifiers, secrets, runs, agents and faults, and any timeouts:

* `ConsoleAccess` (`AccessEnds`). A change of a user is made first and revoked
  afterwards, so `NoSessionOutlivesChange` speaks of the request in between; it
  needs that identifiers are issued in order (`IssuedInOrder`: a session made
  later is none that was looked up before) and that rotations keep the end set at
  login (`LifetimeFromLogin`).
* `ServerStop` (`StopKept`), from `OneReservation` (the flag is the reservation of
  one request, and who closes the channel has been answered) and `EndsExplained`
  (a run that ends unasked has seen a component's result).
* `StoreKeepsPromises` (`StoreDurable`), from `CommitPoint` (up to the rename the
  file is what memory holds, from then on what was written),
  `SyncedBeforeRename`, `SecretsGenerated` (no secret is in use that was not
  generated) and `RemovedNowhere` (a removed key is in none of the records that
  may become memory).
* `PalRuns` (`RunsContained`, for any runs), where each run keeps three facts:
  where it stands tells who holds lock and lease, and a wait that did not time out
  leaves no loop behind (`Held`); a component's result is sent or collected once
  it has ended, and once only, the input's at most once (`Counted`); before the
  stop only the caller has cancelled, and the stop's cause is the first result
  collected (`Caused`). Assumption: `NoRun` is not a run.
* `SessionsOfDsh` (`DshSessionsServed`, for any agents, incarnations, revisions and
  commands), in two layers. The first says that every incarnation anybody holds was
  issued, so that a new one is nobody's (`Issued`), that the agent a call resolved,
  or gave a prompt, stays that of its incarnation (`AgentsKept`), that a
  command handed to a backend finds its target selected there and its call asks for
  that target until it ends (`CommandsAimed`), and that a finished round is noticed,
  which is inductive with the types alone. The second (`KeysInv`) adds that
  prompts carry messages that were given and that calls which resume a history
  have reserved their key. A full cache is left out, and so is a key that
  expires, which takes a resume of ten minutes. Assumption: `Nobody` is no value of the program.

* `WaitToldIsExact` (`RetryExact`, for any limits, windows and past). Of the stamps
  that count, exactly one has `limit - 1` after it (`SomeLeaves`: their numbers of
  followers are different and below their number), and when it leaves a window the
  limit is met again and not before (`WindowWait`); the invariant (`LimiterInv`)
  only says that the stamps are finitely many and those of one time are numbered
  without gap. Assumption: the second is not longer than the minute.
* `LoginsLockedExactly` (`LockExact`, for any names, sources, limits, intervals and
  capacities). The buckets count what the attempts of a key say (`TableFits`): a
  bucket holds the length of the row of failures that is still going on
  (`Streak`), a key with no bucket has none (`Rested`), and a bucket that was
  neither dropped nor swept was tried lately, which is why a full table is full of
  others tried lately. `Linked` says that a bucket waits for a login exactly while
  one that reserved it is being verified, and that it was last seen when that login
  began. Here the assumption that a verification is shorter than a lock is needed:
  it keeps the sweep from dropping a reservation.

* `EventsAccounted` (`AuditAccounted`, for any sizes of events and limits of queue
  and batch). A sum over a queue of any length is out of reach as a recursive
  definition, so `Weigh` says instead that partial sums exist, each one event more
  than the one before. The invariant (`AuditInv`) keeps such sums that never fall
  (`Sums`), so that the first event can be taken off again (`SumsTaken`), and the
  event the worker holds but has not yet discounted stays in the queue's sum
  (`Charged`). It adds where the worker stands: it has an event in hand exactly
  between the channel and the batch, it adds only what fits the batch (`Overfull`),
  and it makes the last flush only when the channel is closed and empty.

Proved in `SessionCatalogProofs`, for any number of items and sessions, any images,
chunks, parts, queue and memory of keys:

* `ToldAsAudited` (`ToldTruly`), from seven facts that hold together (`DeliveryInv`).
  That nothing is passed on twice cannot rest on the remembered keys, which
  expire: `WireOrdered` says that whatever is still on the wire is later than all
  that was accepted, or is a repeated status whose session's sequence number was
  reached. `TouchedOnce` says that a user has something only of the item at hand, of
  items the worker is done with, and of replies; so a task begins with an item of
  which the user has nothing, and its own steps (`JobFits`) account for all there
  is of it. `ChunksCover` is the arithmetic of the upload: chunks rounded up are
  the whole image. `ConnectionFits` keeps a terminal with the session of the item
  it was asked for. Assumptions: what the bounds and sizes are
  (`DeliveryAssumption`); images, chunks and texts are not empty.

Also there, for any number of users, connections, sessions and commands that meet:

* `CommandsUseCatalog` and `RouterSwitchesHonest` (`SwitchesHonest`). Every step of
  a task is one call of the catalog or none, so `RouterSpec` implements
  `SessionCatalog`'s `Spec` and its theorems hold here. `RouterInv` adds, for each
  user: which commands are at which steps (`CommandFits`); that a task waits on
  the directory exactly at `await`, for its own target, and to select only for
  /N text (`WaitFits`); and, the heart of it, that where the task stands tells
  whether its selection has been moved (`SelectionFits`: before, it is the one the
  task began with or none; after, it is in the command's pane or none). A reply is
  written from that place, so its claim is right. Each step is shown to serve its
  user (`Serves`) and to leave the others alone (`OtherUsersKept`); the connection
  side can only take a selection away (`ConnectionKept`). Assumptions: each
  user's worker is its own waiter, and the null value is no wait.

Of the parts, `ReconnectDelay` and `PageSplit` are only model-checked.

## Plan

Modelled and checked: every module above. Proved: `SessionCatalog`,
`ConnectionLifecycle`, `MachineRegistration`, `NotificationDispatcher`,
`RelayLink`, `BridgeService` with `BridgeSupervisor`, `MessageIntake` with `WeComClient`, and of the parts
`AdminConsole`, `ServerRuntime`, `ServerStartup`, `StoreFile`, `ClientRuntime`,
`DshBackend`, `UserRateLimiter`, `LoginGuard`, `TerminalDelivery`,
`ConversationRouter` and `AsyncAuditor`.

Out of the prover's reach and left to TLC: the liveness properties
(`NoStuckWait`, `LinkSettles`, `HandlersSettle`, `InvalidationsEnd`,
`TransitionsEnd`, `IntakeRests`, `AdapterEnds`), and what the powers in
`ReconnectDelay` and the recursion in `PageSplit` compute (induction over data).

## Not modelled

Stateless code (codec, validation, configuration, formatting, rendering and
recognising terminal pages, the command parser), the adapters of the management
plane beyond the console's administrators and the stop, hp-cli, the installer,
the Loki client, password hashing, the OTLP
request, and the I/O of the Herdr client. Either they keep no state between two
calls, or their state is a file or socket that only they use. Their component
entries give the reason one by one.
