------------------------ MODULE NotificationDispatcher ------------------------
(***************************************************************************)
(* The notices Pal sends on its own account: the Supervisor's cycle turns  *)
(* status events and snapshots of Herdr into tasks, one worker delivers    *)
(* them in order and retries, and the Notifier leaves out a notice that    *)
(* only repeats the last one.  Code: internal/bridge/notifier.go,          *)
(* internal/bridge/supervisor.go (Run and runHealthyCycle) and             *)
(* internal/session/registry.go (replace, ApplyStatus).                    *)
(*                                                                         *)
(* A status task belongs to one pane and one connection epoch; a newer     *)
(* transition of the pane, its invalidation or the end of the epoch drops  *)
(* it from the queue, or cancels it if the worker already has it.  An      *)
(* invalidation belongs to no epoch and survives reconnections.            *)
(*                                                                         *)
(* Abstractions.  Tasks are numbered under the lock that appends them, so  *)
(* the queue is the set of its tasks and its head the smallest number.     *)
(* A subscription stream, a snapshot and the debounce timer are the events *)
(* they lead to.  The sink and Herdr's agent.get are external: a call may  *)
(* succeed or fail whatever its context says.  Notifier.inflight is left   *)
(* out: one worker calls deliverOnce, so it never finds a call in flight.  *)
(***************************************************************************)
EXTENDS Naturals, FiniteSets

CONSTANTS
    Panes,
    Occupants,      \* identities an agent pane can have (OccupantKey)
    Statuses,       \* the agent statuses of the instance
    Capacity,       \* length of the notification queue
    MaxTasks,       \* bound on tasks
    MaxEpochs,      \* bound on connection cycles
    None

AgentStatuses == {"working", "blocked", "done", "idle", "unknown"}

Targets == Panes \X Occupants

StatusNotice(p, o, from, to) ==
    [kind |-> "status", pane |-> p, occupant |-> o, previous |-> from, current |-> to]
GoneNotice(p, o) ==
    [kind |-> "invalidated", pane |-> p, occupant |-> o, previous |-> None, current |-> None]

Notices ==
    [kind : {"status"}, pane : Panes, occupant : Occupants, previous : Statuses, current : Statuses]
    \cup [kind : {"invalidated"}, pane : Panes, occupant : Occupants, previous : {None},
          current : {None}]

Task(n, e, notice) == [id |-> n, epoch |-> e, notice |-> notice]
Tasks == [id : Nat \ {0}, epoch : Nat, notice : Notices]

ASSUME DispatcherAssumption ==
    /\ Statuses \subseteq AgentStatuses
    /\ None \notin Occupants \cup Statuses \cup Notices \cup Tasks
    /\ Capacity \in Nat \ {0}
    /\ MaxTasks \in Nat
    /\ MaxEpochs \in Nat

VARIABLES
    stage,              \* the Supervisor: where its cycle is
    occupant,           \* session.Registry: pane -> its agent, or None
    status,             \* session.Registry: pane -> the status of the agent
    gone,               \* targets a snapshot removed, not yet handed over
    epoch,              \* the epoch the cycle got from BeginEpoch
    stopping,           \* the context of Run is cancelled
    nextTaskID, nextEpoch, currentEpoch,
    queue,              \* the waiting tasks
    pendingStatus,      \* pane -> number of its waiting status task, or 0
    pendingInvalidated, \* target -> number of its unfinished task, or 0
    active,             \* the task the worker has, or None
    cancelled,          \* activeCancel was called
    wake,               \* the token in the channel of one
    pc,                 \* the worker: what it does next
    outcome,            \* what its last delivery returned
    sendEpoch,          \* notifierEpoch when its last send began
    notifierEpoch,
    recent,             \* Notifier: pane -> last notice delivered, or None
    owed,               \* history: pane -> its newest status task, or 0
    owedGone,           \* history: targets whose invalidation was accepted
    acked,              \* history: pane -> last acknowledged notice and epoch
    late                \* history: sends begun for the task since its cancel

supervisorVars == <<stage, occupant, status, gone, epoch>>
taskVars == <<nextTaskID, nextEpoch, currentEpoch, queue, pendingStatus,
              pendingInvalidated>>
workerVars == <<active, cancelled, pc, outcome, sendEpoch, late>>
notifierVars == <<notifierEpoch, recent, acked>>
owedVars == <<owed, owedGone>>
vars == <<supervisorVars, stopping, taskVars, workerVars, wake, notifierVars, owedVars>>

IsStatus(t) == t.notice.kind = "status"
PaneOf(t) == t.notice.pane
TargetOf(t) == <<t.notice.pane, t.notice.occupant>>

(* notificationPolicy; the caller has ruled out from = to. *)
notificationPolicy(from, to) ==
    to = "idle" => from \in {"working", "blocked"}

Init ==
    /\ stage = "down"
    /\ occupant = [p \in Panes |-> None]
    /\ status = [p \in Panes |-> None]
    /\ gone = {}
    /\ epoch = 0
    /\ stopping = FALSE
    /\ nextTaskID = 0 /\ nextEpoch = 0 /\ currentEpoch = 0
    /\ queue = {}
    /\ pendingStatus = [p \in Panes |-> 0]
    /\ pendingInvalidated = [k \in Targets |-> 0]
    /\ active = None /\ cancelled = FALSE
    /\ wake = FALSE
    /\ pc = "next" /\ outcome = "ok" /\ sendEpoch = 0
    /\ notifierEpoch = 0
    /\ recent = [p \in Panes |-> None]
    /\ owed = [p \in Panes |-> 0]
    /\ owedGone = {}
    /\ acked = [p \in Panes |-> None]
    /\ late = 0

----------------------------------------------------------------------------
(* Dropping status tasks.                                                  *)

ActiveStatus == active # None /\ IsStatus(active)

(* Notifier.discardStatus for the panes in ps. *)
discardStatus(ps) ==
    [p \in Panes |-> IF p \in ps /\ recent[p] # None /\ recent[p].kind = "status"
                     THEN None ELSE recent[p]]

(* Mutant: invalidations are dropped with the epoch. *)
DroppedAll(e) == {t \in queue : e = 0 \/ t.epoch = e}

Dropped(e) == {t \in queue : IsStatus(t) /\ (e = 0 \/ t.epoch = e)}
ActiveDropped(e) == ActiveStatus /\ (e = 0 \/ active.epoch = e)

WaitingStatus(tasks, p) ==
    IF \E t \in tasks : IsStatus(t) /\ PaneOf(t) = p
    THEN (CHOOSE t \in tasks : IsStatus(t) /\ PaneOf(t) = p).id
    ELSE 0

dropStatusLocked(e) ==
    /\ queue' = queue \ Dropped(e)
    /\ pendingStatus' = [p \in Panes |-> WaitingStatus(queue \ Dropped(e), p)]
    /\ cancelled' = (cancelled \/ ActiveDropped(e))
    /\ recent' = discardStatus({PaneOf(t) : t \in Dropped(e)}
                               \cup IF ActiveDropped(e) THEN {PaneOf(active)} ELSE {})

Without(p) == {t \in queue : t.id # pendingStatus[p]}

(* What dropPaneStatusLocked(p) does beside taking the task off the queue. *)
dropPaneStatusLocked(p) ==
    /\ pendingStatus' = [pendingStatus EXCEPT ![p] = 0]
    /\ cancelled' = (cancelled \/ (ActiveStatus /\ PaneOf(active) = p))
    /\ recent' = discardStatus({p})

----------------------------------------------------------------------------
(* The Supervisor.                                                         *)

AgentViews == [Panes -> Occupants \cup {None}]

(* A snapshot gives every agent pane a status.                             *)
StatusesOf(view) ==
    {s \in [Panes -> Statuses \cup {None}] : \A p \in Panes : s[p] = None <=> view[p] = None}

(* Connect, CheckCompatible and prepareSubscriptions succeeded; the        *)
(* registry takes the baseline, whose changes are not announced, and the   *)
(* new epoch begins.                                                       *)
BeginEpoch ==
    /\ stage = "down" /\ ~stopping
    /\ nextEpoch < MaxEpochs
    /\ occupant' \in AgentViews
    /\ status' \in StatusesOf(occupant')
    /\ nextEpoch' = nextEpoch + 1
    /\ currentEpoch' = nextEpoch + 1
    /\ epoch' = nextEpoch + 1
    /\ dropStatusLocked(0)
    /\ wake' = TRUE
    /\ owed' = [p \in Panes |-> 0]
    /\ stage' = "reset"
    /\ UNCHANGED <<gone, stopping, nextTaskID, pendingInvalidated, active, pc, outcome,
                   sendEpoch, late, notifierEpoch, acked, owedGone>>

Reset ==
    /\ stage = "reset"
    /\ notifierEpoch' = notifierEpoch + 1
    /\ recent' = [p \in Panes |-> None]
    /\ stage' = "healthy"
    /\ UNCHANGED <<occupant, status, gone, epoch, stopping, taskVars, workerVars, wake,
                   acked, owedVars>>

(* The transition is worth a notice and there is room for it.              *)
AppendStatus(p, from, to) ==
    /\ nextTaskID' = nextTaskID + 1
    /\ queue' = Without(p) \cup
                  {Task(nextTaskID + 1, epoch, StatusNotice(p, occupant[p], from, to))}
    /\ pendingStatus' = [pendingStatus EXCEPT ![p] = nextTaskID + 1]
    /\ cancelled' = (cancelled \/ (ActiveStatus /\ PaneOf(active) = p))
    /\ recent' = discardStatus({p})
    /\ wake' = TRUE
    /\ owed' = [owed EXCEPT ![p] = nextTaskID + 1]
    /\ UNCHANGED stage

(* The pane's older notice is dropped and none takes its place; a full     *)
(* queue also ends the cycle.                                              *)
DropOnly(p, full) ==
    /\ queue' = Without(p)
    /\ dropPaneStatusLocked(p)
    /\ owed' = [owed EXCEPT ![p] = 0]
    /\ stage' = IF full THEN "full" ELSE stage
    /\ UNCHANGED <<nextTaskID, wake>>

(* Mutant: the capacity is not looked at. *)
EnqueueStatusUnbounded(p, from, to) ==
    IF epoch = 0 \/ currentEpoch # epoch
    THEN UNCHANGED <<stage, nextTaskID, queue, pendingStatus, cancelled, recent, wake, owed>>
    ELSE IF notificationPolicy(from, to) THEN AppendStatus(p, from, to) ELSE DropOnly(p, FALSE)

EnqueueStatus(p, from, to) ==
    IF epoch = 0 \/ currentEpoch # epoch
    THEN UNCHANGED <<stage, nextTaskID, queue, pendingStatus, cancelled, recent, wake, owed>>
    ELSE IF notificationPolicy(from, to) /\ Cardinality(Without(p)) < Capacity
         THEN AppendStatus(p, from, to)
         ELSE DropOnly(p, notificationPolicy(from, to))

(* A status event of the current subscription for a known agent.           *)
StatusEvent(p, s) ==
    /\ stage = "healthy" /\ gone = {}
    /\ nextTaskID < MaxTasks
    /\ occupant[p] # None
    /\ s # status[p]
    /\ status' = [status EXCEPT ![p] = s]
    /\ EnqueueStatus(p, status[p], s)
    /\ UNCHANGED <<occupant, gone, epoch, stopping, nextEpoch, currentEpoch, pendingInvalidated,
                   active, pc, outcome, sendEpoch, late, notifierEpoch, acked, owedGone>>

(* refreshSnapshot: the registry takes the snapshot at once; the targets   *)
(* removed or replaced are then handed over one by one, and only then does *)
(* the cycle read on.                                                      *)
Refresh ==
    /\ stage = "healthy" /\ gone = {}
    /\ occupant' \in AgentViews
    /\ status' \in StatusesOf(occupant')
    /\ gone' = {<<p, occupant[p]>> : p \in {q \in Panes : occupant[q] \notin {None, occupant'[q]}}}
    /\ nextTaskID + Cardinality(gone') <= MaxTasks
    /\ UNCHANGED <<stage, epoch, stopping, taskVars, workerVars, wake, notifierVars, owedVars>>

(* Mutant: the worker is not told. *)
AppendInvalidatedSilent(k) ==
    /\ nextTaskID' = nextTaskID + 1
    /\ queue' = Without(k[1]) \cup {Task(nextTaskID + 1, 0, GoneNotice(k[1], k[2]))}
    /\ pendingInvalidated' = [pendingInvalidated EXCEPT ![k] = nextTaskID + 1]
    /\ dropPaneStatusLocked(k[1])
    /\ owed' = [owed EXCEPT ![k[1]] = 0]
    /\ owedGone' = owedGone \cup {k}
    /\ UNCHANGED <<stage, wake>>

AppendInvalidated(k) ==
    /\ nextTaskID' = nextTaskID + 1
    /\ queue' = Without(k[1]) \cup {Task(nextTaskID + 1, 0, GoneNotice(k[1], k[2]))}
    /\ pendingInvalidated' = [pendingInvalidated EXCEPT ![k] = nextTaskID + 1]
    /\ dropPaneStatusLocked(k[1])
    /\ wake' = TRUE
    /\ owed' = [owed EXCEPT ![k[1]] = 0]
    /\ owedGone' = owedGone \cup {k}
    /\ UNCHANGED stage

EnqueueInvalidated(k) ==
    /\ stage = "healthy" /\ k \in gone
    /\ gone' = gone \ {k}
    /\ IF pendingInvalidated[k] = 0 /\ Cardinality(Without(k[1])) < Capacity
       THEN AppendInvalidated(k)
       ELSE /\ DropOnly(k[1], pendingInvalidated[k] = 0)
            /\ UNCHANGED <<pendingInvalidated, owedGone>>
    /\ UNCHANGED <<occupant, status, epoch, stopping, nextEpoch, currentEpoch, active, pc,
                   outcome, sendEpoch, late, notifierEpoch, acked>>

(* The deferred EndEpoch, after a stream error, a failed snapshot, a full  *)
(* queue or the end of the context; the last two also end Supervisor.Run,  *)
(* which cancels the worker's context.                                     *)
EndEpoch ==
    /\ stage = "full" \/ (stage = "healthy" /\ gone = {})
    /\ IF currentEpoch # epoch
       THEN UNCHANGED <<currentEpoch, queue, pendingStatus, cancelled, recent, wake, owed>>
       ELSE /\ currentEpoch' = 0
            /\ dropStatusLocked(epoch)
            /\ wake' = TRUE
            /\ owed' = [p \in Panes |-> 0]
    /\ stopping' = (stopping \/ stage = "full")
    /\ stage' = IF stopping' THEN "stopped" ELSE "down"
    /\ gone' = {} /\ epoch' = 0
    /\ UNCHANGED <<occupant, status, nextTaskID, nextEpoch, pendingInvalidated, active,
                   pc, outcome, sendEpoch, late, notifierEpoch, acked, owedGone>>

Shutdown ==
    /\ ~stopping
    /\ stopping' = TRUE
    /\ UNCHANGED <<supervisorVars, taskVars, workerVars, wake, notifierVars, owedVars>>

StopDown ==
    /\ stage = "down" /\ stopping
    /\ stage' = "stopped"
    /\ UNCHANGED <<occupant, status, gone, epoch, stopping, taskVars, workerVars, wake,
                   notifierVars, owedVars>>

----------------------------------------------------------------------------
(* The worker.                                                             *)

CtxDone == cancelled \/ stopping

taskCurrent ==
    IsStatus(active) => currentEpoch = active.epoch /\ pendingStatus[PaneOf(active)] = 0

IsHead(t) == \A u \in queue : t.id <= u.id

(* deliver: a status notice first looks its agent up.                      *)
Entry(t) == IF IsStatus(t) THEN "get" ELSE "check"

Take(t) ==
    /\ pc = "next" /\ ~stopping
    /\ IsHead(t)
    /\ queue' = queue \ {t}
    /\ pendingStatus' = [p \in Panes |->
          IF IsStatus(t) /\ p = PaneOf(t) /\ pendingStatus[p] = t.id
          THEN 0 ELSE pendingStatus[p]]
    /\ IF IsStatus(t) /\ t.epoch # currentEpoch
       THEN UNCHANGED <<active, cancelled, late, pc>>
       ELSE active' = t /\ cancelled' = FALSE /\ late' = 0 /\ pc' = Entry(t)
    /\ UNCHANGED <<supervisorVars, stopping, nextTaskID, nextEpoch, currentEpoch,
                   pendingInvalidated, wake, outcome, sendEpoch, notifierVars, owedVars>>

Sleep ==
    /\ pc = "next" /\ ~stopping
    /\ queue = {}
    /\ pc' = "idle"
    /\ UNCHANGED <<supervisorVars, stopping, taskVars, active, cancelled, wake, outcome,
                   sendEpoch, late, notifierVars, owedVars>>

Awake ==
    /\ pc = "idle" /\ wake
    /\ wake' = FALSE
    /\ pc' = "next"
    /\ UNCHANGED <<supervisorVars, stopping, taskVars, active, cancelled, outcome, sendEpoch,
                   late, notifierVars, owedVars>>

Exit ==
    /\ pc \in {"next", "idle"} /\ stopping
    /\ pc' = "exited"
    /\ UNCHANGED <<supervisorVars, stopping, taskVars, active, cancelled, wake, outcome,
                   sendEpoch, late, notifierVars, owedVars>>

(* HandleTransition: when agent.get fails or shows another occupant it     *)
(* returns nil, so the notice is given up.                                 *)
Get ==
    /\ pc = "get"
    /\ \/ pc' = "check" /\ UNCHANGED outcome
       \/ pc' = "finish" /\ outcome' = "ok"
    /\ UNCHANGED <<supervisorVars, stopping, taskVars, active, cancelled, wake, sendEpoch, late,
                   notifierVars, owedVars>>

(* deliverOnce up to the call of the sink.                                 *)
Check ==
    /\ pc = "check"
    /\ IF recent[PaneOf(active)] = active.notice
       THEN pc' = "finish" /\ outcome' = "ok" /\ UNCHANGED <<sendEpoch, late>>
       ELSE /\ pc' = "send" /\ sendEpoch' = notifierEpoch
            /\ late' = IF CtxDone THEN late + 1 ELSE late
            /\ UNCHANGED outcome
    /\ UNCHANGED <<supervisorVars, stopping, taskVars, active, cancelled, wake, notifierVars,
                   owedVars>>

(* Mutant: a cancelled task is tried again while nothing replaced it. *)
RetriesCurrent(r) == r = "failed" /\ taskCurrent

(* The condition of Run's retry loop.                                      *)
Retries(r) == r = "failed" /\ ~CtxDone /\ taskCurrent

(* Mutant: a Reset during the send is not looked at. *)
StoreAlways(r) ==
    /\ recent' = IF r = "ok" THEN [recent EXCEPT ![PaneOf(active)] = active.notice] ELSE recent
    /\ outcome' = r

(* SendNotification returned r; the lock is taken again to store it.       *)
Store(r) ==
    /\ recent' = IF r = "ok" /\ notifierEpoch = sendEpoch
                 THEN [recent EXCEPT ![PaneOf(active)] = active.notice]
                 ELSE recent
    /\ outcome' = r

(* Run then decides whether to wait for another try.  A cancel that comes  *)
(* between the two is met in the wait.                                     *)
Send(r) ==
    /\ pc = "send"
    /\ Store(r)
    /\ acked' = IF r = "ok"
                THEN [acked EXCEPT ![PaneOf(active)] =
                        [notice |-> active.notice, epoch |-> sendEpoch]]
                ELSE acked
    /\ sendEpoch' = 0
    /\ pc' = IF Retries(r) THEN "wait" ELSE "finish"
    /\ UNCHANGED <<supervisorVars, stopping, taskVars, active, cancelled, wake, late,
                   notifierEpoch, owedVars>>

(* The back-off is over; when the context is done as well, either case of  *)
(* the select may be taken.                                                *)
Timer ==
    /\ pc = "wait"
    /\ pc' = IF taskCurrent THEN Entry(active) ELSE "finish"
    /\ outcome' = IF taskCurrent THEN "ok" ELSE outcome
    /\ UNCHANGED <<supervisorVars, stopping, taskVars, active, cancelled, wake, sendEpoch,
                   late, notifierVars, owedVars>>

WaitCancelled ==
    /\ pc = "wait" /\ CtxDone
    /\ pc' = "finish"
    /\ UNCHANGED <<supervisorVars, stopping, taskVars, active, cancelled, wake, outcome,
                   sendEpoch, late, notifierVars, owedVars>>

(* finish; the history forgets a debt only when the delivery was decided.  *)
Release(k) ==
    /\ pendingInvalidated' =
          [j \in Targets |-> IF j = k /\ pendingInvalidated[j] = active.id
                             THEN 0 ELSE pendingInvalidated[j]]
    /\ active' = None
    /\ cancelled' = FALSE

Decided == outcome \in {"ok", "permanent"}

Finish ==
    /\ pc = "finish"
    /\ IF IsStatus(active)
       THEN active' = None /\ cancelled' = FALSE /\ UNCHANGED pendingInvalidated
       ELSE Release(TargetOf(active))
    /\ owed' = [p \in Panes |-> IF Decided /\ owed[p] = active.id THEN 0 ELSE owed[p]]
    /\ owedGone' = IF Decided /\ ~IsStatus(active) THEN owedGone \ {TargetOf(active)} ELSE owedGone
    /\ late' = 0 /\ outcome' = "ok"
    /\ pc' = "next"
    /\ UNCHANGED <<supervisorVars, stopping, nextTaskID, nextEpoch, currentEpoch, queue,
                   pendingStatus, wake, sendEpoch, notifierVars>>

Worker ==
    \/ \E t \in queue : Take(t)
    \/ Sleep \/ Awake \/ Exit
    \/ Get \/ Check
    \/ \E r \in {"ok", "failed", "permanent"} : Send(r)
    \/ Timer \/ WaitCancelled \/ Finish

Supervisor ==
    \/ BeginEpoch \/ Reset
    \/ \E p \in Panes, s \in Statuses : StatusEvent(p, s)
    \/ Refresh
    \/ \E k \in Targets : EnqueueInvalidated(k)
    \/ EndEpoch \/ StopDown

Stopped == stage = "stopped" /\ pc = "exited" /\ UNCHANGED vars

Next == Supervisor \/ Worker \/ Shutdown \/ Stopped

Spec == Init /\ [][Next]_vars

(* The worker's goroutine runs, its timers fire, and a sink that is tried  *)
(* again and again in the end takes the notice or refuses it for good.     *)
FairSpec ==
    /\ Spec
    /\ WF_vars(Worker)
    /\ SF_vars(Send("ok") \/ Send("permanent"))

----------------------------------------------------------------------------
(* Properties.                                                             *)

Outcomes == {"ok", "failed", "permanent"}
Stages == {"down", "reset", "healthy", "full", "stopped"}
Steps == {"next", "idle", "get", "check", "send", "wait", "finish", "exited"}
AtTask == {"get", "check", "send", "wait", "finish"}

(* Every variable keeps its type, the worker has a task exactly while it   *)
(* is at one, and the queue never outgrows its capacity.                   *)
TypeOK ==
    /\ stage \in Stages
    /\ occupant \in AgentViews
    /\ status \in [Panes -> Statuses \cup {None}]
    /\ \A p \in Panes : status[p] = None <=> occupant[p] = None
    /\ gone \subseteq Targets
    /\ epoch \in Nat /\ nextEpoch \in Nat /\ currentEpoch \in Nat /\ nextTaskID \in Nat
    /\ stopping \in BOOLEAN /\ cancelled \in BOOLEAN /\ wake \in BOOLEAN
    /\ queue \subseteq Tasks /\ Cardinality(queue) <= Capacity
    /\ pendingStatus \in [Panes -> Nat]
    /\ pendingInvalidated \in [Targets -> Nat]
    /\ active \in Tasks \cup {None} /\ (active # None <=> pc \in AtTask)
    /\ pc \in Steps /\ outcome \in Outcomes
    /\ sendEpoch \in Nat /\ notifierEpoch \in Nat
    /\ recent \in [Panes -> Notices \cup {None}]
    /\ owed \in [Panes -> Nat] /\ owedGone \subseteq Targets
    /\ acked \in [Panes -> [notice : Notices, epoch : Nat] \cup {None}]
    /\ late \in Nat

NewestIsCarried ==
    \A p \in Panes : owed[p] # 0 /\ ~stopping =>
        \/ \E t \in queue : t.id = owed[p]
        \/ /\ active # None /\ active.id = owed[p]
           /\ ~cancelled
           /\ pc = "finish" => Decided

InvalidationsCarried ==
    \A k \in owedGone : ~stopping =>
        \/ \E t \in queue : ~IsStatus(t) /\ TargetOf(t) = k
        \/ /\ active # None /\ ~IsStatus(active) /\ TargetOf(active) = k
           /\ pc = "finish" => Decided

(* No notice is lost on the way.  The newest transition of a pane that is  *)
(* worth one has a task, waiting or with the worker under a live context,  *)
(* until it is delivered, found out of date or refused for good; so has an *)
(* accepted invalidation, which also outlives new statuses of its pane and *)
(* reconnections (notifier.go:128-231, 289-348).                           *)
NoticesCarried == NewestIsCarried /\ InvalidationsCarried

(* A notice is left out only if it repeats the last one acknowledged for   *)
(* its pane, and that one was sent since the last Reset: no send that was  *)
(* under way brings an older baseline back (notifier.go:574-603).          *)
SuppressedOnlyRepeats ==
    \A p \in Panes : recent[p] # None =>
        acked[p] = [notice |-> recent[p], epoch |-> notifierEpoch]

(* After its task was dropped, its epoch ended or the Supervisor stopped,  *)
(* at most one send of a notice is begun: the attempt that the cancel met, *)
(* or one retry, when the select of the back-off takes the timer beside    *)
(* the cancelled context.  It is the last: nothing waits after it and      *)
(* nothing is tried again (notifier.go:196-229).                           *)
LateSendIsLast == late # 0 => late = 1 /\ CtxDone /\ pc \in {"send", "finish"}

(* Every accepted invalidation is in the end delivered or refused, however *)
(* often the sink fails and whatever waits before it, unless Pal stops.    *)
InvalidationsEnd ==
    \A k \in Targets : (pendingInvalidated[k] # 0) ~> (pendingInvalidated[k] = 0 \/ stopping)

(* A notice that is left out repeats one that arrived, and one that was    *)
(* called off is sent at most once from then on, and for the last time     *)
(* (notifier.go).                                                          *)
SendsJustified == TypeOK /\ SuppressedOnlyRepeats /\ LateSendIsLast
=============================================================================
