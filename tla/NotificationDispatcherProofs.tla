--------------------- MODULE NotificationDispatcherProofs ---------------------
(***************************************************************************)
(* Proofs about NotificationDispatcher, for any panes, occupants and       *)
(* queue capacity.                                                         *)
(***************************************************************************)
EXTENDS NotificationDispatcher, FiniteSetTheorems, TLAPS

(* Task numbers are handed out once, and the indexes do not run ahead.     *)
Numbers ==
    /\ \A t \in queue : t.id <= nextTaskID
    /\ \A t, u \in queue : t.id = u.id => t = u
    /\ active # None => active.id <= nextTaskID /\ \A t \in queue : t.id # active.id

(* The indexes and the queue tell the same story at every release of the   *)
(* lock: a waiting status task is of the current epoch and is the one its  *)
(* pane's index names, so a pane never has two; a target's index names its *)
(* one task, waiting or with the worker.                                   *)
Indexes ==
    /\ \A t \in queue : IsStatus(t) =>
          t.epoch = currentEpoch /\ pendingStatus[PaneOf(t)] = t.id
    /\ \A p \in Panes : pendingStatus[p] # 0 =>
          \E t \in queue : t.id = pendingStatus[p] /\ IsStatus(t) /\ PaneOf(t) = p

(* A cycle has the current epoch until it gives it back.                   *)
Epochs == stage \in {"reset", "healthy", "full"} => epoch = currentEpoch /\ epoch # 0

(* A status task whose context is live is of the current epoch and nothing *)
(* waits for its pane; invalidations are never cancelled.                  *)
ActiveLive ==
    /\ active # None /\ IsStatus(active) /\ ~cancelled =>
          active.epoch = currentEpoch /\ pendingStatus[PaneOf(active)] = 0
    /\ cancelled => active # None /\ IsStatus(active)

(* The worker ends a task only when its delivery was decided, its context  *)
(* was cancelled or Pal stops.                                             *)
Ended == pc = "finish" => Decided \/ cancelled \/ stopping

(* The newest notice of every pane, and every accepted invalidation, has   *)
(* its task.                                                               *)
StatusCarrier(p) ==
    \/ \E t \in queue : t.id = owed[p] /\ IsStatus(t) /\ PaneOf(t) = p
    \/ active # None /\ active.id = owed[p] /\ IsStatus(active) /\ PaneOf(active) = p /\ ~cancelled

StatusCarried == ~stopping => \A p \in Panes : owed[p] # 0 => StatusCarrier(p)

GoneCarrier(k) ==
    \/ \E t \in queue : ~IsStatus(t) /\ TargetOf(t) = k
    \/ active # None /\ ~IsStatus(active) /\ TargetOf(active) = k

GoneCarried == ~stopping => \A k \in owedGone : GoneCarrier(k)

Core == Numbers /\ Indexes /\ Epochs /\ ActiveLive /\ Ended /\ StatusCarried /\ GoneCarried

(* A send that a Reset overtook runs against an empty baseline.            *)
Overtaken == pc = "send" /\ sendEpoch # notifierEpoch => \A p \in Panes : recent[p] = None

IInv ==
    /\ TypeOK /\ IsFiniteSet(queue)
    /\ Core
    /\ Overtaken /\ SuppressedOnlyRepeats /\ LateSendIsLast

----------------------------------------------------------------------------
(* Lemmas about the operators.                                             *)

(* A fresh status notice and a fresh invalidation are notices, and a task  *)
(* around one is a task.                                                   *)
LEMMA NewTasks ==
    /\ \A p \in Panes, o \in Occupants, x, y \in Statuses : StatusNotice(p, o, x, y) \in Notices
    /\ \A p \in Panes, o \in Occupants : GoneNotice(p, o) \in Notices
    /\ \A n \in Nat \ {0}, e \in Nat, w \in Notices : Task(n, e, w) \in Tasks
    /\ \A t \in Tasks : PaneOf(t) \in Panes /\ TargetOf(t) \in Targets /\ t # None
  BY DispatcherAssumption
     DEF StatusNotice, GoneNotice, Notices, Task, Tasks, PaneOf, TargetOf, Targets

(* discardStatus keeps a pane's baseline or clears it.                     *)
LEMMA Discarded ==
    ASSUME NEW ps, recent \in [Panes -> Notices \cup {None}]
    PROVE  /\ discardStatus(ps) \in [Panes -> Notices \cup {None}]
           /\ \A p \in Panes : discardStatus(ps)[p] \in {None, recent[p]}
  BY DEF discardStatus

(* A part of the queue is finite and no longer than the queue.             *)
LEMMA PartOfQueue ==
    ASSUME IsFiniteSet(queue), NEW part, part \subseteq queue
    PROVE  /\ IsFiniteSet(part)
           /\ Cardinality(part) \in Nat
           /\ Cardinality(queue) \in Nat
           /\ Cardinality(part) <= Cardinality(queue)
  BY FS_Subset, FS_CardinalityType

(* With room for one more, a task can be appended.                         *)
LEMMA AppendOne ==
    ASSUME IsFiniteSet(queue), NEW part, part \subseteq queue, NEW t,
           Cardinality(part) < Capacity
    PROVE  IsFiniteSet(part \cup {t}) /\ Cardinality(part \cup {t}) <= Capacity
  <1>1. IsFiniteSet(part) /\ Cardinality(part) \in Nat
    BY PartOfQueue
  <1>2. /\ IsFiniteSet(part \cup {t})
        /\ Cardinality(part \cup {t}) = IF t \in part THEN Cardinality(part)
                                                    ELSE Cardinality(part) + 1
    BY <1>1, FS_AddElement
  <1> QED
    BY <1>1, <1>2, DispatcherAssumption

----------------------------------------------------------------------------
(* Types.                                                                  *)

LEMMA TypeInit == Init => TypeOK /\ IsFiniteSet(queue)
  <1> SUFFICES ASSUME Init PROVE TypeOK /\ IsFiniteSet(queue)
    OBVIOUS
  <1>1. IsFiniteSet({}) /\ Cardinality({}) = 0
    BY FS_EmptySet
  <1>2. Cardinality(queue) <= Capacity /\ queue = {}
    BY <1>1, DispatcherAssumption DEF Init
  <1>3. /\ stage \in Stages /\ pc \in Steps /\ outcome \in Outcomes
        /\ active \in Tasks \cup {None} /\ (active # None <=> pc \in AtTask)
    BY DEF Init, Stages, Steps, Outcomes, AtTask
  <1>4. /\ occupant \in AgentViews /\ status \in [Panes -> Statuses \cup {None}]
        /\ \A p \in Panes : status[p] = None <=> occupant[p] = None
        /\ pendingStatus \in [Panes -> Nat] /\ pendingInvalidated \in [Targets -> Nat]
        /\ recent \in [Panes -> Notices \cup {None}] /\ owed \in [Panes -> Nat]
        /\ acked \in [Panes -> [notice : Notices, epoch : Nat] \cup {None}]
    BY DEF Init, AgentViews
  <1> QED
    BY <1>1, <1>2, <1>3, <1>4 DEF Init, TypeOK

LEMMA TypeSupervisor ==
    ASSUME TypeOK, IsFiniteSet(queue), Supervisor
    PROVE  TypeOK' /\ IsFiniteSet(queue)'
  <1> USE DEF TypeOK, Stages, AgentViews, AtTask
  <1>0. ASSUME NEW part, part \subseteq queue
        PROVE  IsFiniteSet(part) /\ Cardinality(part) <= Capacity
    BY <1>0, PartOfQueue, DispatcherAssumption
  <1>1. CASE BeginEpoch
    <2>1. queue' \subseteq queue /\ pendingStatus' \in [Panes -> Nat]
      <3>1. \A p \in Panes : WaitingStatus(queue \ Dropped(0), p) \in Nat
        BY DEF WaitingStatus, Tasks
      <3> QED
        BY <1>1, <3>1 DEF BeginEpoch, dropStatusLocked
    <2>2. recent' \in [Panes -> Notices \cup {None}] /\ cancelled' \in BOOLEAN
      BY <1>1, Discarded DEF BeginEpoch, dropStatusLocked, ActiveDropped, ActiveStatus
    <2>3. \A p \in Panes : status'[p] = None <=> occupant'[p] = None
      BY <1>1 DEF BeginEpoch, StatusesOf
    <2> QED
      BY <1>0, <1>1, <2>1, <2>2, <2>3 DEF BeginEpoch, StatusesOf
  <1>2. CASE Reset
    BY <1>2 DEF Reset, taskVars, workerVars, owedVars
  <1>3. ASSUME NEW p \in Panes, NEW s \in Statuses, StatusEvent(p, s)
        PROVE  TypeOK' /\ IsFiniteSet(queue)'
    <2>1. /\ status' \in [Panes -> Statuses \cup {None}]
          /\ \A q \in Panes : status'[q] = None <=> occupant'[q] = None
      BY <1>3, DispatcherAssumption DEF StatusEvent
    <2>2. status[p] \in Statuses /\ occupant[p] \in Occupants
      BY <1>3 DEF StatusEvent
    <2>3. Without(p) \subseteq queue
      BY DEF Without
    <2>4. /\ IsFiniteSet(queue') /\ Cardinality(queue') <= Capacity /\ queue' \subseteq Tasks
          /\ stage' \in Stages /\ nextTaskID' \in Nat
          /\ pendingStatus' \in [Panes -> Nat]
          /\ cancelled' \in BOOLEAN /\ wake' \in BOOLEAN /\ owed' \in [Panes -> Nat]
          /\ recent' \in [Panes -> Notices \cup {None}]
      <3>1. CASE epoch = 0 \/ currentEpoch # epoch
        BY <1>3, <3>1 DEF StatusEvent, EnqueueStatus
      <3>2. CASE /\ ~(epoch = 0 \/ currentEpoch # epoch)
                 /\ AppendStatus(p, status[p], s)
                 /\ Cardinality(Without(p)) < Capacity
        <4>1. Task(nextTaskID + 1, epoch, StatusNotice(p, occupant[p], status[p], s)) \in Tasks
          <5>1. StatusNotice(p, occupant[p], status[p], s) \in Notices
            BY <2>2, NewTasks
          <5>2. nextTaskID + 1 \in Nat \ {0} /\ epoch \in Nat
            OBVIOUS
          <5> QED
            BY <5>1, <5>2, NewTasks
        <4>2. IsFiniteSet(queue') /\ Cardinality(queue') <= Capacity
          BY <2>3, <3>2, AppendOne DEF AppendStatus
        <4> QED
          BY <2>3, <3>2, <4>1, <4>2, Discarded DEF AppendStatus, ActiveStatus
      <3>3. CASE /\ ~(epoch = 0 \/ currentEpoch # epoch)
                 /\ DropOnly(p, notificationPolicy(status[p], s))
        BY <1>0, <2>3, <3>3, Discarded DEF DropOnly, dropPaneStatusLocked, ActiveStatus
      <3> QED
        BY <1>3, <3>1, <3>2, <3>3 DEF StatusEvent, EnqueueStatus
    <2> QED
      BY <1>3, <2>1, <2>4 DEF StatusEvent
  <1>4. CASE Refresh
    <2>1. gone' \subseteq Targets
      BY <1>4 DEF Refresh, Targets
    <2>2. \A p \in Panes : status'[p] = None <=> occupant'[p] = None
      BY <1>4 DEF Refresh, StatusesOf
    <2> QED
      BY <1>4, <2>1, <2>2
         DEF Refresh, StatusesOf, taskVars, workerVars, notifierVars, owedVars
  <1>5. ASSUME NEW k \in Targets, EnqueueInvalidated(k)
        PROVE  TypeOK' /\ IsFiniteSet(queue)'
    <2>1. k[1] \in Panes /\ k[2] \in Occupants
      BY DEF Targets
    <2>2. Without(k[1]) \subseteq queue
      BY DEF Without
    <2>3. /\ IsFiniteSet(queue') /\ Cardinality(queue') <= Capacity /\ queue' \subseteq Tasks
          /\ stage' \in Stages /\ nextTaskID' \in Nat
          /\ pendingStatus' \in [Panes -> Nat] /\ pendingInvalidated' \in [Targets -> Nat]
          /\ cancelled' \in BOOLEAN /\ wake' \in BOOLEAN /\ owed' \in [Panes -> Nat]
          /\ recent' \in [Panes -> Notices \cup {None}]
          /\ owedGone' \subseteq Targets
      <3>1. CASE AppendInvalidated(k) /\ Cardinality(Without(k[1])) < Capacity
        <4>1. Task(nextTaskID + 1, 0, GoneNotice(k[1], k[2])) \in Tasks
          <5>1. GoneNotice(k[1], k[2]) \in Notices
            BY <2>1, NewTasks
          <5>2. nextTaskID + 1 \in Nat \ {0} /\ 0 \in Nat
            OBVIOUS
          <5> QED
            BY <5>1, <5>2, NewTasks
        <4>2. IsFiniteSet(queue') /\ Cardinality(queue') <= Capacity
          BY <2>2, <3>1, AppendOne DEF AppendInvalidated
        <4> QED
          BY <2>1, <2>2, <3>1, <4>1, <4>2, Discarded
             DEF AppendInvalidated, dropPaneStatusLocked, ActiveStatus
      <3>2. CASE /\ DropOnly(k[1], pendingInvalidated[k] = 0)
                 /\ UNCHANGED <<pendingInvalidated, owedGone>>
        BY <1>0, <2>1, <2>2, <3>2, Discarded DEF DropOnly, dropPaneStatusLocked, ActiveStatus
      <3> QED
        BY <1>5, <3>1, <3>2 DEF EnqueueInvalidated
    <2> QED
      BY <1>5, <2>3 DEF EnqueueInvalidated
  <1>6. CASE EndEpoch
    <2>1. /\ queue' \subseteq queue /\ pendingStatus' \in [Panes -> Nat]
          /\ recent' \in [Panes -> Notices \cup {None}] /\ cancelled' \in BOOLEAN
          /\ wake' \in BOOLEAN /\ owed' \in [Panes -> Nat] /\ currentEpoch' \in Nat
      <3>1. CASE currentEpoch # epoch
        BY <1>6, <3>1 DEF EndEpoch
      <3>2. CASE currentEpoch = epoch
        <4>1. \A p \in Panes : WaitingStatus(queue \ Dropped(epoch), p) \in Nat
          BY DEF WaitingStatus, Tasks
        <4>2. /\ dropStatusLocked(epoch) /\ wake' = TRUE /\ currentEpoch' = 0
              /\ owed' = [p \in Panes |-> 0]
          BY <1>6, <3>2 DEF EndEpoch
        <4>3. queue' \subseteq queue /\ pendingStatus' \in [Panes -> Nat]
          BY <4>1, <4>2 DEF dropStatusLocked
        <4>4. recent' \in [Panes -> Notices \cup {None}] /\ cancelled' \in BOOLEAN
          BY <4>2, Discarded DEF dropStatusLocked, ActiveDropped, ActiveStatus
        <4> QED
          BY <4>2, <4>3, <4>4
      <3> QED
        BY <3>1, <3>2
    <2> QED
      BY <1>0, <1>6, <2>1 DEF EndEpoch
  <1>7. CASE StopDown
    BY <1>7 DEF StopDown, taskVars, workerVars, notifierVars, owedVars
  <1> QED
    BY <1>1, <1>2, <1>3, <1>4, <1>5, <1>6, <1>7 DEF Supervisor

LEMMA TypeWorker ==
    ASSUME TypeOK, IsFiniteSet(queue), Worker
    PROVE  TypeOK' /\ IsFiniteSet(queue)'
  <1> USE DEF TypeOK, AgentViews
  <1>1. ASSUME NEW t \in queue, Take(t)
        PROVE  TypeOK' /\ IsFiniteSet(queue)'
    <2>1. t \in Tasks /\ t # None
      BY NewTasks
    <2>2. IsFiniteSet(queue') /\ Cardinality(queue') <= Capacity /\ queue' \subseteq Tasks
      <3>1. queue' \subseteq queue
        BY <1>1 DEF Take
      <3> QED
        BY <3>1, PartOfQueue, DispatcherAssumption
    <2>3. pendingStatus' \in [Panes -> Nat]
      BY <1>1 DEF Take
    <2>4. CASE IsStatus(t) /\ t.epoch # currentEpoch
      BY <1>1, <2>2, <2>3, <2>4 DEF Take, supervisorVars, notifierVars, owedVars, AtTask
    <2>5. CASE ~(IsStatus(t) /\ t.epoch # currentEpoch)
      <3>1. /\ active' = t /\ cancelled' = FALSE /\ late' = 0
            /\ pc' \in {"get", "check"}
        BY <1>1, <2>5 DEF Take, Entry
      <3> QED
        BY <1>1, <2>1, <2>2, <2>3, <3>1
           DEF Take, supervisorVars, notifierVars, owedVars, AtTask, Steps
    <2> QED
      BY <2>4, <2>5
  <1>2. CASE Sleep \/ Awake \/ Exit
    BY <1>2
       DEF Sleep, Awake, Exit, supervisorVars, taskVars, notifierVars, owedVars, AtTask, Steps
  <1>3. CASE Get
    BY <1>3 DEF Get, supervisorVars, taskVars, notifierVars, owedVars, AtTask, Steps, Outcomes
  <1>4. CASE Check
    BY <1>4 DEF Check, supervisorVars, taskVars, notifierVars, owedVars, AtTask, Steps, Outcomes
  <1>5. ASSUME NEW r \in {"ok", "failed", "permanent"}, Send(r)
        PROVE  TypeOK' /\ IsFiniteSet(queue)'
    <2>1. active \in Tasks /\ PaneOf(active) \in Panes /\ active.notice \in Notices
      <3>1. active \in Tasks
        BY <1>5 DEF Send, AtTask
      <3> QED
        BY <3>1, NewTasks DEF Tasks
    <2>2. recent' \in [Panes -> Notices \cup {None}] /\ outcome' \in Outcomes
      BY <1>5, <2>1 DEF Send, Store, Outcomes
    <2>3. acked' \in [Panes -> [notice : Notices, epoch : Nat] \cup {None}]
      BY <1>5, <2>1 DEF Send
    <2>4. pc' \in {"wait", "finish"} /\ pc = "send"
      BY <1>5 DEF Send
    <2> QED
      BY <1>5, <2>2, <2>3, <2>4 DEF Send, supervisorVars, taskVars, owedVars, AtTask, Steps
  <1>6. CASE Timer \/ WaitCancelled
    BY <1>6
       DEF Timer, WaitCancelled, Entry, supervisorVars, taskVars, notifierVars, owedVars, AtTask,
           Steps, Outcomes
  <1>7. CASE Finish
    <2>1. active' = None /\ cancelled' = FALSE /\ pendingInvalidated' \in [Targets -> Nat]
      BY <1>7 DEF Finish, Release
    <2>2. owed' \in [Panes -> Nat] /\ owedGone' \subseteq Targets
      BY <1>7 DEF Finish
    <2> QED
      BY <1>7, <2>1, <2>2 DEF Finish, supervisorVars, notifierVars, AtTask, Steps, Outcomes
  <1> QED
    BY <1>1, <1>2, <1>3, <1>4, <1>5, <1>6, <1>7 DEF Worker

LEMMA TypeStep ==
    ASSUME TypeOK, IsFiniteSet(queue), [Next]_vars
    PROVE  TypeOK' /\ IsFiniteSet(queue)'
  <1>1. CASE Shutdown
    BY <1>1
       DEF Shutdown, supervisorVars, taskVars, workerVars, notifierVars, owedVars, TypeOK,
           AgentViews
  <1>2. CASE UNCHANGED vars
    BY <1>2
       DEF vars, supervisorVars, taskVars, workerVars, notifierVars, owedVars, TypeOK, AgentViews
  <1> QED
    BY <1>1, <1>2, TypeSupervisor, TypeWorker DEF Next, Stopped

(* Every variable keeps its type and the queue stays within its capacity.  *)
THEOREM NoticesTypeOK == Spec => []TypeOK
  <1>1. Init => TypeOK /\ IsFiniteSet(queue)
    BY TypeInit
  <1>2. TypeOK /\ IsFiniteSet(queue) /\ [Next]_vars => (TypeOK /\ IsFiniteSet(queue))'
    BY TypeStep
  <1> QED
    BY <1>1, <1>2, PTL DEF Spec

----------------------------------------------------------------------------
(* The queue, its indexes and what they owe.                               *)

(* Taking a pane's status task off the queue takes nothing else.           *)
LEMMA WithoutOne ==
    ASSUME TypeOK, Numbers, Indexes, NEW p \in Panes, NEW t \in queue
    PROVE  t \in Without(p) <=> ~(IsStatus(t) /\ PaneOf(t) = p)
  <1>1. t.id # 0
    BY DEF TypeOK, Tasks
  <1>2. IsStatus(t) /\ PaneOf(t) = p => pendingStatus[p] = t.id
    BY DEF Indexes
  <1>3. pendingStatus[p] = t.id => IsStatus(t) /\ PaneOf(t) = p
    BY <1>1 DEF Indexes, Numbers
  <1> QED
    BY <1>2, <1>3 DEF Without

(* At the two ends of an epoch every status task goes.                     *)
LEMMA DropsAll ==
    ASSUME TypeOK, Indexes, NEW e, e = 0 \/ e = currentEpoch, dropStatusLocked(e)
    PROVE  /\ queue' = {t \in queue : ~IsStatus(t)}
           /\ pendingStatus' = [p \in Panes |-> 0]
           /\ active # None /\ IsStatus(active) /\ (e = 0 \/ active.epoch = e) => cancelled'
           /\ cancelled => cancelled'
           /\ cancelled' => cancelled \/ (active # None /\ IsStatus(active))
  <1>1. Dropped(e) = {t \in queue : IsStatus(t)}
    BY DEF Dropped, Indexes
  <1>2. \A p \in Panes : WaitingStatus(queue \ Dropped(e), p) = 0
    BY <1>1 DEF WaitingStatus
  <1>3. cancelled' = (cancelled \/ ActiveDropped(e))
    BY DEF dropStatusLocked
  <1> QED
    BY <1>1, <1>2, <1>3 DEF dropStatusLocked, ActiveDropped, ActiveStatus

(* Steps that leave the tasks alone.                                       *)
LEMMA CoreKept ==
    ASSUME Core, Epochs', Ended', stopping => stopping',
           UNCHANGED <<queue, nextTaskID, pendingStatus, active, cancelled, currentEpoch, owed,
                       owedGone>>
    PROVE  Core'
  <1>1. Numbers' /\ Indexes' /\ ActiveLive'
    BY DEF Core, Numbers, Indexes, ActiveLive
  <1>2. StatusCarried' /\ GoneCarried'
    BY DEF Core, StatusCarried, GoneCarried, StatusCarrier, GoneCarrier
  <1> QED
    BY <1>1, <1>2 DEF Core

LEMMA CoreInit == Init => Core
  BY DEF Init, Core, Numbers, Indexes, Epochs, ActiveLive, Ended, StatusCarried, GoneCarried

LEMMA CoreEpochEnds ==
    ASSUME TypeOK, Core,
           NEW e, e = 0 \/ e = currentEpoch, dropStatusLocked(e),
           owed' = [p \in Panes |-> 0],
           Epochs', stopping => stopping',
           UNCHANGED <<nextTaskID, active, pc, outcome, owedGone>>
    PROVE  Core'
  <1>1. /\ queue' = {t \in queue : ~IsStatus(t)}
        /\ pendingStatus' = [p \in Panes |-> 0]
        /\ active # None /\ IsStatus(active) /\ (e = 0 \/ active.epoch = e) => cancelled'
        /\ cancelled => cancelled'
        /\ cancelled' => cancelled \/ (active # None /\ IsStatus(active))
    BY DropsAll DEF Core
  <1>2. Numbers' /\ Indexes'
    BY <1>1 DEF Core, Numbers, Indexes
  <1>3. ActiveLive'
    BY <1>1 DEF Core, ActiveLive
  <1>4. Ended'
    BY <1>1 DEF Core, Ended, Decided
  <1>5. StatusCarried'
    BY DEF StatusCarried
  <1>6. GoneCarried'
    <2>1. \A k : GoneCarrier(k) => GoneCarrier(k)'
      BY <1>1 DEF GoneCarrier
    <2> QED
      BY <2>1 DEF Core, GoneCarried
  <1> QED
    BY <1>2, <1>3, <1>4, <1>5, <1>6 DEF Core

(* A pane's status task is dropped, or replaced by a new task.  What both  *)
(* enqueuing calls do, with the new tasks as a set of at most one.         *)
PaneDropped(p) ==
    /\ cancelled' = (cancelled \/ (active # None /\ IsStatus(active) /\ PaneOf(active) = p))
    /\ UNCHANGED <<epoch, currentEpoch, stopping, active, pc, outcome>>
    /\ stage' \in {stage, "full"}
    /\ stage = "healthy"

LEMMA CoreDropOnly ==
    ASSUME TypeOK, Core, NEW p \in Panes, PaneDropped(p),
           queue' = Without(p),
           pendingStatus' = [pendingStatus EXCEPT ![p] = 0],
           owed' = [owed EXCEPT ![p] = 0],
           UNCHANGED <<nextTaskID, owedGone>>
    PROVE  Core'
  <1> USE DEF PaneDropped
  <1>1. \A t \in queue : t \in queue' <=> ~(IsStatus(t) /\ PaneOf(t) = p)
    BY WithoutOne DEF Core
  <1>2. queue' \subseteq queue
    BY DEF Without
  <1>3. /\ \A q \in Panes : q # p => pendingStatus'[q] = pendingStatus[q] /\ owed'[q] = owed[q]
        /\ pendingStatus'[p] = 0 /\ owed'[p] = 0
    BY DEF TypeOK
  <1>4. Numbers'
    BY <1>2 DEF Core, Numbers
  <1>5. Indexes'
    <2>1. \A t \in queue' : PaneOf(t) \in Panes
      BY <1>2, NewTasks DEF TypeOK
    <2> QED
      BY <1>1, <1>2, <1>3, <2>1 DEF Core, Indexes
  <1>6. Epochs'
    BY DEF Core, Epochs
  <1>7. ActiveLive'
    <2>1. active # None => PaneOf(active) \in Panes
      BY NewTasks DEF TypeOK
    <2> QED
      BY <1>3, <2>1 DEF Core, ActiveLive
  <1>8. Ended'
    BY DEF Core, Ended, Decided
  <1>9. StatusCarried'
    <2>1. ASSUME ~stopping, NEW q \in Panes, q # p, owed[q] # 0
          PROVE  StatusCarrier(q)'
      <3>1. StatusCarrier(q)
        BY <2>1 DEF Core, StatusCarried
      <3> QED
        BY <1>1, <1>3, <2>1, <3>1 DEF StatusCarrier
    <2> QED
      BY <1>3, <2>1 DEF StatusCarried
  <1>10. GoneCarried'
    <2>1. \A k : GoneCarrier(k) => GoneCarrier(k)'
      BY <1>1 DEF GoneCarrier
    <2> QED
      BY <2>1 DEF Core, GoneCarried
  <1> QED
    BY <1>4, <1>5, <1>6, <1>7, <1>8, <1>9, <1>10 DEF Core

LEMMA CoreAppendStatus ==
    ASSUME TypeOK, Core, NEW p \in Panes, PaneDropped(p), NEW t \in Tasks,
           t.id = nextTaskID + 1, t.epoch = currentEpoch, IsStatus(t), PaneOf(t) = p,
           queue' = Without(p) \cup {t},
           pendingStatus' = [pendingStatus EXCEPT ![p] = nextTaskID + 1],
           owed' = [owed EXCEPT ![p] = nextTaskID + 1],
           nextTaskID' = nextTaskID + 1,
           UNCHANGED owedGone
    PROVE  Core'
  <1> USE DEF PaneDropped
  <1>1. \A u \in queue : u \in Without(p) <=> ~(IsStatus(u) /\ PaneOf(u) = p)
    BY WithoutOne DEF Core
  <1>2. Without(p) \subseteq queue
    BY DEF Without
  <1>3. /\ \A q \in Panes : q # p => pendingStatus'[q] = pendingStatus[q] /\ owed'[q] = owed[q]
        /\ pendingStatus'[p] = t.id /\ owed'[p] = t.id
    BY DEF TypeOK
  <1>4. /\ nextTaskID \in Nat /\ \A u \in queue : u.id \in Nat
        /\ active # None => active.id \in Nat /\ PaneOf(active) \in Panes
    BY NewTasks DEF TypeOK, Tasks
  <1>5. \A u \in queue : u.id # t.id /\ u.id <= nextTaskID'
    BY <1>4 DEF Core, Numbers
  <1>6. Numbers'
    BY <1>2, <1>4, <1>5 DEF Core, Numbers
  <1>7. Indexes'
    <2>1. \A u \in queue : PaneOf(u) \in Panes
      BY NewTasks DEF TypeOK
    <2>2. \A u \in queue' : IsStatus(u) =>
             u.epoch = currentEpoch' /\ pendingStatus'[PaneOf(u)] = u.id
      BY <1>1, <1>2, <1>3, <2>1 DEF Core, Indexes
    <2>3. ASSUME NEW q \in Panes, pendingStatus'[q] # 0
          PROVE  \E u \in queue' : u.id = pendingStatus'[q] /\ IsStatus(u) /\ PaneOf(u) = q
      <3>1. CASE q = p
        BY <1>3, <3>1
      <3>2. CASE q # p
        <4>1. PICK u \in queue : u.id = pendingStatus[q] /\ IsStatus(u) /\ PaneOf(u) = q
          BY <1>3, <2>3, <3>2 DEF Core, Indexes
        <4> QED
          BY <1>1, <1>3, <3>2, <4>1
      <3> QED
        BY <3>1, <3>2
    <2> QED
      BY <2>2, <2>3 DEF Indexes
  <1>8. Epochs'
    BY DEF Core, Epochs
  <1>9. ActiveLive'
    BY <1>3, <1>4 DEF Core, ActiveLive
  <1>10. Ended'
    BY DEF Core, Ended, Decided
  <1>11. StatusCarried'
    <2>1. StatusCarrier(p)'
      BY <1>3 DEF StatusCarrier
    <2>2. ASSUME ~stopping, NEW q \in Panes, q # p, owed[q] # 0
          PROVE  StatusCarrier(q)'
      <3>1. StatusCarrier(q)
        BY <2>2 DEF Core, StatusCarried
      <3> QED
        BY <1>1, <1>3, <2>2, <3>1 DEF StatusCarrier
    <2> QED
      BY <1>3, <2>1, <2>2 DEF StatusCarried
  <1>12. GoneCarried'
    <2>1. \A k : GoneCarrier(k) => GoneCarrier(k)'
      BY <1>1 DEF GoneCarrier
    <2> QED
      BY <2>1 DEF Core, GoneCarried
  <1> QED
    BY <1>6, <1>7, <1>8, <1>9, <1>10, <1>11, <1>12 DEF Core

LEMMA CoreAppendGone ==
    ASSUME TypeOK, Core, NEW p \in Panes, PaneDropped(p), NEW t \in Tasks,
           t.id = nextTaskID + 1, ~IsStatus(t),
           queue' = Without(p) \cup {t},
           pendingStatus' = [pendingStatus EXCEPT ![p] = 0],
           owed' = [owed EXCEPT ![p] = 0],
           nextTaskID' = nextTaskID + 1,
           owedGone' = owedGone \cup {TargetOf(t)}
    PROVE  Core'
  <1> USE DEF PaneDropped
  <1>1. \A u \in queue : u \in Without(p) <=> ~(IsStatus(u) /\ PaneOf(u) = p)
    BY WithoutOne DEF Core
  <1>2. Without(p) \subseteq queue
    BY DEF Without
  <1>3. /\ \A q \in Panes : q # p => pendingStatus'[q] = pendingStatus[q] /\ owed'[q] = owed[q]
        /\ pendingStatus'[p] = 0 /\ owed'[p] = 0
    BY DEF TypeOK
  <1>4. /\ nextTaskID \in Nat /\ \A u \in queue : u.id \in Nat
        /\ active # None => active.id \in Nat /\ PaneOf(active) \in Panes
    BY NewTasks DEF TypeOK, Tasks
  <1>5. \A u \in queue : u.id # t.id /\ u.id <= nextTaskID'
    BY <1>4 DEF Core, Numbers
  <1>6. Numbers'
    BY <1>2, <1>4, <1>5 DEF Core, Numbers
  <1>7. Indexes'
    <2>1. \A u \in queue : PaneOf(u) \in Panes
      BY NewTasks DEF TypeOK
    <2> QED
      BY <1>1, <1>2, <1>3, <2>1 DEF Core, Indexes
  <1>8. Epochs'
    BY DEF Core, Epochs
  <1>9. ActiveLive'
    BY <1>3, <1>4 DEF Core, ActiveLive
  <1>10. Ended'
    BY DEF Core, Ended, Decided
  <1>11. StatusCarried'
    <2>1. ASSUME ~stopping, NEW q \in Panes, q # p, owed[q] # 0
          PROVE  StatusCarrier(q)'
      <3>1. StatusCarrier(q)
        BY <2>1 DEF Core, StatusCarried
      <3> QED
        BY <1>1, <1>3, <2>1, <3>1 DEF StatusCarrier
    <2> QED
      BY <1>3, <2>1 DEF StatusCarried
  <1>12. GoneCarried'
    <2>1. \A k : GoneCarrier(k) => GoneCarrier(k)'
      BY <1>1 DEF GoneCarrier
    <2>2. GoneCarrier(TargetOf(t))'
      BY DEF GoneCarrier, TargetOf, IsStatus
    <2> QED
      BY <2>1, <2>2 DEF Core, GoneCarried
  <1> QED
    BY <1>6, <1>7, <1>8, <1>9, <1>10, <1>11, <1>12 DEF Core

LEMMA CoreTake ==
    ASSUME TypeOK, Core, NEW t \in queue, Take(t)
    PROVE  Core'
  <1>1. /\ t \in Tasks /\ t # None /\ t.id # 0 /\ PaneOf(t) \in Panes
        /\ active = None /\ ~cancelled
    BY NewTasks DEF TypeOK, Tasks, Take, Core, ActiveLive, AtTask
  <1>2. IsStatus(t) => t.epoch = currentEpoch /\ pendingStatus[PaneOf(t)] = t.id
    BY DEF Core, Indexes
  <1>3. /\ queue' = queue \ {t} /\ active' = t /\ cancelled' = FALSE /\ pc' \in {"get", "check"}
        /\ pendingStatus' = [p \in Panes |->
              IF IsStatus(t) /\ p = PaneOf(t) THEN 0 ELSE pendingStatus[p]]
        /\ UNCHANGED <<stage, epoch, stopping, nextTaskID, currentEpoch, outcome, owed, owedGone>>
    BY <1>2 DEF Take, Entry, supervisorVars, owedVars
  <1>4. Numbers'
    BY <1>3 DEF Core, Numbers
  <1>5. Indexes'
    <2>1. \A u \in queue' : u \in queue /\ u.id # t.id /\ PaneOf(u) \in Panes
      BY <1>3, NewTasks DEF Core, Numbers, TypeOK
    <2>2. ASSUME NEW u \in queue', IsStatus(u)
          PROVE  u.epoch = currentEpoch' /\ pendingStatus'[PaneOf(u)] = u.id
      BY <1>2, <1>3, <2>1, <2>2 DEF Core, Indexes
    <2>3. ASSUME NEW q \in Panes, pendingStatus'[q] # 0
          PROVE  \E u \in queue' : u.id = pendingStatus'[q] /\ IsStatus(u) /\ PaneOf(u) = q
      <3>1. pendingStatus'[q] = pendingStatus[q] /\ ~(IsStatus(t) /\ q = PaneOf(t))
        BY <1>3, <2>3
      <3>2. PICK u \in queue : u.id = pendingStatus[q] /\ IsStatus(u) /\ PaneOf(u) = q
        BY <2>3, <3>1 DEF Core, Indexes
      <3> QED
        BY <1>3, <3>1, <3>2
    <2> QED
      BY <2>2, <2>3 DEF Indexes
  <1>6. Epochs'
    BY <1>3 DEF Core, Epochs
  <1>7. ActiveLive'
    BY <1>1, <1>2, <1>3 DEF ActiveLive
  <1>8. Ended'
    BY <1>3 DEF Ended
  <1>9. StatusCarried'
    <2>1. \A p \in Panes : StatusCarrier(p) => StatusCarrier(p)'
      BY <1>1, <1>3 DEF StatusCarrier
    <2> QED
      BY <1>3, <2>1 DEF Core, StatusCarried
  <1>10. GoneCarried'
    <2>1. \A k : GoneCarrier(k) => GoneCarrier(k)'
      BY <1>1, <1>3 DEF GoneCarrier
    <2> QED
      BY <1>3, <2>1 DEF Core, GoneCarried
  <1> QED
    BY <1>4, <1>5, <1>6, <1>7, <1>8, <1>9, <1>10 DEF Core

LEMMA CoreFinish ==
    ASSUME TypeOK, Core, Finish
    PROVE  Core'
  <1>1. active \in Tasks /\ active # None /\ pc = "finish"
    BY NewTasks DEF TypeOK, Finish, AtTask
  <1>2. /\ active' = None /\ cancelled' = FALSE /\ pc' = "next"
        /\ UNCHANGED <<stage, epoch, stopping, nextTaskID, currentEpoch, queue, pendingStatus>>
        /\ owed' = [p \in Panes |-> IF Decided /\ owed[p] = active.id THEN 0 ELSE owed[p]]
        /\ owedGone' = IF Decided /\ ~IsStatus(active) THEN owedGone \ {TargetOf(active)}
                       ELSE owedGone
    BY DEF Finish, Release, supervisorVars
  <1>3. Numbers' /\ Indexes' /\ Epochs' /\ ActiveLive' /\ Ended'
    BY <1>2 DEF Core, Numbers, Indexes, Epochs, ActiveLive, Ended
  <1>4. StatusCarried'
    <2>1. ASSUME ~stopping, NEW p \in Panes, owed'[p] # 0
          PROVE  StatusCarrier(p)'
      <3>1. owed'[p] = owed[p] /\ ~(Decided /\ owed[p] = active.id)
        BY <1>2, <2>1
      <3>2. StatusCarrier(p)
        BY <2>1, <3>1 DEF Core, StatusCarried
      <3>3. active.id = owed[p] => cancelled
        BY <1>1, <2>1, <3>1 DEF Core, Ended
      <3> QED
        BY <1>2, <3>1, <3>2, <3>3 DEF StatusCarrier
    <2> QED
      BY <1>2, <2>1 DEF StatusCarried
  <1>5. GoneCarried'
    <2>1. ASSUME ~stopping, NEW k \in owedGone'
          PROVE  GoneCarrier(k)'
      <3>1. k \in owedGone /\ ~(Decided /\ ~IsStatus(active) /\ k = TargetOf(active))
        BY <1>2, <2>1
      <3>2. GoneCarrier(k)
        BY <2>1, <3>1 DEF Core, GoneCarried
      <3>3. ~IsStatus(active) => Decided
        BY <1>1, <2>1 DEF Core, Ended, ActiveLive
      <3> QED
        BY <1>2, <3>1, <3>2, <3>3 DEF GoneCarrier
    <2> QED
      BY <1>2, <2>1 DEF GoneCarried
  <1> QED
    BY <1>3, <1>4, <1>5 DEF Core

LEMMA CoreStep ==
    ASSUME TypeOK, Core, [Next]_vars
    PROVE  Core'
  <1> USE DEF supervisorVars, taskVars, workerVars, notifierVars, owedVars
  <1>0. Epochs /\ Ended /\ ActiveLive
    BY DEF Core
  <1>1. CASE BeginEpoch
    <2>1. Epochs'
      BY <1>1 DEF BeginEpoch, Epochs, TypeOK
    <2> QED
      BY <1>1, <2>1, CoreEpochEnds DEF BeginEpoch
  <1>2. CASE Reset
    BY <1>0, <1>2, CoreKept DEF Reset, Epochs, Ended, Decided
  <1>3. ASSUME NEW p \in Panes, NEW s \in Statuses, StatusEvent(p, s)
        PROVE  Core'
    <2>1. ~(epoch = 0 \/ currentEpoch # epoch)
      BY <1>0, <1>3 DEF StatusEvent, Epochs
    <2>2. CASE AppendStatus(p, status[p], s)
      <3> DEFINE t == Task(nextTaskID + 1, epoch, StatusNotice(p, occupant[p], status[p], s))
      <3>1. t \in Tasks
        <4>1. status[p] \in Statuses /\ occupant[p] \in Occupants
          BY <1>3 DEF StatusEvent, TypeOK, AgentViews
        <4>2. nextTaskID + 1 \in Nat \ {0} /\ epoch \in Nat
          BY DEF TypeOK
        <4>3. StatusNotice(p, occupant[p], status[p], s) \in Notices
          BY <4>1, NewTasks
        <4> QED
          BY <4>2, <4>3, NewTasks
      <3>2. t.id = nextTaskID + 1 /\ t.epoch = currentEpoch /\ IsStatus(t) /\ PaneOf(t) = p
        BY <2>1 DEF Task, StatusNotice, IsStatus, PaneOf
      <3>3. PaneDropped(p)
        BY <1>3, <2>2 DEF StatusEvent, AppendStatus, PaneDropped, ActiveStatus
      <3> QED
        BY <1>3, <2>2, <3>1, <3>2, <3>3, CoreAppendStatus DEF StatusEvent, AppendStatus
    <2>3. CASE DropOnly(p, notificationPolicy(status[p], s))
      <3>1. PaneDropped(p)
        BY <1>3, <2>3 DEF StatusEvent, DropOnly, dropPaneStatusLocked, PaneDropped, ActiveStatus
      <3> QED
        BY <1>3, <2>3, <3>1, CoreDropOnly DEF StatusEvent, DropOnly, dropPaneStatusLocked
    <2> QED
      BY <1>3, <2>1, <2>2, <2>3 DEF StatusEvent, EnqueueStatus
  <1>4. CASE Refresh
    BY <1>0, <1>4, CoreKept DEF Refresh, Epochs, Ended, Decided
  <1>5. ASSUME NEW k \in Targets, EnqueueInvalidated(k)
        PROVE  Core'
    <2>1. k[1] \in Panes /\ k[2] \in Occupants /\ k = <<k[1], k[2]>>
      BY DEF Targets
    <2>2. CASE AppendInvalidated(k)
      <3> DEFINE t == Task(nextTaskID + 1, 0, GoneNotice(k[1], k[2]))
      <3>1. t \in Tasks
        <4>1. nextTaskID + 1 \in Nat \ {0} /\ 0 \in Nat
          BY DEF TypeOK
        <4>2. GoneNotice(k[1], k[2]) \in Notices
          BY <2>1, NewTasks
        <4> QED
          BY <4>1, <4>2, NewTasks
      <3>2. t.id = nextTaskID + 1 /\ ~IsStatus(t) /\ TargetOf(t) = k
        BY <2>1 DEF Task, GoneNotice, IsStatus, TargetOf
      <3>3. PaneDropped(k[1])
        BY <1>5, <2>2
           DEF EnqueueInvalidated, AppendInvalidated, dropPaneStatusLocked, PaneDropped,
               ActiveStatus
      <3> QED
        BY <1>5, <2>1, <2>2, <3>1, <3>2, <3>3, CoreAppendGone
           DEF AppendInvalidated, dropPaneStatusLocked
    <2>3. CASE DropOnly(k[1], pendingInvalidated[k] = 0) /\ UNCHANGED owedGone
      <3>1. PaneDropped(k[1])
        BY <1>5, <2>3
           DEF EnqueueInvalidated, DropOnly, dropPaneStatusLocked, PaneDropped, ActiveStatus
      <3> QED
        BY <2>1, <2>3, <3>1, CoreDropOnly DEF DropOnly, dropPaneStatusLocked
    <2> QED
      BY <1>5, <2>2, <2>3 DEF EnqueueInvalidated
  <1>6. CASE EndEpoch
    <2>1. Epochs' /\ (stopping => stopping')
      BY <1>6 DEF EndEpoch, Epochs
    <2>2. currentEpoch = epoch
      BY <1>0, <1>6 DEF EndEpoch, Epochs
    <2> QED
      BY <1>6, <2>1, <2>2, CoreEpochEnds DEF EndEpoch
  <1>7. CASE StopDown
    BY <1>0, <1>7, CoreKept DEF StopDown, Epochs, Ended, Decided
  <1>8. CASE Shutdown
    BY <1>0, <1>8, CoreKept DEF Shutdown, Epochs, Ended, Decided
  <1>9. ASSUME NEW t \in queue, Take(t)
        PROVE  Core'
    BY <1>9, CoreTake
  <1>10. CASE Sleep \/ Awake \/ Exit
    BY <1>0, <1>10, CoreKept DEF Sleep, Awake, Exit, Epochs, Ended, Decided
  <1>11. CASE Get \/ Check
    BY <1>0, <1>11, CoreKept DEF Get, Check, Epochs, Ended, Decided
  <1>12. ASSUME NEW r \in {"ok", "failed", "permanent"}, Send(r)
         PROVE  Core'
    <2>1. cancelled \/ stopping \/ taskCurrent
      BY <1>0, <1>12 DEF Send, taskCurrent, ActiveLive, TypeOK, AtTask
    <2>2. Ended'
      BY <1>12, <2>1 DEF Send, Store, Retries, CtxDone, Ended, Decided
    <2> QED
      BY <1>0, <1>12, <2>2, CoreKept DEF Send, Epochs
  <1>13. CASE Timer
    <2>1. cancelled \/ stopping \/ taskCurrent
      BY <1>0, <1>13 DEF Timer, taskCurrent, ActiveLive, TypeOK, AtTask
    <2>2. Ended'
      BY <1>13, <2>1 DEF Timer, Entry, Ended
    <2> QED
      BY <1>0, <1>13, <2>2, CoreKept DEF Timer, Epochs
  <1>14. CASE WaitCancelled
    BY <1>0, <1>14, CoreKept DEF WaitCancelled, CtxDone, Epochs, Ended
  <1>15. CASE Finish
    BY <1>15, CoreFinish
  <1>16. CASE UNCHANGED vars
    BY <1>0, <1>16, CoreKept DEF vars, Epochs, Ended, Decided
  <1> QED
    BY <1>1, <1>2, <1>3, <1>4, <1>5, <1>6, <1>7, <1>8, <1>9, <1>10, <1>11, <1>12, <1>13, <1>14,
       <1>15, <1>16 DEF Next, Supervisor, Worker, Stopped

(* No notice is lost on the way: the newest notice of a pane and every     *)
(* accepted invalidation keep a task until their delivery is decided.      *)
THEOREM NoticesNotLost == Spec => []NoticesCarried
  <1> DEFINE Inv == TypeOK /\ IsFiniteSet(queue) /\ Core
  <1>1. Init => Inv
    BY TypeInit, CoreInit
  <1>2. Inv /\ [Next]_vars => Inv'
    BY TypeStep, CoreStep
  <1>3. Inv => NoticesCarried
    <2>1. ASSUME Inv PROVE NewestIsCarried
      BY <2>1
         DEF NewestIsCarried, Core, StatusCarried, StatusCarrier, Ended
    <2>2. ASSUME Inv PROVE InvalidationsCarried
      BY <2>2
         DEF InvalidationsCarried, Core, GoneCarried, GoneCarrier, Ended, ActiveLive
    <2> QED
      BY <2>1, <2>2 DEF NoticesCarried
  <1> QED
    BY <1>1, <1>2, <1>3, PTL DEF Spec

----------------------------------------------------------------------------
(* What the Notifier remembers.                                            *)

Baselines == Overtaken /\ SuppressedOnlyRepeats

(* Steps that clear baselines at most.                                     *)
LEMMA BaselinesKept ==
    ASSUME Baselines, pc' = "send" => pc = "send" \/ sendEpoch' = notifierEpoch',
           \A p \in Panes : recent'[p] \in {None, recent[p]},
           pc = "send" => sendEpoch' = sendEpoch \/ pc' # "send",
           UNCHANGED <<notifierEpoch, acked>>
    PROVE  Baselines'
  <1>1. Overtaken'
    BY DEF Baselines, Overtaken
  <1>2. SuppressedOnlyRepeats'
    BY DEF Baselines, SuppressedOnlyRepeats
  <1> QED
    BY <1>1, <1>2 DEF Baselines

LEMMA BaselinesStep ==
    ASSUME TypeOK, Baselines, [Next]_vars
    PROVE  Baselines'
  <1> USE DEF supervisorVars, taskVars, workerVars, notifierVars, owedVars
  <1>0. recent \in [Panes -> Notices \cup {None}]
    BY DEF TypeOK
  <1>1. CASE BeginEpoch
    BY <1>0, <1>1, Discarded, BaselinesKept DEF BeginEpoch, dropStatusLocked
  <1>2. CASE Reset
    BY <1>2 DEF Reset, Baselines, Overtaken, SuppressedOnlyRepeats
  <1>3. ASSUME NEW p \in Panes, NEW s \in Statuses, StatusEvent(p, s)
        PROVE  Baselines'
    <2>1. \A q \in Panes : recent'[q] \in {None, recent[q]}
      BY <1>0, <1>3, Discarded
         DEF StatusEvent, EnqueueStatus, AppendStatus, DropOnly, dropPaneStatusLocked
    <2> QED
      BY <1>3, <2>1, BaselinesKept DEF StatusEvent
  <1>4. CASE Refresh \/ StopDown \/ Shutdown
    BY <1>4, BaselinesKept DEF Refresh, StopDown, Shutdown
  <1>5. ASSUME NEW k \in Targets, EnqueueInvalidated(k)
        PROVE  Baselines'
    <2>1. \A q \in Panes : recent'[q] \in {None, recent[q]}
      BY <1>0, <1>5, Discarded
         DEF EnqueueInvalidated, AppendInvalidated, DropOnly, dropPaneStatusLocked
    <2> QED
      BY <1>5, <2>1, BaselinesKept DEF EnqueueInvalidated
  <1>6. CASE EndEpoch
    <2>1. \A q \in Panes : recent'[q] \in {None, recent[q]}
      BY <1>0, <1>6, Discarded DEF EndEpoch, dropStatusLocked
    <2> QED
      BY <1>6, <2>1, BaselinesKept DEF EndEpoch
  <1>7. ASSUME NEW t \in queue, Take(t)
        PROVE  Baselines'
    BY <1>7, BaselinesKept DEF Take, Entry
  <1>8. CASE Sleep \/ Awake \/ Exit \/ Get \/ WaitCancelled
    BY <1>8, BaselinesKept DEF Sleep, Awake, Exit, Get, WaitCancelled
  <1>9. CASE Check
    BY <1>9, BaselinesKept DEF Check
  <1>10. ASSUME NEW r \in {"ok", "failed", "permanent"}, Send(r)
         PROVE  Baselines'
    <2>1. PaneOf(active) \in Panes
      BY <1>10, NewTasks DEF Send, TypeOK, AtTask
    <2>2. Overtaken'
      BY <1>10 DEF Send, Overtaken
    <2>3. CASE r = "ok" /\ notifierEpoch = sendEpoch
      <3>1. /\ recent' = [recent EXCEPT ![PaneOf(active)] = active.notice]
            /\ acked' = [acked EXCEPT ![PaneOf(active)] =
                            [notice |-> active.notice, epoch |-> sendEpoch]]
            /\ notifierEpoch' = sendEpoch /\ notifierEpoch' = notifierEpoch
        BY <1>10, <2>3 DEF Send, Store
      <3>2. /\ recent'[PaneOf(active)] = active.notice
            /\ acked'[PaneOf(active)] = [notice |-> active.notice, epoch |-> sendEpoch]
        BY <2>1, <3>1 DEF TypeOK
      <3>3. \A q \in Panes : q # PaneOf(active) => recent'[q] = recent[q] /\ acked'[q] = acked[q]
        BY <3>1 DEF TypeOK
      <3>4. SuppressedOnlyRepeats
        BY DEF Baselines
      <3> QED
        BY <2>2, <3>1, <3>2, <3>3, <3>4 DEF Baselines, SuppressedOnlyRepeats
    <2>4. CASE r = "ok" /\ notifierEpoch # sendEpoch
      BY <1>10, <2>4 DEF Send, Store, Baselines, Overtaken, SuppressedOnlyRepeats
    <2>5. CASE r # "ok"
      <3>1. recent' = recent /\ acked' = acked /\ notifierEpoch' = notifierEpoch
        BY <1>10, <2>5 DEF Send, Store
      <3> QED
        BY <2>2, <3>1 DEF Baselines, SuppressedOnlyRepeats
    <2> QED
      BY <2>2, <2>3, <2>4, <2>5 DEF Baselines
  <1>11. CASE Timer
    BY <1>11, BaselinesKept DEF Timer, Entry
  <1>12. CASE Finish
    BY <1>12, BaselinesKept DEF Finish
  <1>13. CASE UNCHANGED vars
    BY <1>13, BaselinesKept DEF vars
  <1> QED
    BY <1>1, <1>2, <1>3, <1>4, <1>5, <1>6, <1>7, <1>8, <1>9, <1>10, <1>11, <1>12, <1>13
       DEF Next, Supervisor, Worker, Stopped

(* A suppressed notice repeats the last acknowledged one of its pane and   *)
(* of the Notifier's present epoch.                                        *)
THEOREM NoticesSuppressed == Spec => []SuppressedOnlyRepeats
  <1> DEFINE Inv == TypeOK /\ IsFiniteSet(queue) /\ Baselines
  <1>1. Init => Inv
    <2>1. Init => Baselines
      BY DEF Init, Baselines, Overtaken, SuppressedOnlyRepeats
    <2> QED
      BY <2>1, TypeInit
  <1>2. Inv /\ [Next]_vars => Inv'
    BY TypeStep, BaselinesStep
  <1>3. Inv => SuppressedOnlyRepeats
    BY DEF Baselines
  <1> QED
    BY <1>1, <1>2, <1>3, PTL DEF Spec

----------------------------------------------------------------------------
(* Late sends.                                                             *)

(* Steps of the Supervisor: the task stays where it is, and a context that *)
(* is done stays done.                                                     *)
LEMMA LateKept ==
    ASSUME LateSendIsLast, CtxDone => CtxDone', UNCHANGED <<pc, late>>
    PROVE  LateSendIsLast'
  BY DEF LateSendIsLast

LEMMA LateStep ==
    ASSUME TypeOK, LateSendIsLast, [Next]_vars
    PROVE  LateSendIsLast'
  <1> USE DEF supervisorVars, taskVars, workerVars, notifierVars, owedVars
  <1>1. CASE BeginEpoch \/ EndEpoch
    BY <1>1, LateKept DEF BeginEpoch, EndEpoch, dropStatusLocked, CtxDone
  <1>2. CASE Reset \/ Refresh \/ StopDown \/ Shutdown
    BY <1>2, LateKept DEF Reset, Refresh, StopDown, Shutdown, CtxDone
  <1>3. ASSUME NEW p \in Panes, NEW s \in Statuses, StatusEvent(p, s)
        PROVE  LateSendIsLast'
    BY <1>3, LateKept
       DEF StatusEvent, EnqueueStatus, AppendStatus, DropOnly, dropPaneStatusLocked, CtxDone
  <1>4. ASSUME NEW k \in Targets, EnqueueInvalidated(k)
        PROVE  LateSendIsLast'
    BY <1>4, LateKept
       DEF EnqueueInvalidated, AppendInvalidated, DropOnly, dropPaneStatusLocked, CtxDone
  <1>5. ASSUME NEW t \in queue, Take(t)
        PROVE  LateSendIsLast'
    BY <1>5 DEF Take, LateSendIsLast, CtxDone
  <1>6. CASE Sleep \/ Awake \/ Exit \/ Get \/ WaitCancelled \/ Timer
    BY <1>6 DEF Sleep, Awake, Exit, Get, WaitCancelled, Timer, Entry, LateSendIsLast, CtxDone
  <1>7. CASE Check
    <2>1. late = 0
      BY <1>7 DEF Check, LateSendIsLast
    <2> QED
      BY <1>7, <2>1 DEF Check, LateSendIsLast, CtxDone
  <1>8. ASSUME NEW r \in {"ok", "failed", "permanent"}, Send(r)
        PROVE  LateSendIsLast'
    BY <1>8 DEF Send, Store, Retries, LateSendIsLast, CtxDone
  <1>9. CASE Finish
    BY <1>9 DEF Finish, LateSendIsLast
  <1>10. CASE UNCHANGED vars
    BY <1>10, LateKept DEF vars, CtxDone
  <1> QED
    BY <1>1, <1>2, <1>3, <1>4, <1>5, <1>6, <1>7, <1>8, <1>9, <1>10
       DEF Next, Supervisor, Worker, Stopped

(* Of a cancelled notice one more send is begun at most, and none after    *)
(* it, be it the first attempt or a retry.                                 *)
THEOREM LateSendsEnd == Spec => []LateSendIsLast
  <1> DEFINE Inv == TypeOK /\ IsFiniteSet(queue) /\ LateSendIsLast
  <1>1. Init => Inv
    BY TypeInit DEF Init, LateSendIsLast
  <1>2. Inv /\ [Next]_vars => Inv'
    BY TypeStep, LateStep
  <1> QED
    BY <1>1, <1>2, PTL DEF Spec

(* A notice left out repeats one that arrived, and one called off is sent  *)
(* at most once from then on, and for the last time, for any panes, epochs *)
(* and queue capacity (SendsJustified).                                    *)
THEOREM NoticesJustified == Spec => []SendsJustified
<1> QED
    BY NoticesTypeOK, NoticesSuppressed, LateSendsEnd, PTL DEF SendsJustified
=============================================================================
