------------------------ MODULE SessionCatalogProofs ------------------------
(***************************************************************************)
(* Proofs about SessionCatalog, for every set of users, machines, panes,   *)
(* occupants, connections and waiting goroutines.  The inductive invariant *)
(* adds one fact to the properties the model checker looks at: a machine   *)
(* without a connection has no snapshot, so what is visible is online.     *)
(*                                                                         *)
(* About ConversationRouter, which is SessionCatalog with the commands of   *)
(* any number of users: where each task stands tells whether its selection *)
(* has been moved already.                                                 *)
(*                                                                         *)
(* And about TerminalDelivery, which follows what one of the sessions      *)
(* tells, for any number of items and sessions, and any queue and image.   *)
(***************************************************************************)
EXTENDS ConversationRouter, TerminalDelivery, SequenceTheorems, TLAPS

AbsentMachines ==
    \A k \in Keys : machines[k].conn = NoConn => machines[k] = NoMachine

IInv == TypeOK /\ ConnectionIndexes /\ AbsentMachines /\ RoutingLive

-----------------------------------------------------------------------------
(* Type correctness.                                                       *)

LEMMA KeyIsPair ==
    ASSUME NEW k \in Keys
    PROVE  k[1] \in Users /\ k[2] \in Machines /\ k = <<k[1], k[2]>>
BY DEF Keys

LEMMA SignalledType ==
    ASSUME TypeOK
    PROVE  Signalled \in [Waiters -> Wait \cup {NoWait}]
<1> SUFFICES ASSUME NEW w \in Waiters, waits[w] # NoWait
             PROVE  [waits[w] EXCEPT !.phase = "woken"] \in Wait
    BY DEF TypeOK, Signalled
<1>1. waits[w] \in Wait
    BY DEF TypeOK
<1> QED
    BY <1>1 DEF Wait

LEMMA MigratedModesType ==
    ASSUME TypeOK, NEW k \in Keys, NEW previous \in Panes, NEW next \in Panes
    PROVE  MigratedModes(k, previous, next) \in [Targets -> Modes \cup {DefaultMode}]
<1>1. outputModes[k[1]] \in [Targets -> Modes \cup {DefaultMode}]
    BY KeyIsPair DEF TypeOK
<1> SUFFICES ASSUME NEW t \in Targets, previous[t.slot] # Vacant
             PROVE  Occupied(t, previous[t.slot]) \in Targets
    BY <1>1 DEF MigratedModes
<1> QED
    BY DEF Targets, Panes, Occupied

LEMMA InitType == Init => TypeOK
BY CatalogAssumption
   DEF Init, TypeOK, NoModes, NoMachine, Registered, MachineState, EmptyPane, Panes

LEMMA NextType == TypeOK /\ [Next]_vars => TypeOK'
<1> SUFFICES ASSUME TypeOK, [Next]_vars PROVE TypeOK'
    OBVIOUS
<1>0. Signalled \in [Waiters -> Wait \cup {NoWait}]
    BY SignalledType
<1>1. ASSUME NEW c \in Conns, NEW k \in Keys, Attach(c, k) PROVE TypeOK'
  <2>1. Registered(c) \in MachineState
    BY CatalogAssumption DEF Registered, MachineState, EmptyPane, Panes
  <2> QED
    BY <1>0, <1>1, <2>1 DEF Attach, SignalUpdate, TypeOK
<1>2. ASSUME NEW c \in Conns, NEW seq \in 1..MaxSeq, NEW panes \in Panes,
             ApplySnapshot(c, seq, panes)
      PROVE  TypeOK'
  <2> DEFINE k == connections[c]
  <2>1. k \in Keys /\ k[1] \in Users
    BY <1>2, KeyIsPair DEF ApplySnapshot, TypeOK
  <2>2. machines[k] \in MachineState /\ machines[k].sessions \in Panes
    BY <2>1 DEF TypeOK, MachineState
  <2>3. machines' \in [Keys -> MachineState]
    <3>1. [conn |-> c, seq |-> seq, sessions |-> panes] \in MachineState
      BY CatalogAssumption DEF MachineState
    <3> QED
      BY <1>2, <2>1, <3>1 DEF ApplySnapshot, TypeOK
  <2>4. outputModes' \in [Users -> [Targets -> Modes \cup {DefaultMode}]]
    BY <1>2, <2>1, <2>2, MigratedModesType DEF ApplySnapshot, TypeOK
  <2>5. /\ selected' \in [Users -> Targets \cup {NoTarget}]
        /\ invalidated' \in [Users -> Targets \cup {NoTarget}]
    BY <1>2, <2>1 DEF ApplySnapshot, InvalidateChangedSelection, SelectionLost, TypeOK
  <2> QED
    BY <1>0, <1>2, <2>3, <2>4, <2>5 DEF ApplySnapshot, SignalUpdate, TypeOK
<1>3. ASSUME NEW c \in Conns, Detach(c) PROVE TypeOK'
  <2>1. NoMachine \in MachineState
    BY CatalogAssumption DEF NoMachine, Registered, MachineState, EmptyPane, Panes
  <2>2. connections[c] \in Keys /\ connections[c][1] \in Users
    BY <1>3, KeyIsPair DEF Detach, TypeOK
  <2>3. outputModes' \in [Users -> [Targets -> Modes \cup {DefaultMode}]]
    BY <1>3, <2>2 DEF Detach, TypeOK
  <2>4. /\ selected' \in [Users -> Targets \cup {NoTarget}]
        /\ invalidated' \in [Users -> Targets \cup {NoTarget}]
    BY <1>3, <2>2 DEF Detach, TypeOK
  <2>5. /\ numbered' \in [Users -> SUBSET Targets]
        /\ numberedValid' \in [Users -> BOOLEAN]
    BY <1>3, <2>2 DEF Detach, TypeOK
  <2>6. /\ connections' \in [Conns -> Keys \cup {NoKey}]
        /\ byKey' \in [Keys -> Conns \cup {NoConn}]
        /\ machines' \in [Keys -> MachineState]
    BY <1>3, <2>1, <2>2 DEF Detach, TypeOK
  <2> QED
    BY <1>0, <1>3, <2>3, <2>4, <2>5, <2>6 DEF Detach, SignalUpdate, TypeOK
<1>4. ASSUME NEW u \in Users, CreateNumberedSnapshot(u) PROVE TypeOK'
    BY <1>4 DEF CreateNumberedSnapshot, Entries, directory, TypeOK
<1>5. ASSUME NEW u \in Users, NEW t \in Targets, EnsureNumberedIndex(u, t)
      PROVE  TypeOK'
    BY <1>4, <1>5 DEF EnsureNumberedIndex
<1>6. ASSUME NEW u \in Users, NEW t \in Targets, SetSelection(u, t) PROVE TypeOK'
    BY <1>0, <1>6 DEF SetSelection, Choose, SignalUpdate, directory, listing, TypeOK
<1>7. ASSUME NEW u \in Users, Selected(u) PROVE TypeOK'
  <2>1. /\ selected' \in [Users -> Targets \cup {NoTarget}]
        /\ invalidated' \in [Users -> Targets \cup {NoTarget}]
    BY <1>7 DEF Selected, Choose, Entries, TypeOK
  <2> QED
    BY <1>0, <1>7, <2>1 DEF Selected, SignalUpdate, directory, listing, TypeOK
<1>8. ASSUME NEW u \in Users, NEW t \in Targets, NEW mode \in Modes,
             SetOutputMode(u, t, mode)
      PROVE  TypeOK'
    BY <1>0, <1>8 DEF SetOutputMode, SignalUpdate, directory, listing, TypeOK
<1>9. ASSUME NEW w \in Waiters, NEW op \in WaitOps, NEW u \in Users,
             NEW expected \in Targets, NEW target \in Targets,
             BeginWait(w, op, u, expected, target)
      PROVE  TypeOK'
    BY <1>9 DEF BeginWait, directory, listing, TypeOK, Wait
<1>10. ASSUME NEW w \in Waiters, EndWait(w) PROVE TypeOK'
  <2>1. waits[w].user \in Users /\ waits[w].target \in Targets
    BY <1>10 DEF EndWait, TypeOK, Wait
  <2>2. waits' \in [Waiters -> Wait \cup {NoWait}]
    BY <1>0, <1>10 DEF EndWait, TypeOK
  <2>3. /\ selected' \in [Users -> Targets \cup {NoTarget}]
        /\ invalidated' \in [Users -> Targets \cup {NoTarget}]
    BY <1>10, <2>1 DEF EndWait, Choose, TypeOK
  <2> QED
    BY <1>10, <2>2, <2>3 DEF EndWait, directory, listing, TypeOK
<1>11. ASSUME NEW w \in Waiters, Park(w) PROVE TypeOK'
  <2>1. [waits[w] EXCEPT !.phase = "parked"] \in Wait
    BY <1>11 DEF Park, TypeOK, Wait
  <2> QED
    BY <1>11, <2>1 DEF Park, directory, listing, TypeOK
<1>12. ASSUME NEW w \in Waiters, Timeout(w) PROVE TypeOK'
    BY <1>12 DEF Timeout, directory, listing, TypeOK
<1>13. CASE UNCHANGED vars
    BY <1>13 DEF vars, TypeOK
<1> QED
    BY <1>1, <1>2, <1>3, <1>4, <1>5, <1>6, <1>7, <1>8, <1>9, <1>10, <1>11,
       <1>12, <1>13 DEF Next

(* Every state of the directory is well typed: sequence numbers stay in     *)
(* range, and selections, modes and waits always name proper targets.       *)
THEOREM CatalogTypeOK == Spec => []TypeOK
<1>1. Spec => []TypeOK
    BY InitType, NextType, PTL DEF Spec
<1> QED
    BY <1>1

-----------------------------------------------------------------------------
(* The inductive invariant.                                                *)

LEMMA TargetKey ==
    ASSUME NEW u \in Users, NEW t \in Targets
    PROVE  <<u, t.machine>> \in Keys
BY DEF Keys, Targets

LEMMA VisibleIsOnline ==
    ASSUME AbsentMachines, NEW u \in Users, NEW t \in Targets, Visible(u, t)
    PROVE  Online(u, t.machine)
BY TargetKey DEF AbsentMachines, NoMachine, Registered, Visible, Lists, Online

LEMMA InitInv == Init => IInv
<1> SUFFICES ASSUME Init PROVE IInv
    OBVIOUS
<1>1. TypeOK
    BY InitType
<1>2. ConnectionIndexes
    BY DEF Init, ConnectionIndexes, NoMachine, Registered
<1>3. AbsentMachines
    BY DEF Init, AbsentMachines
<1>4. RoutingLive
    BY DEF Init, NoModes, RoutingLive, SelectionLive, InvalidatedAwaitsRebind,
           ModesLive, NumbersOfOnlineMachines
<1> QED
    BY <1>1, <1>2, <1>3, <1>4 DEF IInv

(* Only the connection side touches the directory.                         *)
LEMMA RoutingKeepsDirectory ==
    ASSUME [Next]_vars
    PROVE  \/ \E c \in Conns, k \in Keys : Attach(c, k)
           \/ \E c \in Conns, seq \in 1..MaxSeq, panes \in Panes :
                  ApplySnapshot(c, seq, panes)
           \/ \E c \in Conns : Detach(c)
           \/ UNCHANGED directory
BY DEF Next, vars, directory, CreateNumberedSnapshot, EnsureNumberedIndex,
       SetSelection, Selected, SetOutputMode, BeginWait, EndWait, Park, Timeout

LEMMA NextDirectory ==
    ASSUME IInv, [Next]_vars
    PROVE  ConnectionIndexes' /\ AbsentMachines'
<1> USE CatalogAssumption, SentinelAssumption DEF IInv, ConnectionIndexes, AbsentMachines
<1>1. ASSUME NEW c \in Conns, NEW k \in Keys, Attach(c, k)
      PROVE  ConnectionIndexes' /\ AbsentMachines'
    BY <1>1 DEF Attach, Registered, NoMachine, TypeOK
<1>2. ASSUME NEW c \in Conns, NEW seq \in 1..MaxSeq, NEW panes \in Panes,
             ApplySnapshot(c, seq, panes)
      PROVE  ConnectionIndexes' /\ AbsentMachines'
    BY <1>2 DEF ApplySnapshot, TypeOK
<1>3. ASSUME NEW c \in Conns, Detach(c)
      PROVE  ConnectionIndexes' /\ AbsentMachines'
  <2>1. /\ connections[c] \in Keys
        /\ byKey[connections[c]] = c
        /\ machines[connections[c]].conn = c
    BY <1>3 DEF Detach, TypeOK
  <2>2. /\ connections' = [connections EXCEPT ![c] = NoKey]
        /\ byKey' = [byKey EXCEPT ![connections[c]] = NoConn]
        /\ machines' = [machines EXCEPT ![connections[c]] = NoMachine]
    BY <1>3, <2>1 DEF Detach, TypeOK
  <2>3. NoMachine.conn = NoConn
    BY DEF NoMachine, Registered
  <2> QED
    BY <2>1, <2>2, <2>3 DEF TypeOK
<1>4. ASSUME UNCHANGED directory
      PROVE  ConnectionIndexes' /\ AbsentMachines'
    BY <1>4 DEF directory
<1> QED
    BY <1>1, <1>2, <1>3, <1>4, RoutingKeepsDirectory

OnlineNext(u, m) == machines'[<<u, m>>].conn # NoConn

(* What RoutingLive says of one user, so that a step is split by user.     *)
LEMMA RoutingLiveByUser ==
    RoutingLive <=>
        \A u \in Users :
            /\ selected[u] # NoTarget => Visible(u, selected[u])
            /\ invalidated[u] # NoTarget =>
                    selected[u] = NoTarget /\ Online(u, invalidated[u].machine)
            /\ \A t \in Targets : outputModes[u][t] # DefaultMode => Visible(u, t)
            /\ numberedValid[u] => \A t \in numbered[u] : Online(u, t.machine)
BY DEF RoutingLive, SelectionLive, InvalidatedAwaitsRebind, ModesLive,
       NumbersOfOnlineMachines

(* A step that leaves a key's machine alone leaves its view alone.         *)
LEMMA SameMachineSameView ==
    ASSUME NEW u \in Users, NEW t \in Targets,
           machines'[<<u, t.machine>>] = machines[<<u, t.machine>>]
    PROVE  /\ Visible(u, t) <=> VisibleNext(u, t)
           /\ Online(u, t.machine) <=> OnlineNext(u, t.machine)
BY DEF Visible, VisibleNext, Online, OnlineNext

LEMMA AttachRouting ==
    ASSUME IInv, NEW c \in Conns, NEW k \in Keys, Attach(c, k)
    PROVE  RoutingLive'
<1>1. machines[k].conn = NoConn
    BY DEF IInv, ConnectionIndexes, Attach
<1>2. /\ machines' = [machines EXCEPT ![k] = Registered(c)]
      /\ UNCHANGED <<numbered, numberedValid, selected, invalidated, outputModes>>
    BY DEF Attach
<1>3. ASSUME NEW u \in Users, NEW t \in Targets
      PROVE  /\ Visible(u, t) => VisibleNext(u, t)
             /\ Online(u, t.machine) => OnlineNext(u, t.machine)
  <2>1. CASE <<u, t.machine>> = k
    BY <1>1, <2>1, VisibleIsOnline DEF IInv, Online
  <2>2. CASE <<u, t.machine>> # k
    BY <1>2, <2>2, SameMachineSameView, TargetKey DEF IInv, TypeOK
  <2> QED
    BY <2>1, <2>2
<1> QED
    BY <1>2, <1>3
    DEF IInv, TypeOK, RoutingLive, SelectionLive, InvalidatedAwaitsRebind,
        ModesLive, NumbersOfOnlineMachines, Visible, VisibleNext, Online, OnlineNext

(* What a snapshot does to the selections.                                 *)
LEMMA SnapshotSelection ==
    ASSUME TypeOK, NEW c \in Conns, NEW seq \in 1..MaxSeq, NEW panes \in Panes,
           ApplySnapshot(c, seq, panes), NEW u \in Users
    PROVE  LET mine == u = connections[c][1] /\ SelectionLost(u)
           IN  /\ selected[u] \in Targets \cup {NoTarget}
               /\ mine => selected'[u] = NoTarget /\ invalidated'[u] = selected[u]
               /\ ~mine => selected'[u] = selected[u] /\ invalidated'[u] = invalidated[u]
<1> DEFINE v == connections[c][1]
<1>1. v \in Users
    BY KeyIsPair DEF TypeOK, ApplySnapshot
<1>2. /\ selected' = [selected EXCEPT ![v] = IF SelectionLost(v) THEN NoTarget ELSE selected[v]]
      /\ invalidated' = [invalidated EXCEPT ![v] =
                              IF SelectionLost(v) THEN selected[v] ELSE invalidated[v]]
    BY DEF ApplySnapshot, InvalidateChangedSelection
<1> QED
    BY <1>1, <1>2 DEF TypeOK

LEMMA SnapshotRouting ==
    ASSUME IInv, NEW c \in Conns, NEW seq \in 1..MaxSeq, NEW panes \in Panes,
           ApplySnapshot(c, seq, panes)
    PROVE  RoutingLive'
<1> DEFINE k == connections[c]
<1>1. k \in Keys /\ k[1] \in Users /\ k = <<k[1], k[2]>>
    BY KeyIsPair DEF IInv, TypeOK, ApplySnapshot
<1>2. /\ machines' = [machines EXCEPT ![k] = [conn |-> c, seq |-> seq, sessions |-> panes]]
      /\ machines[k].conn = c
      /\ outputModes' = [outputModes EXCEPT ![k[1]] =
                            MigratedModes(k, machines[k].sessions, panes)]
      /\ UNCHANGED <<numbered, numberedValid>>
    BY DEF ApplySnapshot
<1>0. ASSUME NEW u \in Users
      PROVE  /\ selected[u] \in Targets \cup {NoTarget}
             /\ u = k[1] /\ SelectionLost(u) =>
                    selected'[u] = NoTarget /\ invalidated'[u] = selected[u]
             /\ ~(u = k[1] /\ SelectionLost(u)) =>
                    selected'[u] = selected[u] /\ invalidated'[u] = invalidated[u]
    BY SnapshotSelection DEF IInv
<1>3. ASSUME NEW u \in Users, NEW t \in Targets, <<u, t.machine>> # k
      PROVE  /\ Visible(u, t) <=> VisibleNext(u, t)
             /\ Online(u, t.machine) <=> OnlineNext(u, t.machine)
    BY <1>1, <1>2, <1>3, SameMachineSameView, TargetKey DEF IInv, TypeOK
<1>4. ASSUME NEW u \in Users, NEW t \in Targets, Online(u, t.machine)
      PROVE  OnlineNext(u, t.machine)
    BY <1>1, <1>2, <1>3, <1>4, CatalogAssumption, TargetKey DEF IInv, TypeOK, OnlineNext
<1>5. SelectionLive'
  <2> SUFFICES ASSUME NEW u \in Users, selected'[u] # NoTarget
               PROVE  VisibleNext(u, selected'[u])
    BY DEF SelectionLive, Visible, VisibleNext
  <2>1. selected'[u] = selected[u] /\ selected[u] \in Targets
    BY <1>0
  <2>2. CASE u = k[1]
    BY <1>0, <2>1, <2>2 DEF SelectionLost
  <2>3. CASE u # k[1]
    <3>1. <<u, selected[u].machine>> # k
      BY <1>1, <2>3
    <3> QED
      BY <1>3, <2>1, <3>1 DEF IInv, RoutingLive, SelectionLive
  <2> QED
    BY <2>2, <2>3
<1>6. InvalidatedAwaitsRebind'
  <2> SUFFICES ASSUME NEW u \in Users, invalidated'[u] # NoTarget
               PROVE  selected'[u] = NoTarget /\ OnlineNext(u, invalidated'[u].machine)
    BY DEF InvalidatedAwaitsRebind, Online, OnlineNext
  <2>1. CASE u = k[1] /\ SelectionLost(u)
    <3>1. selected[u] \in Targets /\ Visible(u, selected[u])
      BY <1>0, <2>1 DEF SelectionLost, IInv, RoutingLive, SelectionLive
    <3>2. OnlineNext(u, selected[u].machine)
      BY <1>4, <3>1, VisibleIsOnline DEF IInv
    <3> QED
      BY <1>0, <2>1, <3>2
  <2>2. CASE ~(u = k[1] /\ SelectionLost(u))
    <3>1. /\ invalidated[u] \in Targets /\ selected[u] = NoTarget
          /\ Online(u, invalidated[u].machine)
      BY <1>0, <2>2 DEF IInv, TypeOK, RoutingLive, InvalidatedAwaitsRebind
    <3>2. OnlineNext(u, invalidated[u].machine)
      BY <1>4, <3>1
    <3> QED
      BY <1>0, <2>2, <3>1, <3>2
  <2> QED
    BY <2>1, <2>2
<1>7. ModesLive'
  <2> SUFFICES ASSUME NEW u \in Users, NEW t \in Targets, outputModes'[u][t] # DefaultMode
               PROVE  VisibleNext(u, t)
    BY DEF ModesLive, Visible, VisibleNext
  <2>1. CASE <<u, t.machine>> = k
    <3>1. outputModes'[u][t] = MigratedModes(k, machines[k].sessions, panes)[t]
      BY <1>1, <1>2, <2>1 DEF IInv, TypeOK
    <3>2. panes[t.slot] = t.session
      <4>1. t.machine = k[2]
        BY <1>1, <2>1
      <4>2. panes[t.slot] # t.session =>
                MigratedModes(k, machines[k].sessions, panes)[t] = DefaultMode
        BY <4>1 DEF MigratedModes
      <4> QED
        BY <3>1, <4>2
    <3>3. machines'[k] = [conn |-> c, seq |-> seq, sessions |-> panes]
      BY <1>1, <1>2 DEF IInv, TypeOK
    <3> QED
      BY <2>1, <3>2, <3>3, CatalogAssumption DEF VisibleNext, Lists
  <2>2. CASE <<u, t.machine>> # k
    <3>1. outputModes'[u][t] = outputModes[u][t]
      BY <1>1, <1>2, <2>2 DEF MigratedModes, IInv, TypeOK
    <3> QED
      BY <1>3, <2>2, <3>1 DEF IInv, RoutingLive, ModesLive
  <2> QED
    BY <2>1, <2>2
<1>8. NumbersOfOnlineMachines'
    BY <1>2, <1>4 DEF IInv, TypeOK, RoutingLive, NumbersOfOnlineMachines, Online, OnlineNext
<1> QED
    BY <1>5, <1>6, <1>7, <1>8 DEF RoutingLive

LEMMA DetachRouting ==
    ASSUME IInv, NEW c \in Conns, Detach(c)
    PROVE  RoutingLive'
<1> DEFINE k == connections[c]
           gone(t) == OnMachine(t, k[2])
<1>1. k \in Keys /\ k[1] \in Users /\ k = <<k[1], k[2]>>
    BY KeyIsPair DEF IInv, TypeOK, Detach
<1>2. ASSUME NEW j \in Keys, j # k PROVE machines'[j] = machines[j]
    BY <1>1, <1>2 DEF Detach, IInv, TypeOK
<1>3. ASSUME NEW u \in Users, NEW t \in Targets, <<u, t.machine>> # k
      PROVE  /\ Visible(u, t) => VisibleNext(u, t)
             /\ Online(u, t.machine) => OnlineNext(u, t.machine)
    BY <1>2, <1>3, TargetKey, SameMachineSameView
<1>4. ASSUME NEW u \in Users
      PROVE  /\ selected'[u] = IF u = k[1] /\ gone(selected[u]) THEN NoTarget ELSE selected[u]
             /\ invalidated'[u] =
                    IF u = k[1] /\ gone(invalidated[u]) THEN NoTarget ELSE invalidated[u]
             /\ u = k[1] => ~numberedValid'[u]
             /\ u # k[1] => numberedValid'[u] = numberedValid[u] /\ numbered'[u] = numbered[u]
             /\ \A t \in Targets : outputModes'[u][t] =
                    IF u = k[1] /\ t.machine = k[2] THEN DefaultMode ELSE outputModes[u][t]
    BY <1>1 DEF Detach, IInv, TypeOK
<1>5. ASSUME NEW u \in Users, NEW t \in Targets, ~(u = k[1] /\ t.machine = k[2])
      PROVE  <<u, t.machine>> # k
    BY <1>1, <1>5
<1>6. SelectionLive'
  <2> SUFFICES ASSUME NEW u \in Users, selected'[u] # NoTarget
               PROVE  VisibleNext(u, selected'[u])
    BY DEF SelectionLive, Visible, VisibleNext
  <2>1. /\ selected'[u] = selected[u] /\ selected[u] \in Targets
        /\ ~(u = k[1] /\ gone(selected[u]))
    BY <1>4 DEF IInv, TypeOK
  <2>2. Visible(u, selected[u])
    BY <2>1 DEF IInv, RoutingLive, SelectionLive
  <2> QED
    BY <1>3, <1>5, <2>1, <2>2 DEF OnMachine
<1>7. InvalidatedAwaitsRebind'
  <2> SUFFICES ASSUME NEW u \in Users, invalidated'[u] # NoTarget
               PROVE  selected'[u] = NoTarget /\ OnlineNext(u, invalidated'[u].machine)
    BY DEF InvalidatedAwaitsRebind, Online, OnlineNext
  <2>1. /\ invalidated'[u] = invalidated[u] /\ invalidated[u] \in Targets
        /\ ~(u = k[1] /\ gone(invalidated[u]))
    BY <1>4 DEF IInv, TypeOK
  <2>2. selected[u] = NoTarget /\ Online(u, invalidated[u].machine)
    BY <2>1 DEF IInv, RoutingLive, InvalidatedAwaitsRebind
  <2>3. selected'[u] = NoTarget
    BY <1>4, <2>2
  <2> QED
    BY <1>3, <1>5, <2>1, <2>2, <2>3 DEF OnMachine
<1>8. ModesLive'
  <2> SUFFICES ASSUME NEW u \in Users, NEW t \in Targets, outputModes'[u][t] # DefaultMode
               PROVE  VisibleNext(u, t)
    BY DEF ModesLive, Visible, VisibleNext
  <2>1. outputModes'[u][t] = outputModes[u][t] /\ ~(u = k[1] /\ t.machine = k[2])
    BY <1>4
  <2> QED
    BY <1>3, <1>5, <2>1 DEF IInv, RoutingLive, ModesLive
<1>9. NumbersOfOnlineMachines'
  <2> SUFFICES ASSUME NEW u \in Users, numberedValid'[u], NEW t \in numbered'[u]
               PROVE  OnlineNext(u, t.machine)
    BY DEF NumbersOfOnlineMachines, Online, OnlineNext
  <2>1. u # k[1] /\ numberedValid[u] /\ t \in numbered[u] /\ t \in Targets
    BY <1>4 DEF IInv, TypeOK
  <2> QED
    BY <1>3, <1>5, <2>1 DEF IInv, RoutingLive, NumbersOfOnlineMachines
<1> QED
    BY <1>6, <1>7, <1>8, <1>9 DEF RoutingLive

(* A user who chooses a visible target.                                    *)
LEMMA ChooseRouting ==
    ASSUME IInv, NEW u \in Users, NEW t \in Targets, Visible(u, t), Choose(u, t),
           UNCHANGED <<directory, listing, outputModes>>
    PROVE  RoutingLive'
<1>1. ASSUME NEW v \in Users
      PROVE  /\ selected'[v] = IF v = u THEN t ELSE selected[v]
             /\ invalidated'[v] = IF v = u THEN NoTarget ELSE invalidated[v]
    BY DEF Choose, IInv, TypeOK
<1> QED
    BY <1>1 DEF IInv, RoutingLive, SelectionLive, InvalidatedAwaitsRebind, ModesLive,
                NumbersOfOnlineMachines, Visible, Online, directory, listing

LEMMA UnchangedRouting ==
    ASSUME IInv, UNCHANGED <<directory, listing, selected, invalidated, outputModes>>
    PROVE  RoutingLive'
BY DEF IInv, RoutingLive, SelectionLive, InvalidatedAwaitsRebind, ModesLive,
       NumbersOfOnlineMachines, Visible, Online, directory, listing

LEMMA NextRouting ==
    ASSUME IInv, [Next]_vars
    PROVE  RoutingLive'
<1>1. ASSUME NEW u \in Users, CreateNumberedSnapshot(u) PROVE RoutingLive'
  <2>1. \A t \in Targets : Visible(u, t) => Online(u, t.machine)
    BY VisibleIsOnline DEF IInv
  <2>2. ASSUME NEW v \in Users, numberedValid'[v], NEW t \in numbered'[v]
        PROVE  Online(v, t.machine)
    BY <1>1, <2>1, <2>2 DEF CreateNumberedSnapshot, Entries, IInv, TypeOK,
                            RoutingLive, NumbersOfOnlineMachines
  <2> QED
    BY <1>1, <2>2 DEF CreateNumberedSnapshot, IInv, RoutingLive, SelectionLive,
        InvalidatedAwaitsRebind, ModesLive, NumbersOfOnlineMachines, Visible, Online, directory
<1>2. ASSUME NEW u \in Users, NEW t \in Targets, EnsureNumberedIndex(u, t)
      PROVE  RoutingLive'
    BY <1>1, <1>2 DEF EnsureNumberedIndex
<1>3. ASSUME NEW u \in Users, NEW t \in Targets, SetSelection(u, t) PROVE RoutingLive'
    BY <1>3, ChooseRouting DEF SetSelection
<1>4. ASSUME NEW u \in Users, Selected(u) PROVE RoutingLive'
  <2>1. PICK t \in Entries(u) : Choose(u, t)
    BY <1>4 DEF Selected, IInv, RoutingLive, SelectionLive
  <2> QED
    BY <1>4, <2>1, ChooseRouting DEF Selected, Entries
<1>5. ASSUME NEW u \in Users, NEW t \in Targets, NEW mode \in Modes, SetOutputMode(u, t, mode)
      PROVE  RoutingLive'
  <2>1. ASSUME NEW v \in Users, NEW x \in Targets, outputModes'[v][x] # DefaultMode
        PROVE  Visible(v, x)
    BY <1>5, <2>1 DEF SetOutputMode, IInv, TypeOK, RoutingLive, ModesLive
  <2> QED
    BY <1>5, <2>1 DEF SetOutputMode, IInv, RoutingLive, SelectionLive,
        InvalidatedAwaitsRebind, ModesLive, NumbersOfOnlineMachines, Visible, Online,
        directory, listing
<1>6. ASSUME NEW w \in Waiters, EndWait(w) PROVE RoutingLive'
  <2>1. CASE UNCHANGED <<selected, invalidated>>
    BY <1>6, <2>1, UnchangedRouting DEF EndWait
  <2>2. CASE Answered(waits[w]) /\ Choose(waits[w].user, waits[w].target)
    <3>1. waits[w].user \in Users /\ waits[w].target \in Targets
      BY <1>6 DEF EndWait, IInv, TypeOK, Wait
    <3> QED
      BY <1>6, <2>2, <3>1, ChooseRouting DEF EndWait, Answered
  <2> QED
    BY <1>6, <2>1, <2>2 DEF EndWait
<1>7. CASE UNCHANGED <<directory, listing, selected, invalidated, outputModes>>
    BY <1>7, UnchangedRouting
<1> QED
    BY <1>1, <1>2, <1>3, <1>4, <1>5, <1>6, <1>7, AttachRouting, SnapshotRouting,
       DetachRouting
    DEF Next, vars, BeginWait, Park, Timeout, directory, listing

LEMMA NextInv == IInv /\ [Next]_vars => IInv'
BY NextType, NextDirectory, NextRouting DEF IInv

LEMMA SpecInv == Spec => []IInv
<1>1. Spec => []IInv
    BY InitInv, NextInv, PTL DEF Spec
<1> QED
    BY <1>1

(* One live connection per (user, machine), in every history of attaches,   *)
(* snapshots and detaches.                                                  *)
THEOREM CatalogIndexes == Spec => []ConnectionIndexes
<1>1. IInv => ConnectionIndexes
    BY DEF IInv
<1> QED
    BY <1>1, SpecInv, PTL

(* A selection, a taken-away selection, an output mode and a number always  *)
(* refer to what the directory shows now.                                   *)
THEOREM CatalogRoutingLive == Spec => []RoutingLive
<1>1. IInv => RoutingLive
    BY DEF IInv
<1> QED
    BY <1>1, SpecInv, PTL

-----------------------------------------------------------------------------
(* Wakeups.                                                                *)

ParkedWait(w) == waits[w] # NoWait /\ waits[w].phase = "parked"

(* After a signal nobody is parked.                                        *)
LEMMA SignalWakesAll ==
    ASSUME TypeOK, SignalUpdate, NEW w \in Waiters
    PROVE  ~ParkedWait(w)'
<1>1. waits'[w] = IF ParkedWait(w) THEN [waits[w] EXCEPT !.phase = "woken"] ELSE waits[w]
    BY DEF SignalUpdate, Signalled, ParkedWait
<1>2. CASE ParkedWait(w)
  <2>1. waits[w] \in Wait
    BY <1>2 DEF TypeOK, ParkedWait
  <2>2. [waits[w] EXCEPT !.phase = "woken"].phase = "woken"
    BY <2>1 DEF Wait
  <2> QED
    BY <1>1, <1>2, <2>2 DEF ParkedWait
<1>3. CASE ~ParkedWait(w)
    BY <1>1, <1>3 DEF ParkedWait
<1> QED
    BY <1>2, <1>3

Asleep(w) == ~Refused(waits[w]) /\ ~Visible(waits[w].user, waits[w].target)

LEMMA NoLostWakeupByWaiter ==
    NoLostWakeup <=> \A w \in Waiters : ParkedWait(w) => Asleep(w)
BY DEF NoLostWakeup, ParkedWait, Asleep

(* A step that neither shows nor chooses anything keeps sleepers asleep.   *)
LEMMA QuietStep ==
    ASSUME TypeOK, NoLostWakeup, UNCHANGED <<directory, selected, invalidated>>,
           NEW w \in Waiters, ParkedWait(w)', waits'[w] = waits[w]
    PROVE  Asleep(w)'
<1>1. ParkedWait(w) /\ Asleep(w)
    BY NoLostWakeupByWaiter DEF ParkedWait
<1> QED
    BY <1>1 DEF Asleep, Refused, RebindAllowed, Visible, Online, directory

LEMMA NextWakeup ==
    ASSUME TypeOK, NoLostWakeup, [Next]_vars
    PROVE  NoLostWakeup'
<1> SUFFICES ASSUME NEW w \in Waiters, ParkedWait(w)' PROVE Asleep(w)'
    BY DEF NoLostWakeup, ParkedWait, Asleep
<1>1. ~SignalUpdate
    BY SignalWakesAll
<1>2. CASE UNCHANGED <<directory, selected, invalidated>> /\ waits'[w] = waits[w]
    BY <1>2, QuietStep
<1>3. ASSUME NEW v \in Waiters, NEW op \in WaitOps, NEW u \in Users,
             NEW expected \in Targets, NEW target \in Targets,
             BeginWait(v, op, u, expected, target)
      PROVE  waits'[w] = waits[w] /\ UNCHANGED <<directory, selected, invalidated>>
    BY <1>3 DEF BeginWait, TypeOK, ParkedWait
<1>4. ASSUME NEW v \in Waiters, EndWait(v)
      PROVE  waits'[w] = waits[w] /\ UNCHANGED <<directory, selected, invalidated>>
  <2>1. CASE waits' = [waits EXCEPT ![v] = NoWait] /\ UNCHANGED <<selected, invalidated>>
    BY <1>4, <2>1 DEF EndWait, TypeOK, ParkedWait
  <2>2. CASE waits' = [Signalled EXCEPT ![v] = NoWait]
    <3>1. w # v /\ waits'[w] = Signalled[w]
      BY <1>4, <2>2, SignalledType DEF EndWait, ParkedWait
    <3>2. waits'[w] = IF ParkedWait(w) THEN [waits[w] EXCEPT !.phase = "woken"] ELSE waits[w]
      BY <3>1 DEF Signalled, ParkedWait
    <3>3. CASE ParkedWait(w)
      <4>1. waits[w] \in Wait
        BY <3>3 DEF TypeOK, ParkedWait
      <4>2. [waits[w] EXCEPT !.phase = "woken"].phase = "woken"
        BY <4>1 DEF Wait
      <4> QED
        BY <3>2, <3>3, <4>2 DEF ParkedWait
    <3> QED
      BY <3>2, <3>3 DEF ParkedWait
  <2> QED
    BY <1>4, <2>1, <2>2 DEF EndWait
<1>5. ASSUME NEW v \in Waiters, Park(v) PROVE Asleep(w)'
  <2>1. CASE v = w
    <3>1. /\ waits[w] \in Wait
          /\ waits'[w] = [waits[w] EXCEPT !.phase = "parked"]
      BY <1>5, <2>1 DEF Park, TypeOK
    <3>2. /\ waits'[w].op = waits[w].op
          /\ waits'[w].user = waits[w].user
          /\ waits'[w].expected = waits[w].expected
          /\ waits'[w].target = waits[w].target
      BY <3>1 DEF Wait
    <3>3. Asleep(w)
      BY <1>5, <2>1 DEF Park, Asleep, Answered
    <3> QED
      BY <1>5, <3>2, <3>3 DEF Park, Asleep, Refused, RebindAllowed, Visible, Online, directory
  <2>2. CASE v # w
    BY <1>2, <1>5, <2>2 DEF Park, TypeOK
  <2> QED
    BY <2>1, <2>2
<1>6. ASSUME NEW v \in Waiters, Timeout(v)
      PROVE  waits'[w] = waits[w] /\ UNCHANGED <<directory, selected, invalidated>>
    BY <1>6 DEF Timeout, TypeOK, ParkedWait
<1>7. ASSUME NEW u \in Users, CreateNumberedSnapshot(u)
      PROVE  waits'[w] = waits[w] /\ UNCHANGED <<directory, selected, invalidated>>
    BY <1>7 DEF CreateNumberedSnapshot
<1> QED
    BY <1>1, <1>2, <1>3, <1>4, <1>5, <1>6, <1>7
    DEF Next, vars, directory, Attach, ApplySnapshot, Detach, SetSelection, Selected,
        SetOutputMode, EnsureNumberedIndex

(* Nobody sleeps through the snapshot, disconnect or selection it waits for.*)
THEOREM CatalogNoLostWakeup == Spec => []NoLostWakeup
<1>1. Init => NoLostWakeup
    BY DEF Init, NoLostWakeup
<1>2. TypeOK /\ NoLostWakeup /\ [Next]_vars => NoLostWakeup'
    BY NextWakeup
<1> QED
    BY <1>1, <1>2, CatalogTypeOK, PTL DEF Spec

-----------------------------------------------------------------------------
(* Selections.                                                             *)

(* RebindSelection refuses a replacement in another pane at the door.      *)
RebindsInPlace ==
    \A w \in Waiters : waits[w] # NoWait => SameSlot(waits[w].expected, waits[w].target)

LEMMA SignalledKeepsTargets ==
    ASSUME TypeOK, NEW w \in Waiters, waits[w] # NoWait
    PROVE  /\ Signalled[w].expected = waits[w].expected
           /\ Signalled[w].target = waits[w].target
<1>1. waits[w] \in Wait
    BY DEF TypeOK
<1>2. /\ [waits[w] EXCEPT !.phase = "woken"].expected = waits[w].expected
      /\ [waits[w] EXCEPT !.phase = "woken"].target = waits[w].target
    BY <1>1 DEF Wait
<1> QED
    BY <1>2 DEF Signalled

LEMMA NextRebindsInPlace ==
    ASSUME TypeOK, RebindsInPlace, [Next]_vars
    PROVE  RebindsInPlace'
<1> SUFFICES ASSUME NEW w \in Waiters, waits'[w] # NoWait
             PROVE  SameSlot(waits'[w].expected, waits'[w].target)
    BY DEF RebindsInPlace
<1>1. CASE waits' = Signalled
  <2>1. waits[w] # NoWait
    BY <1>1 DEF Signalled
  <2> QED
    BY <1>1, <2>1, SignalledKeepsTargets DEF RebindsInPlace, SameSlot
<1>2. CASE waits'[w] = waits[w]
    BY <1>2 DEF RebindsInPlace
<1>3. ASSUME NEW v \in Waiters, NEW op \in WaitOps, NEW u \in Users,
             NEW expected \in Targets, NEW target \in Targets,
             BeginWait(v, op, u, expected, target)
      PROVE  SameSlot(waits'[w].expected, waits'[w].target)
  <2>1. CASE v = w
    BY <1>3, <2>1 DEF BeginWait, TypeOK, SameSlot
  <2>2. CASE v # w
    BY <1>2, <1>3, <2>2 DEF BeginWait, TypeOK
  <2> QED
    BY <2>1, <2>2
<1>4. ASSUME NEW v \in Waiters, EndWait(v)
      PROVE  waits'[w] = waits[w] \/ (waits[w] # NoWait /\ waits'[w] = Signalled[w])
  <2>1. w # v
    BY <1>4, SignalledType DEF EndWait, TypeOK
  <2> QED
    BY <1>4, <2>1, SignalledType DEF EndWait, TypeOK, Signalled
<1>5. ASSUME NEW v \in Waiters, Park(v)
      PROVE  SameSlot(waits'[w].expected, waits'[w].target)
  <2>1. CASE v = w
    <3>1. waits[w] \in Wait /\ waits'[w] = [waits[w] EXCEPT !.phase = "parked"]
      BY <1>5, <2>1 DEF Park, TypeOK
    <3>2. waits'[w].expected = waits[w].expected /\ waits'[w].target = waits[w].target
      BY <3>1 DEF Wait
    <3> QED
      BY <1>5, <2>1, <3>2 DEF Park, RebindsInPlace, SameSlot
  <2>2. CASE v # w
    BY <1>2, <1>5, <2>2 DEF Park, TypeOK
  <2> QED
    BY <2>1, <2>2
<1>6. ASSUME NEW v \in Waiters, Timeout(v) PROVE waits'[w] = waits[w]
    BY <1>6 DEF Timeout, TypeOK
<1>7. ASSUME NEW v \in Waiters, EndWait(v)
      PROVE  SameSlot(waits'[w].expected, waits'[w].target)
    BY <1>2, <1>4, <1>7, SignalledKeepsTargets DEF RebindsInPlace, SameSlot
<1> QED
    BY <1>1, <1>2, <1>3, <1>5, <1>6, <1>7
    DEF Next, vars, Attach, ApplySnapshot, Detach, SetSelection, Selected, SignalUpdate,
        SetOutputMode, EnsureNumberedIndex, CreateNumberedSnapshot

LEMMA SpecRebindsInPlace == Spec => []RebindsInPlace
<1>1. Init => RebindsInPlace
    BY DEF Init, RebindsInPlace
<1>2. TypeOK /\ RebindsInPlace /\ [Next]_vars => RebindsInPlace'
    BY NextRebindsInPlace
<1> QED
    BY <1>1, <1>2, CatalogTypeOK, PTL DEF Spec

(* What SelectionStable demands of one step and one user.                  *)
StableStep(u) ==
    \/ selected[u] = NoTarget \/ selected'[u] = selected[u]
    \/ selected'[u] = NoTarget /\ ~VisibleNext(u, selected[u])
    \/ SetSelection(u, selected'[u])
    \/ \E w \in Waiters : EndWait(w) /\ waits[w].user = u /\ waits[w].op = "select"

LEMMA StableSteps ==
    ASSUME IInv, RebindsInPlace, [Next]_vars, NEW u \in Users
    PROVE  StableStep(u)
<1>1. CASE selected' = selected
    BY <1>1 DEF StableStep
<1>2. ASSUME NEW c \in Conns, NEW seq \in 1..MaxSeq, NEW panes \in Panes,
             ApplySnapshot(c, seq, panes)
      PROVE  StableStep(u)
  <2>1. CASE u = connections[c][1] /\ SelectionLost(u)
    <3>1. selected'[u] = NoTarget
      BY <1>2, <2>1, SnapshotSelection DEF IInv
    <3> QED
      BY <2>1, <3>1 DEF StableStep, SelectionLost
  <2>2. CASE ~(u = connections[c][1] /\ SelectionLost(u))
    <3>1. selected'[u] = selected[u]
      BY <1>2, <2>2, SnapshotSelection DEF IInv
    <3> QED
      BY <3>1 DEF StableStep
  <2> QED
    BY <2>1, <2>2
<1>3. ASSUME NEW c \in Conns, Detach(c) PROVE StableStep(u)
  <2> SUFFICES ASSUME selected[u] # NoTarget, selected'[u] # selected[u]
               PROVE  selected'[u] = NoTarget /\ ~VisibleNext(u, selected[u])
    BY DEF StableStep
  <2> DEFINE k == connections[c]
  <2>1. k \in Keys /\ k = <<k[1], k[2]>> /\ machines[k].conn = c
    BY <1>3, KeyIsPair DEF Detach, IInv, TypeOK, ConnectionIndexes
  <2>2. selected'[u] = NoTarget /\ u = k[1] /\ selected[u].machine = k[2]
    BY <1>3, <2>1 DEF Detach, OnMachine, IInv, TypeOK
  <2>3. machines'[k] = NoMachine
    BY <1>3, <2>1 DEF Detach, IInv, TypeOK
  <2> QED
    BY <2>1, <2>2, <2>3 DEF VisibleNext, Lists, NoMachine, Registered
<1>4. ASSUME NEW v \in Users, NEW t \in Targets, SetSelection(v, t) PROVE StableStep(u)
  <2>1. selected'[u] = IF u = v THEN t ELSE selected[u]
    BY <1>4 DEF SetSelection, Choose, IInv, TypeOK
  <2> QED
    BY <1>4, <2>1 DEF StableStep
<1>5. ASSUME NEW v \in Users, Selected(v) PROVE StableStep(u)
  <2>1. selected[v] = NoTarget
    BY <1>5 DEF Selected, IInv, RoutingLive, SelectionLive
  <2>2. u # v => selected'[u] = selected[u]
    BY <1>5 DEF Selected, Choose, IInv, TypeOK
  <2> QED
    BY <2>1, <2>2 DEF StableStep
<1>6. ASSUME NEW w \in Waiters, EndWait(w) PROVE StableStep(u)
  <2> DEFINE wait == waits[w]
  <2>1. CASE wait.op # "target" /\ Answered(wait) /\ Choose(wait.user, wait.target)
    <3>1. /\ wait.op \in WaitOps /\ wait.user \in Users
          /\ wait.expected \in Targets /\ wait.target \in Targets
          /\ SameSlot(wait.expected, wait.target)
      BY <1>6 DEF EndWait, IInv, TypeOK, Wait, RebindsInPlace
    <3>2. selected'[u] = IF u = wait.user THEN wait.target ELSE selected[u]
      BY <2>1, <3>1 DEF Choose, IInv, TypeOK
    <3>3. CASE wait.op = "select"
      BY <1>6, <3>2, <3>3 DEF StableStep
    <3>4. CASE wait.op = "rebind" /\ u = wait.user /\ selected[u] # NoTarget
      <4>1. selected[u] \in {wait.expected, wait.target}
        BY <2>1, <3>4 DEF Answered, Refused, RebindAllowed
      <4>2. Visible(u, selected[u]) /\ Visible(u, wait.target)
        BY <2>1, <3>4 DEF Answered, IInv, RoutingLive, SelectionLive
      <4>3. selected[u] = wait.expected => wait.expected = wait.target
        BY <3>1, <4>2 DEF Visible, Lists, SameSlot, Targets
      <4> QED
        BY <3>2, <3>4, <4>1, <4>3 DEF StableStep
    <3> QED
      BY <2>1, <3>1, <3>2, <3>3, <3>4 DEF StableStep, WaitOps
  <2> QED
    BY <1>1, <1>6, <2>1 DEF EndWait
<1> QED
    BY <1>1, <1>2, <1>3, <1>4, <1>5, <1>6
    DEF Next, vars, Attach, CreateNumberedSnapshot, EnsureNumberedIndex, SetOutputMode,
        BeginWait, Park, Timeout

(* A selection moves only by an explicit selection of its user and is       *)
(* dropped only when its target has gone.                                   *)
THEOREM CatalogSelectionStable == Spec => SelectionStable
<1>1. IInv /\ RebindsInPlace /\ [Next]_vars =>
        [\A u \in Users : selected[u] # NoTarget /\ selected'[u] # selected[u] =>
          \/ selected'[u] = NoTarget /\ ~VisibleNext(u, selected[u])
          \/ SetSelection(u, selected'[u])
          \/ \E w \in Waiters :
                EndWait(w) /\ waits[w].user = u /\ waits[w].op = "select"]_vars
    BY StableSteps DEF StableStep
<1> QED
    BY <1>1, SpecInv, SpecRebindsInPlace, PTL DEF Spec, SelectionStable

-----------------------------------------------------------------------------
(* Output modes.                                                           *)

(* What ModeFollowsSlot demands of one step and one mode.                  *)
ModeStep(u, t) ==
    LET k == <<u, t.machine>>
        next == Occupied(t, machines'[k].sessions[t.slot])
    IN  \/ next.session = Vacant
        \/ machines'[k].conn # machines[k].conn
        \/ outputModes'[u][next] = outputModes[u][t]
        \/ \E mode \in Modes : SetOutputMode(u, next, mode)

(* A mode that is kept where nobody comes or goes.                         *)
LEMMA ModeStays ==
    ASSUME NEW u \in Users, NEW t \in Targets, Visible(u, t),
           machines'[<<u, t.machine>>] = machines[<<u, t.machine>>],
           outputModes'[u][t] = outputModes[u][t]
    PROVE  ModeStep(u, t)
<1>1. machines'[<<u, t.machine>>].sessions[t.slot] = t.session
    BY DEF Visible, Lists
<1>2. Occupied(t, t.session) = t
    BY DEF Occupied, Targets
<1> QED
    BY <1>1, <1>2 DEF ModeStep

LEMMA ModeSteps ==
    ASSUME IInv, [Next]_vars, NEW u \in Users, NEW t \in Targets, outputModes[u][t] # DefaultMode
    PROVE  ModeStep(u, t)
<1> DEFINE k == <<u, t.machine>>
<1>1. k \in Keys /\ Visible(u, t) /\ machines[k].conn # NoConn
    BY TargetKey, VisibleIsOnline DEF IInv, RoutingLive, ModesLive, Online
<1>2. /\ machines[k].sessions[t.slot] = t.session /\ t.session \in Sessions /\ t.slot \in Slots
      /\ t.machine \in Machines
    BY <1>1 DEF Visible, Lists, Targets
<1>3. CASE UNCHANGED <<machines, outputModes>>
    BY <1>1, <1>3, ModeStays
<1>4. ASSUME NEW c \in Conns, NEW q \in Keys, Attach(c, q) PROVE ModeStep(u, t)
  <2>1. q # k
    BY <1>1, <1>4 DEF Attach, IInv, ConnectionIndexes
  <2>2. machines'[k] = machines[k] /\ UNCHANGED outputModes
    BY <1>1, <1>4, <2>1 DEF Attach, IInv, TypeOK
  <2> QED
    BY <1>1, <2>2, ModeStays
<1>5. ASSUME NEW c \in Conns, NEW seq \in 1..MaxSeq, NEW panes \in Panes, ApplySnapshot(c, seq, panes)
      PROVE  ModeStep(u, t)
  <2> DEFINE q == connections[c]
  <2>1. /\ q \in Keys /\ q[1] \in Users /\ q = <<q[1], q[2]>> /\ machines[q].conn = c
        /\ machines' = [machines EXCEPT ![q] = [conn |-> c, seq |-> seq, sessions |-> panes]]
        /\ outputModes' = [outputModes EXCEPT ![q[1]] = MigratedModes(q, machines[q].sessions, panes)]
    BY <1>5, KeyIsPair DEF ApplySnapshot, IInv, TypeOK
  <2>2. outputModes'[u] = IF u = q[1] THEN MigratedModes(q, machines[q].sessions, panes) ELSE outputModes[u]
    BY <2>1 DEF IInv, TypeOK
  <2>3. machines'[k] = IF k = q THEN [conn |-> c, seq |-> seq, sessions |-> panes] ELSE machines[k]
    BY <1>1, <2>1 DEF IInv, TypeOK
  <2>4. CASE k = q
    <3> DEFINE next == Occupied(t, panes[t.slot])
    <3>1. u = q[1] /\ t.machine = q[2]
      BY <2>1, <2>4
    <3>2. panes[t.slot] \in Sessions \cup {Vacant} /\ machines'[k].sessions[t.slot] = panes[t.slot]
      BY <1>2, <2>3, <2>4 DEF Panes
    <3>3. CASE panes[t.slot] = Vacant
      BY <3>2, <3>3 DEF ModeStep, Occupied
    <3>4. CASE panes[t.slot] # Vacant
      <4>1. /\ next \in Targets /\ next.machine = t.machine /\ next.slot = t.slot
            /\ next.session = panes[t.slot] /\ Occupied(next, t.session) = t
        BY <1>2, <3>2, <3>4 DEF Occupied, Targets
      <4>2. machines[q].sessions[next.slot] = t.session /\ t.session # Vacant
        BY <1>2, <2>4, <4>1, CatalogAssumption
      <4>3. MigratedModes(q, machines[q].sessions, panes)[next] = outputModes[u][t]
        BY <3>1, <4>1, <4>2 DEF MigratedModes
      <4> QED
        BY <2>2, <3>1, <3>2, <4>3 DEF ModeStep
    <3> QED
      BY <3>3, <3>4
  <2>5. CASE k # q
    <3>1. CASE u = q[1]
      <4>1. t.machine # q[2]
        BY <2>1, <2>5, <3>1
      <4>2. outputModes'[u][t] = outputModes[u][t]
        BY <2>2, <3>1, <4>1 DEF MigratedModes
      <4> QED
        BY <1>1, <2>3, <2>5, <4>2, ModeStays
    <3>2. CASE u # q[1]
      BY <1>1, <2>2, <2>3, <2>5, <3>2, ModeStays
    <3> QED
      BY <3>1, <3>2
  <2> QED
    BY <2>4, <2>5
<1>6. ASSUME NEW c \in Conns, Detach(c) PROVE ModeStep(u, t)
  <2> DEFINE q == connections[c]
             modes == [x \in Targets |-> IF x.machine = q[2] THEN DefaultMode ELSE outputModes[q[1]][x]]
  <2>1. /\ q \in Keys /\ q[1] \in Users /\ q = <<q[1], q[2]>> /\ machines[q].conn = c
        /\ machines' = [machines EXCEPT ![q] = NoMachine]
    BY <1>6, KeyIsPair DEF Detach, IInv, TypeOK, ConnectionIndexes
  <2>2. outputModes' = [outputModes EXCEPT ![q[1]] = modes]
    BY <1>6, <2>1 DEF Detach
  <2>3. outputModes'[u] = IF u = q[1] THEN modes ELSE outputModes[u]
    BY <2>1, <2>2 DEF IInv, TypeOK
  <2>4. machines'[k] = IF k = q THEN NoMachine ELSE machines[k]
    BY <1>1, <2>1 DEF IInv, TypeOK
  <2>5. CASE k = q
    <3>1. machines'[k].conn = NoConn
      BY <2>4, <2>5 DEF NoMachine, Registered
    <3> QED
      BY <1>1, <3>1 DEF ModeStep
  <2>6. CASE k # q
    <3>1. outputModes'[u][t] = outputModes[u][t]
      BY <2>1, <2>3, <2>6
    <3> QED
      BY <1>1, <2>4, <2>6, <3>1, ModeStays
  <2> QED
    BY <2>5, <2>6
<1>7. ASSUME NEW v \in Users, NEW x \in Targets, NEW mode \in Modes, SetOutputMode(v, x, mode)
      PROVE  ModeStep(u, t)
  <2>1. UNCHANGED machines
    BY <1>7 DEF SetOutputMode, directory
  <2>2. CASE v = u /\ x = t
    <3>1. Occupied(t, machines'[k].sessions[t.slot]) = t
      BY <1>2, <2>1 DEF Occupied, Targets
    <3> QED
      BY <1>7, <2>2, <3>1 DEF ModeStep
  <2>3. CASE ~(v = u /\ x = t)
    <3>1. outputModes'[u][t] = outputModes[u][t]
      BY <1>7, <2>3 DEF SetOutputMode, IInv, TypeOK
    <3> QED
      BY <1>1, <2>1, <3>1, ModeStays
  <2> QED
    BY <2>2, <2>3
<1> QED
    BY <1>3, <1>4, <1>5, <1>6, <1>7
    DEF Next, vars, directory, listing, CreateNumberedSnapshot, EnsureNumberedIndex, SetSelection, Selected,
        BeginWait, EndWait, Park, Timeout

(* An explicit mode stays with its pane, whoever occupies it next, until    *)
(* the pane is vacated, the machine leaves or its user sets another.        *)
THEOREM CatalogModeFollowsSlot == Spec => ModeFollowsSlot
<1>1. IInv /\ [Next]_vars =>
        [\A u \in Users, t \in Targets :
          outputModes[u][t] # DefaultMode =>
              LET k == <<u, t.machine>>
                  next == Occupied(t, machines'[k].sessions[t.slot])
              IN  \/ next.session = Vacant
                  \/ machines'[k].conn # machines[k].conn
                  \/ outputModes'[u][next] = outputModes[u][t]
                  \/ \E mode \in Modes : SetOutputMode(u, next, mode)]_vars
    BY ModeSteps DEF ModeStep
<1> QED
    BY <1>1, SpecInv, PTL DEF Spec, ModeFollowsSlot

(* The directory agrees with itself whatever snapshots, disconnects and     *)
(* commands of any users come in between (CatalogConsistent).               *)
THEOREM CatalogConsistentHolds == Spec => []CatalogConsistent
<1> QED
    BY CatalogTypeOK, CatalogIndexes, CatalogRoutingLive, CatalogNoLostWakeup, PTL DEF CatalogConsistent

----------------------------------------------------------------------------
(* Commands and pushed messages (ConversationRouter).                      *)
RouterSteps ==
    {"idle", "number", "resolveNumber", "resolveSelection", "lookBefore", "relaySelect", "setSelection",
     "setMode", "confirm", "execute", "await", "awaitTarget", "lookUp", "header", "mark", "resolveTarget",
     "announce", "fetch", "reply"}
RouterTasks ==
    [kind : Kinds \cup {"none"}, step : RouterSteps, target : Targets \cup {NoTarget},
     before : Targets \cup {NoTarget}, said : {"nothing", "notSwitched", "switched"}]

Switching == {"select", "switch", "switchMode"}
Untargeted == {"idle", "number", "resolveSelection", "mark", "reply"}

(* Which commands are at which steps.                                      *)
CommandFits(u) ==
    LET kind == task[u].kind
        step == task[u].step
    IN  /\ step \notin Untargeted => task[u].target \in Targets
        /\ step # "reply" => task[u].said = "nothing"
        /\ step \in {"number", "resolveSelection", "resolveTarget", "announce", "fetch"} => kind \notin Switching
        /\ step = "resolveNumber" => kind \in ByNumber
        /\ step = "relaySelect" => kind = "select"
        /\ step = "setMode" => kind \notin {"select", "switch"}
        /\ step = "setSelection" => kind \in Switching
        /\ step = "confirm" => kind = "switchMode"
        /\ step \in {"execute", "await", "header"} => kind # "switchMode"
        /\ step \in {"lookBefore", "awaitTarget"} => kind \in {"directed", "switch"}
        /\ step = "lookUp" => kind \notin {"directed", "switch", "switchMode"}

(* Who waits on the directory waits for the target of the task.            *)
WaitFits(u) ==
    /\ task[u].step = "await" <=> waits[u] # NoWait
    /\ waits[u] # NoWait =>
          /\ waits[u].user = u /\ waits[u].target = task[u].target
          /\ waits[u].op = "select" => task[u].kind = "switch"
          /\ waits[u].op = "rebind" => task[u].kind # "switch"

(* The selection has been moved, or is as it was.                          *)
Moved(u) ==
    LET kind == task[u].kind
        step == task[u].step
    IN  \/ kind = "select" /\ step \in {"execute", "await", "lookUp", "header"}
        \/ kind = "switchMode" /\ step = "confirm"
        \/ kind = "switch" /\ step \in {"awaitTarget", "header"}
        \/ kind = "switch" /\ step = "await" /\ waits[u].op = "target"
Unmoved(u) == task[u].kind \in Switching /\ task[u].step \notin {"mark", "reply"} /\ ~Moved(u)

SelectionFits(u) ==
    selected[u] # NoTarget =>
        /\ Unmoved(u) => selected[u] = task[u].before
        /\ Moved(u) => SameSlot(selected[u], task[u].target)
        /\ task[u].said = "notSwitched" /\ SameSlot(selected[u], task[u].target)
               => InPane(task[u].before, task[u].target)
        /\ task[u].said = "switched" => SameSlot(selected[u], task[u].target)

RouterInv ==
    /\ IInv /\ RebindsInPlace /\ task \in [Users -> RouterTasks]
    /\ \A u \in Users : CommandFits(u) /\ WaitFits(u) /\ SelectionFits(u)

(* A task at its next step, or at its reply.                               *)
LEMMA GoToMoves ==
    ASSUME task \in [Users -> RouterTasks], NEW u \in Users, NEW step \in RouterSteps, GoTo(u, step)
    PROVE  /\ task' \in [Users -> RouterTasks] /\ \A v \in Users : v # u => task'[v] = task[v]
           /\ task'[u].step = step /\ task'[u].kind = task[u].kind /\ task'[u].target = task[u].target
           /\ task'[u].before = task[u].before /\ task'[u].said = task[u].said
<1>1. task[u] \in RouterTasks /\ task'[u] = [task[u] EXCEPT !.step = step]
    BY DEF GoTo
<1>2. task'[u] \in RouterTasks
    BY <1>1 DEF RouterTasks
<1> QED
    BY <1>1, <1>2 DEF GoTo, RouterTasks

LEMMA SayMoves ==
    ASSUME task \in [Users -> RouterTasks], NEW u \in Users,
           NEW claim \in {"nothing", "notSwitched", "switched"}, Say(u, claim)
    PROVE  /\ task' \in [Users -> RouterTasks] /\ \A v \in Users : v # u => task'[v] = task[v]
           /\ task'[u].step = "reply" /\ task'[u].kind = task[u].kind /\ task'[u].target = task[u].target
           /\ task'[u].before = task[u].before /\ task'[u].said = claim
<1>1. task[u] \in RouterTasks /\ task'[u] = [task[u] EXCEPT !.step = "reply", !.said = claim]
    BY DEF Say
<1>2. task'[u] \in RouterTasks
    BY <1>1 DEF RouterTasks, RouterSteps
<1> QED
    BY <1>1, <1>2 DEF Say, RouterTasks

LEMMA FailMoves ==
    ASSUME task \in [Users -> RouterTasks], NEW u \in Users, Fail(u)
    PROVE  /\ task' \in [Users -> RouterTasks] /\ \A v \in Users : v # u => task'[v] = task[v]
           /\ task'[u].step = "reply" /\ task'[u].kind = task[u].kind /\ task'[u].target = task[u].target
           /\ task'[u].before = task[u].before
           /\ task'[u].said = IF task[u].kind \in Switching THEN "notSwitched" ELSE "nothing"
<1> DEFINE claim == IF task[u].kind \in Switching THEN "notSwitched" ELSE "nothing"
<1>1. Say(u, claim) /\ claim \in {"nothing", "notSwitched", "switched"}
    BY DEF Fail, KindIn, Switching
<1> HIDE DEF claim
<1> QED
    BY <1>1, SayMoves DEF claim

(* A wait that may have been woken, and a call of the catalog of one user. *)
WaitKept(u) ==
    /\ waits'[u] = NoWait <=> waits[u] = NoWait
    /\ waits[u] # NoWait =>
          waits'[u].user = waits[u].user /\ waits'[u].op = waits[u].op /\ waits'[u].target = waits[u].target

CatalogOf(u) ==
    \/ UNCHANGED catalogVars \/ CreateNumberedSnapshot(u) \/ Selected(u)
    \/ \E t \in Targets : EnsureNumberedIndex(u, t) \/ SetSelection(u, t)
    \/ \E t \in Targets : \E mode \in Modes : SetOutputMode(u, t, mode)
    \/ \E op \in WaitOps : \E expected, target \in Targets : BeginWait(u, op, u, expected, target)
    \/ EndWait(u) \/ Park(u) \/ Timeout(u)

LEMMA WaitersAreUsers == Waiters = Users
BY RouterAssumption

LEMMA SignalKeepsWaits ==
    ASSUME TypeOK, NEW u \in Users, waits'[u] = Signalled[u]
    PROVE  WaitKept(u)
<1>1. waits[u] \in Wait \cup {NoWait}
    BY WaitersAreUsers DEF TypeOK
<1>2. Signalled[u] = IF waits[u] # NoWait /\ waits[u].phase = "parked"
                     THEN [waits[u] EXCEPT !.phase = "woken"] ELSE waits[u]
    BY WaitersAreUsers DEF Signalled
<1>3. CASE waits[u] # NoWait /\ waits[u].phase = "parked"
  <2>1. waits'[u] = [waits[u] EXCEPT !.phase = "woken"] /\ waits[u] \in Wait
    BY <1>1, <1>2, <1>3
  <2>2. [waits[u] EXCEPT !.phase = "woken"] # NoWait
    <3>1. [waits[u] EXCEPT !.phase = "woken"] \in Wait
      BY <2>1 DEF Wait
    <3> QED
      BY <3>1, RouterAssumption
  <2> QED
    BY <1>3, <2>1, <2>2 DEF WaitKept, Wait
<1>4. CASE ~(waits[u] # NoWait /\ waits[u].phase = "parked")
    BY <1>2, <1>4 DEF WaitKept
<1> QED
    BY <1>3, <1>4

(* Calls of the catalog are SessionCatalog's steps, and leave other users   *)
(* alone.                                                                  *)
LEMMA CatalogOfSteps ==
    ASSUME NEW u \in Users, CatalogOf(u)
    PROVE  [Next]_vars
BY WaitersAreUsers DEF CatalogOf, Next, catalogVars

LEMMA OtherUsersKept ==
    ASSUME TypeOK, NEW u \in Users, CatalogOf(u), waits[u] # NoWait => waits[u].user = u,
           NEW v \in Users, v # u
    PROVE  selected'[v] = selected[v] /\ WaitKept(v)
<1>1. CASE UNCHANGED <<selected, waits>>
    BY <1>1 DEF WaitKept
<1>2. CASE \E t \in Targets : SetSelection(u, t) \/ EnsureNumberedIndex(u, t)
  <2>1. CASE \E t \in Targets : EnsureNumberedIndex(u, t)
    BY <1>1, <2>1 DEF EnsureNumberedIndex, CreateNumberedSnapshot
  <2>2. CASE \E t \in Targets : SetSelection(u, t)
    <3>1. selected'[v] = selected[v] /\ SignalUpdate
      BY <2>2 DEF SetSelection, Choose, TypeOK
    <3> QED
      BY <3>1, SignalKeepsWaits DEF SignalUpdate
  <2> QED
    BY <1>2, <2>1, <2>2
<1>3. CASE Selected(u)
  <2>1. selected'[v] = selected[v] /\ SignalUpdate
    BY <1>3 DEF Selected, Choose, TypeOK
  <2> QED
    BY <2>1, SignalKeepsWaits DEF SignalUpdate
<1>4. CASE \E t \in Targets : \E mode \in Modes : SetOutputMode(u, t, mode)
  <2>1. selected'[v] = selected[v] /\ SignalUpdate
    BY <1>4 DEF SetOutputMode
  <2> QED
    BY <2>1, SignalKeepsWaits DEF SignalUpdate
<1>5. CASE \E op \in WaitOps : \E expected, target \in Targets : BeginWait(u, op, u, expected, target)
  <2>1. selected'[v] = selected[v] /\ waits'[v] = waits[v]
    BY <1>5, WaitersAreUsers DEF BeginWait, TypeOK
  <2> QED
    BY <2>1 DEF WaitKept
<1>6. CASE EndWait(u)
  <2>1. selected'[v] = selected[v]
    BY <1>6 DEF EndWait, Choose, TypeOK
  <2>2. waits'[v] = waits[v] \/ waits'[v] = Signalled[v]
    BY <1>6, WaitersAreUsers, SignalledType DEF EndWait, TypeOK
  <2> QED
    BY <2>1, <2>2, SignalKeepsWaits DEF WaitKept
<1>7. CASE Park(u) \/ Timeout(u)
  <2>1. selected'[v] = selected[v] /\ waits'[v] = waits[v]
    BY <1>7, WaitersAreUsers DEF Park, Timeout, TypeOK
  <2> QED
    BY <2>1 DEF WaitKept
<1>8. UNCHANGED catalogVars \/ CreateNumberedSnapshot(u) => UNCHANGED <<selected, waits>>
    BY DEF catalogVars, vars, CreateNumberedSnapshot
<1> QED
    BY <1>1, <1>2, <1>3, <1>4, <1>5, <1>6, <1>7, <1>8 DEF CatalogOf

(* Whoever's task does nothing keeps the selection, or loses it.           *)
LEMMA UserKept ==
    ASSUME NEW u \in Users, CommandFits(u), WaitFits(u), SelectionFits(u),
           task'[u] = task[u], selected'[u] \in {selected[u], NoTarget}, WaitKept(u)
    PROVE  CommandFits(u)' /\ WaitFits(u)' /\ SelectionFits(u)'
<1>1. CommandFits(u)'
    BY DEF CommandFits
<1>2. WaitFits(u)'
    BY DEF WaitFits, WaitKept
<1>3. CASE selected'[u] = NoTarget
    BY <1>1, <1>2, <1>3 DEF SelectionFits
<1>4. CASE selected'[u] = selected[u]
  <2>1. Moved(u)' <=> Moved(u)
    BY DEF Moved, WaitFits, WaitKept
  <2> QED
    BY <1>1, <1>2, <1>4, <2>1 DEF SelectionFits, Unmoved
<1> QED
    BY <1>3, <1>4

(* A task that ends neither before nor at a wait.                          *)
LEMMA UnwaitedFits ==
    ASSUME NEW u \in Users, WaitFits(u), task[u].step # "await", task'[u].step # "await", WaitKept(u)
    PROVE  WaitFits(u)'
BY DEF WaitFits, WaitKept

LEMMA ConnectionKept ==
    ASSUME TypeOK, Connection, NEW u \in Users
    PROVE  [Next]_vars /\ task'[u] = task[u] /\ selected'[u] \in {selected[u], NoTarget} /\ WaitKept(u)
<1>1. task'[u] = task[u]
    BY DEF Connection
<1>2. ASSUME NEW c \in Conns, NEW k \in Keys, Attach(c, k)
      PROVE  [Next]_vars /\ selected'[u] \in {selected[u], NoTarget} /\ WaitKept(u)
    BY <1>2, SignalKeepsWaits DEF Attach, SignalUpdate, Next
<1>3. ASSUME NEW c \in Conns, NEW seq \in 1..MaxSeq, NEW panes \in Panes, ApplySnapshot(c, seq, panes)
      PROVE  [Next]_vars /\ selected'[u] \in {selected[u], NoTarget} /\ WaitKept(u)
    BY <1>3, SignalKeepsWaits, SnapshotSelection DEF ApplySnapshot, SignalUpdate, Next
<1>4. ASSUME NEW c \in Conns, Detach(c)
      PROVE  [Next]_vars /\ selected'[u] \in {selected[u], NoTarget} /\ WaitKept(u)
  <2>1. connections[c] \in Keys /\ connections[c][1] \in Users
    BY <1>4, KeyIsPair DEF Detach, TypeOK
  <2>2. selected'[u] \in {selected[u], NoTarget}
    BY <1>4, <2>1 DEF Detach, TypeOK
  <2> QED
    BY <1>4, <2>2, SignalKeepsWaits DEF Detach, SignalUpdate, Next
<1> QED
    BY <1>1, <1>2, <1>3, <1>4 DEF Connection

LEMMA CallSelectedKeeps ==
    ASSUME IInv, NEW u \in Users, CallSelected(u)
    PROVE  /\ CatalogOf(u) /\ WaitKept(u) /\ selected'[u] \in Targets \cup {NoTarget}
           /\ selected'[u] = selected[u] \/ (selected[u] = NoTarget /\ Entries(u) = {selected'[u]})
<1>1. CASE UNCHANGED catalogVars
  <2>1. UNCHANGED <<selected, waits>>
    BY <1>1 DEF catalogVars, vars
  <2> QED
    BY <1>1, <2>1 DEF CatalogOf, WaitKept, IInv, TypeOK
<1>2. CASE Selected(u)
  <2>1. selected[u] = NoTarget /\ SignalUpdate
    BY <1>2 DEF Selected, IInv, RoutingLive, SelectionLive
  <2>2. PICK t \in Entries(u) : Entries(u) = {t} /\ Choose(u, t)
    BY <1>2, <2>1 DEF Selected
  <2>3. selected'[u] = t /\ t \in Targets
    BY <2>2 DEF Choose, Entries, IInv, TypeOK
  <2> QED
    BY <1>2, <2>1, <2>2, <2>3, SignalKeepsWaits DEF CatalogOf, IInv, SignalUpdate
<1> QED
    BY <1>1, <1>2 DEF CallSelected

(* What MayMove and its like allow one user's selection.                   *)
MovesRight(u) ==
    selected'[u] \notin {NoTarget, selected[u]} =>
        InPane(selected[u], selected'[u]) \/ InPane(invalidated[u], selected'[u]) \/ MayMove(u, selected'[u])

Serves(u) ==
    /\ CatalogOf(u) /\ task' \in [Users -> RouterTasks] /\ \A v \in Users : v # u => task'[v] = task[v]
    /\ CommandFits(u)' /\ WaitFits(u)' /\ SelectionFits(u)' /\ MovesRight(u)

Quietly(u) == CatalogOf(u) /\ WaitKept(u) /\ selected'[u] = selected[u]

LEMMA NothingCalled ==
    ASSUME NEW u \in Users, UNCHANGED catalogVars
    PROVE  Quietly(u)
<1>1. UNCHANGED <<selected, waits>>
    BY DEF catalogVars, vars
<1> QED
    BY <1>1 DEF Quietly, CatalogOf, WaitKept

(* A step that changes no selection, at which nobody waits.                *)
LEMMA QuietStepServes ==
    ASSUME RouterInv, NEW u \in Users, NEW step \in RouterSteps, GoTo(u, step), Quietly(u),
           task[u].step # "await", step # "await", task[u].step # "reply",
           CommandFits(u)', Unmoved(u)' => Unmoved(u), Moved(u)' => Moved(u)
    PROVE  Serves(u)
<1>1. CommandFits(u) /\ WaitFits(u) /\ SelectionFits(u) /\ task \in [Users -> RouterTasks]
    BY DEF RouterInv
<1>2. /\ task' \in [Users -> RouterTasks] /\ \A v \in Users : v # u => task'[v] = task[v]
      /\ task'[u].step = step /\ task'[u].kind = task[u].kind /\ task'[u].target = task[u].target
      /\ task'[u].before = task[u].before /\ task'[u].said = task[u].said
    BY <1>1, GoToMoves
<1>3. WaitFits(u)'
    BY <1>1, <1>2, UnwaitedFits DEF Quietly
<1>4. task[u].said = "nothing"
    BY <1>1 DEF CommandFits
<1>5. SelectionFits(u)'
    BY <1>1, <1>2, <1>4 DEF SelectionFits, Quietly
<1> QED
    BY <1>2, <1>3, <1>5 DEF Serves, Quietly, MovesRight

(* The reply tells what the selection is.                                  *)
LEMMA ReplyServes ==
    ASSUME RouterInv, NEW u \in Users, NEW claim \in {"nothing", "notSwitched", "switched"}, Say(u, claim), Quietly(u),
           task[u].step # "await",
           claim = "notSwitched" => Unmoved(u), claim = "switched" => Moved(u)
    PROVE  Serves(u)
<1>1. CommandFits(u) /\ WaitFits(u) /\ SelectionFits(u) /\ task \in [Users -> RouterTasks]
    BY DEF RouterInv
<1>2. /\ task' \in [Users -> RouterTasks] /\ \A v \in Users : v # u => task'[v] = task[v]
      /\ task'[u].step = "reply" /\ task'[u].kind = task[u].kind /\ task'[u].target = task[u].target
      /\ task'[u].before = task[u].before /\ task'[u].said = claim
    BY <1>1, SayMoves
<1>3. WaitFits(u)'
    BY <1>1, <1>2, UnwaitedFits DEF Quietly
<1>4. CommandFits(u)'
    BY <1>2 DEF CommandFits, Untargeted
<1>5. SelectionFits(u)'
  <2>1. ~Unmoved(u)' /\ ~Moved(u)'
    BY <1>2 DEF Unmoved, Moved
  <2>2. CASE claim = "notSwitched" /\ selected[u] # NoTarget
    <3>1. selected[u] = task[u].before
      BY <1>1, <2>2 DEF SelectionFits
    <3> QED
      BY <1>2, <2>1, <2>2, <3>1 DEF SelectionFits, Quietly, InPane
  <2>3. CASE ~(claim = "notSwitched" /\ selected[u] # NoTarget)
    BY <1>1, <1>2, <2>1, <2>3 DEF SelectionFits, Quietly
  <2> QED
    BY <2>2, <2>3
<1> QED
    BY <1>2, <1>3, <1>4, <1>5 DEF Serves, Quietly, MovesRight

LEMMA FailServes ==
    ASSUME RouterInv, NEW u \in Users, Fail(u), Quietly(u), task[u].step # "await",
           task[u].kind \in Switching => Unmoved(u)
    PROVE  Serves(u)
<1> DEFINE claim == IF task[u].kind \in Switching THEN "notSwitched" ELSE "nothing"
<1>1. Say(u, claim) /\ claim \in {"nothing", "notSwitched", "switched"}
    BY DEF Fail, KindIn, Switching
<1>2. (claim = "notSwitched" => Unmoved(u)) /\ claim # "switched"
    OBVIOUS
<1> HIDE DEF claim
<1> QED
    BY <1>1, <1>2, ReplyServes

(* The steps that only look.                                               *)
LEMMA LookingServes ==
    ASSUME RouterInv, NEW u \in Users,
           ResolveNumber(u) \/ RelaySelect(u) \/ Confirm(u) \/ ExecuteFails(u) \/ Executed(u) \/ LookUp(u)
    PROVE  Serves(u)
<1>1. CommandFits(u) /\ WaitFits(u) /\ task \in [Users -> RouterTasks]
    BY DEF RouterInv
<1>2. Quietly(u)
    BY NothingCalled DEF ResolveNumber, RelaySelect, Confirm, ExecuteFails, Executed, LookUp, OnlyTask
<1>3. CASE ResolveNumber(u)
  <2>1. task[u].step = "resolveNumber"
    BY <1>3 DEF ResolveNumber, At
  <2>2. CASE Fail(u)
    BY <1>2, <2>1, <2>2, FailServes DEF Unmoved, Moved
  <2>3. CASE /\ GoTo(u, CASE KindIn(u, {"select"}) -> "relaySelect"
                          [] KindIn(u, {"directedMode", "switchMode"}) -> "setMode"
                          [] OTHER -> "lookBefore")
             /\ task[u].kind \in ByNumber
    <3> DEFINE step == CASE KindIn(u, {"select"}) -> "relaySelect"
                         [] KindIn(u, {"directedMode", "switchMode"}) -> "setMode"
                         [] OTHER -> "lookBefore"
    <3>1. /\ step \in RouterSteps /\ step \in {"relaySelect", "setMode", "lookBefore"} /\ GoTo(u, step)
          /\ step = "relaySelect" => task[u].kind = "select"
          /\ step = "setMode" => task[u].kind \in {"directedMode", "switchMode"}
          /\ step = "lookBefore" => task[u].kind \in {"directed", "switch"}
      BY <2>3 DEF KindIn, RouterSteps, ByNumber
    <3> HIDE DEF step
    <3>2. CommandFits(u)' /\ (Unmoved(u)' => Unmoved(u)) /\ (Moved(u)' => Moved(u))
      BY <1>1, <2>1, <3>1, GoToMoves DEF CommandFits, Unmoved, Moved, Untargeted, Switching
    <3> QED
      BY <1>2, <2>1, <3>1, <3>2, QuietStepServes
  <2> QED
    BY <1>1, <1>3, <2>1, <2>2, <2>3 DEF ResolveNumber, CommandFits
<1>4. CASE RelaySelect(u)
  <2>1. task[u].step = "relaySelect" /\ task[u].kind = "select"
    BY <1>1, <1>4 DEF RelaySelect, At, CommandFits
  <2>2. CASE Fail(u)
    BY <1>2, <2>1, <2>2, FailServes DEF Unmoved, Moved, Switching
  <2>3. CASE GoTo(u, "setSelection")
    <3>1. CommandFits(u)' /\ (Unmoved(u)' => Unmoved(u)) /\ (Moved(u)' => Moved(u)) /\ "setSelection" \in RouterSteps
      BY <1>1, <2>1, <2>3, GoToMoves DEF CommandFits, Unmoved, Moved, Untargeted, Switching, RouterSteps
    <3> QED
      BY <1>2, <2>1, <2>3, <3>1, QuietStepServes
  <2> QED
    BY <1>4, <2>2, <2>3 DEF RelaySelect
<1>5. CASE Confirm(u)
  <2>1. task[u].step = "confirm" /\ task[u].kind = "switchMode" /\ Say(u, "switched")
    BY <1>1, <1>5 DEF Confirm, At, CommandFits
  <2> QED
    BY <1>2, <2>1, ReplyServes DEF Moved
<1>6. CASE ExecuteFails(u)
  <2>1. task[u].step = "execute" /\ task[u].kind # "switchMode"
    BY <1>1, <1>6 DEF ExecuteFails, At, CommandFits
  <2>2. CASE task[u].kind = "select"
    <3>1. Say(u, "switched") /\ Moved(u)
      BY <1>6, <2>1, <2>2 DEF ExecuteFails, KindIn, Moved
    <3> QED
      BY <1>2, <2>1, <3>1, ReplyServes
  <2>3. CASE task[u].kind # "select"
    <3>1. Fail(u) /\ (task[u].kind \in Switching => Unmoved(u))
      BY <1>6, <2>1, <2>3 DEF ExecuteFails, KindIn, Switching, Unmoved, Moved
    <3> QED
      BY <1>2, <2>1, <3>1, FailServes
  <2> QED
    BY <2>2, <2>3
<1>7. CASE Executed(u)
  <2>1. task[u].step = "execute" /\ task[u].kind # "switchMode"
    BY <1>1, <1>7 DEF Executed, At, CommandFits
  <2>2. CASE task[u].kind = "switch"
    <3>1. GoTo(u, "setSelection") /\ "setSelection" \in RouterSteps
      BY <1>7, <2>2 DEF Executed, KindIn, RouterSteps
    <3>2. CommandFits(u)' /\ (Unmoved(u)' => Unmoved(u)) /\ (Moved(u)' => Moved(u))
      BY <1>1, <2>1, <2>2, <3>1, GoToMoves DEF CommandFits, Unmoved, Moved, Untargeted, Switching
    <3> QED
      BY <1>2, <2>1, <3>1, <3>2, QuietStepServes
  <2>3. CASE task[u].kind # "switch"
    <3>1. GoTo(u, "header") /\ "header" \in RouterSteps
      BY <1>7, <2>3 DEF Executed, KindIn, RouterSteps
    <3>2. CommandFits(u)' /\ (Unmoved(u)' => Unmoved(u)) /\ (Moved(u)' => Moved(u))
      BY <1>1, <2>1, <2>3, <3>1, GoToMoves DEF CommandFits, Unmoved, Moved, Untargeted, Switching
    <3> QED
      BY <1>2, <2>1, <3>1, <3>2, QuietStepServes
  <2> QED
    BY <2>2, <2>3
<1>8. CASE LookUp(u)
  <2>1. task[u].step = "lookUp" /\ task[u].kind \notin {"directed", "switch", "switchMode"}
    BY <1>1, <1>8 DEF LookUp, At, CommandFits
  <2>2. PICK step \in {"header", "reply"} : GoTo(u, step)
    BY <1>8 DEF LookUp
  <2>3. step \in RouterSteps /\ CommandFits(u)' /\ (Unmoved(u)' => Unmoved(u)) /\ (Moved(u)' => Moved(u))
    <3>1. step \in RouterSteps
      BY DEF RouterSteps
    <3> QED
      BY <1>1, <2>1, <2>2, <3>1, GoToMoves DEF CommandFits, Unmoved, Moved, Untargeted, Switching
  <2> QED
    BY <1>2, <2>1, <2>2, <2>3, QuietStepServes
<1> QED
    BY <1>3, <1>4, <1>5, <1>6, <1>7, <1>8

(* The lists, the mode and the header of a reply.                          *)
LEMMA NumberServes ==
    ASSUME RouterInv, NEW u \in Users, Number(u)
    PROVE  Serves(u)
<1>1. CommandFits(u) /\ WaitFits(u) /\ task \in [Users -> RouterTasks] /\ task[u].step = "number"
    BY DEF RouterInv, Number, At
<1>2. Quietly(u)
    BY DEF Number, CreateNumberedSnapshot, Quietly, CatalogOf, WaitKept
<1>3. PICK step \in {"reply", "mark"} : GoTo(u, step)
    BY DEF Number
<1>4. step \in RouterSteps
    BY DEF RouterSteps
<1>5. CommandFits(u)' /\ (Unmoved(u)' => Unmoved(u)) /\ (Moved(u)' => Moved(u))
    BY <1>1, <1>3, <1>4, GoToMoves DEF CommandFits, Unmoved, Moved, Untargeted, Switching
<1> QED
    BY <1>1, <1>2, <1>3, <1>4, <1>5, QuietStepServes

LEMMA SetModeServes ==
    ASSUME RouterInv, NEW u \in Users, SetMode(u)
    PROVE  Serves(u)
<1>1. /\ CommandFits(u) /\ WaitFits(u) /\ task \in [Users -> RouterTasks]
      /\ task[u].step = "setMode" /\ task[u].target \in Targets /\ task[u].kind \notin {"select", "switch"}
    BY DEF RouterInv, SetMode, At, CommandFits, Untargeted
<1>2. CASE Fail(u) /\ UNCHANGED catalogVars
    BY <1>1, <1>2, NothingCalled, FailServes DEF Unmoved, Moved
<1>3. CASE /\ \E mode \in Modes : SetOutputMode(u, task[u].target, mode)
           /\ GoTo(u, IF KindIn(u, {"switchMode"}) THEN "setSelection" ELSE "reply")
  <2>1. Quietly(u)
    <3>1. CatalogOf(u) /\ selected'[u] = selected[u] /\ SignalUpdate
      BY <1>1, <1>3 DEF SetOutputMode, CatalogOf
    <3> QED
      BY <3>1, SignalKeepsWaits DEF Quietly, SignalUpdate, RouterInv, IInv
  <2>2. PICK step \in {"setSelection", "reply"} :
            GoTo(u, step) /\ (step = "setSelection" <=> task[u].kind = "switchMode")
    BY <1>3 DEF KindIn
  <2>3. step \in RouterSteps
    BY DEF RouterSteps
  <2>4. CommandFits(u)' /\ (Unmoved(u)' => Unmoved(u)) /\ (Moved(u)' => Moved(u))
    BY <1>1, <2>2, <2>3, GoToMoves DEF CommandFits, Unmoved, Moved, Untargeted, Switching
  <2> QED
    BY <1>1, <2>1, <2>2, <2>3, <2>4, QuietStepServes
<1> QED
    BY <1>2, <1>3 DEF SetMode

LEMMA HeaderServes ==
    ASSUME RouterInv, NEW u \in Users, Header(u)
    PROVE  Serves(u)
<1>1. /\ CommandFits(u) /\ WaitFits(u) /\ task \in [Users -> RouterTasks]
      /\ task[u].step = "header" /\ task[u].target \in Targets
    BY DEF RouterInv, Header, At, CommandFits, Untargeted
<1>2. UNCHANGED catalogVars \/ EnsureNumberedIndex(u, task[u].target)
    BY DEF Header, CallEnsureNumber
<1>3. Quietly(u)
  <2>1. CASE UNCHANGED catalogVars
    BY <2>1, NothingCalled
  <2>2. CASE EnsureNumberedIndex(u, task[u].target)
    BY <1>1, <2>2 DEF EnsureNumberedIndex, CreateNumberedSnapshot, Quietly, CatalogOf, WaitKept
  <2> QED
    BY <1>2, <2>1, <2>2
<1>4. PICK step \in {"reply", "mark"} : GoTo(u, step)
    BY DEF Header
<1>5. step \in RouterSteps
    BY DEF RouterSteps
<1>6. CommandFits(u)' /\ (Unmoved(u)' => Unmoved(u)) /\ (Moved(u)' => Moved(u))
    BY <1>1, <1>4, <1>5, GoToMoves DEF CommandFits, Unmoved, Moved, Untargeted, Switching
<1> QED
    BY <1>1, <1>3, <1>4, <1>5, <1>6, QuietStepServes

LEMMA PlainReplyServes ==
    ASSUME RouterInv, NEW u \in Users, PlainReply(u)
    PROVE  Serves(u)
<1>1. /\ task[u].step = "header" /\ Quietly(u)
    BY NothingCalled DEF PlainReply, At, OnlyTask
<1>2. CASE task[u].kind \in {"select", "switch"}
  <2>1. Say(u, "switched") /\ Moved(u)
    BY <1>1, <1>2 DEF PlainReply, KindIn, Moved
  <2> QED
    BY <1>1, <2>1, ReplyServes
<1>3. CASE task[u].kind \notin {"select", "switch"}
  <2>1. Say(u, "nothing")
    BY <1>3 DEF PlainReply, KindIn
  <2> QED
    BY <1>1, <2>1, ReplyServes
<1> QED
    BY <1>2, <1>3

LEMMA PushedServes ==
    ASSUME RouterInv, NEW u \in Users, ResolveTarget(u) \/ Fetch(u)
    PROVE  Serves(u)
<1>1. /\ CommandFits(u) /\ WaitFits(u) /\ task \in [Users -> RouterTasks] /\ Quietly(u)
      /\ task[u].step \in {"resolveTarget", "fetch"} /\ task[u].target \in Targets /\ task[u].kind \notin Switching
    BY NothingCalled DEF RouterInv, ResolveTarget, Fetch, At, CommandFits, Untargeted, OnlyTask
<1>2. PICK step \in {"reply", "announce", "header"} : GoTo(u, step)
    BY DEF ResolveTarget, Fetch
<1>3. step \in RouterSteps
    BY DEF RouterSteps
<1>4. CommandFits(u)' /\ (Unmoved(u)' => Unmoved(u)) /\ (Moved(u)' => Moved(u))
    BY <1>1, <1>2, <1>3, GoToMoves DEF CommandFits, Unmoved, Moved, Untargeted, Switching
<1> QED
    BY <1>1, <1>2, <1>3, <1>4, QuietStepServes

LEMMA TaskEnds ==
    ASSUME RouterInv, NEW u \in Users, Reply(u)
    PROVE  Serves(u)
<1>1. CommandFits(u) /\ WaitFits(u) /\ task \in [Users -> RouterTasks] /\ task[u].step = "reply" /\ Quietly(u)
    BY NothingCalled DEF RouterInv, Reply, At, OnlyTask
<1>2. NoTask \in RouterTasks /\ task' = [task EXCEPT ![u] = NoTask]
    BY DEF Reply, NoTask, RouterTasks, RouterSteps
<1>3. task'[u] = NoTask /\ task' \in [Users -> RouterTasks] /\ \A v \in Users : v # u => task'[v] = task[v]
    BY <1>1, <1>2
<1>4. task'[u].step = "idle" /\ task'[u].kind = "none" /\ task'[u].said = "nothing"
    BY <1>3 DEF NoTask
<1>5. CommandFits(u)' /\ WaitFits(u)' /\ SelectionFits(u)'
    BY <1>1, <1>4, UnwaitedFits DEF CommandFits, SelectionFits, Quietly, Unmoved, Moved, Untargeted, Switching
<1> QED
    BY <1>1, <1>3, <1>5 DEF Serves, Quietly, MovesRight

LEMMA TaskBegins ==
    ASSUME RouterInv, NEW u \in Users, Begin(u)
    PROVE  Serves(u)
<1>1. PICK kind \in Kinds : \E t \in Targets \cup {NoTarget} :
          /\ IF kind \in ByNumber THEN numberedValid[u] /\ t \in numbered[u]
             ELSE IF kind \in Pushed THEN t # NoTarget ELSE t = NoTarget
          /\ Start(u, kind, t)
    BY DEF Begin
<1>2. PICK t \in Targets \cup {NoTarget} :
          /\ IF kind \in ByNumber THEN numberedValid[u] /\ t \in numbered[u]
             ELSE IF kind \in Pushed THEN t # NoTarget ELSE t = NoTarget
          /\ Start(u, kind, t)
    BY <1>1
<1>3. /\ CommandFits(u) /\ WaitFits(u) /\ task \in [Users -> RouterTasks] /\ task[u] = NoTask /\ Quietly(u)
      /\ selected[u] \in Targets \cup {NoTarget}
    BY <1>2, NothingCalled DEF RouterInv, Start, OnlyTask, IInv, TypeOK
<1>4. kind \in ByNumber => t \in Targets
    BY <1>2 DEF RouterInv, IInv, TypeOK
<1> DEFINE step == FirstStep(kind)
<1>5. /\ step \in RouterSteps /\ step # "await" /\ step # "reply"
      /\ step \in {"number", "resolveNumber", "resolveSelection", "resolveTarget"}
      /\ (step = "resolveNumber" <=> kind \in ByNumber)
      /\ (step = "resolveTarget" => kind \in Pushed)
    BY DEF FirstStep, RouterSteps, Kinds, ByNumber, Pushed
<1> HIDE DEF step
<1>6. /\ task'[u] = [kind |-> kind, step |-> step, target |-> t, before |-> selected[u], said |-> "nothing"]
      /\ \A v \in Users : v # u => task'[v] = task[v]
      /\ task' = [task EXCEPT ![u] =
                      [kind |-> kind, step |-> step, target |-> t, before |-> selected[u], said |-> "nothing"]]
    BY <1>2, <1>3 DEF Start, step
<1>7. task' \in [Users -> RouterTasks]
    BY <1>3, <1>5, <1>6 DEF RouterTasks
<1>8. step = "resolveTarget" => t \in Targets
    BY <1>2, <1>5 DEF ByNumber, Pushed
<1>9. CommandFits(u)'
    BY <1>4, <1>5, <1>6, <1>8 DEF CommandFits, Untargeted, Switching, ByNumber
<1>10. task[u].step = "idle"
    BY <1>3 DEF NoTask
<1>11. WaitFits(u)'
    BY <1>3, <1>5, <1>6, <1>10, UnwaitedFits DEF Quietly
<1>12. SelectionFits(u)'
    BY <1>3, <1>5, <1>6 DEF SelectionFits, Quietly, Moved
<1> QED
    BY <1>3, <1>6, <1>7, <1>9, <1>11, <1>12 DEF Serves, Quietly, MovesRight

(* The steps that ask for the selection.                                   *)
LEMMA SelectedMovesRight ==
    ASSUME NEW u \in Users, selected'[u] = selected[u] \/ Entries(u) = {selected'[u]}
    PROVE  MovesRight(u)
BY DEF MovesRight, MayMove

LEMMA AskingServes ==
    ASSUME RouterInv, NEW u \in Users, ResolveSelection(u) \/ LookBefore(u) \/ Mark(u) \/ Announce(u)
    PROVE  Serves(u)
<1>1. /\ CommandFits(u) /\ WaitFits(u) /\ task \in [Users -> RouterTasks] /\ IInv
      /\ task[u].step # "await" /\ CallSelected(u) /\ task[u] \in RouterTasks
    BY DEF RouterInv, ResolveSelection, LookBefore, Mark, Announce, At
<1>2. /\ CatalogOf(u) /\ WaitKept(u) /\ selected'[u] \in Targets \cup {NoTarget}
      /\ selected'[u] = selected[u] \/ (selected[u] = NoTarget /\ Entries(u) = {selected'[u]})
    BY <1>1, CallSelectedKeeps
<1>3. MovesRight(u)
    BY <1>2, SelectedMovesRight
<1>4. CASE ResolveSelection(u)
  <2> DEFINE step == IF selected'[u] = NoTarget THEN "reply"
                     ELSE IF KindIn(u, {"mode"}) THEN "setMode" ELSE "execute"
             j == [task[u] EXCEPT !.target = selected'[u], !.before = selected'[u], !.step = step]
  <2>1. task' = [task EXCEPT ![u] = j] /\ task[u].step = "resolveSelection" /\ task[u].kind \notin Switching
    BY <1>1, <1>4 DEF ResolveSelection, At, CommandFits
  <2>2. /\ step \in RouterSteps /\ step \in {"reply", "setMode", "execute"}
        /\ step # "reply" => selected'[u] # NoTarget
    BY DEF RouterSteps
  <2> HIDE DEF step
  <2>3. /\ j \in RouterTasks /\ j.step = step /\ j.kind = task[u].kind /\ j.target = selected'[u]
        /\ j.said = task[u].said
    BY <1>1, <1>2, <2>2 DEF RouterTasks
  <2> HIDE DEF j
  <2>4. task'[u] = j /\ task' \in [Users -> RouterTasks] /\ \A v \in Users : v # u => task'[v] = task[v]
    BY <1>1, <2>1, <2>3
  <2>5. CommandFits(u)'
    BY <1>1, <1>2, <2>1, <2>2, <2>3, <2>4 DEF CommandFits, Switching, Untargeted
  <2>6. WaitFits(u)' /\ SelectionFits(u)'
    BY <1>1, <1>2, <2>1, <2>2, <2>3, <2>4, UnwaitedFits DEF SelectionFits, CommandFits, Unmoved, Moved, Switching
  <2> QED
    BY <1>2, <1>3, <2>4, <2>5, <2>6 DEF Serves
<1>5. CASE LookBefore(u)
  <2> DEFINE j == [task[u] EXCEPT !.before = selected'[u], !.step = "execute"]
  <2>1. task' = [task EXCEPT ![u] = j] /\ task[u].step = "lookBefore" /\ task[u].kind \in {"directed", "switch"}
    BY <1>1, <1>5 DEF LookBefore, At, CommandFits
  <2>2. /\ j \in RouterTasks /\ j.step = "execute" /\ j.kind = task[u].kind /\ j.target = task[u].target
        /\ j.said = task[u].said /\ j.before = selected'[u]
    BY <1>1, <1>2 DEF RouterTasks, RouterSteps
  <2> HIDE DEF j
  <2>3. task'[u] = j /\ task' \in [Users -> RouterTasks] /\ \A v \in Users : v # u => task'[v] = task[v]
    BY <1>1, <2>1, <2>2
  <2>4. CommandFits(u)'
    BY <1>1, <2>1, <2>2, <2>3 DEF CommandFits, Switching, Untargeted
  <2>5. WaitFits(u)' /\ SelectionFits(u)'
    BY <1>1, <1>2, <2>1, <2>2, <2>3, UnwaitedFits DEF SelectionFits, CommandFits, Moved
  <2> QED
    BY <1>2, <1>3, <2>3, <2>4, <2>5 DEF Serves
<1>6. CASE Mark(u)
  <2>1. task[u].step = "mark" /\ GoTo(u, "reply") /\ "reply" \in RouterSteps
    BY <1>6 DEF Mark, At, RouterSteps
  <2>2. CommandFits(u)'
    BY <1>1, <2>1, GoToMoves DEF CommandFits, Untargeted
  <2>3. WaitFits(u)' /\ SelectionFits(u)'
    BY <1>1, <1>2, <2>1, GoToMoves, UnwaitedFits DEF SelectionFits, CommandFits, Moved, Unmoved
  <2> QED
    BY <1>1, <1>2, <1>3, <2>1, <2>2, <2>3, GoToMoves DEF Serves
<1>7. CASE Announce(u)
  <2>1. task[u].step = "announce" /\ task[u].kind \notin Switching /\ task[u].target \in Targets
    BY <1>1, <1>7 DEF Announce, At, CommandFits, Untargeted
  <2>2. /\ task' \in [Users -> RouterTasks] /\ \A v \in Users : v # u => task'[v] = task[v]
        /\ task'[u].step \in {"header", "fetch"} /\ task'[u].kind \notin Switching
        /\ task'[u].target = task[u].target /\ task'[u].said = task[u].said
    <3>1. CASE GoTo(u, "header")
      BY <1>1, <2>1, <3>1, GoToMoves DEF RouterSteps
    <3>2. CASE task' = [task EXCEPT ![u].kind = "output", ![u].step = "fetch"]
      <4> DEFINE j == [task[u] EXCEPT !.kind = "output", !.step = "fetch"]
      <4>1. j \in RouterTasks /\ j.kind = "output" /\ j.step = "fetch" /\ j.target = task[u].target
            /\ j.said = task[u].said
        BY <1>1 DEF RouterTasks, RouterSteps, Kinds
      <4>2. task' = [task EXCEPT ![u] = j]
        BY <1>1, <3>2
      <4> HIDE DEF j
      <4>3. "output" \notin Switching
        BY DEF Switching
      <4> QED
        BY <1>1, <4>1, <4>2, <4>3
    <3> QED
      BY <1>7, <3>1, <3>2 DEF Announce
  <2>3. CommandFits(u)'
    BY <1>1, <2>1, <2>2 DEF CommandFits, Switching, Untargeted
  <2>4. WaitFits(u)' /\ SelectionFits(u)'
    BY <1>1, <1>2, <2>1, <2>2, UnwaitedFits DEF SelectionFits, CommandFits, Moved, Unmoved, Switching
  <2> QED
    BY <1>2, <1>3, <2>2, <2>3, <2>4 DEF Serves
<1> QED
    BY <1>4, <1>5, <1>6, <1>7

(* The user's choice.                                                      *)
LEMMA ChooseTargetServes ==
    ASSUME RouterInv, NEW u \in Users, ChooseTarget(u)
    PROVE  Serves(u)
<1>1. /\ CommandFits(u) /\ WaitFits(u) /\ task \in [Users -> RouterTasks] /\ IInv
      /\ task[u].step = "setSelection" /\ task[u].target \in Targets /\ task[u].kind \in Switching
    BY DEF RouterInv, ChooseTarget, At, CommandFits, Untargeted
<1>2. CASE UNCHANGED catalogVars /\ Fail(u)
    BY <1>1, <1>2, NothingCalled, FailServes DEF Unmoved, Moved
<1>3. CASE /\ SetSelection(u, task[u].target)
           /\ GoTo(u, CASE KindIn(u, {"select"}) -> "execute"
                        [] KindIn(u, {"switchMode"}) -> "confirm"
                        [] OTHER -> "header")
  <2>1. CatalogOf(u) /\ WaitKept(u) /\ selected'[u] = task[u].target
    <3>1. SignalUpdate /\ selected'[u] = task[u].target
      BY <1>1, <1>3 DEF SetSelection, Choose, IInv, TypeOK
    <3> QED
      BY <1>1, <1>3, <3>1, SignalKeepsWaits DEF CatalogOf, SignalUpdate, IInv
  <2>2. PICK step \in {"execute", "confirm", "header"} :
            /\ GoTo(u, step)
            /\ step = "execute" <=> task[u].kind = "select"
            /\ step = "confirm" <=> task[u].kind = "switchMode"
    BY <1>3 DEF KindIn
  <2>3. step \in RouterSteps
    BY DEF RouterSteps
  <2>4. CommandFits(u)'
    BY <1>1, <2>2, <2>3, GoToMoves DEF CommandFits, Untargeted, Switching
  <2>5. WaitFits(u)'
    BY <1>1, <2>1, <2>2, <2>3, GoToMoves, UnwaitedFits
  <2>6. SelectionFits(u)'
    BY <1>1, <2>1, <2>2, <2>3, GoToMoves DEF SelectionFits, CommandFits, Unmoved, Moved, Switching, SameSlot
  <2>7. MovesRight(u)
    BY <1>1, <2>1 DEF MovesRight, MayMove, KindIn, SameSlot, Switching
  <2> QED
    BY <1>1, <2>1, <2>2, <2>3, <2>4, <2>5, <2>6, <2>7, GoToMoves DEF Serves
<1> QED
    BY <1>2, <1>3 DEF ChooseTarget, SetChosen

(* The waits.                                                              *)
LEMMA WaitBegins ==
    ASSUME RouterInv, NEW u \in Users, NEW op \in WaitOps, NEW expected \in Targets, NEW target \in Targets,
           BeginWait(u, op, u, expected, target)
    PROVE  /\ CatalogOf(u) /\ selected'[u] = selected[u] /\ waits'[u] # NoWait
           /\ waits'[u].user = u /\ waits'[u].op = op /\ waits'[u].target = target
<1> DEFINE w == [op |-> op, user |-> u, expected |-> expected, target |-> target, phase |-> "checking"]
<1>1. waits'[u] = w /\ selected'[u] = selected[u]
    BY WaitersAreUsers DEF BeginWait, RouterInv, IInv, TypeOK
<1>2. w \in Wait
    BY DEF Wait
<1>3. w # NoWait
    BY <1>2, RouterAssumption
<1> QED
    BY <1>1, <1>3 DEF CatalogOf

LEMMA ReplacedServes ==
    ASSUME RouterInv, NEW u \in Users, NEW x \in Targets, Replaced(u, x)
    PROVE  Serves(u)
<1> DEFINE op == Follow(u)
           expected == IF op = "rebind" THEN task[u].target ELSE x
           j == [task[u] EXCEPT !.target = x, !.step = "await"]
<1>1. /\ CommandFits(u) /\ WaitFits(u) /\ SelectionFits(u) /\ task \in [Users -> RouterTasks] /\ task[u] \in RouterTasks
      /\ task[u].step = "execute" /\ task[u].target \in Targets /\ task[u].kind # "switchMode"
      /\ SameSlot(x, task[u].target)
    BY DEF RouterInv, Replaced, At, CommandFits, Untargeted
<1>2. op \in WaitOps /\ expected \in Targets /\ BeginWait(u, op, u, expected, x)
    BY <1>1 DEF Replaced, Follow, WaitOps
<1>3. /\ (op = "select" <=> task[u].kind = "switch") /\ (op = "rebind" => task[u].kind # "switch")
    BY DEF Follow, KindIn
<1> HIDE DEF op, expected
<1>4. /\ CatalogOf(u) /\ selected'[u] = selected[u] /\ waits'[u] # NoWait
      /\ waits'[u].user = u /\ waits'[u].op = op /\ waits'[u].target = x
    BY <1>2, WaitBegins
<1>5. task' = [task EXCEPT ![u] = j]
    BY <1>1 DEF Replaced
<1>6. /\ j \in RouterTasks /\ j.step = "await" /\ j.kind = task[u].kind /\ j.target = x /\ j.before = task[u].before
      /\ j.said = task[u].said
    BY <1>1 DEF RouterTasks, RouterSteps
<1> HIDE DEF j
<1>7. task'[u] = j /\ task' \in [Users -> RouterTasks] /\ \A v \in Users : v # u => task'[v] = task[v]
    BY <1>1, <1>5, <1>6
<1>8. CommandFits(u)'
    BY <1>1, <1>6, <1>7 DEF CommandFits
<1>9. WaitFits(u)'
    BY <1>3, <1>4, <1>6, <1>7 DEF WaitFits
<1>10. SelectionFits(u)'
  <2>1. task[u].said = "nothing"
    BY <1>1 DEF CommandFits
  <2>2. Unmoved(u)' => Unmoved(u)
    BY <1>1, <1>3, <1>4, <1>6, <1>7 DEF Unmoved, Moved, Switching
  <2>3. Moved(u)' => Moved(u)
    BY <1>1, <1>3, <1>4, <1>6, <1>7 DEF Moved
  <2> QED
    BY <1>1, <1>4, <1>6, <1>7, <2>1, <2>2, <2>3 DEF SelectionFits, SameSlot
<1> QED
    BY <1>4, <1>7, <1>8, <1>9, <1>10 DEF Serves, MovesRight

LEMMA AwaitTargetServes ==
    ASSUME RouterInv, NEW u \in Users, AwaitTarget(u)
    PROVE  Serves(u)
<1>1. /\ CommandFits(u) /\ WaitFits(u) /\ SelectionFits(u) /\ task \in [Users -> RouterTasks]
      /\ task[u].step = "awaitTarget" /\ task[u].target \in Targets /\ task[u].kind \in {"directed", "switch"}
    BY DEF RouterInv, AwaitTarget, At, CommandFits, Untargeted
<1>2. /\ CatalogOf(u) /\ selected'[u] = selected[u] /\ waits'[u] # NoWait
      /\ waits'[u].user = u /\ waits'[u].op = "target" /\ waits'[u].target = task[u].target
    BY <1>1, WaitBegins DEF AwaitTarget, WaitOps
<1>3. GoTo(u, "await") /\ "await" \in RouterSteps
    BY DEF AwaitTarget, RouterSteps
<1>4. /\ task' \in [Users -> RouterTasks] /\ \A v \in Users : v # u => task'[v] = task[v]
      /\ task'[u].step = "await" /\ task'[u].kind = task[u].kind /\ task'[u].target = task[u].target
      /\ task'[u].before = task[u].before /\ task'[u].said = task[u].said
    BY <1>1, <1>3, GoToMoves
<1>5. CommandFits(u)' /\ WaitFits(u)'
    BY <1>1, <1>2, <1>4 DEF CommandFits, WaitFits, Untargeted
<1>6. SelectionFits(u)'
    BY <1>1, <1>2, <1>4 DEF SelectionFits, CommandFits, Unmoved, Moved, Switching
<1> QED
    BY <1>2, <1>4, <1>5, <1>6 DEF Serves, MovesRight

(* A wait that fails: what the reply claims is what happened.              *)
LEMMA WaitFailedServes ==
    ASSUME RouterInv, NEW u \in Users, task[u].step = "await", Say(u, WaitFailed(u)), CatalogOf(u),
           selected'[u] = selected[u], waits'[u] = NoWait
    PROVE  Serves(u)
<1>1. /\ CommandFits(u) /\ WaitFits(u) /\ SelectionFits(u) /\ task \in [Users -> RouterTasks]
      /\ waits[u] # NoWait /\ waits[u] \in Wait /\ task[u].kind # "switchMode"
    BY WaitersAreUsers DEF RouterInv, WaitFits, CommandFits, IInv, TypeOK
<1> DEFINE claim == WaitFailed(u)
<1>2. /\ claim \in {"nothing", "notSwitched", "switched"} /\ Say(u, claim)
      /\ claim = "switched" => task[u].kind = "select"
      /\ claim = "notSwitched" => task[u].kind = "switch" /\ waits[u].op = "select"
    BY DEF WaitFailed, KindIn
<1>3. (claim = "switched" => Moved(u)) /\ (claim = "notSwitched" => Unmoved(u))
    BY <1>1, <1>2 DEF Moved, Unmoved, Switching
<1> HIDE DEF claim
<1>4. /\ task' \in [Users -> RouterTasks] /\ \A v \in Users : v # u => task'[v] = task[v]
      /\ task'[u].step = "reply" /\ task'[u].kind = task[u].kind /\ task'[u].target = task[u].target
      /\ task'[u].before = task[u].before /\ task'[u].said = claim
    BY <1>1, <1>2, SayMoves
<1>5. CommandFits(u)' /\ WaitFits(u)'
    BY <1>4 DEF CommandFits, WaitFits, Untargeted
<1>6. SelectionFits(u)'
  <2>1. ~Unmoved(u)' /\ ~Moved(u)'
    BY <1>4 DEF Unmoved, Moved
  <2>2. CASE claim = "notSwitched" /\ selected[u] # NoTarget
    <3>1. selected[u] = task[u].before
      BY <1>1, <1>3, <2>2 DEF SelectionFits
    <3> QED
      BY <1>4, <2>1, <2>2, <3>1 DEF SelectionFits, InPane
  <2>3. CASE ~(claim = "notSwitched" /\ selected[u] # NoTarget)
    BY <1>1, <1>3, <1>4, <2>1, <2>3 DEF SelectionFits
  <2> QED
    BY <2>2, <2>3
<1> QED
    BY <1>4, <1>5, <1>6 DEF Serves, MovesRight

LEMMA TimeoutServes ==
    ASSUME RouterInv, NEW u \in Users, RequestTimeout(u)
    PROVE  Serves(u)
<1>1. waits \in [Users -> Wait \cup {NoWait}] /\ task[u].step = "await" /\ Say(u, WaitFailed(u)) /\ Timeout(u)
    BY WaitersAreUsers DEF RouterInv, IInv, TypeOK, RequestTimeout, At
<1>2. waits'[u] = NoWait /\ selected'[u] = selected[u] /\ CatalogOf(u)
    BY <1>1 DEF Timeout, CatalogOf
<1> QED
    BY <1>1, <1>2, WaitFailedServes

(* A wait that ends with the selection written.                            *)
LEMMA WrittenServes ==
    ASSUME RouterInv, NEW u \in Users, task[u].step = "await", GoTo(u, AfterWait(u)), CatalogOf(u),
           waits[u].op # "target", Answered(waits[u]),
           selected'[u] = waits[u].target, waits'[u] = NoWait
    PROVE  Serves(u)
<1>1. /\ CommandFits(u) /\ WaitFits(u) /\ SelectionFits(u) /\ task \in [Users -> RouterTasks]
      /\ waits[u] # NoWait /\ waits[u] \in Wait /\ task[u].kind # "switchMode" /\ task[u].target \in Targets
      /\ waits[u].target = task[u].target /\ waits[u].user = u /\ task[u].said = "nothing"
      /\ SameSlot(waits[u].expected, waits[u].target)
    BY WaitersAreUsers DEF RouterInv, WaitFits, CommandFits, IInv, TypeOK, Untargeted, RebindsInPlace
<1> DEFINE step == AfterWait(u)
<1>2. /\ step \in RouterSteps /\ GoTo(u, step) /\ step \in {"awaitTarget", "lookUp"}
      /\ (step = "awaitTarget" <=> task[u].kind \in {"directed", "switch"})
    BY DEF AfterWait, KindIn, RouterSteps
<1> HIDE DEF step
<1>3. /\ task' \in [Users -> RouterTasks] /\ \A v \in Users : v # u => task'[v] = task[v]
      /\ task'[u].step = step /\ task'[u].kind = task[u].kind /\ task'[u].target = task[u].target
      /\ task'[u].before = task[u].before /\ task'[u].said = task[u].said
    BY <1>1, <1>2, GoToMoves
<1>4. CommandFits(u)' /\ WaitFits(u)'
    BY <1>1, <1>2, <1>3 DEF CommandFits, WaitFits, Untargeted
<1>5. SelectionFits(u)'
  <2>1. ~Unmoved(u)'
    BY <1>1, <1>2, <1>3 DEF Unmoved, Moved, Switching
  <2>2. SameSlot(selected'[u], task'[u].target)
    BY <1>1, <1>3 DEF SameSlot
  <2> QED
    BY <1>1, <1>3, <2>1, <2>2 DEF SelectionFits
<1>6. MovesRight(u)
  <2>1. CASE waits[u].op = "select"
    <3>1. task[u].kind = "switch"
      BY <1>1, <2>1 DEF WaitFits
    <3> QED
      BY <1>1, <3>1 DEF MovesRight, MayMove, KindIn, SameSlot
  <2>2. CASE waits[u].op = "rebind"
    <3>1. RebindAllowed(u, waits[u].expected, waits[u].target)
      BY <1>1, <2>2 DEF Answered, Refused
    <3>2. waits[u].expected \in Targets
      BY <1>1 DEF Wait
    <3> QED
      BY <1>1, <3>1, <3>2, SentinelAssumption DEF RebindAllowed, MovesRight, InPane
  <2> QED
    BY <1>1, <2>1, <2>2 DEF Wait, WaitOps
<1> QED
    BY <1>3, <1>4, <1>5, <1>6 DEF Serves

LEMMA AwaitServes ==
    ASSUME RouterInv, NEW u \in Users, Await(u)
    PROVE  Serves(u)
<1>1. /\ CommandFits(u) /\ WaitFits(u) /\ SelectionFits(u) /\ task \in [Users -> RouterTasks]
      /\ task[u].step = "await" /\ waits \in [Users -> Wait \cup {NoWait}] /\ TypeOK
      /\ waits[u] # NoWait /\ waits[u].user = u
      /\ task[u].kind # "switchMode" /\ task[u].target \in Targets /\ task[u].said = "nothing"
    BY WaitersAreUsers DEF RouterInv, Await, At, WaitFits, CommandFits, IInv, TypeOK, Untargeted
<1>2. CASE /\ EndWait(u)
           /\ IF Answered(waits[u]) THEN GoTo(u, AfterWait(u)) ELSE Say(u, WaitFailed(u))
  <2>1. CatalogOf(u) /\ waits'[u] = NoWait
    BY <1>1, <1>2, WaitersAreUsers, SignalledType DEF EndWait, CatalogOf
  <2>2. CASE ~Answered(waits[u])
    <3>1. selected'[u] = selected[u] /\ Say(u, WaitFailed(u))
      BY <1>2, <2>2 DEF EndWait
    <3> QED
      BY <1>1, <2>1, <3>1, WaitFailedServes
  <2>3. CASE Answered(waits[u]) /\ waits[u].op = "target"
    <3>1. selected'[u] = selected[u] /\ GoTo(u, "header") /\ "header" \in RouterSteps
      BY <1>2, <2>3 DEF EndWait, AfterWait, RouterSteps
    <3>2. /\ task' \in [Users -> RouterTasks] /\ \A v \in Users : v # u => task'[v] = task[v]
          /\ task'[u].step = "header" /\ task'[u].kind = task[u].kind /\ task'[u].target = task[u].target
          /\ task'[u].before = task[u].before /\ task'[u].said = task[u].said
      BY <1>1, <3>1, GoToMoves
    <3>3. CommandFits(u)' /\ WaitFits(u)'
      BY <1>1, <2>1, <3>2 DEF CommandFits, WaitFits
    <3>4. ~Unmoved(u)' /\ (Moved(u)' => Moved(u))
      BY <1>1, <2>3, <3>2 DEF Unmoved, Moved, Switching
    <3>5. SelectionFits(u)'
      BY <1>1, <3>1, <3>2, <3>4 DEF SelectionFits
    <3> QED
      BY <2>1, <3>1, <3>2, <3>3, <3>5 DEF Serves, MovesRight
  <2>4. CASE Answered(waits[u]) /\ waits[u].op # "target"
    <3>1. selected'[u] = waits[u].target /\ GoTo(u, AfterWait(u))
      BY <1>1, <1>2, <2>4 DEF EndWait, Answered, Choose, TypeOK
    <3> QED
      BY <1>1, <2>1, <2>4, <3>1, WrittenServes
  <2> QED
    BY <2>2, <2>3, <2>4
<1>3. CASE Park(u) /\ UNCHANGED task
  <2>1. /\ waits'[u] = [waits[u] EXCEPT !.phase = "parked"] /\ selected'[u] = selected[u] /\ CatalogOf(u)
        /\ waits[u] \in Wait
    BY <1>1, <1>3 DEF Park, CatalogOf
  <2>2. WaitKept(u)
    <3>1. waits'[u] \in Wait /\ waits'[u].user = waits[u].user /\ waits'[u].op = waits[u].op
          /\ waits'[u].target = waits[u].target
      BY <2>1 DEF Wait
    <3> QED
      BY <1>1, <3>1, RouterAssumption DEF WaitKept
  <2>3. CommandFits(u)' /\ WaitFits(u)' /\ SelectionFits(u)'
    BY <1>1, <1>3, <2>1, <2>2, UserKept
  <2> QED
    BY <1>1, <1>3, <2>1, <2>3 DEF Serves, MovesRight
<1> QED
    BY <1>2, <1>3 DEF Await

(* Every step of a user's worker.                                          *)
LEMMA WorkerServes ==
    ASSUME RouterInv, NEW u \in Users, Begin(u) \/ Handle(u)
    PROVE  Serves(u)
<1>1. CASE Begin(u)
    BY <1>1, TaskBegins
<1>2. CASE Number(u) \/ SetMode(u) \/ Header(u) \/ PlainReply(u)
    BY <1>2, NumberServes, SetModeServes, HeaderServes, PlainReplyServes
<1>3. CASE ResolveNumber(u) \/ RelaySelect(u) \/ Confirm(u) \/ ExecuteFails(u) \/ Executed(u) \/ LookUp(u)
    BY <1>3, LookingServes
<1>4. CASE ResolveSelection(u) \/ LookBefore(u) \/ Mark(u) \/ Announce(u)
    BY <1>4, AskingServes
<1>5. CASE ChooseTarget(u) \/ Await(u) \/ RequestTimeout(u) \/ AwaitTarget(u)
    BY <1>5, ChooseTargetServes, AwaitServes, TimeoutServes, AwaitTargetServes
<1>6. CASE \E v \in Targets : Replaced(u, v)
    BY <1>6, ReplacedServes
<1>7. CASE ResolveTarget(u) \/ Fetch(u) \/ Reply(u)
    BY <1>7, PushedServes, TaskEnds
<1> QED
    BY <1>1, <1>2, <1>3, <1>4, <1>5, <1>6, <1>7 DEF Handle

LEMMA RouterStarts == RouterInit => RouterInv
<1> SUFFICES ASSUME RouterInit PROVE RouterInv
    OBVIOUS
<1>1. IInv
    BY InitInv DEF RouterInit
<1>2. waits = [u \in Users |-> NoWait] /\ selected = [u \in Users |-> NoTarget] /\ task = [u \in Users |-> NoTask]
    BY WaitersAreUsers DEF RouterInit, Init
<1>3. RebindsInPlace
    BY <1>2, WaitersAreUsers DEF RebindsInPlace
<1>4. NoTask \in RouterTasks /\ NoTask.step = "idle" /\ NoTask.said = "nothing"
    BY DEF NoTask, RouterTasks, RouterSteps
<1>5. task \in [Users -> RouterTasks]
    BY <1>2, <1>4
<1>6. ASSUME NEW u \in Users PROVE CommandFits(u) /\ WaitFits(u) /\ SelectionFits(u)
    BY <1>2, <1>4 DEF CommandFits, WaitFits, SelectionFits, Untargeted
<1> QED
    BY <1>1, <1>3, <1>5, <1>6 DEF RouterInv

(* One step of anybody.                                                    *)
LEMMA RouterKeeps ==
    ASSUME RouterInv, [RouterNext]_routerVars
    PROVE  RouterInv' /\ [Next]_vars /\ \A u \in Users : MovesRight(u)
<1>1. /\ TypeOK /\ IInv /\ RebindsInPlace /\ task \in [Users -> RouterTasks]
      /\ \A u \in Users : CommandFits(u) /\ WaitFits(u) /\ SelectionFits(u)
    BY DEF RouterInv, IInv
<1>2. ASSUME [Next]_vars PROVE IInv' /\ RebindsInPlace'
    BY <1>1, <1>2, NextInv, NextRebindsInPlace
<1>3. CASE Connection
  <2>1. ASSUME NEW u \in Users
        PROVE  CommandFits(u)' /\ WaitFits(u)' /\ SelectionFits(u)' /\ MovesRight(u)
    <3>1. task'[u] = task[u] /\ selected'[u] \in {selected[u], NoTarget} /\ WaitKept(u)
      BY <1>1, <1>3, ConnectionKept
    <3> QED
      BY <1>1, <3>1, UserKept DEF MovesRight
  <2>2. task' = task
    BY <1>3 DEF Connection
  <2>3. [Next]_vars
    BY <1>3 DEF Connection, Next
  <2> QED
    BY <1>1, <1>2, <2>1, <2>2, <2>3 DEF RouterInv
<1>4. ASSUME NEW u \in Users, Begin(u) \/ Handle(u)
      PROVE  RouterInv' /\ [Next]_vars /\ \A v \in Users : MovesRight(v)
  <2>1. Serves(u)
    BY <1>4, WorkerServes
  <2>2. CatalogOf(u) /\ task' \in [Users -> RouterTasks] /\ [Next]_vars
    BY <2>1, CatalogOfSteps DEF Serves
  <2>3. waits[u] # NoWait => waits[u].user = u
    BY <1>1 DEF WaitFits
  <2>4. ASSUME NEW v \in Users, v # u
        PROVE  CommandFits(v)' /\ WaitFits(v)' /\ SelectionFits(v)' /\ MovesRight(v)
    <3>1. selected'[v] = selected[v] /\ WaitKept(v) /\ task'[v] = task[v]
      BY <1>1, <2>1, <2>2, <2>3, <2>4, OtherUsersKept DEF Serves
    <3> QED
      BY <1>1, <3>1, UserKept DEF MovesRight
  <2>5. CommandFits(u)' /\ WaitFits(u)' /\ SelectionFits(u)' /\ MovesRight(u)
    BY <2>1 DEF Serves
  <2> QED
    BY <1>2, <2>2, <2>4, <2>5 DEF RouterInv
<1>5. CASE UNCHANGED routerVars
  <2>1. UNCHANGED <<catalogVars, task>>
    BY <1>5 DEF routerVars
  <2>2. UNCHANGED vars /\ UNCHANGED <<selected, waits, task>>
    BY <2>1 DEF catalogVars, vars
  <2>3. ASSUME NEW u \in Users
        PROVE  CommandFits(u)' /\ WaitFits(u)' /\ SelectionFits(u)' /\ MovesRight(u)
    BY <1>1, <2>2, UserKept DEF MovesRight, WaitKept
  <2> QED
    BY <1>1, <1>2, <2>2, <2>3 DEF RouterInv
<1> QED
    BY <1>3, <1>4, <1>5 DEF RouterNext

LEMMA RouterInvHolds == RouterSpec => []RouterInv
<1>1. RouterInit => RouterInv
    BY RouterStarts
<1>2. RouterInv /\ [RouterNext]_routerVars => RouterInv'
    BY RouterKeeps
<1> QED
    BY <1>1, <1>2, PTL DEF RouterSpec

(* The commands and messages of any number of users, with what the          *)
(* connections do in between, are calls of SessionCatalog: whatever is      *)
(* proved of the directory holds while they run (router.go uses catalog.go  *)
(* only through its operations).                                           *)
THEOREM CommandsUseCatalog == RouterSpec => Spec
<1>1. RouterInit => Init
    BY DEF RouterInit
<1>2. RouterInv /\ [RouterNext]_routerVars => [Next]_vars
    BY RouterKeeps
<1> QED
    BY <1>1, <1>2, RouterInvHolds, PTL DEF RouterSpec, Spec

(* The user's input goes where the user was told it goes: a reply claims a   *)
(* switch, or its failure, only as it happened, and a selection leaves its   *)
(* pane only by a command that says so (handleSelect,                        *)
(* handleDirectedExecute, handleDirectedMode).                               *)
THEOREM RouterSwitchesHonest == RouterSpec => SwitchesHonest
<1>1. RouterInv => SwitchReported
    BY DEF RouterInv, SwitchReported, SelectionFits
<1>2. RouterInv /\ [RouterNext]_routerVars =>
        [\A u \in Users : selected'[u] \notin {NoTarget, selected[u]} =>
          \/ InPane(selected[u], selected'[u])
          \/ InPane(invalidated[u], selected'[u])
          \/ MayMove(u, selected'[u])]_routerVars
    BY RouterKeeps DEF MovesRight
<1> QED
    BY <1>1, <1>2, RouterInvHolds, PTL DEF RouterSpec, SwitchesHonest, SelectionFollowsCommands

----------------------------------------------------------------------------
(* What a session tells (TerminalDelivery).                                *)
ItemKinds == {"working", "done", "invalidated", "output", "reply"}
Terminals ==
    [mode : ModesSet \cup {"text"}, session : 1..MaxReplaced, parts : {MaxParts}, size : Nat]
TerminalGets == [item : Nat \ {0}, mode : ModesSet]
WireMessages ==
    [type : {"item", "snapshot", "result"}, item : Nat \ {0},
     outcome : {"none", "busy", "changed", "failed", "ok", "fallback"}, content : Terminals \cup {None}]
JobSteps ==
    {"none", "start", "tell", "status", "fetch", "waiting", "push", "header", "upload", "send",
     "fallback", "text", "audit", "end"}
Jobs ==
    [item : Nat, step : JobSteps, content : Terminals \cup {None}, count : Nat,
     as : ModesSet \cup {"none", "text", "image"}, failed : BOOLEAN]
Chats == [status : BOOLEAN, header : BOOLEAN, parts : Nat, image : Nat, late : BOOLEAN]
AuditEvents ==
    [as : ModesSet \cup {"none", "text", "image"}, delivered : BOOLEAN, content : Terminals \cup {None}]

DeliveryTypes ==
    /\ up \in BOOLEAN /\ real \in 1..MaxReplaced /\ shown \in 0..MaxReplaced
    /\ items \in Seq([kind : ItemKinds, session : 1..MaxReplaced]) /\ Len(items) <= MaxItems
    /\ wire \in Seq(WireMessages) /\ gets \in Seq(TerminalGets)
    /\ palReads \in TerminalGets \cup {None} /\ pendingGet \in TerminalGets \cup {None}
    /\ noticeKeys \in Seq(Nat) /\ lastSeq \in [1..MaxReplaced -> Nat]
    /\ outbound \in Seq(Nat) /\ carried \in Nat /\ accepted \in Seq(Nat) /\ toldItems \in Seq(Nat)
    /\ job \in Jobs /\ chat \in [Items -> Chats] /\ audits \in [Items -> AuditEvents \cup {None}]

(* What a connection carries is there: what was told, and no reply.        *)
Noticed == {n \in 1..Len(items) : items[n].kind # "reply"}
ShownAgain == {n \in Noticed : items[n].kind \in {"working", "done"}}
TerminalOf(content, n) == content \in Terminals /\ content.session = items[n].session

ConnectionFits ==
    /\ shown = 0 => ~up /\ carried = 0
    /\ carried # 0 => carried \in Noticed
    /\ \A k \in DOMAIN outbound : outbound[k] \in Noticed
    /\ \A k \in DOMAIN accepted : accepted[k] \in Noticed
    /\ \A k \in DOMAIN gets : gets[k].item <= Len(items)
    /\ palReads # None => palReads.item <= Len(items)
    /\ \A k \in DOMAIN wire :
          /\ wire[k].type = "item" => wire[k].item \in Noticed
          /\ wire[k].type = "snapshot" => wire[k].item <= MaxReplaced
          /\ wire[k].type = "result" =>
                /\ wire[k].item <= Len(items)
                /\ (wire[k].content # None => TerminalOf(wire[k].content, wire[k].item))

(* What comes is later than all that was accepted, or the sequence of its  *)
(* session tells that it was.                                              *)
WireItems == {k \in DOMAIN wire : wire[k].type = "item"}
WireOrdered ==
    /\ \A j, k \in WireItems : j < k =>
          wire[j].item < wire[k].item \/ (wire[j].item = wire[k].item /\ wire[j].item \in ShownAgain)
    /\ \A j \in DOMAIN accepted : \A k \in WireItems :
          \/ accepted[j] < wire[k].item
          \/ /\ accepted[j] = wire[k].item /\ accepted[j] \in ShownAgain
             /\ lastSeq[items[accepted[j]].session] >= accepted[j]

(* The steps of a task, and what the user has of its item at each.         *)
NoScreen(n) == chat[n].parts = 0 /\ chat[n].image = 0
BeforeScreen == {"start", "tell", "status", "fetch", "waiting", "push", "header", "upload", "send"}
WithContent == {"push", "header", "upload", "send", "fallback", "text", "audit"}

JobFits ==
    /\ job.item = 0 => job = Idle
    /\ job.item # 0 =>
          /\ job.step # "none" /\ job.item <= Len(items)
          /\ items[job.item].kind = "reply" \/ carried = job.item
          /\ job.content # None \/ job.step \in WithContent => TerminalOf(job.content, job.item)
          /\ pendingGet # None => job.step = "waiting" /\ pendingGet.item = job.item
          /\ audits[job.item] # None => job.step = "end"
          /\ job.step = "start" => items[job.item].kind # "reply"
          /\ job.step \in BeforeScreen => NoScreen(job.item)
          /\ job.step \in {"header", "upload", "send"} => job.content.mode = "image"
          /\ job.step \in {"upload", "send"} => chat[job.item].header
          /\ job.step = "send" => job.count = TotalChunks(job.content.size)
          /\ job.step = "fallback" => chat[job.item].parts = 0
          /\ job.step \in {"fallback", "text"} /\ chat[job.item].image # 0 => chat[job.item].late
          /\ job.step = "text" => chat[job.item].parts < job.content.parts
          /\ job.step = "audit" /\ ~job.failed =>
                IF job.as = "image"
                THEN chat[job.item].header /\ chat[job.item].image = job.content.size /\ chat[job.item].parts = 0
                ELSE chat[job.item].parts = job.content.parts
    /\ job.item = 0 => pendingGet = None

(* Who got anything of an item is done with it, but for the task at hand.  *)
Touched(n) == chat[n] # NothingSent \/ audits[n] # None
TouchedOnce ==
    \A n \in Items : Touched(n) =>
        /\ n <= Len(items)
        /\ n = job.item \/ items[n].kind = "reply" \/ \E k \in DOMAIN toldItems : toldItems[k] = n

DeliveryInv ==
    /\ DeliveryTypes /\ ConnectionFits /\ WireOrdered /\ JobFits /\ TouchedOnce /\ ToldInOrder /\ ScreensAudited

(* The chunks, rounded up, make the whole image.                           *)
LEMMA ChunksCover ==
    \A size \in Nat : TotalChunks(size) \in Nat /\ Smaller(TotalChunks(size) * ChunkSize, size) = size
<1> SUFFICES ASSUME NEW size \in Nat
    PROVE  TotalChunks(size) \in Nat /\ TotalChunks(size) * ChunkSize >= size
    BY DeliveryAssumption DEF Smaller
<1> DEFINE d == ChunkSize
           q == TotalChunks(size)
           r == (size + d - 1) % d
<1>1. d \in Nat \ {0}
    BY DeliveryAssumption
<1>2. q \in Nat /\ r \in 0..(d - 1) /\ size + d - 1 = d * q + r
    BY <1>1 DEF TotalChunks
<1>3. d * q = q * d
    BY <1>1, <1>2
<1> HIDE DEF d, q, r
<1>4. d * q \in Nat
    BY <1>1, <1>2
<1>5. d * q >= size
    BY <1>1, <1>2, <1>4
<1> QED
    BY <1>2, <1>3, <1>5 DEF d, q

(* What was told stays, more may come.                                     *)
ItemsKept == Len(items) <= Len(items') /\ \A n \in 1..Len(items) : items'[n] = items[n]

LEMMA ItemAdded ==
    ASSUME DeliveryTypes, NEW x \in [kind : ItemKinds, session : 1..MaxReplaced], Len(items) < MaxItems,
           items' = Append(items, x)
    PROVE  /\ items' \in Seq([kind : ItemKinds, session : 1..MaxReplaced])
           /\ Len(items') = Len(items) + 1 /\ Len(items') <= MaxItems
           /\ items'[Len(items) + 1] = x /\ ItemsKept
BY DeliveryAssumption DEF DeliveryTypes, ItemsKept

(* More that is told changes nothing of what was.                          *)
LEMMA NoticedKept ==
    ASSUME DeliveryTypes, DeliveryTypes', ItemsKept
    PROVE  /\ Noticed \subseteq Noticed' /\ ShownAgain \subseteq ShownAgain'
           /\ Len(items) \in Nat /\ Len(items') \in Nat
           /\ \A n \in 1..Len(items) : n \in 1..Len(items') /\ items'[n] = items[n]
           /\ \A n \in 1..Len(items) : \A c : TerminalOf(c, n)' <=> TerminalOf(c, n)
<1>1. Len(items) \in Nat /\ Len(items') \in Nat
  <2>1. items \in Seq([kind : ItemKinds, session : 1..MaxReplaced])
    BY DEF DeliveryTypes
  <2>2. items' \in Seq([kind : ItemKinds, session : 1..MaxReplaced])
    BY DEF DeliveryTypes
  <2> QED
    BY <2>1, <2>2
<1>2. \A n \in 1..Len(items) : n \in 1..Len(items') /\ items'[n] = items[n]
    BY <1>1 DEF ItemsKept
<1>3. \A n \in 1..Len(items) : \A c : TerminalOf(c, n)' <=> TerminalOf(c, n)
    BY <1>2 DEF TerminalOf
<1> QED
    BY <1>1, <1>2, <1>3 DEF Noticed, ShownAgain

LEMMA ItemAppended ==
    ASSUME NEW S, NEW s \in Seq(S), NEW e \in S
    PROVE  /\ Append(s, e) \in Seq(S) /\ Len(s) \in Nat /\ DOMAIN s = 1..Len(s)
           /\ DOMAIN Append(s, e) = 1..(Len(s) + 1) /\ Append(s, e)[Len(s) + 1] = e
           /\ \A k \in DOMAIN s : k \in DOMAIN Append(s, e) /\ Append(s, e)[k] = s[k]
OBVIOUS

LEMMA ItemTaken ==
    ASSUME NEW S, NEW s \in Seq(S), s # <<>>
    PROVE  /\ Tail(s) \in Seq(S) /\ Head(s) = s[1] /\ Head(s) \in S /\ 1 \in DOMAIN s
           /\ Len(s) \in Nat \ {0} /\ DOMAIN s = 1..Len(s) /\ DOMAIN Tail(s) = 1..(Len(s) - 1)
           /\ \A k \in DOMAIN Tail(s) : k \in Nat \ {0} /\ k + 1 \in DOMAIN s /\ Tail(s)[k] = s[k + 1]
OBVIOUS

(* What the user has of an item is there, however much more is told.       *)
LEMMA ScreensKept ==
    ASSUME DeliveryInv, DeliveryTypes', ItemsKept, UNCHANGED <<chat, audits>>
    PROVE  ScreensAudited'
<1> SUFFICES ASSUME NEW n \in 1..Len(items')
    PROVE  /\ audits[n] # None =>
                /\ audits[n].content.session = items'[n].session
                /\ audits[n].delivered =>
                      IF audits[n].as = "image"
                      THEN chat[n].header /\ chat[n].image = audits[n].content.size /\ chat[n].parts = 0
                      ELSE chat[n].parts = audits[n].content.parts
           /\ chat[n].image # 0 /\ chat[n].parts # 0 => chat[n].late
    BY DEF ScreensAudited
<1>1. n \in Items /\ Len(items) \in Nat
    <2>1. Len(items') <= MaxItems /\ Len(items) \in Nat
        BY DEF DeliveryTypes, DeliveryInv
    <2>2. Len(items') \in Nat
        BY DEF DeliveryTypes
    <2> QED
        BY <2>1, <2>2, DeliveryAssumption DEF Items
<1>2. CASE n \in 1..Len(items)
    BY <1>2, NoticedKept DEF DeliveryInv, ScreensAudited
<1>3. CASE n \notin 1..Len(items)
    BY <1>1, <1>3 DEF DeliveryInv, TouchedOnce, Touched, NothingSent, Items
<1> QED
    BY <1>2, <1>3

LEMMA TouchedKept ==
    ASSUME DeliveryInv, DeliveryTypes', ItemsKept, UNCHANGED <<chat, audits>>,
           \A k \in DOMAIN toldItems : \E j \in DOMAIN toldItems' : toldItems'[j] = toldItems[k],
           job.item \in Items => \/ job'.item = job.item \/ items[job.item].kind = "reply"
                                 \/ \E k \in DOMAIN toldItems' : toldItems'[k] = job.item
    PROVE  TouchedOnce'
<1> SUFFICES ASSUME NEW n \in Items, Touched(n)
    PROVE  /\ n <= Len(items')
           /\ n = job'.item \/ items'[n].kind = "reply" \/ \E k \in DOMAIN toldItems' : toldItems'[k] = n
    BY DEF TouchedOnce, Touched
<1>1. /\ n <= Len(items) /\ n \in 1..Len(items)
      /\ n = job.item \/ items[n].kind = "reply" \/ \E k \in DOMAIN toldItems : toldItems[k] = n
    BY DeliveryAssumption DEF DeliveryInv, TouchedOnce, Items, DeliveryTypes
<1> QED
    BY <1>1, NoticedKept DEF DeliveryInv

(* What others do leaves a task its item.                                  *)
LEMMA JobKept ==
    ASSUME DeliveryInv, DeliveryTypes', ItemsKept, UNCHANGED <<job, chat, audits, pendingGet>>,
           carried' = carried \/ carried # job.item
    PROVE  JobFits'
<1>1. CASE job.item = 0
    BY <1>1 DEF DeliveryInv, JobFits
<1>2. CASE job.item # 0
    <2>1. job.item \in 1..Len(items) /\ items'[job.item] = items[job.item] /\ job.item <= Len(items')
        <3>1. job.item \in Nat \ {0} /\ job.item <= Len(items) /\ Len(items) \in Nat /\ Len(items') \in Nat
            <4>1. job \in Jobs /\ Len(items) \in Nat
                BY DEF DeliveryInv, DeliveryTypes
            <4>2. Len(items') \in Nat
                BY DEF DeliveryTypes
            <4> QED
                BY <1>2, <4>1, <4>2 DEF DeliveryInv, JobFits, Jobs
        <3> QED
            BY <3>1 DEF ItemsKept
    <2>2. \A c : TerminalOf(c, job.item)' <=> TerminalOf(c, job.item)
        BY <2>1, NoticedKept DEF DeliveryInv
    <2>3. items[job.item].kind = "reply" \/ carried' = job.item
        BY <1>2 DEF DeliveryInv, JobFits
    <2>4. UNCHANGED <<NoScreen(job.item), job.content.mode, TotalChunks(job.content.size)>>
        BY DEF NoScreen
    <2> QED
        BY <1>2, <2>1, <2>2, <2>3, <2>4 DEF DeliveryInv, JobFits, TerminalOf, Idle
<1> QED
    BY <1>1, <1>2

(* Pal sends: its message goes to the end of the wire.                     *)
LEMMA WireAppended ==
    ASSUME DeliveryInv, DeliveryTypes', ItemsKept, NEW m \in WireMessages, wire' = Append(wire, m),
           m.type = "item" =>
               \A k \in WireItems : wire[k].item < m.item \/ (wire[k].item = m.item /\ m.item \in ShownAgain),
           m.type = "item" =>
               \A j \in DOMAIN accepted :
                   \/ accepted[j] < m.item
                   \/ /\ accepted[j] = m.item /\ accepted[j] \in ShownAgain
                      /\ lastSeq[items[accepted[j]].session] >= accepted[j],
           UNCHANGED <<accepted, lastSeq>>
    PROVE  WireOrdered'
<1> DEFINE z == Len(wire) + 1
<1>1. /\ z \in Nat /\ DOMAIN wire' = DOMAIN wire \cup {z} /\ wire'[z] = m
      /\ \A k \in DOMAIN wire : k \in Nat /\ k < z /\ wire'[k] = wire[k]
    <2>1. wire \in Seq(WireMessages)
        BY DEF DeliveryInv, DeliveryTypes
    <2> QED
        BY <2>1, ItemAppended
<1> HIDE DEF z
<1>2. WireItems' = WireItems \cup (IF m.type = "item" THEN {z} ELSE {})
    BY <1>1 DEF WireItems
<1>3. \A j \in DOMAIN accepted : accepted[j] \in Noticed /\ items'[accepted[j]] = items[accepted[j]]
    BY NoticedKept DEF DeliveryInv, ConnectionFits, Noticed
<1>4. ShownAgain \subseteq ShownAgain'
    BY NoticedKept DEF DeliveryInv
<1>5. \A j, k \in WireItems' : j < k =>
          wire'[j].item < wire'[k].item \/ (wire'[j].item = wire'[k].item /\ wire'[j].item \in ShownAgain')
    <2> SUFFICES ASSUME NEW j \in WireItems', NEW k \in WireItems', j < k
        PROVE  wire'[j].item < wire'[k].item \/ (wire'[j].item = wire'[k].item /\ wire'[j].item \in ShownAgain')
        OBVIOUS
    <2>1. j \in WireItems
        BY <1>1, <1>2 DEF WireItems
    <2>2. CASE k \in WireItems
        BY <1>1, <1>4, <2>1, <2>2 DEF DeliveryInv, WireOrdered, WireItems
    <2>3. CASE k = z /\ m.type = "item"
        BY <1>1, <1>4, <2>1, <2>3 DEF WireItems
    <2> QED
        BY <1>2, <2>2, <2>3
<1>6. \A j \in DOMAIN accepted : \A k \in WireItems' :
          \/ accepted[j] < wire'[k].item
          \/ /\ accepted[j] = wire'[k].item /\ accepted[j] \in ShownAgain'
             /\ lastSeq[items'[accepted[j]].session] >= accepted[j]
    <2> SUFFICES ASSUME NEW j \in DOMAIN accepted, NEW k \in WireItems'
        PROVE  \/ accepted[j] < wire'[k].item
               \/ /\ accepted[j] = wire'[k].item /\ accepted[j] \in ShownAgain'
                  /\ lastSeq[items'[accepted[j]].session] >= accepted[j]
        OBVIOUS
    <2>1. CASE k \in WireItems
        BY <1>1, <1>3, <1>4, <2>1 DEF DeliveryInv, WireOrdered, WireItems
    <2>2. CASE k = z /\ m.type = "item"
        BY <1>1, <1>3, <1>4, <2>2
    <2> QED
        BY <1>2, <2>1, <2>2
<1> QED
    BY <1>5, <1>6 DEF WireOrdered

(* Nothing new on the wire.                                                *)
LEMMA WireUnsaid ==
    ASSUME DeliveryInv, DeliveryTypes', ItemsKept, UNCHANGED <<accepted, lastSeq>>, wire' = wire \/ wire' = <<>>
    PROVE  WireOrdered'
<1>1. \A j \in DOMAIN accepted : accepted[j] \in Noticed /\ items'[accepted[j]] = items[accepted[j]]
    BY NoticedKept DEF DeliveryInv, ConnectionFits, Noticed
<1>2. ShownAgain \subseteq ShownAgain'
    BY NoticedKept DEF DeliveryInv
<1>3. WireItems' = {} \/ (wire' = wire /\ WireItems' = WireItems)
    BY DEF WireItems
<1> QED
    BY <1>1, <1>2, <1>3 DEF DeliveryInv, WireOrdered

(* What Pal does leaves the server's side alone.                           *)
LEMMA PalSideKept ==
    ASSUME DeliveryInv, PalOnly, DeliveryTypes', ItemsKept
    PROVE  JobFits' /\ TouchedOnce' /\ ToldInOrder' /\ ScreensAudited'
<1>1. UNCHANGED <<up, shown, pendingGet, job, noticeKeys, lastSeq, outbound, carried, accepted, toldItems, chat, audits>>
    BY DEF PalOnly, outboundVars, chatVars
<1> QED
    BY <1>1, JobKept, TouchedKept, ScreensKept DEF ToldInOrder, DeliveryInv

LEMMA FitsAppended ==
    ASSUME DeliveryInv, PalOnly, DeliveryTypes', ItemsKept, NEW m \in WireMessages, wire' = Append(wire, m),
           m.type = "item" => m.item \in Noticed',
           m.type = "snapshot" => m.item <= MaxReplaced,
           m.type = "result" => m.item <= Len(items) /\ (m.content # None => TerminalOf(m.content, m.item)),
           \A k \in DOMAIN gets' : gets'[k].item <= Len(items),
           palReads' # None => palReads'.item <= Len(items)
    PROVE  ConnectionFits'
<1>1. UNCHANGED <<up, shown, outbound, carried, accepted>>
    BY DEF PalOnly, outboundVars
<1>2. /\ Noticed \subseteq Noticed' /\ Len(items) \in Nat /\ Len(items') \in Nat /\ Len(items') >= Len(items)
      /\ \A n \in 1..Len(items) : \A c : TerminalOf(c, n)' <=> TerminalOf(c, n)
    BY NoticedKept DEF DeliveryInv, ItemsKept
<1>3. shown' = 0 => ~up' /\ carried' = 0
    BY <1>1 DEF DeliveryInv, ConnectionFits
<1>4. carried' # 0 => carried' \in Noticed'
    BY <1>1, <1>2 DEF DeliveryInv, ConnectionFits
<1>5. /\ \A k \in DOMAIN outbound' : outbound'[k] \in Noticed'
      /\ \A k \in DOMAIN accepted' : accepted'[k] \in Noticed'
    BY <1>1, <1>2 DEF DeliveryInv, ConnectionFits
<1>6. /\ \A k \in DOMAIN gets' : gets'[k].item <= Len(items')
      /\ palReads' # None => palReads'.item <= Len(items')
    <2>1. /\ \A k \in DOMAIN gets' : gets'[k].item \in Nat
          /\ palReads' # None => palReads'.item \in Nat
        <3>1. gets' \in Seq(TerminalGets) /\ palReads' \in TerminalGets \cup {None}
            BY DEF DeliveryTypes
        <3> QED
            <4>1. \A g \in TerminalGets : g.item \in Nat
                BY DEF TerminalGets
            <4>2. \A k \in DOMAIN gets' : gets'[k] \in TerminalGets
                BY <3>1
            <4> QED
                BY <3>1, <4>1, <4>2
    <2> QED
        BY <1>2, <2>1
<1>7. \A k \in DOMAIN wire' :
          /\ wire'[k].type = "item" => wire'[k].item \in Noticed'
          /\ wire'[k].type = "snapshot" => wire'[k].item <= MaxReplaced
          /\ wire'[k].type = "result" =>
                /\ wire'[k].item <= Len(items')
                /\ (wire'[k].content # None => TerminalOf(wire[k].content, wire[k].item)')
    <2> SUFFICES ASSUME NEW k \in DOMAIN wire'
        PROVE  /\ wire'[k].type = "item" => wire'[k].item \in Noticed'
               /\ wire'[k].type = "snapshot" => wire'[k].item <= MaxReplaced
               /\ wire'[k].type = "result" =>
                     /\ wire'[k].item <= Len(items')
                     /\ (wire'[k].content # None => TerminalOf(wire[k].content, wire[k].item)')
        OBVIOUS
    <2>1. (k \in DOMAIN wire /\ wire'[k] = wire[k]) \/ wire'[k] = m
        <3>1. wire \in Seq(WireMessages)
            BY DEF DeliveryInv, DeliveryTypes
        <3> QED
            BY <3>1, ItemAppended
    <2>2. wire'[k] \in WireMessages
        <3>1. wire' \in Seq(WireMessages)
            BY DEF DeliveryTypes
        <3> QED
            BY <3>1
    <2>3. wire'[k].type = "result" => wire'[k].item \in 1..Len(items)
        BY <1>2, <2>1, <2>2 DEF DeliveryInv, ConnectionFits, WireMessages
    <2>4. wire'[k].type = "result" /\ wire'[k].content # None => TerminalOf(wire'[k].content, wire'[k].item)
        BY <2>1 DEF DeliveryInv, ConnectionFits
    <2>5. wire'[k].type = "item" => wire'[k].item \in Noticed'
        BY <1>2, <2>1 DEF DeliveryInv, ConnectionFits
    <2>6. wire'[k].type = "snapshot" => wire'[k].item <= MaxReplaced
        BY <2>1 DEF DeliveryInv, ConnectionFits
    <2> QED
        BY <1>2, <2>3, <2>4, <2>5, <2>6
<1> QED
    BY <1>3, <1>4, <1>5, <1>6, <1>7 DEF ConnectionFits

LEMMA SendItemKeeps ==
    ASSUME DeliveryInv, NEW kind \in {"working", "done", "invalidated", "output"}, SendItem(kind)
    PROVE  DeliveryInv'
<1> DEFINE m == Says("item", Len(items) + 1)
<1>1. PICK s \in 1..MaxReplaced : items' = Append(items, [kind |-> kind, session |-> s])
    BY DeliveryAssumption DEF SendItem, DeliveryInv, DeliveryTypes
<1>2. Len(items) < MaxItems /\ wire' = Append(wire, m) /\ UNCHANGED <<real, gets, palReads>> /\ PalOnly
    BY DEF SendItem
<1>3. [kind |-> kind, session |-> s] \in [kind : ItemKinds, session : 1..MaxReplaced]
    BY DEF ItemKinds
<1>4. /\ items' \in Seq([kind : ItemKinds, session : 1..MaxReplaced]) /\ Len(items') = Len(items) + 1
      /\ Len(items') <= MaxItems /\ items'[Len(items) + 1] = [kind |-> kind, session |-> s] /\ ItemsKept
    BY <1>1, <1>2, <1>3, ItemAdded DEF DeliveryInv
<1>5. m \in WireMessages /\ m.type = "item" /\ m.item = Len(items) + 1 /\ Len(items) \in Nat
    BY DEF Says, WireMessages, DeliveryInv, DeliveryTypes
<1> HIDE DEF m
<1>6. wire' \in Seq(WireMessages)
    BY <1>2, <1>5 DEF DeliveryInv, DeliveryTypes
<1>7. DeliveryTypes'
    BY <1>2, <1>4, <1>6 DEF DeliveryInv, DeliveryTypes, PalOnly, outboundVars, chatVars
<1>8. m.item \in Noticed'
    BY <1>4, <1>5 DEF Noticed
<1>9. ConnectionFits'
    BY <1>2, <1>4, <1>5, <1>7, <1>8, FitsAppended DEF DeliveryInv, ConnectionFits
<1>10. WireOrdered'
    <2>1. \A k \in WireItems : wire[k].item < m.item
        BY <1>5 DEF DeliveryInv, ConnectionFits, WireItems, Noticed
    <2>2. \A j \in DOMAIN accepted : accepted[j] < m.item
        BY <1>5 DEF DeliveryInv, ConnectionFits, Noticed
    <2> QED
        BY <1>2, <1>4, <1>5, <1>7, <2>1, <2>2, WireAppended DEF PalOnly, outboundVars
<1> QED
    BY <1>2, <1>4, <1>7, <1>9, <1>10, PalSideKept DEF DeliveryInv

LEMMA SendAgainKeeps ==
    ASSUME DeliveryInv, SendAgain
    PROVE  DeliveryInv'
<1> DEFINE m == wire[1]
<1>1. /\ Len(wire) = 1 /\ m.type = "item" /\ items[m.item].kind \in {"working", "done"}
      /\ wire' = Append(wire, m) /\ UNCHANGED <<real, items, gets, palReads>> /\ PalOnly
    BY DEF SendAgain, palVars
<1>2. 1 \in DOMAIN wire /\ DOMAIN wire = {1} /\ m \in WireMessages /\ wire' \in Seq(WireMessages)
    BY <1>1, ItemAppended DEF DeliveryInv, DeliveryTypes
<1>3. 1 \in WireItems /\ WireItems \subseteq {1} /\ m = wire[1]
    BY <1>1, <1>2 DEF WireItems
<1> HIDE DEF m
<1>4. ItemsKept
    BY <1>1 DEF ItemsKept, DeliveryInv, DeliveryTypes
<1>5. DeliveryTypes'
    BY <1>1, <1>2 DEF DeliveryInv, DeliveryTypes, PalOnly, outboundVars, chatVars
<1>6. m.item \in Noticed /\ m.item \in ShownAgain /\ Noticed' = Noticed
    BY <1>1, <1>2, <1>3 DEF DeliveryInv, ConnectionFits, ShownAgain, Noticed
<1>7. ConnectionFits'
    BY <1>1, <1>2, <1>4, <1>5, <1>6, FitsAppended DEF DeliveryInv, ConnectionFits
<1>8. \A k \in WireItems : wire[k].item = m.item
    BY <1>3
<1>9. \A j \in DOMAIN accepted :
          \/ accepted[j] < m.item
          \/ /\ accepted[j] = m.item /\ accepted[j] \in ShownAgain
             /\ lastSeq[items[accepted[j]].session] >= accepted[j]
    BY <1>3 DEF DeliveryInv, WireOrdered
<1>10. WireOrdered'
    BY <1>1, <1>2, <1>4, <1>5, <1>6, <1>8, <1>9, WireAppended DEF PalOnly, outboundVars
<1> QED
    BY <1>1, <1>4, <1>5, <1>7, <1>10, PalSideKept DEF DeliveryInv

LEMMA PalAnswersKeeps ==
    ASSUME DeliveryInv, SessionReplaced \/ ReceiveGet \/ HandleTerminalSnapshot
    PROVE  DeliveryInv'
<1>1. UNCHANGED items /\ PalOnly /\ real' \in 1..MaxReplaced
    <2>1. real \in 1..MaxReplaced
        BY DEF DeliveryInv, DeliveryTypes
    <2>2. UNCHANGED items /\ PalOnly /\ (real' = real \/ (real' = real + 1 /\ real < MaxReplaced))
        BY DEF SessionReplaced, ReceiveGet, HandleTerminalSnapshot
    <2> QED
        BY <2>1, <2>2, DeliveryAssumption
<1>2. ItemsKept
    BY <1>1 DEF ItemsKept, DeliveryInv, DeliveryTypes
<1>3. /\ gets' \in Seq(TerminalGets) /\ palReads' \in TerminalGets \cup {None}
      /\ \A k \in DOMAIN gets' : gets'[k].item <= Len(items)
      /\ palReads' # None => palReads'.item <= Len(items)
    <2>1. CASE SessionReplaced
        BY <2>1 DEF SessionReplaced, DeliveryInv, DeliveryTypes, ConnectionFits
    <2>2. CASE ReceiveGet
        BY <2>2, ItemTaken DEF ReceiveGet, DeliveryInv, DeliveryTypes, ConnectionFits
    <2>3. CASE HandleTerminalSnapshot
        BY <2>3 DEF HandleTerminalSnapshot, DeliveryInv, DeliveryTypes, ConnectionFits
    <2> QED
        BY <2>1, <2>2, <2>3
<1>4. \/ UNCHANGED wire
      \/ \E m \in WireMessages :
            /\ wire' = Append(wire, m) /\ m.type # "item"
            /\ m.type = "snapshot" => m.item <= MaxReplaced
            /\ m.type = "result" => m.item <= Len(items) /\ (m.content # None => TerminalOf(m.content, m.item))
    <2>1. CASE SessionReplaced
        <3> DEFINE m == Says("snapshot", real + 1)
        <3>1. m \in WireMessages /\ m.type = "snapshot" /\ m.item <= MaxReplaced /\ wire' = Append(wire, m)
            BY <2>1, DeliveryAssumption DEF SessionReplaced, Says, WireMessages, DeliveryInv, DeliveryTypes
        <3> QED
            BY <3>1
    <2>2. CASE ReceiveGet
        <3>1. CASE palReads = None
            BY <2>2, <3>1 DEF ReceiveGet
        <3>2. CASE palReads # None
            <4> DEFINE m == TerminalResult(Head(gets), "busy", None)
            <4>1. Head(gets) \in TerminalGets /\ Head(gets) = gets[1] /\ 1 \in DOMAIN gets
                BY <2>2, ItemTaken DEF ReceiveGet, DeliveryInv, DeliveryTypes
            <4>2. /\ m \in WireMessages /\ m.type = "result" /\ m.item <= Len(items) /\ m.content = None
                  /\ wire' = Append(wire, m)
                BY <2>2, <3>2, <4>1 DEF ReceiveGet, TerminalResult, WireMessages, TerminalGets, DeliveryInv, ConnectionFits
            <4> QED
                BY <4>2
        <3> QED
            BY <3>1, <3>2
    <2>3. CASE HandleTerminalSnapshot
        <3>1. PICK m \in Rendered(palReads) : wire' = Append(wire, m)
            BY <2>3 DEF HandleTerminalSnapshot
        <3>2. palReads \in TerminalGets /\ palReads.item \in 1..Len(items)
            BY <2>3 DEF HandleTerminalSnapshot, DeliveryInv, DeliveryTypes, ConnectionFits, TerminalGets
        <3>3. \A mode \in ModesSet \cup {"text"} : \A c \in Terminal(mode, real) : c \in Terminals /\ c.session = real
            <4>1. real \in 1..MaxReplaced /\ ImageSizes \subseteq Nat
                BY DeliveryAssumption DEF DeliveryInv, DeliveryTypes
            <4>2. \A mode : Terminal(mode, real) \subseteq
                      [mode : {mode}, session : {real}, parts : {MaxParts}, size : Nat]
                <5> SUFFICES ASSUME NEW mode
                    PROVE  Terminal(mode, real) \subseteq
                               [mode : {mode}, session : {real}, parts : {MaxParts}, size : Nat]
                    OBVIOUS
                <5>1. CASE mode = "image"
                    BY <4>1, <5>1 DEF Terminal
                <5>2. CASE mode # "image"
                    BY <5>2 DEF Terminal
                <5> QED
                    BY <5>1, <5>2
            <4>3. \A mode \in ModesSet \cup {"text"} :
                      \A c \in [mode : {mode}, session : {real}, parts : {MaxParts}, size : Nat] :
                          c \in Terminals /\ c.session = real
                BY <4>1 DEF Terminals
            <4> QED
                BY <4>2, <4>3
        <3>4. /\ m.type = "result" /\ m.item = palReads.item
              /\ m.outcome \in {"changed", "failed", "ok", "fallback"}
              /\ m = [type |-> "result", item |-> palReads.item, outcome |-> m.outcome, content |-> m.content]
              /\ m.content = None \/ (~Changed(palReads) /\ \E mode \in ModesSet \cup {"text"} : m.content \in Terminal(mode, real))
            BY <3>1, <3>2 DEF Rendered, TerminalResult, TerminalGets
        <3>5. m.content # None => TerminalOf(m.content, m.item)
            BY <3>3, <3>4 DEF Changed, TerminalOf
        <3>6. m \in WireMessages
            BY <3>2, <3>4, <3>5 DEF WireMessages, TerminalOf, TerminalGets
        <3> QED
            BY <3>1, <3>2, <3>4, <3>5, <3>6
    <2> QED
        BY <2>1, <2>2, <2>3
<1>5. wire' \in Seq(WireMessages)
    <2>1. wire \in Seq(WireMessages)
        BY DEF DeliveryInv, DeliveryTypes
    <2> QED
        BY <1>4, <2>1, ItemAppended
<1>6. DeliveryTypes'
    BY <1>1, <1>3, <1>5 DEF DeliveryInv, DeliveryTypes, PalOnly, outboundVars, chatVars
<1>7. UNCHANGED <<accepted, lastSeq>>
    BY <1>1 DEF PalOnly, outboundVars
<1>8. ConnectionFits' /\ WireOrdered'
    <2>1. CASE UNCHANGED wire
        <3>1. WireOrdered'
            BY <1>2, <1>6, <1>7, <2>1, WireUnsaid
        <3>2. ConnectionFits'
            BY <1>1, <1>3, <2>1 DEF PalOnly, outboundVars, DeliveryInv, ConnectionFits, Noticed, TerminalOf
        <3> QED
            BY <3>1, <3>2
    <2>2. CASE ~UNCHANGED wire
        <3>1. PICK m \in WireMessages :
                  /\ wire' = Append(wire, m) /\ m.type # "item"
                  /\ m.type = "snapshot" => m.item <= MaxReplaced
                  /\ m.type = "result" => m.item <= Len(items) /\ (m.content # None => TerminalOf(m.content, m.item))
            BY <1>4, <2>2
        <3> QED
            BY <1>1, <1>2, <1>3, <1>6, <1>7, <3>1, FitsAppended, WireAppended
    <2> QED
        BY <2>1, <2>2
<1> QED
    BY <1>1, <1>2, <1>6, <1>8, PalSideKept DEF DeliveryInv

(* The read loop takes a message.                                          *)
LEMMA WireRead ==
    ASSUME DeliveryInv, wire # <<>>, wire' = Tail(wire), UNCHANGED items
    PROVE  /\ Received = wire[1] /\ Received \in WireMessages /\ 1 \in DOMAIN wire /\ wire' \in Seq(WireMessages)
           /\ \A k \in DOMAIN wire' : k \in Nat \ {0} /\ k + 1 \in DOMAIN wire /\ wire'[k] = wire[k + 1]
           /\ \A k \in WireItems' : k \in Nat \ {0} /\ k + 1 \in WireItems /\ wire'[k] = wire[k + 1]
           /\ UNCHANGED <<accepted, lastSeq>> => WireOrdered'
<1>1. wire \in Seq(WireMessages)
    BY DEF DeliveryInv, DeliveryTypes
<1>2. /\ Received = wire[1] /\ Received \in WireMessages /\ 1 \in DOMAIN wire /\ wire' \in Seq(WireMessages)
      /\ \A k \in DOMAIN wire' : k \in Nat \ {0} /\ k + 1 \in DOMAIN wire /\ wire'[k] = wire[k + 1]
    BY <1>1, ItemTaken DEF Received
<1>3. \A k \in WireItems' : k \in Nat \ {0} /\ k + 1 \in WireItems /\ wire'[k] = wire[k + 1]
    BY <1>2 DEF WireItems
<1>4. ASSUME UNCHANGED <<accepted, lastSeq>> PROVE WireOrdered'
    <2>1. ShownAgain' = ShownAgain
        BY DEF ShownAgain, Noticed
    <2>2. \A j, k \in WireItems' : j < k =>
              wire'[j].item < wire'[k].item \/ (wire'[j].item = wire'[k].item /\ wire'[j].item \in ShownAgain)
        <3> SUFFICES ASSUME NEW j \in WireItems', NEW k \in WireItems', j < k
            PROVE  wire'[j].item < wire'[k].item \/ (wire'[j].item = wire'[k].item /\ wire'[j].item \in ShownAgain)
            OBVIOUS
        <3>1. j + 1 < k + 1 /\ j + 1 \in WireItems /\ k + 1 \in WireItems
            BY <1>3
        <3>2. \/ wire[j + 1].item < wire[k + 1].item
              \/ wire[j + 1].item = wire[k + 1].item /\ wire[j + 1].item \in ShownAgain
            BY <3>1 DEF DeliveryInv, WireOrdered
        <3> QED
            BY <1>3, <3>2
    <2>3. \A j \in DOMAIN accepted : \A k \in WireItems' :
              \/ accepted[j] < wire'[k].item
              \/ /\ accepted[j] = wire'[k].item /\ accepted[j] \in ShownAgain
                 /\ lastSeq[items[accepted[j]].session] >= accepted[j]
        <3> SUFFICES ASSUME NEW j \in DOMAIN accepted, NEW k \in WireItems'
            PROVE  \/ accepted[j] < wire'[k].item
                   \/ /\ accepted[j] = wire'[k].item /\ accepted[j] \in ShownAgain
                      /\ lastSeq[items[accepted[j]].session] >= accepted[j]
            OBVIOUS
        <3>1. \/ accepted[j] < wire[k + 1].item
              \/ /\ accepted[j] = wire[k + 1].item /\ accepted[j] \in ShownAgain
                 /\ lastSeq[items[accepted[j]].session] >= accepted[j]
            BY <1>3 DEF DeliveryInv, WireOrdered
        <3> QED
            BY <1>3, <3>1
    <2> QED
        BY <1>4, <2>1, <2>2, <2>3 DEF WireOrdered
<1> QED
    BY <1>2, <1>3, <1>4

LEMMA ReadFits ==
    ASSUME DeliveryInv, wire # <<>>, wire' = Tail(wire), UNCHANGED <<items, gets, palReads>>,
           shown' = 0 => ~up' /\ carried' = 0, carried' # 0 => carried' \in Noticed,
           \A k \in DOMAIN outbound' : outbound'[k] \in Noticed,
           \A k \in DOMAIN accepted' : accepted'[k] \in Noticed
    PROVE  ConnectionFits'
<1>1. Noticed' = Noticed /\ \A c, n : TerminalOf(c, n)' <=> TerminalOf(c, n)
    BY DEF Noticed, TerminalOf
<1>2. \A k \in DOMAIN wire' : k + 1 \in DOMAIN wire /\ wire'[k] = wire[k + 1]
    BY WireRead
<1> QED
    BY <1>1, <1>2 DEF DeliveryInv, ConnectionFits

LEMMA DisconnectedKeeps ==
    ASSUME DeliveryInv, Disconnected
    PROVE  DeliveryInv'
<1>1. /\ up' = FALSE /\ wire' = <<>> /\ gets' = <<>> /\ palReads' = None
      /\ UNCHANGED <<shown, real, items, pendingGet, job, noticeKeys, lastSeq, outbound, carried, accepted, toldItems,
                     chat, audits>>
    BY DEF Disconnected, outboundVars, chatVars
<1>2. DeliveryTypes'
    <2>1. wire' \in Seq(WireMessages) /\ gets' \in Seq(TerminalGets)
        BY <1>1
    <2>2. up' \in BOOLEAN /\ palReads' \in TerminalGets \cup {None}
        BY <1>1
    <2> QED
        BY <1>1, <2>1, <2>2 DEF DeliveryInv, DeliveryTypes
<1>3. ItemsKept
    BY <1>1 DEF ItemsKept, DeliveryInv, DeliveryTypes
<1>4. ConnectionFits'
    BY <1>1 DEF DeliveryInv, ConnectionFits, Noticed
<1>5. JobFits' /\ TouchedOnce' /\ ScreensAudited' /\ WireOrdered'
    BY <1>1, <1>2, <1>3, JobKept, TouchedKept, ScreensKept, WireUnsaid
<1>6. ToldInOrder'
    BY <1>1 DEF DeliveryInv, ToldInOrder
<1> QED
    BY <1>2, <1>4, <1>5, <1>6 DEF DeliveryInv

LEMMA DetachKeeps ==
    ASSUME DeliveryInv, DetachView
    PROVE  DeliveryInv'
<1>1. /\ ~up /\ carried = 0 /\ shown' = 0 /\ outbound' = <<>>
      /\ UNCHANGED <<up, wire, pendingGet, real, items, gets, palReads, job, noticeKeys, lastSeq, carried, accepted,
                     toldItems, chat, audits>>
    BY DEF DetachView, palVars, chatVars
<1>2. shown' \in 0..MaxReplaced
    BY <1>1, DeliveryAssumption
<1>3. DeliveryTypes'
    BY <1>1, <1>2 DEF DeliveryInv, DeliveryTypes
<1>4. ItemsKept
    BY <1>1 DEF ItemsKept, DeliveryInv, DeliveryTypes
<1>5. ConnectionFits'
    BY <1>1 DEF DeliveryInv, ConnectionFits, Noticed, TerminalOf
<1>6. JobFits' /\ TouchedOnce' /\ ScreensAudited' /\ WireOrdered'
    BY <1>1, <1>3, <1>4, JobKept, TouchedKept, ScreensKept, WireUnsaid
<1>7. ToldInOrder'
    BY <1>1 DEF DeliveryInv, ToldInOrder
<1> QED
    BY <1>3, <1>5, <1>6, <1>7 DEF DeliveryInv

LEMMA ReadSnapshotShows ==
    ASSUME DeliveryInv, ReadSnapshot
    PROVE  DeliveryInv'
<1>1. /\ up /\ wire # <<>> /\ Received.type = "snapshot" /\ wire' = Tail(wire) /\ shown' = Received.item
      /\ UNCHANGED <<up, pendingGet, real, items, gets, palReads, job, noticeKeys, lastSeq, outbound, carried, accepted,
                     toldItems, chat, audits>>
    BY DEF ReadSnapshot, ReadPast, palVars, chatVars, outboundVars
<1>2. /\ Received = wire[1] /\ Received \in WireMessages /\ 1 \in DOMAIN wire /\ wire' \in Seq(WireMessages)
      /\ WireOrdered'
    BY <1>1, WireRead
<1>3. shown' \in 1..MaxReplaced
    BY <1>1, <1>2, DeliveryAssumption DEF DeliveryInv, ConnectionFits, WireMessages
<1>4. DeliveryTypes'
    BY <1>1, <1>2, <1>3 DEF DeliveryInv, DeliveryTypes
<1>5. ItemsKept
    BY <1>1 DEF ItemsKept, DeliveryInv, DeliveryTypes
<1>6. ConnectionFits'
    BY <1>1, <1>3, ReadFits DEF DeliveryInv, ConnectionFits
<1>7. JobFits' /\ TouchedOnce' /\ ScreensAudited'
    BY <1>1, <1>4, <1>5, JobKept, TouchedKept, ScreensKept
<1>8. ToldInOrder'
    BY <1>1 DEF DeliveryInv, ConnectionFits, ToldInOrder
<1> QED
    BY <1>2, <1>4, <1>6, <1>7, <1>8 DEF DeliveryInv

LEMMA IgnoredKeeps ==
    ASSUME DeliveryInv, wire # <<>>, Ignored
    PROVE  DeliveryInv'
<1>1. /\ wire' = Tail(wire)
      /\ UNCHANGED <<up, shown, pendingGet, real, items, gets, palReads, job, noticeKeys, lastSeq, outbound, carried,
                     accepted, toldItems, chat, audits>>
    BY DEF Ignored, ReadPast, palVars, chatVars, outboundVars
<1>2. wire' \in Seq(WireMessages) /\ WireOrdered'
    BY <1>1, WireRead
<1>3. DeliveryTypes'
    BY <1>1, <1>2 DEF DeliveryInv, DeliveryTypes
<1>4. ItemsKept
    BY <1>1 DEF ItemsKept, DeliveryInv, DeliveryTypes
<1>5. ConnectionFits'
    BY <1>1, ReadFits DEF DeliveryInv, ConnectionFits
<1>6. JobFits' /\ TouchedOnce' /\ ScreensAudited'
    BY <1>1, <1>3, <1>4, JobKept, TouchedKept, ScreensKept
<1>7. ToldInOrder'
    BY <1>1 DEF DeliveryInv, ToldInOrder
<1> QED
    BY <1>2, <1>3, <1>5, <1>6, <1>7 DEF DeliveryInv

(* The queue as one sequence: what is told, what the worker carries, what  *)
(* waits.                                                                  *)
LEMMA FlowAppended ==
    ASSUME NEW a \in Seq(Nat), NEW c \in Seq(Nat), NEW q \in Seq(Nat), NEW x \in Nat
    PROVE  a \o c \o Append(q, x) = Append(a \o c \o q, x)
OBVIOUS

LEMMA FlowTold ==
    ASSUME NEW a \in Seq(Nat), NEW q \in Seq(Nat), NEW x \in Nat
    PROVE  Append(a, x) \o <<>> \o q = a \o <<x>> \o q
<1>1. Append(a, x) \in Seq(Nat) /\ Append(a, x) \o <<>> = Append(a, x)
    BY ConcatEmptySeq
<1>2. Append(a, x) = a \o <<x>>
    BY AppendIsConcat
<1> QED
    BY <1>1, <1>2

LEMMA FlowTaken ==
    ASSUME NEW a \in Seq(Nat), NEW q \in Seq(Nat), q # <<>>
    PROVE  a \o <<>> \o q = a \o <<Head(q)>> \o Tail(q)
<1>1. Head(q) \in Nat /\ Tail(q) \in Seq(Nat) /\ q = <<Head(q)>> \o Tail(q)
    BY HeadTailProperties
<1>2. a \o (<<Head(q)>> \o Tail(q)) = (a \o <<Head(q)>>) \o Tail(q)
    BY <1>1, ConcatAssociative
<1>3. a \o <<>> = a
    BY ConcatEmptySeq
<1> QED
    BY <1>1, <1>2, <1>3

LEMMA FlowFirst ==
    ASSUME NEW a \in Seq(Nat), NEW q \in Seq(Nat), NEW x \in Nat
    PROVE  /\ \A k \in DOMAIN a : k < Len(a) + 1 /\ k \in 1..Len(a \o <<x>> \o q) /\ (a \o <<x>> \o q)[k] = a[k]
           /\ Len(a) + 1 \in 1..Len(a \o <<x>> \o q) /\ (a \o <<x>> \o q)[Len(a) + 1] = x
<1> DEFINE b == a \o <<x>>
<1>1. /\ b \in Seq(Nat) /\ Len(b) = Len(a) + 1 /\ b[Len(a) + 1] = x /\ Len(a) \in Nat
      /\ \A k \in 1..Len(a) : b[k] = a[k]
    OBVIOUS
<1> HIDE DEF b
<1>2. Len(b \o q) = Len(b) + Len(q) /\ Len(q) \in Nat /\ \A k \in 1..Len(b) : (b \o q)[k] = b[k]
    <2>1. /\ Len(b \o q) = Len(b) + Len(q)
          /\ \A k \in 1..Len(b) + Len(q) : (b \o q)[k] = IF k <= Len(b) THEN b[k] ELSE q[k - Len(b)]
        BY <1>1, ConcatProperties
    <2>2. Len(q) \in Nat /\ Len(b) \in Nat
        BY <1>1
    <2> QED
        BY <2>1, <2>2
<1> QED
    BY <1>1, <1>2 DEF b

LEMMA EnqueueKeeps ==
    ASSUME DeliveryInv, up, wire # <<>>, Received.type = "item", EnqueueOutbound(Received.item),
           noticeKeys' \in Seq(Nat),
           \/ items[Received.item].kind = "output" /\ UNCHANGED lastSeq
           \/ /\ Received.item > lastSeq[items[Received.item].session]
              /\ lastSeq' = [lastSeq EXCEPT ![items[Received.item].session] = Received.item]
    PROVE  DeliveryInv'
<1> DEFINE n == Received.item
<1>1. /\ wire' = Tail(wire) /\ outbound' = Append(outbound, n) /\ accepted' = Append(accepted, n)
      /\ UNCHANGED <<up, shown, pendingGet, real, items, gets, palReads, job, carried, toldItems, chat, audits>>
    BY DEF EnqueueOutbound, ReadPast, palVars, chatVars
<1>2. /\ Received = wire[1] /\ Received \in WireMessages /\ 1 \in DOMAIN wire /\ wire' \in Seq(WireMessages)
      /\ \A k \in WireItems' : k \in Nat \ {0} /\ k + 1 \in WireItems /\ wire'[k] = wire[k + 1]
    BY <1>1, WireRead
<1>3. n \in Noticed /\ n \in Nat /\ 1 \in WireItems /\ n = wire[1].item
    BY <1>2 DEF DeliveryInv, ConnectionFits, WireMessages, WireItems
<1>4. items[n] \in [kind : ItemKinds, session : 1..MaxReplaced]
    <2>1. items \in Seq([kind : ItemKinds, session : 1..MaxReplaced])
        BY DEF DeliveryInv, DeliveryTypes
    <2> QED
        BY <1>3, <2>1, ElementOfSeq DEF Noticed
<1>5. /\ lastSeq \in [1..MaxReplaced -> Nat] /\ lastSeq' \in [1..MaxReplaced -> Nat]
      /\ \A s \in 1..MaxReplaced : lastSeq'[s] >= lastSeq[s]
      /\ n \in ShownAgain => lastSeq'[items[n].session] = n /\ n > lastSeq[items[n].session]
    <2>1. lastSeq \in [1..MaxReplaced -> Nat]
        BY DEF DeliveryInv, DeliveryTypes
    <2>2. CASE items[n].kind = "output" /\ UNCHANGED lastSeq
        BY <2>1, <2>2 DEF ShownAgain
    <2>3. CASE n > lastSeq[items[n].session] /\ lastSeq' = [lastSeq EXCEPT ![items[n].session] = n]
        BY <1>3, <1>4, <2>1, <2>3
    <2> QED
        BY <2>2, <2>3
<1> HIDE DEF n
<1>6. accepted \in Seq(Nat) /\ outbound \in Seq(Nat) /\ toldItems \in Seq(Nat) /\ carried \in Nat
    BY DEF DeliveryInv, DeliveryTypes
<1>7. /\ accepted' \in Seq(Nat) /\ outbound' \in Seq(Nat)
      /\ DOMAIN accepted' = DOMAIN accepted \cup {Len(accepted) + 1} /\ accepted'[Len(accepted) + 1] = n
      /\ \A k \in DOMAIN accepted : accepted'[k] = accepted[k]
      /\ \A k \in DOMAIN outbound' : (k \in DOMAIN outbound /\ outbound'[k] = outbound[k]) \/ outbound'[k] = n
    <2>1. /\ accepted' \in Seq(Nat) /\ DOMAIN accepted' = DOMAIN accepted \cup {Len(accepted) + 1}
          /\ accepted'[Len(accepted) + 1] = n /\ \A k \in DOMAIN accepted : accepted'[k] = accepted[k]
        BY <1>1, <1>3, <1>6
    <2>2. /\ outbound' \in Seq(Nat)
          /\ \A k \in DOMAIN outbound' : (k \in DOMAIN outbound /\ outbound'[k] = outbound[k]) \/ outbound'[k] = n
        BY <1>1, <1>3, <1>6
    <2> QED
        BY <2>1, <2>2
<1>8. DeliveryTypes'
    BY <1>1, <1>2, <1>5, <1>7 DEF DeliveryInv, DeliveryTypes
<1>9. ItemsKept
    BY <1>1 DEF ItemsKept, DeliveryInv, DeliveryTypes
<1>10. ConnectionFits'
    <2>1. \A k \in DOMAIN outbound' : outbound'[k] \in Noticed
        BY <1>3, <1>7 DEF DeliveryInv, ConnectionFits
    <2>2. \A k \in DOMAIN accepted' : accepted'[k] \in Noticed
        BY <1>3, <1>7 DEF DeliveryInv, ConnectionFits
    <2>3. (shown' = 0 => ~up' /\ carried' = 0) /\ (carried' # 0 => carried' \in Noticed)
        BY <1>1 DEF DeliveryInv, ConnectionFits
    <2> QED
        BY <1>1, <2>1, <2>2, <2>3, ReadFits
<1>11. JobFits' /\ TouchedOnce' /\ ScreensAudited'
    BY <1>1, <1>8, <1>9, JobKept, TouchedKept, ScreensKept
<1>12. \A j \in DOMAIN accepted : accepted[j] < n
    <2> SUFFICES ASSUME NEW j \in DOMAIN accepted PROVE accepted[j] < n
        OBVIOUS
    <2>1. accepted[j] < n \/ (accepted[j] = n /\ n \in ShownAgain /\ lastSeq[items[n].session] >= n)
        BY <1>3 DEF DeliveryInv, WireOrdered
    <2>2. lastSeq[items[n].session] \in Nat
        BY <1>4, <1>5
    <2> QED
        BY <1>3, <1>5, <2>1, <2>2
<1>13. ToldInOrder'
    <2> DEFINE c == IF carried = 0 THEN <<>> ELSE <<carried>>
    <2>1. c \in Seq(Nat)
        BY <1>6
    <2>2. shown # 0 => toldItems \o c \o outbound = accepted
        BY DEF DeliveryInv, ToldInOrder
    <2> HIDE DEF c
    <2>3. toldItems \o c \o Append(outbound, n) = Append(toldItems \o c \o outbound, n)
        <3>1. n \in Nat /\ toldItems \in Seq(Nat) /\ outbound \in Seq(Nat)
            BY <1>3, <1>6
        <3> QED
            BY <2>1, <3>1, FlowAppended
    <2>4. shown # 0 => toldItems \o c \o outbound' = accepted'
        BY <1>1, <2>2, <2>3
    <2>5. \A j, k \in 1..Len(accepted') : j < k => accepted'[j] < accepted'[k]
        <3> SUFFICES ASSUME NEW j \in 1..Len(accepted'), NEW k \in 1..Len(accepted'), j < k
            PROVE  accepted'[j] < accepted'[k]
            OBVIOUS
        <3>1. /\ Len(accepted') = Len(accepted) + 1 /\ Len(accepted) \in Nat
              /\ DOMAIN accepted = 1..Len(accepted)
            BY <1>1, <1>3, <1>6
        <3>2. j \in 1..Len(accepted) /\ accepted'[j] = accepted[j]
            BY <1>7, <3>1
        <3>3. CASE k \in 1..Len(accepted)
            BY <1>7, <3>1, <3>2, <3>3 DEF DeliveryInv, ToldInOrder
        <3>4. CASE k = Len(accepted) + 1
            BY <1>7, <1>12, <3>1, <3>2, <3>4
        <3> QED
            BY <3>1, <3>3, <3>4
    <2> QED
        BY <1>1, <2>4, <2>5 DEF ToldInOrder, c
<1>14. WireOrdered'
    <2>1. ShownAgain' = ShownAgain
        BY <1>1 DEF ShownAgain, Noticed
    <2>2. \A j, k \in WireItems' : j < k =>
              wire'[j].item < wire'[k].item \/ (wire'[j].item = wire'[k].item /\ wire'[j].item \in ShownAgain)
        <3> SUFFICES ASSUME NEW j \in WireItems', NEW k \in WireItems', j < k
            PROVE  wire'[j].item < wire'[k].item \/ (wire'[j].item = wire'[k].item /\ wire'[j].item \in ShownAgain)
            OBVIOUS
        <3>1. j + 1 < k + 1 /\ j + 1 \in WireItems /\ k + 1 \in WireItems
            BY <1>2
        <3> QED
            BY <1>2, <3>1 DEF DeliveryInv, WireOrdered
    <2>3. ASSUME NEW j \in DOMAIN accepted', NEW k \in WireItems'
          PROVE  \/ accepted'[j] < wire'[k].item
                 \/ /\ accepted'[j] = wire'[k].item /\ accepted'[j] \in ShownAgain
                    /\ lastSeq'[items[accepted'[j]].session] >= accepted'[j]
        <3>1. CASE j = Len(accepted) + 1
            <4>1. 1 < k + 1 /\ k + 1 \in WireItems
                BY <1>2, <2>3
            <4>2. n < wire'[k].item \/ (n = wire'[k].item /\ n \in ShownAgain)
                BY <1>2, <1>3, <2>3, <4>1 DEF DeliveryInv, WireOrdered
            <4>3. n \in ShownAgain => lastSeq'[items[n].session] >= n
                BY <1>3, <1>5
            <4> QED
                BY <1>7, <3>1, <4>2, <4>3
        <3>2. CASE j \in DOMAIN accepted
            <4>1. \/ accepted[j] < wire[k + 1].item
                  \/ /\ accepted[j] = wire[k + 1].item /\ accepted[j] \in ShownAgain
                     /\ lastSeq[items[accepted[j]].session] >= accepted[j]
                BY <1>2, <2>3, <3>2 DEF DeliveryInv, WireOrdered
            <4>2. accepted[j] \in 1..Len(items) /\ accepted[j] \in Nat
                BY <1>6, <3>2 DEF DeliveryInv, ConnectionFits, Noticed
            <4>3. items[accepted[j]].session \in 1..MaxReplaced
                <5>1. items \in Seq([kind : ItemKinds, session : 1..MaxReplaced])
                    BY DEF DeliveryInv, DeliveryTypes
                <5>2. items[accepted[j]] \in [kind : ItemKinds, session : 1..MaxReplaced]
                    BY <4>2, <5>1, ElementOfSeq
                <5> QED
                    BY <5>2
            <4>4. lastSeq[items[accepted[j]].session] >= accepted[j] => lastSeq'[items[accepted[j]].session] >= accepted[j]
                BY <1>5, <4>2, <4>3
            <4> QED
                BY <1>2, <1>7, <2>3, <3>2, <4>1, <4>4
        <3> QED
            BY <1>7, <2>3, <3>1, <3>2
    <2> QED
        BY <1>1, <2>1, <2>2, <2>3 DEF WireOrdered
<1> QED
    BY <1>8, <1>10, <1>11, <1>13, <1>14 DEF DeliveryInv

LEMMA ReadItemKeeps ==
    ASSUME DeliveryInv, ReadItem
    PROVE  DeliveryInv'
<1> DEFINE n == Received.item
<1>1. up /\ wire # <<>> /\ Received.type = "item"
    BY DEF ReadItem
<1>2. n \in Nat /\ noticeKeys \in Seq(Nat)
    <2>1. Received \in WireMessages
        <3>1. wire \in Seq(WireMessages)
            BY DEF DeliveryInv, DeliveryTypes
        <3> QED
            BY <1>1, <3>1, ItemTaken DEF Received
    <2> QED
        BY <2>1 DEF WireMessages, DeliveryInv, DeliveryTypes
<1>3. \A known \in NoticesKept : known \in Seq(Nat)
    <2>1. Len(noticeKeys) \in Nat
        BY <1>2
    <2>2. \A k \in 1..Len(noticeKeys) + 1 : SubSeq(noticeKeys, k, Len(noticeKeys)) \in Seq(Nat)
        BY <1>2, <2>1, SubSeqProperties
    <2> QED
        BY <2>2 DEF NoticesKept
<1>4. \A known \in NoticesKept : Remembered(n, known) \in Seq(Nat)
    <2> SUFFICES ASSUME NEW known \in Seq(Nat) PROVE Remembered(n, known) \in Seq(Nat)
        BY <1>3
    <2>1. CASE Len(known) >= KeyCap
        <3>1. known # <<>>
            BY <2>1, DeliveryAssumption
        <3> QED
            BY <1>2, <2>1, <3>1 DEF Remembered
    <2>2. CASE ~(Len(known) >= KeyCap)
        BY <1>2, <2>2 DEF Remembered
    <2> QED
        BY <2>1, <2>2
<1>5. CASE Disconnected
    BY <1>5, DisconnectedKeeps
<1>6. CASE Ignored
    BY <1>1, <1>6, IgnoredKeeps
<1>7. CASE items[n].kind = "output" /\ EnqueueOutbound(n) /\ UNCHANGED <<noticeKeys, lastSeq>>
    BY <1>1, <1>2, <1>7, EnqueueKeeps
<1>8. CASE \E known \in NoticesKept :
               /\ AcceptNotification(n, known) /\ EnqueueOutbound(n) /\ noticeKeys' = Remembered(n, known)
               /\ lastSeq' = [lastSeq EXCEPT ![items[n].session] = n]
    BY <1>1, <1>4, <1>8, EnqueueKeeps DEF AcceptNotification
<1> QED
    BY <1>5, <1>6, <1>7, <1>8 DEF ReadItem

LEMMA ReadResultKeeps ==
    ASSUME DeliveryInv, ReadResult
    PROVE  DeliveryInv'
<1>1. wire # <<>> /\ Received.type = "result"
    BY DEF ReadResult
<1>2. CASE Disconnected
    BY <1>2, DisconnectedKeeps
<1>3. CASE Ignored
    BY <1>1, <1>3, IgnoredKeeps
<1>4. CASE /\ pendingGet # None /\ pendingGet.item = Received.item /\ ReadPast /\ pendingGet' = None
           /\ UNCHANGED <<shown, outboundVars>> /\ job' = [job EXCEPT !.content = Received.content]
    <2>1. /\ wire' = Tail(wire)
          /\ UNCHANGED <<up, shown, real, items, gets, palReads, noticeKeys, lastSeq, outbound, carried, accepted,
                         toldItems, chat, audits>>
        BY <1>4 DEF ReadPast, palVars, chatVars, outboundVars
    <2>2. wire' \in Seq(WireMessages) /\ WireOrdered' /\ Received = wire[1] /\ Received \in WireMessages /\ 1 \in DOMAIN wire
        BY <1>1, <2>1, WireRead
    <2>3. job \in Jobs /\ Len(items) \in Nat
        BY DEF DeliveryInv, DeliveryTypes
    <2>4. job.item # 0 /\ job.step = "waiting" /\ Received.item = job.item
        BY <1>4 DEF DeliveryInv, JobFits
    <2>5. /\ job' \in Jobs /\ job'.item = job.item /\ job'.step = "waiting" /\ job'.content = Received.content
        BY <1>4, <2>2, <2>3, <2>4 DEF Jobs, WireMessages
    <2>6. DeliveryTypes'
        BY <1>4, <2>1, <2>2, <2>5 DEF DeliveryInv, DeliveryTypes
    <2>7. ItemsKept
        BY <2>1, <2>3 DEF ItemsKept
    <2>8. ConnectionFits'
        BY <1>1, <2>1, ReadFits DEF DeliveryInv, ConnectionFits
    <2>9. JobFits'
        <3>1. job.item <= Len(items) /\ (items[job.item].kind = "reply" \/ carried = job.item)
              /\ audits[job.item] = None /\ NoScreen(job.item)
            BY <2>4 DEF DeliveryInv, JobFits, BeforeScreen
        <3>2. Received.content # None => TerminalOf(Received.content, job.item)
            BY <1>1, <2>2, <2>4 DEF DeliveryInv, ConnectionFits
        <3> QED
            BY <1>4, <2>1, <2>4, <2>5, <3>1, <3>2 DEF JobFits, TerminalOf, NoScreen, WithContent
    <2>10. TouchedOnce' /\ ScreensAudited'
        BY <2>1, <2>5, <2>6, <2>7, TouchedKept, ScreensKept
    <2>11. ToldInOrder'
        BY <2>1 DEF DeliveryInv, ToldInOrder
    <2> QED
        BY <2>2, <2>6, <2>8, <2>9, <2>10, <2>11 DEF DeliveryInv
<1> QED
    BY <1>2, <1>3, <1>4 DEF ReadResult

(* The worker of the queue.                                                *)
LEMMA TakeOutboundKeeps ==
    ASSUME DeliveryInv, TakeOutbound
    PROVE  DeliveryInv'
<1>1. /\ shown # 0 /\ carried = 0 /\ outbound # <<>> /\ carried' = Head(outbound) /\ outbound' = Tail(outbound)
      /\ UNCHANGED <<up, shown, wire, pendingGet, real, items, gets, palReads, job, noticeKeys, lastSeq, accepted,
                     toldItems, chat, audits>>
    BY DEF TakeOutbound, ServerOnly, palVars, chatVars
<1>2. outbound \in Seq(Nat) /\ toldItems \in Seq(Nat) /\ Len(items) \in Nat
    BY DEF DeliveryInv, DeliveryTypes
<1>3. /\ outbound' \in Seq(Nat) /\ carried' \in Nat /\ carried' = outbound[1] /\ 1 \in DOMAIN outbound
      /\ \A k \in DOMAIN outbound' : k + 1 \in DOMAIN outbound /\ outbound'[k] = outbound[k + 1]
    BY <1>1, <1>2, ItemTaken
<1>4. carried' \in Noticed /\ carried' # 0 /\ \A k \in DOMAIN outbound' : outbound'[k] \in Noticed
    BY <1>3 DEF DeliveryInv, ConnectionFits, Noticed
<1>5. DeliveryTypes'
    BY <1>1, <1>3 DEF DeliveryInv, DeliveryTypes
<1>6. ItemsKept
    BY <1>1, <1>2 DEF ItemsKept
<1>7. ConnectionFits'
    BY <1>1, <1>4 DEF DeliveryInv, ConnectionFits, Noticed, TerminalOf
<1>8. JobFits'
    <2>1. CASE job.item = 0
        BY <1>1, <2>1 DEF DeliveryInv, JobFits
    <2>2. CASE job.item # 0
        BY <1>1, <1>5, <1>6, <2>2, JobKept
    <2> QED
        BY <2>1, <2>2
<1>9. TouchedOnce' /\ ScreensAudited' /\ WireOrdered'
    BY <1>1, <1>5, <1>6, TouchedKept, ScreensKept, WireUnsaid
<1>10. ToldInOrder'
    <2>1. toldItems \o <<>> \o outbound = accepted
        BY <1>1 DEF DeliveryInv, ToldInOrder
    <2>2. toldItems \o <<>> \o outbound = toldItems \o <<Head(outbound)>> \o Tail(outbound)
        BY <1>1, <1>2, FlowTaken
    <2> QED
        BY <1>1, <1>4, <2>1, <2>2 DEF DeliveryInv, ToldInOrder
<1> QED
    BY <1>5, <1>7, <1>8, <1>9, <1>10 DEF DeliveryInv

(* The worker is done with what it carries.                                *)
LEMMA ToldKeeps ==
    ASSUME DeliveryInv, carried # 0, Told, UNCHANGED <<up, shown, wire, real, items, gets, palReads, pendingGet, chat, audits>>,
           job' \in Jobs, JobFits',
           job.item \in Items => job'.item = job.item \/ job.item = carried
    PROVE  DeliveryInv'
<1>1. /\ carried' = 0 /\ toldItems' = Append(toldItems, carried)
      /\ UNCHANGED <<noticeKeys, lastSeq, outbound, accepted>>
    BY DEF Told
<1>2. outbound \in Seq(Nat) /\ toldItems \in Seq(Nat) /\ carried \in Nat /\ Len(items) \in Nat
    BY DEF DeliveryInv, DeliveryTypes
<1>3. /\ toldItems' \in Seq(Nat) /\ toldItems'[Len(toldItems) + 1] = carried
      /\ Len(toldItems) + 1 \in DOMAIN toldItems'
      /\ \A k \in DOMAIN toldItems : k \in DOMAIN toldItems' /\ toldItems'[k] = toldItems[k]
    BY <1>1, <1>2
<1>4. DeliveryTypes'
    BY <1>1, <1>3 DEF DeliveryInv, DeliveryTypes
<1>5. ItemsKept
    BY <1>2 DEF ItemsKept
<1>6. ConnectionFits'
    BY <1>1 DEF DeliveryInv, ConnectionFits, Noticed, TerminalOf
<1>7. WireOrdered' /\ ScreensAudited'
    BY <1>1, <1>4, <1>5, WireUnsaid, ScreensKept
<1>8. TouchedOnce'
    BY <1>3, <1>4, <1>5, TouchedKept
<1>9. ToldInOrder'
    <2>1. shown # 0 => toldItems \o <<carried>> \o outbound = accepted
        BY DEF DeliveryInv, ToldInOrder
    <2>2. Append(toldItems, carried) \o <<>> \o outbound = toldItems \o <<carried>> \o outbound
        BY <1>2, FlowTold
    <2> QED
        BY <1>1, <2>1, <2>2 DEF DeliveryInv, ToldInOrder
<1> QED
    BY <1>4, <1>6, <1>7, <1>8, <1>9 DEF DeliveryInv

LEMMA SkipCarriedKeeps ==
    ASSUME DeliveryInv, SkipCarried
    PROVE  DeliveryInv'
<1>1. /\ carried # 0 /\ job.item # carried /\ Told
      /\ UNCHANGED <<up, shown, wire, pendingGet, real, items, gets, palReads, job, chat, audits>>
    BY DEF SkipCarried, ServerOnly, palVars, chatVars
<1>2. /\ job' \in Jobs /\ ItemsKept
    BY <1>1 DEF DeliveryInv, DeliveryTypes, ItemsKept
<1>3. DeliveryTypes'
    BY <1>1 DEF DeliveryInv, DeliveryTypes, Told
<1>4. JobFits'
    BY <1>1, <1>2, <1>3, JobKept
<1> QED
    BY <1>1, <1>2, <1>4, ToldKeeps

LEMMA EndTaskKeeps ==
    ASSUME DeliveryInv, EndTask
    PROVE  DeliveryInv'
<1>1. /\ job.step = "end" /\ job' = Idle
      /\ UNCHANGED <<up, shown, wire, pendingGet, real, items, gets, palReads, chat, audits>>
    BY DEF EndTask, ServerOnly, palVars, chatVars
<1>2. job.item # 0 /\ pendingGet = None
    BY <1>1 DEF DeliveryInv, JobFits, Idle
<1>3. job' \in Jobs /\ job'.item = 0
    BY <1>1 DEF Idle, Jobs, JobSteps
<1>4. JobFits'
    BY <1>1, <1>2, <1>3 DEF JobFits
<1>5. CASE Item.kind = "reply"
    <2>1. UNCHANGED <<noticeKeys, lastSeq, outbound, carried, accepted, toldItems>>
        BY <1>5 DEF EndTask, outboundVars
    <2>2. DeliveryTypes'
        BY <1>1, <1>3, <2>1 DEF DeliveryInv, DeliveryTypes
    <2>3. ItemsKept
        BY <1>1 DEF ItemsKept, DeliveryInv, DeliveryTypes
    <2>4. ConnectionFits'
        BY <1>1, <2>1 DEF DeliveryInv, ConnectionFits, Noticed, TerminalOf
    <2>5. WireOrdered' /\ ScreensAudited' /\ TouchedOnce'
        BY <1>1, <1>5, <2>1, <2>2, <2>3, WireUnsaid, ScreensKept, TouchedKept DEF Item
    <2>6. ToldInOrder'
        BY <1>1, <2>1 DEF DeliveryInv, ToldInOrder
    <2> QED
        BY <1>4, <2>2, <2>4, <2>5, <2>6 DEF DeliveryInv
<1>6. CASE Item.kind # "reply"
    <2>1. Told /\ carried = job.item
        BY <1>2, <1>6 DEF EndTask, DeliveryInv, JobFits, Item
    <2> QED
        BY <1>1, <1>2, <1>3, <1>4, <2>1, ToldKeeps
<1> QED
    BY <1>5, <1>6

(* A task begins with what nobody got anything of.                         *)
LEMMA RunCarriedKeeps ==
    ASSUME DeliveryInv, RunCarried
    PROVE  DeliveryInv'
<1>1. /\ job = Idle /\ carried # 0 /\ job' = [Idle EXCEPT !.item = carried, !.step = "start"]
      /\ UNCHANGED <<up, shown, wire, pendingGet, real, items, gets, palReads, noticeKeys, lastSeq, outbound, carried,
                     accepted, toldItems, chat, audits>>
    BY DEF RunCarried, TaskOnly, QueueKept, ServerOnly, palVars, chatVars, outboundVars
<1>2. /\ carried \in Nat /\ toldItems \in Seq(Nat) /\ outbound \in Seq(Nat) /\ Len(items) \in Nat /\ Len(items) <= MaxItems
    BY DEF DeliveryInv, DeliveryTypes
<1>3. /\ job.item = 0 /\ job' \in Jobs /\ job'.item = carried /\ job'.step = "start" /\ job'.content = None
    BY <1>1, <1>2 DEF Idle, Jobs, JobSteps
<1>4. pendingGet = None /\ shown # 0
    BY <1>1, <1>3 DEF DeliveryInv, JobFits, ConnectionFits
<1>5. carried \in Noticed /\ carried \in 1..Len(items) /\ carried \in Items
    BY <1>1, <1>2, DeliveryAssumption DEF DeliveryInv, ConnectionFits, Noticed, Items
<1>6. \A k \in DOMAIN toldItems : toldItems[k] < carried
    <2> DEFINE w == toldItems \o <<carried>> \o outbound
    <2>1. w = accepted
        BY <1>1, <1>4 DEF DeliveryInv, ToldInOrder
    <2>2. /\ \A k \in DOMAIN toldItems : k < Len(toldItems) + 1 /\ k \in 1..Len(w) /\ w[k] = toldItems[k]
          /\ Len(toldItems) + 1 \in 1..Len(w) /\ w[Len(toldItems) + 1] = carried
        BY <1>2, FlowFirst
    <2> HIDE DEF w
    <2> QED
        BY <2>1, <2>2 DEF DeliveryInv, ToldInOrder
<1>7. ~Touched(carried)
    <2>1. ~\E k \in DOMAIN toldItems : toldItems[k] = carried
        BY <1>2, <1>6
    <2> QED
        BY <1>1, <1>3, <1>5, <2>1 DEF DeliveryInv, TouchedOnce, Noticed
<1>8. DeliveryTypes'
    BY <1>1, <1>3 DEF DeliveryInv, DeliveryTypes
<1>9. ItemsKept
    BY <1>1, <1>2 DEF ItemsKept
<1>10. ConnectionFits'
    BY <1>1 DEF DeliveryInv, ConnectionFits, Noticed, TerminalOf
<1>11. WireOrdered' /\ ScreensAudited'
    BY <1>1, <1>8, <1>9, WireUnsaid, ScreensKept
<1>12. TouchedOnce'
    BY <1>1, <1>3, <1>8, <1>9, TouchedKept DEF Items
<1>13. ToldInOrder'
    BY <1>1 DEF DeliveryInv, ToldInOrder
<1>14. JobFits'
    <2>1. NoScreen(carried) /\ audits[carried] = None
        BY <1>7 DEF Touched, NothingSent, NoScreen
    <2> QED
        BY <1>1, <1>3, <1>4, <1>5, <2>1 DEF JobFits, NoScreen, WithContent, Noticed
<1> QED
    BY <1>8, <1>10, <1>11, <1>12, <1>13, <1>14 DEF DeliveryInv

LEMMA RunReplyKeeps ==
    ASSUME DeliveryInv, RunReply
    PROVE  DeliveryInv'
<1> DEFINE n == Len(items) + 1
           x == [kind |-> "reply", session |-> shown]
<1>1. /\ up /\ job = Idle /\ Len(items) < MaxItems /\ items' = Append(items, x) /\ real = shown
      /\ UNCHANGED <<up, shown, wire, pendingGet, real, gets, palReads, noticeKeys, lastSeq, outbound, carried,
                     accepted, toldItems, chat, audits>>
    BY DEF RunReply, QueueKept, chatVars, outboundVars
<1>0. PICK mode \in ModesSet : \E c \in Terminal(mode, shown) :
          job' = [Idle EXCEPT !.item = Len(items) + 1, !.step = "push", !.content = c]
    BY DEF RunReply
<1>2. PICK c \in Terminal(mode, shown) :
          job' = [Idle EXCEPT !.item = Len(items) + 1, !.step = "push", !.content = c]
    BY <1>0
<1>3. real \in 1..MaxReplaced /\ Len(items) \in Nat
    BY DEF DeliveryInv, DeliveryTypes
<1>4. c \in Terminals /\ c.session = shown
    <2>1. ImageSizes \subseteq Nat
        BY DeliveryAssumption
    <2>2. CASE mode = "image"
        BY <1>1, <1>3, <2>1, <2>2 DEF Terminal, Terminals
    <2>3. CASE mode # "image"
        BY <1>1, <1>3, <2>3 DEF Terminal, Terminals
    <2> QED
        BY <2>2, <2>3
<1>5. x \in [kind : ItemKinds, session : 1..MaxReplaced]
    BY <1>1, <1>3 DEF ItemKinds
<1>6. /\ items' \in Seq([kind : ItemKinds, session : 1..MaxReplaced]) /\ Len(items') = n
      /\ Len(items') <= MaxItems /\ items'[n] = x /\ ItemsKept
    BY <1>1, <1>5, ItemAdded DEF DeliveryInv
<1>7. /\ job.item = 0 /\ job' \in Jobs /\ job'.item = n /\ job'.step = "push" /\ job'.content = c
    <2>1. n \in Nat
        BY <1>3
    <2>2. job' = [item |-> n, step |-> "push", content |-> c, count |-> 0, as |-> "none", failed |-> FALSE]
        BY <1>2 DEF Idle
    <2>3. job.item = 0
        BY <1>1 DEF Idle
    <2> HIDE DEF n
    <2> QED
        BY <1>4, <2>1, <2>2, <2>3 DEF Jobs, JobSteps
<1>8. pendingGet = None
    BY <1>7 DEF DeliveryInv, JobFits
<1>9. n \in Items /\ ~Touched(n)
    BY <1>1, <1>3, DeliveryAssumption DEF DeliveryInv, TouchedOnce, Items
<1>10. DeliveryTypes'
    BY <1>1, <1>6, <1>7 DEF DeliveryInv, DeliveryTypes
<1>11. ConnectionFits'
    <2>1. /\ Noticed \subseteq Noticed' /\ Len(items') >= Len(items) /\ Len(items') \in Nat
          /\ \A k \in 1..Len(items) : \A d : TerminalOf(d, k)' <=> TerminalOf(d, k)
        BY <1>3, <1>6, <1>10, NoticedKept DEF DeliveryInv
    <2>2. \A k \in DOMAIN wire : wire[k].item \in Nat \ {0}
        <3>1. wire \in Seq(WireMessages)
            BY DEF DeliveryInv, DeliveryTypes
        <3>2. \A k \in DOMAIN wire : wire[k] \in WireMessages
            BY <3>1
        <3> QED
            BY <3>2 DEF WireMessages
    <2>3. \A k \in DOMAIN gets : gets[k].item \in Nat
        <3>1. gets \in Seq(TerminalGets)
            BY DEF DeliveryInv, DeliveryTypes
        <3>2. \A k \in DOMAIN gets : gets[k] \in TerminalGets
            BY <3>1
        <3> QED
            BY <3>2 DEF TerminalGets
    <2>4. palReads # None => palReads.item \in Nat
        BY DEF DeliveryInv, DeliveryTypes, TerminalGets
    <2>5. \A k \in DOMAIN wire :
              /\ wire[k].type = "item" => wire[k].item \in Noticed'
              /\ wire[k].type = "snapshot" => wire[k].item <= MaxReplaced
              /\ wire[k].type = "result" =>
                    /\ wire[k].item <= Len(items')
                    /\ (wire[k].content # None => TerminalOf(wire[k].content, wire[k].item)')
        BY <1>1, <1>3, <2>1, <2>2 DEF DeliveryInv, ConnectionFits
    <2> QED
        BY <1>1, <1>3, <2>1, <2>3, <2>4, <2>5 DEF DeliveryInv, ConnectionFits
<1>12. WireOrdered' /\ ScreensAudited'
    BY <1>1, <1>6, <1>10, WireUnsaid, ScreensKept
<1>13. TouchedOnce'
    BY <1>1, <1>6, <1>7, <1>10, TouchedKept DEF Items
<1>14. ToldInOrder'
    BY <1>1 DEF DeliveryInv, ToldInOrder
<1>15. JobFits'
    <2>1. NoScreen(n) /\ audits[n] = None
        BY <1>9 DEF Touched, NothingSent, NoScreen
    <2>2. c \in Terminals /\ c.session = items'[n].session
        <3>1. items'[n].session = shown
            BY <1>6
        <3> QED
            BY <1>4, <3>1
    <2>3. n # 0 /\ n <= Len(items') /\ items'[n].kind = "reply"
        BY <1>3, <1>6
    <2>4. UNCHANGED <<pendingGet, chat, audits>>
        BY <1>1
    <2> HIDE DEF n, x
    <2> QED
        BY <1>7, <1>8, <2>1, <2>2, <2>3, <2>4 DEF JobFits, NoScreen, TerminalOf
<1> QED
    BY <1>10, <1>11, <1>12, <1>13, <1>14, <1>15 DEF DeliveryInv

(* The steps of a task.                                                    *)
TaskFits(j, g) ==
    /\ j.item = job.item /\ j.step # "none"
    /\ j.content # None \/ j.step \in WithContent => TerminalOf(j.content, job.item)
    /\ j.step = "start" => items[job.item].kind # "reply"
    /\ g.image # 0 /\ g.parts # 0 => g.late
    /\ j.step \in BeforeScreen => g.parts = 0 /\ g.image = 0
    /\ j.step \in {"header", "upload", "send"} => j.content.mode = "image"
    /\ j.step \in {"upload", "send"} => g.header
    /\ j.step = "send" => j.count = TotalChunks(j.content.size)
    /\ j.step = "fallback" => g.parts = 0
    /\ j.step \in {"fallback", "text"} /\ g.image # 0 => g.late
    /\ j.step = "text" => g.parts < j.content.parts
    /\ j.step = "audit" /\ ~j.failed =>
          IF j.as = "image" THEN g.header /\ g.image = j.content.size /\ g.parts = 0
          ELSE g.parts = j.content.parts

(* What a task relies on at any step.                                      *)
LEMMA TaskAt ==
    ASSUME DeliveryInv, job.step # "none"
    PROVE  /\ job \in Jobs /\ job.item \in Items /\ job.item \in 1..Len(items) /\ job.item # 0
           /\ Item \in [kind : ItemKinds, session : 1..MaxReplaced]
           /\ Got \in Chats /\ audits[job.item] \in AuditEvents \cup {None}
           /\ Item.kind = "reply" \/ carried = job.item
           /\ pendingGet # None => job.step = "waiting" /\ pendingGet.item = job.item
           /\ job.step # "end" => audits[job.item] = None
           /\ TaskFits(job, Got)
<1>1. job \in Jobs /\ Len(items) \in Nat /\ Len(items) <= MaxItems
    BY DEF DeliveryInv, DeliveryTypes
<1>2. job.item # 0
    BY DEF DeliveryInv, JobFits, Idle
<1>3. job.item \in Nat /\ job.item <= Len(items)
    BY <1>1, <1>2 DEF DeliveryInv, JobFits, Jobs
<1>4. job.item \in 1..Len(items) /\ job.item \in Items
    BY <1>1, <1>2, <1>3, DeliveryAssumption DEF Items
<1>5. Item \in [kind : ItemKinds, session : 1..MaxReplaced]
    <2>1. items \in Seq([kind : ItemKinds, session : 1..MaxReplaced])
        BY DEF DeliveryInv, DeliveryTypes
    <2> QED
        BY <1>4, <2>1, ElementOfSeq DEF Item
<1>6. Got \in Chats /\ audits[job.item] \in AuditEvents \cup {None}
    BY <1>4 DEF DeliveryInv, DeliveryTypes, Got
<1>7. Got.image # 0 /\ Got.parts # 0 => Got.late
    BY <1>4 DEF DeliveryInv, ScreensAudited, Got
<1>8. TaskFits(job, Got)
    BY <1>2, <1>7 DEF DeliveryInv, JobFits, TaskFits, NoScreen, Got
<1> QED
    BY <1>1, <1>2, <1>4, <1>5, <1>6, <1>8 DEF DeliveryInv, JobFits, Item

(* A task changes what the user has of its item only.                      *)
LEMMA TaskMoves ==
    ASSUME DeliveryInv, job.step # "none", job.step # "end", job' \in Jobs,
           UNCHANGED <<up, shown, wire, real, items, palReads, noticeKeys, lastSeq, outbound, carried, accepted,
                       toldItems, audits>>,
           gets' \in Seq(TerminalGets), \A k \in DOMAIN gets' : gets'[k].item <= Len(items),
           pendingGet' \in TerminalGets \cup {None},
           pendingGet' # None => job'.step = "waiting" /\ pendingGet'.item = job.item,
           NEW got \in Chats, chat' = [chat EXCEPT ![job.item] = got], TaskFits(job', got)
    PROVE  DeliveryInv'
<1> DEFINE n == job.item
<1>1. /\ n \in Items /\ n \in 1..Len(items) /\ n # 0 /\ audits[n] = None
      /\ items[n].kind = "reply" \/ carried = n
    BY TaskAt DEF Item
<1>2. /\ chat \in [Items -> Chats] /\ toldItems \in Seq(Nat) /\ Len(items) \in Nat
    BY DEF DeliveryInv, DeliveryTypes
<1>3. chat' \in [Items -> Chats] /\ chat'[n] = got /\ \A i \in Items : i # n => chat'[i] = chat[i]
    BY <1>1, <1>2
<1>4. DeliveryTypes'
    BY <1>3 DEF DeliveryInv, DeliveryTypes
<1>5. job'.item = n
    BY DEF TaskFits
<1>6. ConnectionFits'
    BY DEF DeliveryInv, ConnectionFits, Noticed, TerminalOf
<1>7. ItemsKept
    BY <1>2 DEF ItemsKept
<1>8. WireOrdered'
    BY <1>4, <1>7, WireUnsaid
<1>9. JobFits'
    <2>1. n <= Len(items)
        BY <1>1
    <2> HIDE DEF n
    <2>2. job'.content # None \/ job'.step \in WithContent => TerminalOf(job'.content, n)
        BY DEF TaskFits, n
    <2>3. TerminalOf(job'.content, n) = TerminalOf(job.content, job.item)'
        BY <1>5 DEF TerminalOf
    <2>4. pendingGet' # None => job'.step = "waiting" /\ pendingGet'.item = n
        BY DEF n
    <2> QED
        BY <1>1, <1>3, <1>5, <2>1, <2>2, <2>3, <2>4 DEF JobFits, TaskFits, NoScreen
<1>10. TouchedOnce'
    <2> SUFFICES ASSUME NEW i \in Items, Touched(i)'
        PROVE  /\ i <= Len(items)
               /\ i = job'.item \/ items[i].kind = "reply" \/ \E k \in DOMAIN toldItems : toldItems[k] = i
        BY DEF TouchedOnce
    <2>1. CASE i = n
        BY <1>1, <1>5, <2>1
    <2>2. CASE i # n
        BY <1>3, <2>2 DEF DeliveryInv, TouchedOnce, Touched
    <2> QED
        BY <2>1, <2>2
<1>11. ToldInOrder'
    BY DEF DeliveryInv, ToldInOrder
<1>12. ScreensAudited'
    <2> SUFFICES ASSUME NEW i \in 1..Len(items)
        PROVE  /\ audits[i] # None =>
                    /\ audits[i].content.session = items[i].session
                    /\ audits[i].delivered =>
                          IF audits[i].as = "image"
                          THEN chat'[i].header /\ chat'[i].image = audits[i].content.size /\ chat'[i].parts = 0
                          ELSE chat'[i].parts = audits[i].content.parts
               /\ chat'[i].image # 0 /\ chat'[i].parts # 0 => chat'[i].late
        BY DEF ScreensAudited
    <2>1. CASE i = n
        BY <1>1, <1>3, <2>1 DEF TaskFits
    <2>2. CASE i # n
        <3>1. i \in Items
            BY <1>2, DeliveryAssumption DEF Items, DeliveryInv, DeliveryTypes
        <3> QED
            BY <1>3, <2>2, <3>1 DEF DeliveryInv, ScreensAudited
    <2> QED
        BY <2>1, <2>2
<1> QED
    BY <1>4, <1>6, <1>8, <1>9, <1>10, <1>11, <1>12 DEF DeliveryInv

(* A step that says nothing to the user, and a request to WeCom.           *)
LEMMA QuietMoves ==
    ASSUME DeliveryInv, job.step # "none", job.step # "end", job' \in Jobs, TaskFits(job', Got), TaskOnly,
           pendingGet # None => job'.step = "waiting"
    PROVE  DeliveryInv'
<1>1. /\ UNCHANGED <<up, shown, wire, real, items, palReads, noticeKeys, lastSeq, outbound, carried, accepted,
                     toldItems, audits>>
      /\ UNCHANGED <<gets, pendingGet, chat>>
    BY DEF TaskOnly, QueueKept, ServerOnly, palVars, chatVars, outboundVars
<1>2. /\ gets' \in Seq(TerminalGets) /\ \A k \in DOMAIN gets' : gets'[k].item <= Len(items)
      /\ pendingGet' \in TerminalGets \cup {None} /\ chat \in [Items -> Chats]
    BY <1>1 DEF DeliveryInv, DeliveryTypes, ConnectionFits
<1>3. Got \in Chats /\ chat' = [chat EXCEPT ![job.item] = Got]
    BY <1>1, <1>2, TaskAt DEF Got
<1>4. pendingGet' # None => job'.step = "waiting" /\ pendingGet'.item = job.item
    BY <1>1, TaskAt
<1> QED
    BY <1>1, <1>2, <1>3, <1>4, TaskMoves

LEMMA CallMoves ==
    ASSUME DeliveryInv, job.step \notin {"none", "end", "waiting"},
           NEW got \in Chats, NEW next \in Jobs, NEW otherwise \in Jobs, Call(got, next, otherwise),
           TaskFits(next, got), TaskFits(otherwise, got), TaskFits(otherwise, Got)
    PROVE  DeliveryInv'
<1>1. /\ UNCHANGED <<up, shown, wire, real, items, palReads, noticeKeys, lastSeq, outbound, carried, accepted,
                     toldItems, audits>>
      /\ UNCHANGED <<gets, pendingGet>>
    BY DEF Call, QueueKept, ServerOnly, palVars, outboundVars
<1>2. /\ gets' \in Seq(TerminalGets) /\ \A k \in DOMAIN gets' : gets'[k].item <= Len(items)
      /\ pendingGet' \in TerminalGets \cup {None} /\ chat \in [Items -> Chats]
    BY <1>1 DEF DeliveryInv, DeliveryTypes, ConnectionFits
<1>3. Got \in Chats /\ chat = [chat EXCEPT ![job.item] = Got] /\ pendingGet' = None
    BY <1>1, <1>2, TaskAt DEF Got
<1>4. CASE chat' = [chat EXCEPT ![job.item] = got] /\ job' = next
    BY <1>1, <1>2, <1>3, <1>4, TaskMoves
<1>5. CASE chat' = [chat EXCEPT ![job.item] = got] /\ job' = otherwise
    BY <1>1, <1>2, <1>3, <1>5, TaskMoves
<1>6. CASE chat' = chat /\ job' = otherwise
    BY <1>1, <1>2, <1>3, <1>6, TaskMoves
<1> QED
    BY <1>4, <1>5, <1>6 DEF Call

LEMMA JobToMoves ==
    ASSUME job \in Jobs, NEW step \in JobSteps
    PROVE  /\ JobTo(step) \in Jobs /\ JobTo(step).step = step /\ JobTo(step).item = job.item
           /\ JobTo(step).content = job.content /\ JobTo(step).count = job.count
           /\ JobTo(step).as = job.as /\ JobTo(step).failed = job.failed
BY DEF JobTo, Jobs

LEMMA AuditedMoves ==
    ASSUME job \in Jobs, NEW as \in ModesSet \cup {"none", "text", "image"}, NEW failure \in BOOLEAN
    PROVE  /\ Audited(as, failure) \in Jobs /\ Audited(as, failure).step = "audit"
           /\ Audited(as, failure).item = job.item /\ Audited(as, failure).content = job.content
           /\ Audited(as, failure).as = as /\ Audited(as, failure).failed = failure
BY DEF Audited, Jobs, JobSteps

LEMMA ContentFits ==
    ASSUME DeliveryInv, job.step \in WithContent
    PROVE  /\ job.content \in Terminals /\ job.content.parts = MaxParts /\ MaxParts \in Nat \ {0}
           /\ job.content.size \in Nat /\ job.content.mode \in ModesSet \cup {"none", "text", "image"}
           /\ TerminalOf(job.content, job.item)
<1>1. job.step # "none"
    BY DEF WithContent
<1>2. TerminalOf(job.content, job.item)
    BY <1>1, TaskAt DEF TaskFits
<1> QED
    BY <1>2, DeliveryAssumption DEF TerminalOf, Terminals

(* The steps, one after the other.                                         *)
LEMMA StartTaskKeeps ==
    ASSUME DeliveryInv, StartTask
    PROVE  DeliveryInv'
<1>1. job.step = "start" /\ TaskOnly
    BY DEF StartTask
<1>2. job \in Jobs /\ TaskFits(job, Got) /\ pendingGet = None /\ Item.session \in 1..MaxReplaced
    BY <1>1, TaskAt
<1>3. CASE \E step \in {"tell", "end", "status"} : job' = JobTo(step)
    <2>1. PICK step \in {"tell", "end", "status"} : job' = JobTo(step)
        BY <1>3
    <2>2. step \in JobSteps
        BY DEF JobSteps
    <2>3. /\ job' \in Jobs /\ job'.step = step /\ job'.item = job.item /\ job'.content = job.content
        BY <1>2, <2>1, <2>2, JobToMoves
    <2>4. TaskFits(job', Got)
        BY <1>1, <1>2, <2>1, <2>3 DEF TaskFits, WithContent, BeforeScreen
    <2> QED
        BY <1>1, <1>2, <2>3, <2>4, QuietMoves
<1>4. CASE \E mode \in ModesSet : \E c \in Terminal(mode, Item.session) : job' = [JobTo("push") EXCEPT !.content = c]
    <2>1. PICK mode \in ModesSet : \E c \in Terminal(mode, Item.session) : job' = [JobTo("push") EXCEPT !.content = c]
        BY <1>4
    <2>2. PICK c \in Terminal(mode, Item.session) : job' = [JobTo("push") EXCEPT !.content = c]
        BY <2>1
    <2>3. c \in Terminals /\ c.session = Item.session
        <3>1. ImageSizes \subseteq Nat
            BY DeliveryAssumption
        <3>2. CASE mode = "image"
            BY <1>2, <3>1, <3>2 DEF Terminal, Terminals
        <3>3. CASE mode # "image"
            BY <1>2, <3>3 DEF Terminal, Terminals
        <3> QED
            BY <3>2, <3>3
    <2>4. /\ job' \in Jobs /\ job'.step = "push" /\ job'.item = job.item /\ job'.content = c
        <3>1. JobTo("push") \in Jobs /\ JobTo("push").step = "push" /\ JobTo("push").item = job.item
            BY <1>2, JobToMoves DEF JobSteps
        <3> QED
            BY <2>2, <2>3, <3>1 DEF Jobs
    <2>5. TaskFits(job', Got)
        BY <1>1, <1>2, <2>3, <2>4 DEF TaskFits, WithContent, BeforeScreen, TerminalOf, Item
    <2> QED
        BY <1>1, <1>2, <2>4, <2>5, QuietMoves
<1>5. Item.kind \in {"working", "done", "invalidated", "output"}
    BY <1>1, <1>2, TaskAt DEF TaskFits, ItemKinds, Item
<1>6. CASE Item.kind = "invalidated" \/ ~Here \/ Item.kind = "working"
    BY <1>3, <1>5, <1>6 DEF StartTask
<1>7. CASE Item.kind = "output" /\ Here
    BY <1>4, <1>7 DEF StartTask
<1>8. CASE Item.kind = "done" /\ Here
    BY <1>3, <1>8 DEF StartTask
<1> QED
    BY <1>5, <1>6, <1>7, <1>8

LEMMA TellStatusKeeps ==
    ASSUME DeliveryInv, TellStatus
    PROVE  DeliveryInv'
<1> DEFINE told == [Got EXCEPT !.status = TRUE]
<1>1. job.step \in {"tell", "status"}
    BY DEF TellStatus
<1>2. job \in Jobs /\ Got \in Chats /\ TaskFits(job, Got)
    BY <1>1, TaskAt
<1>3. told \in Chats /\ told.parts = Got.parts /\ told.image = Got.image /\ told.late = Got.late
    BY <1>2 DEF Chats
<1> HIDE DEF told
<1>4. \A step \in {"end", "fetch"} :
          JobTo(step) \in Jobs /\ TaskFits(JobTo(step), Got) /\ TaskFits(JobTo(step), told)
    <2> SUFFICES ASSUME NEW step \in {"end", "fetch"}
        PROVE  JobTo(step) \in Jobs /\ TaskFits(JobTo(step), Got) /\ TaskFits(JobTo(step), told)
        OBVIOUS
    <2>1. /\ JobTo(step) \in Jobs /\ JobTo(step).step = step /\ JobTo(step).item = job.item
          /\ JobTo(step).content = job.content
        BY <1>2, JobToMoves DEF JobSteps
    <2> QED
        BY <1>1, <1>2, <1>3, <2>1 DEF TaskFits, WithContent, BeforeScreen
<1>5. CASE Call(told, JobTo("end"), JobTo("end"))
    BY <1>1, <1>3, <1>4, <1>5, CallMoves
<1>6. CASE Call(told, JobTo("fetch"), JobTo("end"))
    BY <1>1, <1>3, <1>4, <1>6, CallMoves
<1> QED
    BY <1>5, <1>6 DEF TellStatus, told

LEMMA FetchTerminalKeeps ==
    ASSUME DeliveryInv, FetchTerminal
    PROVE  DeliveryInv'
<1>1. /\ job.step = "fetch"
      /\ UNCHANGED <<up, shown, wire, real, items, palReads, noticeKeys, lastSeq, outbound, carried, accepted,
                     toldItems, chat, audits>>
    BY DEF FetchTerminal, outboundVars, chatVars
<1>2. /\ job \in Jobs /\ Got \in Chats /\ TaskFits(job, Got) /\ pendingGet = None
      /\ job.item \in 1..Len(items) /\ job.item \in Nat \ {0}
    BY <1>1, TaskAt
<1>3. \A step \in {"end", "waiting"} :
          JobTo(step) \in Jobs /\ TaskFits(JobTo(step), Got) /\ JobTo(step).step = step
    <2> SUFFICES ASSUME NEW step \in {"end", "waiting"}
        PROVE  JobTo(step) \in Jobs /\ TaskFits(JobTo(step), Got) /\ JobTo(step).step = step
        OBVIOUS
    <2>1. /\ JobTo(step) \in Jobs /\ JobTo(step).step = step /\ JobTo(step).item = job.item
          /\ JobTo(step).content = job.content
        BY <1>2, JobToMoves DEF JobSteps
    <2> QED
        BY <1>1, <1>2, <2>1 DEF TaskFits, WithContent, BeforeScreen
<1>4. /\ gets \in Seq(TerminalGets) /\ \A k \in DOMAIN gets : gets[k].item <= Len(items)
      /\ chat' = [chat EXCEPT ![job.item] = Got]
    <2>1. chat \in [Items -> Chats]
        BY DEF DeliveryInv, DeliveryTypes
    <2> QED
        BY <1>1, <2>1 DEF DeliveryInv, DeliveryTypes, ConnectionFits, Got
<1>5. CASE job' = JobTo("end") /\ UNCHANGED <<pendingGet, gets>>
    BY <1>1, <1>2, <1>3, <1>4, <1>5, TaskMoves
<1>6. CASE /\ job' = JobTo("waiting")
           /\ \E mode \in ModesSet :
                 pendingGet' = [item |-> job.item, mode |-> mode] /\ gets' = Append(gets, pendingGet')
    <2>1. /\ pendingGet' \in TerminalGets /\ pendingGet'.item = job.item /\ gets' = Append(gets, pendingGet')
        BY <1>2, <1>6 DEF TerminalGets
    <2>2. gets' \in Seq(TerminalGets) /\ \A k \in DOMAIN gets' : gets'[k].item <= Len(items)
        <3>1. /\ gets' \in Seq(TerminalGets) /\ DOMAIN gets = 1..Len(gets) /\ Len(gets) \in Nat
              /\ DOMAIN gets' = 1..(Len(gets) + 1) /\ gets'[Len(gets) + 1] = pendingGet'
              /\ \A k \in DOMAIN gets : gets'[k] = gets[k]
            BY <1>4, <2>1, ItemAppended
        <3> QED
            BY <1>2, <1>4, <2>1, <3>1
    <2> QED
        BY <1>1, <1>2, <1>3, <1>4, <1>6, <2>1, <2>2, TaskMoves
<1> QED
    BY <1>5, <1>6 DEF FetchTerminal

LEMMA TakeFetchedKeeps ==
    ASSUME DeliveryInv, TakeFetched
    PROVE  DeliveryInv'
<1>1. /\ job.step = "waiting" /\ pendingGet = None /\ TaskOnly
      /\ job' = JobTo(IF job.content = None THEN "end" ELSE "push")
    BY DEF TakeFetched
<1>2. job \in Jobs /\ TaskFits(job, Got)
    BY <1>1, TaskAt
<1>3. /\ job' \in Jobs /\ job'.step = (IF job.content = None THEN "end" ELSE "push") /\ job'.item = job.item
      /\ job'.content = job.content
    BY <1>1, <1>2, JobToMoves DEF JobSteps
<1>4. TaskFits(job', Got)
    BY <1>1, <1>2, <1>3 DEF TaskFits, WithContent, BeforeScreen
<1> QED
    BY <1>1, <1>3, <1>4, QuietMoves

LEMMA FetchEndsKeeps ==
    ASSUME DeliveryInv, FetchEnds
    PROVE  DeliveryInv'
<1>1. /\ job.step = "waiting" /\ job' = [JobTo("end") EXCEPT !.content = None] /\ pendingGet' = None
      /\ UNCHANGED <<up, shown, wire, real, items, gets, palReads, noticeKeys, lastSeq, outbound, carried, accepted,
                     toldItems, chat, audits>>
    BY DEF FetchEnds, ServerOnly, palVars, outboundVars, chatVars
<1>2. job \in Jobs /\ Got \in Chats /\ TaskFits(job, Got)
    BY <1>1, TaskAt
<1>3. job' \in Jobs /\ job'.step = "end" /\ job'.item = job.item /\ job'.content = None
    <2>1. JobTo("end") \in Jobs /\ JobTo("end").step = "end" /\ JobTo("end").item = job.item
        BY <1>2, JobToMoves DEF JobSteps
    <2> QED
        BY <1>1, <2>1 DEF Jobs
<1>4. TaskFits(job', Got)
    BY <1>2, <1>3 DEF TaskFits, WithContent, BeforeScreen
<1>5. /\ gets' \in Seq(TerminalGets) /\ \A k \in DOMAIN gets' : gets'[k].item <= Len(items)
      /\ chat' = [chat EXCEPT ![job.item] = Got]
    <2>1. chat \in [Items -> Chats]
        BY DEF DeliveryInv, DeliveryTypes
    <2> QED
        BY <1>1, <2>1 DEF DeliveryInv, DeliveryTypes, ConnectionFits, Got
<1> QED
    BY <1>1, <1>2, <1>3, <1>4, <1>5, TaskMoves

(* The terminal, as an image with its header or in parts as a text.        *)
LEMMA PushContentKeeps ==
    ASSUME DeliveryInv, PushContent
    PROVE  DeliveryInv'
<1> DEFINE next == IF job.content.mode = "image" THEN "header" ELSE "text"
<1>1. /\ job.step = "push" /\ TaskOnly
      /\ job' = IF Here THEN JobTo(next) ELSE Audited(job.content.mode, TRUE)
    BY DEF PushContent
<1>2. job \in Jobs /\ TaskFits(job, Got) /\ pendingGet = None
    BY <1>1, TaskAt
<1>3. /\ job.content.parts \in Nat \ {0} /\ job.content.mode \in ModesSet \cup {"none", "text", "image"}
      /\ TerminalOf(job.content, job.item)
    BY <1>1, ContentFits DEF WithContent
<1>4. Got.parts = 0 /\ Got.image = 0
    BY <1>1, <1>2 DEF TaskFits, BeforeScreen
<1>5. CASE Here
    <2>1. next \in JobSteps /\ next \in {"header", "text"}
        BY DEF JobSteps
    <2>2. /\ job' \in Jobs /\ job'.step = next /\ job'.item = job.item /\ job'.content = job.content
        BY <1>1, <1>2, <1>5, <2>1, JobToMoves
    <2>3. TaskFits(job', Got)
        BY <1>3, <1>4, <2>1, <2>2 DEF TaskFits
    <2> QED
        BY <1>1, <1>2, <2>1, <2>2, <2>3, QuietMoves
<1>6. CASE ~Here
    <2>1. /\ job' \in Jobs /\ job'.step = "audit" /\ job'.item = job.item /\ job'.content = job.content
          /\ job'.failed
        BY <1>1, <1>2, <1>3, <1>6, AuditedMoves
    <2>2. TaskFits(job', Got)
        BY <1>3, <1>4, <2>1 DEF TaskFits, BeforeScreen
    <2> QED
        BY <1>1, <1>2, <2>1, <2>2, QuietMoves
<1> QED
    BY <1>5, <1>6

LEMMA SendHeaderKeeps ==
    ASSUME DeliveryInv, SendHeader
    PROVE  DeliveryInv'
<1> DEFINE told == [Got EXCEPT !.header = TRUE]
           next == [JobTo("upload") EXCEPT !.count = 0]
           otherwise == Audited("image", TRUE)
<1>1. job.step = "header" /\ Call(told, next, otherwise)
    BY DEF SendHeader
<1>2. job \in Jobs /\ Got \in Chats /\ TaskFits(job, Got)
    BY <1>1, TaskAt
<1>3. TerminalOf(job.content, job.item) /\ job.content.mode = "image" /\ Got.parts = 0 /\ Got.image = 0
    BY <1>1, <1>2 DEF TaskFits, WithContent, BeforeScreen
<1>4. /\ told \in Chats /\ told.parts = Got.parts /\ told.image = Got.image /\ told.late = Got.late
      /\ told.header
    BY <1>2 DEF Chats
<1>5. /\ next \in Jobs /\ next.step = "upload" /\ next.item = job.item /\ next.content = job.content
    <2>1. /\ JobTo("upload") \in Jobs /\ JobTo("upload").step = "upload" /\ JobTo("upload").item = job.item
          /\ JobTo("upload").content = job.content
        BY <1>2, JobToMoves DEF JobSteps
    <2> QED
        BY <2>1 DEF Jobs
<1>6. /\ otherwise \in Jobs /\ otherwise.step = "audit" /\ otherwise.item = job.item
      /\ otherwise.content = job.content /\ otherwise.failed
    BY <1>2, AuditedMoves
<1> HIDE DEF told, next, otherwise
<1>7. TaskFits(next, told)
    BY <1>3, <1>4, <1>5 DEF TaskFits
<1>8. TaskFits(otherwise, told) /\ TaskFits(otherwise, Got)
    BY <1>3, <1>4, <1>6 DEF TaskFits, BeforeScreen
<1> QED
    BY <1>1, <1>4, <1>5, <1>6, <1>7, <1>8, CallMoves

LEMMA UploadImageKeeps ==
    ASSUME DeliveryInv, UploadImage
    PROVE  DeliveryInv'
<1>1. job.step = "upload" /\ TaskOnly
    BY DEF UploadImage
<1>2. job \in Jobs /\ TaskFits(job, Got) /\ pendingGet = None
    BY <1>1, TaskAt
<1>3. /\ TerminalOf(job.content, job.item) /\ job.content.mode = "image" /\ Got.parts = 0 /\ Got.image = 0
      /\ Got.header
    BY <1>1, <1>2 DEF TaskFits, WithContent, BeforeScreen
<1>4. CASE job' = JobTo("send") /\ job.count = TotalChunks(job.content.size)
    <2>1. /\ job' \in Jobs /\ job'.step = "send" /\ job'.item = job.item /\ job'.content = job.content
          /\ job'.count = job.count
        BY <1>2, <1>4, JobToMoves DEF JobSteps
    <2>2. TaskFits(job', Got)
        BY <1>3, <1>4, <2>1 DEF TaskFits
    <2> QED
        BY <1>1, <1>2, <2>1, <2>2, QuietMoves
<1>5. CASE job' = [job EXCEPT !.count = @ + 1]
    <2>1. /\ job' \in Jobs /\ job'.step = "upload" /\ job'.item = job.item /\ job'.content = job.content
        BY <1>1, <1>2, <1>5 DEF Jobs
    <2>2. TaskFits(job', Got)
        BY <1>3, <2>1 DEF TaskFits
    <2> QED
        BY <1>1, <1>2, <2>1, <2>2, QuietMoves
<1>6. CASE job' = JobTo("fallback")
    <2>1. /\ job' \in Jobs /\ job'.step = "fallback" /\ job'.item = job.item /\ job'.content = job.content
        BY <1>2, <1>6, JobToMoves DEF JobSteps
    <2>2. TaskFits(job', Got)
        BY <1>3, <2>1 DEF TaskFits, BeforeScreen
    <2> QED
        BY <1>1, <1>2, <2>1, <2>2, QuietMoves
<1> QED
    BY <1>4, <1>5, <1>6 DEF UploadImage

LEMMA FallBackKeeps ==
    ASSUME DeliveryInv, FallBack
    PROVE  DeliveryInv'
<1>1. /\ job.step = "fallback" /\ TaskOnly
      /\ job' = IF Here THEN JobTo("text") ELSE Audited("text", TRUE)
    BY DEF FallBack
<1>2. job \in Jobs /\ TaskFits(job, Got) /\ pendingGet = None
    BY <1>1, TaskAt
<1>3. job.content.parts \in Nat \ {0} /\ TerminalOf(job.content, job.item)
    BY <1>1, ContentFits DEF WithContent
<1>4. Got.parts = 0 /\ (Got.image # 0 => Got.late)
    BY <1>1, <1>2 DEF TaskFits
<1>5. CASE Here
    <2>1. /\ job' \in Jobs /\ job'.step = "text" /\ job'.item = job.item /\ job'.content = job.content
        BY <1>1, <1>2, <1>5, JobToMoves DEF JobSteps
    <2>2. TaskFits(job', Got)
        BY <1>3, <1>4, <2>1 DEF TaskFits, BeforeScreen
    <2> QED
        BY <1>1, <1>2, <2>1, <2>2, QuietMoves
<1>6. CASE ~Here
    <2>1. /\ job' \in Jobs /\ job'.step = "audit" /\ job'.item = job.item /\ job'.content = job.content
          /\ job'.failed
        BY <1>1, <1>2, <1>6, AuditedMoves
    <2>2. TaskFits(job', Got)
        BY <1>3, <1>4, <2>1 DEF TaskFits, BeforeScreen
    <2> QED
        BY <1>1, <1>2, <2>1, <2>2, QuietMoves
<1> QED
    BY <1>5, <1>6

LEMMA SendTextKeeps ==
    ASSUME DeliveryInv, SendText
    PROVE  DeliveryInv'
<1> DEFINE told == [Got EXCEPT !.parts = @ + 1]
           next == IF Got.parts + 1 = job.content.parts THEN Audited("text", FALSE) ELSE job
           otherwise == Audited("text", TRUE)
<1>1. job.step = "text" /\ Call(told, next, otherwise)
    BY DEF SendText
<1>2. job \in Jobs /\ Got \in Chats /\ TaskFits(job, Got)
    BY <1>1, TaskAt
<1>3. /\ job.content.parts \in Nat \ {0} /\ TerminalOf(job.content, job.item)
      /\ Got.parts \in Nat /\ Got.parts < job.content.parts /\ (Got.image # 0 => Got.late)
    BY <1>1, <1>2, ContentFits DEF WithContent, TaskFits, Chats
<1>4. told \in Chats /\ told.parts = Got.parts + 1 /\ told.image = Got.image /\ told.late = Got.late
    BY <1>2 DEF Chats
<1>5. /\ otherwise \in Jobs /\ otherwise.step = "audit" /\ otherwise.item = job.item
      /\ otherwise.content = job.content /\ otherwise.failed
    BY <1>2, AuditedMoves
<1>6. \/ /\ Got.parts + 1 = job.content.parts /\ next \in Jobs /\ next.step = "audit" /\ next.item = job.item
         /\ next.content = job.content /\ next.as = "text"
      \/ Got.parts + 1 < job.content.parts /\ next = job
    <2>1. CASE Got.parts + 1 = job.content.parts
        BY <1>2, <2>1, AuditedMoves
    <2>2. CASE Got.parts + 1 # job.content.parts
        BY <1>3, <2>2
    <2> QED
        BY <2>1, <2>2
<1> HIDE DEF told, next, otherwise
<1>7. next \in Jobs /\ TaskFits(next, told)
    <2>1. CASE next = job /\ Got.parts + 1 < job.content.parts
        BY <1>1, <1>2, <1>3, <1>4, <2>1 DEF TaskFits, BeforeScreen
    <2>2. CASE /\ Got.parts + 1 = job.content.parts /\ next \in Jobs /\ next.step = "audit" /\ next.item = job.item
               /\ next.content = job.content /\ next.as = "text"
        BY <1>3, <1>4, <2>2 DEF TaskFits, BeforeScreen
    <2> QED
        BY <1>6, <2>1, <2>2
<1>8. TaskFits(otherwise, told) /\ TaskFits(otherwise, Got)
    BY <1>3, <1>4, <1>5 DEF TaskFits, BeforeScreen
<1> QED
    BY <1>1, <1>4, <1>5, <1>7, <1>8, CallMoves

LEMMA SendImageKeeps ==
    ASSUME DeliveryInv, SendImage
    PROVE  DeliveryInv'
<1>1. job.step = "send"
    BY DEF SendImage
<1>2. /\ job \in Jobs /\ Got \in Chats /\ TaskFits(job, Got) /\ pendingGet = None /\ job.item \in Items
    BY <1>1, TaskAt
<1>3. /\ TerminalOf(job.content, job.item) /\ job.content.size \in Nat
    BY <1>1, ContentFits DEF WithContent
<1>4. /\ Got.parts = 0 /\ Got.image = 0 /\ Got.header /\ job.count = TotalChunks(job.content.size)
    BY <1>1, <1>2 DEF TaskFits, BeforeScreen
<1>5. Smaller(job.count * ChunkSize, job.content.size) = job.content.size
    BY <1>3, <1>4, ChunksCover
<1>6. /\ UNCHANGED <<up, shown, wire, real, items, palReads, noticeKeys, lastSeq, outbound, carried, accepted,
                     toldItems, audits>>
      /\ UNCHANGED <<gets, pendingGet>>
    BY DEF SendImage, QueueKept, ServerOnly, palVars, outboundVars
<1>7. /\ gets' \in Seq(TerminalGets) /\ \A k \in DOMAIN gets' : gets'[k].item <= Len(items)
      /\ pendingGet' = None /\ chat \in [Items -> Chats]
    BY <1>2, <1>6 DEF DeliveryInv, DeliveryTypes, ConnectionFits
<1>8. PICK outcome \in Outcomes :
        /\ chat' = IF outcome = "failed" THEN chat
                   ELSE [chat EXCEPT ![job.item].image = Smaller(job.count * ChunkSize, job.content.size),
                                     ![job.item].late = outcome = "late"]
        /\ job' = IF outcome = "ok" THEN Audited("image", FALSE) ELSE JobTo("fallback")
    BY DEF SendImage
<1> DEFINE told == IF outcome = "failed" THEN Got
                   ELSE [Got EXCEPT !.image = job.content.size, !.late = outcome = "late"]
<1>9. chat' = [chat EXCEPT ![job.item] = told]
    BY <1>2, <1>5, <1>7, <1>8 DEF Got
<1>10. told \in Chats
    BY <1>2, <1>3 DEF Chats
<1>11. CASE outcome = "ok"
    <2>1. /\ job' \in Jobs /\ job'.step = "audit" /\ job'.item = job.item /\ job'.content = job.content
          /\ job'.as = "image"
        BY <1>2, <1>8, <1>11, AuditedMoves
    <2>2. told.image = job.content.size /\ told.header /\ told.parts = 0
        BY <1>2, <1>4, <1>11 DEF Chats
    <2> HIDE DEF told
    <2>3. TaskFits(job', told)
        BY <1>3, <2>1, <2>2 DEF TaskFits, BeforeScreen
    <2> QED
        BY <1>1, <1>6, <1>7, <1>9, <1>10, <2>1, <2>3, TaskMoves
<1>12. CASE outcome # "ok"
    <2>1. /\ job' \in Jobs /\ job'.step = "fallback" /\ job'.item = job.item /\ job'.content = job.content
        BY <1>2, <1>8, <1>12, JobToMoves DEF JobSteps
    <2>2. told.parts = 0 /\ (told.image # 0 => told.late)
        BY <1>2, <1>4, <1>8, <1>12 DEF Chats, Outcomes
    <2> HIDE DEF told
    <2>3. TaskFits(job', told)
        BY <1>3, <2>1, <2>2 DEF TaskFits, BeforeScreen
    <2> QED
        BY <1>1, <1>6, <1>7, <1>9, <1>10, <2>1, <2>3, TaskMoves
<1> QED
    BY <1>11, <1>12

(* The audit event of the task.                                            *)
LEMMA AuditKeeps ==
    ASSUME DeliveryInv, Audit
    PROVE  DeliveryInv'
<1> DEFINE n == job.item
           event == [as |-> job.as, delivered |-> ~job.failed, content |-> job.content]
<1>1. /\ job.step = "audit" /\ job' = JobTo("end") /\ audits' = [audits EXCEPT ![n] = event]
      /\ UNCHANGED <<up, shown, wire, real, items, palReads, noticeKeys, lastSeq, outbound, carried, accepted,
                     toldItems, gets, pendingGet, expired, chat>>
    BY DEF Audit, QueueKept, ServerOnly, palVars, outboundVars
<1>2. /\ job \in Jobs /\ Got \in Chats /\ TaskFits(job, Got) /\ pendingGet = None /\ n # 0
      /\ n \in Items /\ n \in 1..Len(items) /\ (items[n].kind = "reply" \/ carried = n)
    BY <1>1, TaskAt DEF Item
<1>3. job.content \in Terminals /\ job.content.session = items[n].session
    BY <1>1, ContentFits DEF WithContent, TerminalOf
<1>4. /\ job' \in Jobs /\ job'.step = "end" /\ job'.item = n /\ job'.content = job.content
    BY <1>1, <1>2, JobToMoves DEF JobSteps
<1>5. event \in AuditEvents
    BY <1>2, <1>3 DEF AuditEvents, Jobs
<1>6. /\ audits' \in [Items -> AuditEvents \cup {None}] /\ audits'[n] = event
      /\ \A i \in Items : i # n => audits'[i] = audits[i]
    <2>1. audits \in [Items -> AuditEvents \cup {None}]
        BY DEF DeliveryInv, DeliveryTypes
    <2> HIDE DEF event
    <2> QED
        BY <1>1, <1>2, <1>5, <2>1
<1>7. DeliveryTypes'
    BY <1>1, <1>4, <1>6 DEF DeliveryInv, DeliveryTypes
<1>8. ConnectionFits'
    BY <1>1 DEF DeliveryInv, ConnectionFits, Noticed, TerminalOf
<1>9. Len(items) \in Nat /\ ItemsKept
    BY <1>1 DEF ItemsKept, DeliveryInv, DeliveryTypes
<1>10. WireOrdered'
    BY <1>1, <1>7, <1>9, WireUnsaid
<1>11. JobFits'
    <2>1. n <= Len(items) /\ TerminalOf(job.content, n)
        BY <1>2, <1>3 DEF TerminalOf
    <2> HIDE DEF n, event
    <2> QED
        BY <1>1, <1>2, <1>4, <2>1 DEF JobFits, BeforeScreen, TerminalOf
<1>12. TouchedOnce'
    <2> SUFFICES ASSUME NEW i \in Items, Touched(i)'
        PROVE  /\ i <= Len(items)
               /\ i = job'.item \/ items[i].kind = "reply" \/ \E k \in DOMAIN toldItems : toldItems[k] = i
        BY <1>1 DEF TouchedOnce
    <2>1. CASE i = n
        BY <1>2, <1>4, <2>1
    <2>2. CASE i # n
        BY <1>1, <1>6, <2>2 DEF DeliveryInv, TouchedOnce, Touched
    <2> QED
        BY <2>1, <2>2
<1>13. ToldInOrder'
    BY <1>1 DEF DeliveryInv, ToldInOrder
<1>14. ScreensAudited'
    <2> SUFFICES ASSUME NEW i \in 1..Len(items)
        PROVE  /\ audits'[i] # None =>
                    /\ audits'[i].content.session = items[i].session
                    /\ audits'[i].delivered =>
                          IF audits'[i].as = "image"
                          THEN chat[i].header /\ chat[i].image = audits'[i].content.size /\ chat[i].parts = 0
                          ELSE chat[i].parts = audits'[i].content.parts
               /\ chat[i].image # 0 /\ chat[i].parts # 0 => chat[i].late
        BY <1>1 DEF ScreensAudited
    <2>1. CASE i = n
        <3>1. /\ audits'[i].content = job.content /\ audits'[i].as = job.as
              /\ audits'[i].delivered = ~job.failed
            BY <1>6, <2>1
        <3> HIDE DEF event
        <3>2. chat[i].image # 0 /\ chat[i].parts # 0 => chat[i].late
            BY DEF DeliveryInv, ScreensAudited
        <3>3. ~job.failed => IF job.as = "image"
                             THEN chat[n].header /\ chat[n].image = job.content.size /\ chat[n].parts = 0
                             ELSE chat[n].parts = job.content.parts
            BY <1>1, <1>2 DEF TaskFits, Got
        <3> QED
            BY <1>3, <2>1, <3>1, <3>2, <3>3
    <2>2. CASE i # n
        <3>1. i \in Items
            BY <1>9, DeliveryAssumption DEF Items, DeliveryInv, DeliveryTypes
        <3> QED
            BY <1>6, <2>2, <3>1 DEF DeliveryInv, ScreensAudited
    <2> QED
        BY <2>1, <2>2
<1> QED
    BY <1>7, <1>8, <1>10, <1>11, <1>12, <1>13, <1>14 DEF DeliveryInv

(* A connection that has told nothing.                                     *)
LEMMA DeliveryStarts == DeliveryInit => DeliveryInv
<1> SUFFICES ASSUME DeliveryInit PROVE DeliveryInv
    OBVIOUS
<1> USE DEF DeliveryInit
<1>1. DeliveryTypes
    <2>1. 1 \in 1..MaxReplaced /\ 1 \in 0..MaxReplaced /\ 0 <= MaxItems
        BY DeliveryAssumption
    <2>2. job \in Jobs /\ NothingSent \in Chats
        BY DEF Idle, Jobs, JobSteps, NothingSent, Chats
    <2>3. /\ items \in Seq([kind : ItemKinds, session : 1..MaxReplaced]) /\ Len(items) = 0
          /\ wire \in Seq(WireMessages) /\ gets \in Seq(TerminalGets)
          /\ noticeKeys \in Seq(Nat) /\ outbound \in Seq(Nat) /\ accepted \in Seq(Nat) /\ toldItems \in Seq(Nat)
        OBVIOUS
    <2> QED
        BY <2>1, <2>2, <2>3 DEF DeliveryTypes
<1>2. ConnectionFits /\ WireOrdered
    BY DEF ConnectionFits, WireOrdered, WireItems
<1>3. JobFits
    BY DEF JobFits, Idle
<1>4. TouchedOnce
    BY DEF TouchedOnce, Touched
<1>5. ToldInOrder
    <2>1. <<>> \o <<>> \o <<>> = <<>>
        OBVIOUS
    <2> QED
        BY <2>1 DEF ToldInOrder
<1>6. ScreensAudited
    BY DEF ScreensAudited
<1> QED
    BY <1>1, <1>2, <1>3, <1>4, <1>5, <1>6 DEF DeliveryInv

LEMMA DeliveryStutters ==
    ASSUME DeliveryInv, UNCHANGED deliveryVars
    PROVE  DeliveryInv'
<1>1. UNCHANGED <<up, shown, wire, pendingGet, expired, job, real, items, gets, palReads, noticeKeys, lastSeq, outbound,
                  carried, accepted, toldItems, chat, audits>>
    BY DEF deliveryVars, palVars, outboundVars, chatVars
<1>2. DeliveryTypes' /\ ToldInOrder' /\ ScreensAudited'
    BY <1>1 DEF DeliveryInv, DeliveryTypes, ToldInOrder, ScreensAudited
<1>3. ConnectionFits' /\ WireOrdered'
    BY <1>1 DEF DeliveryInv, ConnectionFits, WireOrdered, WireItems, Noticed, ShownAgain, TerminalOf
<1>4. JobFits'
    BY <1>1 DEF DeliveryInv, JobFits, NoScreen, TerminalOf
<1>5. TouchedOnce'
    BY <1>1 DEF DeliveryInv, TouchedOnce, Touched
<1> QED
    BY <1>2, <1>3, <1>4, <1>5 DEF DeliveryInv

LEMMA DeliverySteps == DeliveryInv /\ [DeliveryNext]_deliveryVars => DeliveryInv'
<1> SUFFICES ASSUME DeliveryInv, [DeliveryNext]_deliveryVars PROVE DeliveryInv'
    OBVIOUS
<1>1. CASE \E kind \in {"working", "done", "invalidated", "output"} : SendItem(kind)
    BY <1>1, SendItemKeeps
<1>2. CASE SendAgain
    BY <1>2, SendAgainKeeps
<1>3. CASE SessionReplaced \/ ReceiveGet \/ HandleTerminalSnapshot
    BY <1>3, PalAnswersKeeps
<1>4. CASE Disconnect
    BY <1>4, DisconnectedKeeps DEF Disconnect
<1>5. CASE DetachView
    BY <1>5, DetachKeeps
<1>6. CASE ReadSnapshot
    BY <1>6, ReadSnapshotShows
<1>7. CASE ReadItem
    BY <1>7, ReadItemKeeps
<1>8. CASE ReadResult
    BY <1>8, ReadResultKeeps
<1>9. CASE TakeOutbound
    BY <1>9, TakeOutboundKeeps
<1>10. CASE RunCarried
    BY <1>10, RunCarriedKeeps
<1>11. CASE SkipCarried
    BY <1>11, SkipCarriedKeeps
<1>12. CASE RunReply
    BY <1>12, RunReplyKeeps
<1>13. CASE StartTask
    BY <1>13, StartTaskKeeps
<1>14. CASE TellStatus
    BY <1>14, TellStatusKeeps
<1>15. CASE FetchTerminal
    BY <1>15, FetchTerminalKeeps
<1>16. CASE TakeFetched
    BY <1>16, TakeFetchedKeeps
<1>17. CASE FetchEnds
    BY <1>17, FetchEndsKeeps
<1>18. CASE PushContent
    BY <1>18, PushContentKeeps
<1>19. CASE SendHeader
    BY <1>19, SendHeaderKeeps
<1>20. CASE UploadImage
    BY <1>20, UploadImageKeeps
<1>21. CASE SendImage
    BY <1>21, SendImageKeeps
<1>22. CASE FallBack
    BY <1>22, FallBackKeeps
<1>23. CASE SendText
    BY <1>23, SendTextKeeps
<1>24. CASE Audit
    BY <1>24, AuditKeeps
<1>25. CASE EndTask
    BY <1>25, EndTaskKeeps
<1>26. CASE UNCHANGED deliveryVars
    BY <1>26, DeliveryStutters
<1> QED
    BY <1>1, <1>2, <1>3, <1>4, <1>5, <1>6, <1>7, <1>8, <1>9, <1>10, <1>11, <1>12, <1>13, <1>14, <1>15, <1>16,
       <1>17, <1>18, <1>19, <1>20, <1>21, <1>22, <1>23, <1>24, <1>25, <1>26 DEF DeliveryNext

(* What came over the connection is passed on to the user's executor once  *)
(* and in the order it came, and an audit event says what the user got:    *)
(* the whole image after its header or every part of the text, of the      *)
(* session it is about, however long the queue is, whatever the images'    *)
(* sizes, and wherever the connection, the fetch or WeCom fails.           *)
THEOREM ToldAsAudited == DeliverySpec => []ToldTruly
<1>1. DeliveryInv => ToldTruly
    BY DEF DeliveryInv, ToldTruly
<1> QED
    BY <1>1, DeliveryStarts, DeliverySteps, PTL DEF DeliverySpec
=============================================================================
