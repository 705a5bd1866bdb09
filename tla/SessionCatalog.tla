--------------------------- MODULE SessionCatalog ---------------------------
(***************************************************************************)
(* The in-memory directory of the relay server: internal/server/catalog.go *)
(*                                                                         *)
(* It keeps, for every (user, machine) key, the one live connection and    *)
(* the newest full session snapshot of that connection, and, for every     *)
(* user, the routing state: the numbered list of /ls, the selected target, *)
(* the target whose selection a snapshot took away, and the explicit       *)
(* terminal output modes.  One mutex guards everything, so an operation    *)
(* is one action; only the three waiting operations take several, because  *)
(* they park on the channel `updates` between two looks at the directory.  *)
(*                                                                         *)
(* Abstractions.  A snapshot is a function from slots to their occupant    *)
(* (ValidateSessionSnapshot refuses two sessions in one slot), and display *)
(* data is dropped.  A position of the numbered list is named by the       *)
(* target at that position, so the list is the set of its targets: the     *)
(* sort order is not modelled.  Operations that return without a state     *)
(* change (errors, a selection that is still good) are stuttering steps.   *)
(***************************************************************************)
EXTENDS Naturals

CONSTANTS
    Users,          \* WeCom user identifiers
    Machines,       \* machine identifiers
    Slots,          \* panes of a machine
    Sessions,       \* occupant identities a pane can have
    Conns,          \* connection identifiers
    Waiters,        \* goroutines that call a waiting operation
    Modes,          \* explicit terminal output modes: text and image
    MaxSeq,         \* bound on snapshot sequence numbers
    NoKey, NoConn, NoTarget, Vacant, DefaultMode, NoWait

ASSUME CatalogAssumption ==
    /\ MaxSeq \in Nat
    /\ NoConn \notin Conns
    /\ Vacant \notin Sessions
    /\ DefaultMode \notin Modes

Keys == Users \X Machines
Targets == [machine : Machines, slot : Slots, session : Sessions]

ASSUME SentinelAssumption ==
    NoKey \notin Keys /\ NoTarget \notin Targets

VARIABLES
    connections,    \* connection -> its key, or NoKey
    byKey,          \* key -> its connection, or NoConn
    machines,       \* key -> [conn, seq, sessions]; conn = NoConn: no entry
    numbered,       \* user -> the targets of the latest numbered list
    numberedValid,  \* user -> whether that list may be used
    selected,       \* user -> current selection, or NoTarget
    invalidated,    \* user -> selection taken away by a snapshot, or NoTarget
    outputModes,    \* user -> target -> explicit mode, or DefaultMode
    waits           \* goroutine -> its waiting operation, or NoWait

directory == <<connections, byKey, machines>>
listing == <<numbered, numberedValid>>
vars == <<connections, byKey, machines, numbered, numberedValid,
          selected, invalidated, outputModes, waits>>

EmptyPane == [s \in Slots |-> Vacant]
Panes == [Slots -> Sessions \cup {Vacant}]
Registered(c) == [conn |-> c, seq |-> 0, sessions |-> EmptyPane]
NoMachine == Registered(NoConn)
MachineState == [conn : Conns \cup {NoConn}, seq : 0..MaxSeq, sessions : Panes]
NoModes == [t \in Targets |-> DefaultMode]

WaitOps == {"select", "rebind", "target"}
Wait == [op : WaitOps, user : Users, expected : Targets, target : Targets,
         phase : {"checking", "parked", "woken"}]

TypeOK ==
    /\ connections \in [Conns -> Keys \cup {NoKey}]
    /\ byKey \in [Keys -> Conns \cup {NoConn}]
    /\ machines \in [Keys -> MachineState]
    /\ numbered \in [Users -> SUBSET Targets]
    /\ numberedValid \in [Users -> BOOLEAN]
    /\ selected \in [Users -> Targets \cup {NoTarget}]
    /\ invalidated \in [Users -> Targets \cup {NoTarget}]
    /\ outputModes \in [Users -> [Targets -> Modes \cup {DefaultMode}]]
    /\ waits \in [Waiters -> Wait \cup {NoWait}]

Init ==
    /\ connections = [c \in Conns |-> NoKey]
    /\ byKey = [k \in Keys |-> NoConn]
    /\ machines = [k \in Keys |-> NoMachine]
    /\ numbered = [u \in Users |-> {}]
    /\ numberedValid = [u \in Users |-> FALSE]
    /\ selected = [u \in Users |-> NoTarget]
    /\ invalidated = [u \in Users |-> NoTarget]
    /\ outputModes = [u \in Users |-> NoModes]
    /\ waits = [w \in Waiters |-> NoWait]

-----------------------------------------------------------------------------
(* What the directory shows.                                               *)

Online(u, m) == machines[<<u, m>>].conn # NoConn

Lists(machine, t) == machine.seq > 0 /\ machine.sessions[t.slot] = t.session

Visible(u, t) == Lists(machines[<<u, t.machine>>], t)
VisibleNext(u, t) == Lists(machines'[<<u, t.machine>>], t)

Entries(u) == {t \in Targets : Visible(u, t)}

(* The target in the pane of `t` once session `s` occupies it.              *)
Occupied(t, s) == [machine |-> t.machine, slot |-> t.slot, session |-> s]

SameSlot(t, v) == t.machine = v.machine /\ t.slot = v.slot

(* Mutant of Signalled: goroutines of WaitForTarget are not woken.          *)
SignalledWriters ==
    [w \in Waiters |->
        IF waits[w] # NoWait /\ waits[w].phase = "parked" /\ waits[w].op # "target"
        THEN [waits[w] EXCEPT !.phase = "woken"]
        ELSE waits[w]]

(* Closing and replacing `updates` wakes every goroutine parked on it.     *)
Signalled ==
    [w \in Waiters |->
        IF waits[w] # NoWait /\ waits[w].phase = "parked"
        THEN [waits[w] EXCEPT !.phase = "woken"]
        ELSE waits[w]]

(* Mutant of SignalUpdate: the state changes and nobody is told.            *)
NoSignal == waits' = waits

SignalUpdate == waits' = Signalled

-----------------------------------------------------------------------------
(* The connection side.                                                    *)

(* Mutant of Attach: a new connection takes the key of an old one.          *)
AttachReplacing(c, k) ==
    /\ connections[c] = NoKey
    /\ connections' = [connections EXCEPT ![c] = k]
    /\ byKey' = [byKey EXCEPT ![k] = c]
    /\ machines' = [machines EXCEPT ![k] = Registered(c)]
    /\ SignalUpdate
    /\ UNCHANGED <<numbered, numberedValid, selected, invalidated, outputModes>>

(* Attach: a connection identifier and a key are each used once at a time. *)
Attach(c, k) ==
    /\ connections[c] = NoKey
    /\ byKey[k] = NoConn
    /\ connections' = [connections EXCEPT ![c] = k]
    /\ byKey' = [byKey EXCEPT ![k] = c]
    /\ machines' = [machines EXCEPT ![k] = Registered(c)]
    /\ SignalUpdate
    /\ UNCHANGED <<numbered, numberedValid, selected, invalidated, outputModes>>

(* Mutant of MigratedModes: a changed occupant loses the mode of its pane.  *)
DroppedModes(k, previous, next) ==
    [t \in Targets |->
        IF t.machine = k[2] /\ next[t.slot] # t.session
        THEN DefaultMode ELSE outputModes[k[1]][t]]

(* migrateOutputModesLocked: an explicit mode belongs to the slot, so it    *)
(* follows a changed occupant; a vacated slot, or a mode whose target was   *)
(* not the slot's previous occupant, loses it.                              *)
MigratedModes(k, previous, next) ==
    LET modes == outputModes[k[1]]
    IN  [t \in Targets |->
            IF t.machine # k[2] THEN modes[t]
            ELSE IF next[t.slot] # t.session THEN DefaultMode
            ELSE IF previous[t.slot] # Vacant /\ modes[Occupied(t, previous[t.slot])] # DefaultMode
                 THEN modes[Occupied(t, previous[t.slot])]
                 ELSE modes[t]]

(* invalidateChangedSelectionLocked, after `machines` has been replaced.    *)
SelectionLost(u) == selected[u] # NoTarget /\ ~VisibleNext(u, selected[u])

(* Mutant of InvalidateChangedSelection: a stale selection is left in place. *)
KeepSelection(u) == UNCHANGED <<selected, invalidated>>

InvalidateChangedSelection(u) ==
    /\ selected' = [selected EXCEPT ![u] = IF SelectionLost(u) THEN NoTarget ELSE @]
    /\ invalidated' = [invalidated EXCEPT ![u] =
                            IF SelectionLost(u) THEN selected[u] ELSE @]

(* Mutant of ApplySnapshot: the sequence number is added, not stored.       *)
ApplySnapshotDelta(c, seq, panes) ==
    LET k == connections[c] IN
    /\ k # NoKey
    /\ machines[k].conn = c
    /\ seq > machines[k].seq
    /\ machines' = [machines EXCEPT ![k].seq = @ + seq, ![k].sessions = panes]
    /\ outputModes' = [outputModes EXCEPT ![k[1]] =
                            MigratedModes(k, machines[k].sessions, panes)]
    /\ InvalidateChangedSelection(k[1])
    /\ SignalUpdate
    /\ UNCHANGED <<connections, byKey, numbered, numberedValid>>

(* ApplySnapshot: only a newer snapshot of the key's own connection counts. *)
ApplySnapshot(c, seq, panes) ==
    LET k == connections[c] IN
    /\ k # NoKey
    /\ machines[k].conn = c
    /\ seq > machines[k].seq
    /\ machines' = [machines EXCEPT ![k] = [conn |-> c, seq |-> seq, sessions |-> panes]]
    /\ outputModes' = [outputModes EXCEPT ![k[1]] =
                            MigratedModes(k, machines[k].sessions, panes)]
    /\ InvalidateChangedSelection(k[1])
    /\ SignalUpdate
    /\ UNCHANGED <<connections, byKey, numbered, numberedValid>>

OnMachine(t, m) == t # NoTarget /\ t.machine = m

(* Detach: deferred by every connection handler; a second call for the same *)
(* connection finds nothing.                                                *)
Detach(c) ==
    LET k == connections[c]
        u == k[1]
        m == k[2]
        drop(t) == IF OnMachine(t, m) THEN NoTarget ELSE t
    IN
    /\ k # NoKey
    /\ connections' = [connections EXCEPT ![c] = NoKey]
    /\ byKey' = [byKey EXCEPT ![k] = IF @ = c THEN NoConn ELSE @]
    /\ machines' = [machines EXCEPT ![k] = IF @.conn = c THEN NoMachine ELSE @]
    /\ numbered' = [numbered EXCEPT ![u] = {}]
    /\ numberedValid' = [numberedValid EXCEPT ![u] = FALSE]
    /\ selected' = [selected EXCEPT ![u] = drop(@)]
    /\ invalidated' = [invalidated EXCEPT ![u] = drop(@)]
    /\ outputModes' = [outputModes EXCEPT ![u] =
            [t \in Targets |-> IF t.machine = m THEN DefaultMode ELSE @[t]]]
    /\ SignalUpdate

-----------------------------------------------------------------------------
(* The routing side: what one user's commands do.                          *)

CreateNumberedSnapshot(u) ==
    /\ numbered' = [numbered EXCEPT ![u] = Entries(u)]
    /\ numberedValid' = [numberedValid EXCEPT ![u] = TRUE]
    /\ UNCHANGED <<directory, selected, invalidated, outputModes, waits>>

(* EnsureNumberedIndex renumbers when the valid list lacks the target.     *)
EnsureNumberedIndex(u, t) ==
    /\ Visible(u, t)
    /\ ~(numberedValid[u] /\ t \in numbered[u])
    /\ CreateNumberedSnapshot(u)

Choose(u, t) ==
    /\ selected' = [selected EXCEPT ![u] = t]
    /\ invalidated' = [invalidated EXCEPT ![u] = NoTarget]

SetSelection(u, t) ==
    /\ Visible(u, t)
    /\ Choose(u, t)
    /\ SignalUpdate
    /\ UNCHANGED <<directory, listing, outputModes>>

(* Selected: with no good selection, the only session there is becomes one; *)
(* a stale selection is otherwise moved to `invalidated`.                   *)
Selected(u) ==
    LET stale == selected[u] # NoTarget
        only == {t \in Entries(u) : Entries(u) = {t}}
    IN
    /\ ~(stale /\ Visible(u, selected[u]))
    /\ stale \/ only # {}
    /\ IF only # {} THEN \E t \in only : Choose(u, t)
       ELSE /\ selected' = [selected EXCEPT ![u] = NoTarget]
            /\ invalidated' = [invalidated EXCEPT ![u] = selected[u]]
    /\ SignalUpdate
    /\ UNCHANGED <<directory, listing, outputModes>>

SetOutputMode(u, t, mode) ==
    /\ Visible(u, t)
    /\ outputModes' = [outputModes EXCEPT ![u][t] = mode]
    /\ SignalUpdate
    /\ UNCHANGED <<directory, listing, selected, invalidated>>

-----------------------------------------------------------------------------
(* The waiting operations: SetSelectionWhenAvailable ("select"),            *)
(* RebindSelection ("rebind") and WaitForTarget ("target").                 *)

BeginWait(w, op, u, expected, target) ==
    /\ waits[w] = NoWait
    /\ IF op = "rebind" THEN SameSlot(expected, target) ELSE expected = target
    /\ waits' = [waits EXCEPT ![w] =
            [op |-> op, user |-> u, expected |-> expected, target |-> target,
             phase |-> "checking"]]
    /\ UNCHANGED <<directory, listing, selected, invalidated, outputModes>>

(* Mutant of RebindAllowed: any current selection may be replaced.          *)
RebindAnySelection(u, expected, replacement) ==
    selected[u] # NoTarget \/ invalidated[u] = expected

(* The three cases in which RebindSelection may still write.               *)
RebindAllowed(u, expected, replacement) ==
    \/ selected[u] \in {expected, replacement}
    \/ selected[u] = NoTarget /\ invalidated[u] = expected

Refused(wait) ==
    \/ ~Online(wait.user, wait.target.machine)
    \/ wait.op = "rebind" /\ ~RebindAllowed(wait.user, wait.expected, wait.target)

Answered(wait) == ~Refused(wait) /\ Visible(wait.user, wait.target)

(* One pass of the loop, under the mutex.  A pass that writes the selection *)
(* signals, and so wakes every other parked goroutine.                      *)
EndWait(w) ==
    /\ waits[w] # NoWait
    /\ waits[w].phase # "parked"
    /\ \/ /\ Refused(waits[w]) \/ (waits[w].op = "target" /\ Answered(waits[w]))
          /\ waits' = [waits EXCEPT ![w] = NoWait]
          /\ UNCHANGED <<selected, invalidated>>
       \/ /\ waits[w].op # "target"
          /\ Answered(waits[w])
          /\ Choose(waits[w].user, waits[w].target)
          /\ waits' = [Signalled EXCEPT ![w] = NoWait]
    /\ UNCHANGED <<directory, listing, outputModes>>

Park(w) ==
    /\ waits[w] # NoWait
    /\ waits[w].phase # "parked"
    /\ ~Refused(waits[w])
    /\ ~Answered(waits[w])
    /\ waits' = [waits EXCEPT ![w].phase = "parked"]
    /\ UNCHANGED <<directory, listing, selected, invalidated, outputModes>>

(* ctx.Done(): also when `updates` is closed, the select picks either.     *)
Timeout(w) ==
    /\ waits[w] # NoWait
    /\ waits[w].phase # "checking"
    /\ waits' = [waits EXCEPT ![w] = NoWait]
    /\ UNCHANGED <<directory, listing, selected, invalidated, outputModes>>

-----------------------------------------------------------------------------
Next ==
    \/ \E c \in Conns, k \in Keys : Attach(c, k)
    \/ \E c \in Conns, seq \in 1..MaxSeq, panes \in Panes : ApplySnapshot(c, seq, panes)
    \/ \E c \in Conns : Detach(c)
    \/ \E u \in Users : CreateNumberedSnapshot(u)
    \/ \E u \in Users, t \in Targets : EnsureNumberedIndex(u, t)
    \/ \E u \in Users, t \in Targets : SetSelection(u, t)
    \/ \E u \in Users : Selected(u)
    \/ \E u \in Users, t \in Targets, mode \in Modes : SetOutputMode(u, t, mode)
    \/ \E w \in Waiters, op \in WaitOps, u \in Users, expected, target \in Targets :
            BeginWait(w, op, u, expected, target)
    \/ \E w \in Waiters : EndWait(w)
    \/ \E w \in Waiters : Park(w)
    \/ \E w \in Waiters : Timeout(w)

Spec == Init /\ [][Next]_vars

(* A goroutine that is not blocked on `updates` runs; nothing promises that *)
(* a context expires or that a snapshot arrives.                            *)
FairSpec == Spec /\ \A w \in Waiters : WF_vars(EndWait(w) \/ Park(w))

-----------------------------------------------------------------------------
(* Properties.                                                             *)

(* The three connection indexes agree: every attached connection owns its   *)
(* key in both key maps, and no key outlives its connection.  It is what    *)
(* makes "one client per (user, machine)" and the ownership test of         *)
(* ApplySnapshot mean the same thing.                                       *)
ConnectionIndexes ==
    /\ \A c \in Conns : connections[c] # NoKey =>
            byKey[connections[c]] = c /\ machines[connections[c]].conn = c
    /\ \A k \in Keys :
            /\ machines[k].conn = byKey[k]
            /\ byKey[k] # NoConn => connections[byKey[k]] = k

(* A stored selection resolves in the newest snapshot of a machine that is  *)
(* online, whatever snapshots, disconnects and rebinds did in between.      *)
SelectionLive == \A u \in Users : selected[u] # NoTarget => Visible(u, selected[u])

(* A taken-away selection waits for its rebind only while its machine stays *)
(* connected, and never beside a newer selection it could overwrite.        *)
InvalidatedAwaitsRebind ==
    \A u \in Users : invalidated[u] # NoTarget =>
        selected[u] = NoTarget /\ Online(u, invalidated[u].machine)

(* An explicit output mode is always the mode of a live session.           *)
ModesLive ==
    \A u \in Users, t \in Targets :
        outputModes[u][t] # DefaultMode => Visible(u, t)

(* A usable number names a target of a machine that has not reconnected     *)
(* since the list was made.                                                 *)
NumbersOfOnlineMachines ==
    \A u \in Users : numberedValid[u] =>
        \A t \in numbered[u] : Online(u, t.machine)

RoutingLive ==
    SelectionLive /\ InvalidatedAwaitsRebind /\ ModesLive /\ NumbersOfOnlineMachines

(* No lost wakeup: a goroutine sleeps on `updates` only while another pass  *)
(* of its loop would put it back to sleep.                                  *)
NoLostWakeup ==
    \A w \in Waiters : waits[w] # NoWait /\ waits[w].phase = "parked" =>
        ~Refused(waits[w]) /\ ~Visible(waits[w].user, waits[w].target)

(* A live selection is changed by nobody but its user: it moves only by an  *)
(* explicit selection, and is dropped only when its target is gone.  In     *)
(* particular a rebind or an auto-selection never replaces a newer choice.  *)
SelectionStable ==
    [][\A u \in Users : selected[u] # NoTarget /\ selected'[u] # selected[u] =>
          \/ selected'[u] = NoTarget /\ ~VisibleNext(u, selected[u])
          \/ SetSelection(u, selected'[u])
          \/ \E w \in Waiters :
                EndWait(w) /\ waits[w].user = u /\ waits[w].op = "select"]_vars

(* An explicit mode stays with its pane: while the machine stays connected  *)
(* and the pane occupied, whoever occupies it next has the same mode.       *)
ModeFollowsSlot ==
    [][\A u \in Users, t \in Targets :
          outputModes[u][t] # DefaultMode =>
              LET k == <<u, t.machine>>
                  next == Occupied(t, machines'[k].sessions[t.slot])
              IN  \/ next.session = Vacant
                  \/ machines'[k].conn # machines[k].conn
                  \/ outputModes'[u][next] = outputModes[u][t]
                  \/ \E mode \in Modes : SetOutputMode(u, next, mode)]_vars

(* A waiting call whose answer is there for good returns.                  *)
NoStuckWait ==
    \A w \in Waiters :
        []<>~(waits[w] # NoWait /\ (Refused(waits[w]) \/ Answered(waits[w])))

(* The directory is whole at any time: its indexes agree, every stored      *)
(* selection, mode and number leads to a live session, and no goroutine     *)
(* sleeps through what it waits for, whatever snapshots, disconnects and    *)
(* commands of any users come in between (catalog.go).                      *)
CatalogConsistent == TypeOK /\ ConnectionIndexes /\ RoutingLive /\ NoLostWakeup
=============================================================================
