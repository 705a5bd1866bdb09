----------------------------- MODULE BridgeService -----------------------------
(***************************************************************************)
(* Pal's Service: calls from the user read and write one selected Agent of *)
(* Herdr while the Supervisor replaces the directory and the client under  *)
(* them.  Code: internal/bridge/service.go and prompt_state.go,            *)
(* internal/session/registry.go, internal/panel/buffer.go and the calls    *)
(* internal/bridge/supervisor.go makes of the Service.                     *)
(*                                                                         *)
(* A call takes a lease (an operation, or an input) before it talks to     *)
(* Herdr.  A transition (selection, snapshot, invalidation, client change) *)
(* holds transitionMu, refuses new leases and waits for those it must not  *)
(* overtake.  stateMu is held within one step.                             *)
(*                                                                         *)
(* Abstractions.  A target is a pane and its OccupantKey.  A terminal is   *)
(* the interval of its lines, which are numbered and never repeat; a read  *)
(* is an interval of it.  The counter generation is compared for equality  *)
(* only: fresh[h] says that it has not moved since h captured it.  Calls   *)
(* of Herdr are external and may fail; replies are left out.  An attempt   *)
(* of retryPromptStateChange stands for its rounds.                        *)
(***************************************************************************)
EXTENDS Integers, FiniteSets

CONSTANTS
    Panes,
    Occupants,      \* identities an agent pane can have (OccupantKey)
    Handlers,       \* goroutines that call the Service
    Mixes,          \* instances: what the handlers call, how many lines a terminal has at
                    \* first, and how many empty rows follow its last line
    PageSize,
    MaxLines,       \* lines the panel may cache
    MaxPrinted,     \* bound on the lines a terminal prints
    MaxKeys,        \* keys of one /key command
    MaxClients,     \* bound on connections to Herdr
    Supervisor,
    None

Kinds == {"list", "select", "selectTarget", "content", "pageup", "pagedown",
          "prompt", "keys", "snapshot"}
Inputs == {"prompt", "keys"}

Targets == Panes \X Occupants
Panels == [key : Targets, first : 1..MaxPrinted, last : 1..MaxPrinted, page : 0..MaxLines,
           oldest : BOOLEAN, newest : 1..PageSize]

ASSUME ServiceAssumption ==
    /\ Panes # {} /\ None \notin Occupants \cup Handlers \cup Panes \X Occupants
    /\ None \notin {"op", "input"} /\ None \notin Panels
    /\ Supervisor \notin Handlers /\ Supervisor # None
    /\ \A m \in Mixes : /\ m.calls \in [Handlers -> SUBSET Kinds]
                        /\ m.lines \in 1..MaxPrinted /\ m.blank \in 0..(PageSize - 1)
    /\ PageSize \in Nat \ {0} /\ MaxLines \in Nat /\ MaxLines >= PageSize
    /\ MaxPrinted \in Nat \ {0} /\ MaxKeys \in Nat \ {0} /\ MaxClients \in Nat
    /\ None \notin 0..MaxClients

Actors == Handlers \cup {Supervisor}
Steps == {"idle", "content", "list", "listing", "resolve", "target", "verify", "submit", "submitted",
          "confirm", "recheck", "enter", "entered", "send", "capture", "geometry", "read", "apply",
          "lock", "barrier", "down", "set", "healthy", "degrade", "drain"}
Plans == {"list", "select", "selectTarget", "expected", "rebind", "baseline", "refresh", "clear"}
Views == [Panes -> Occupants \cup {None}]
Lines == [from : 1..MaxPrinted, to : 1..MaxPrinted]

VARIABLES
    occupant, low, high,    \* Herdr: the agent and the terminal of each pane
    registry,               \* Registry.targets: pane -> OccupantKey
    selected,               \* selectedPane and selectedKey
    selectionInvalid,
    listSnapshot,           \* the entries of the last /ls
    client,                 \* the number of the connection, or None
    opsBlocked, inputBlocked,
    transition,             \* who holds transitionMu
    panel,                  \* the Buffer, None while panelReady is false
    calls, blank,           \* of the instance: handler -> kinds of calls; empty rows
    pc,                     \* what an actor does next
    kind, target,           \* the call and the target it captured
    lease,                  \* "op", "input" or None
    held,                   \* the client of the lease
    fresh,                  \* the captured generation is still the current one
    read,                   \* the lines it has read
    left,                   \* keys not yet sent
    accepted,               \* promptAccepted
    plan,                   \* what the transition of an actor does
    snap,                   \* the snapshot it has read
    clients,                \* connections made so far
    mark,                   \* history: newest line when the panel last changed
    shown,                  \* history: oldest line shown since the last refresh
    moved,                  \* history: the terminal printed during a page up
    gap                     \* history: a page up skipped lines although ~moved

herdrVars == <<occupant, low, high, calls, blank>>
selectionVars == <<selected, selectionInvalid>>
registryVars == <<registry, listSnapshot>>
lockVars == <<opsBlocked, inputBlocked, transition>>
clientVars == <<client, clients>>
panelVars == <<panel, mark, shown, moved, gap>>
leaseVars == <<lease, held>>
callVars == <<kind, target, read, left, accepted>>
planVars == <<plan, snap>>
vars == <<herdrVars, selectionVars, registryVars, lockVars, clientVars, panelVars, pc, leaseVars,
          callVars, fresh, planVars>>

Init ==
    /\ occupant \in [Panes -> Occupants] /\ low = [p \in Panes |-> 1]
    /\ \E m \in Mixes : calls = m.calls /\ blank = m.blank /\ high = [p \in Panes |-> m.lines]
    /\ registry = [p \in Panes |-> None] /\ listSnapshot = {}
    /\ selected = None /\ selectionInvalid = FALSE
    /\ client = None /\ clients = 0
    /\ opsBlocked = FALSE /\ inputBlocked = FALSE /\ transition = None
    /\ panel = None /\ mark = 0 /\ shown = 0 /\ moved = FALSE /\ gap = FALSE
    /\ pc = [a \in Actors |-> IF a = Supervisor THEN "down" ELSE "idle"]
    /\ kind = [h \in Handlers |-> None] /\ target = [h \in Handlers |-> None]
    /\ read = [h \in Handlers |-> None] /\ left = [h \in Handlers |-> 0]
    /\ accepted = [h \in Handlers |-> FALSE] /\ fresh = [h \in Handlers |-> FALSE]
    /\ lease = [h \in Handlers |-> None] /\ held = [h \in Handlers |-> None]
    /\ plan = [a \in Actors |-> None]
    /\ snap = [a \in Actors |-> [p \in Panes |-> None]]

----------------------------------------------------------------------------
(* The Registry and the panel.                                             *)

Current == {t \in Targets : registry[t[1]] = t[2]}

(* What ValidateSelected returns (None is an error) and what it changes. *)
Validated == IF ~selectionInvalid /\ selected \in Current THEN selected ELSE None
ValidateSelected ==
    /\ selected' = Validated
    /\ selectionInvalid' = (~selectionInvalid /\ selected # None /\ selected \notin Current)

Stale == fresh' = [h \in Handlers |-> FALSE]

Newest(t) == IF t = None THEN 0 ELSE high[t[1]]

(* resetPanelLocked, once the selection has become t. *)
resetPanelLocked(t) ==
    /\ panel' = None /\ mark' = Newest(t)
    /\ shown' = 0 /\ moved' = FALSE /\ gap' = FALSE
    /\ Stale

Smaller(a, b) == IF a < b THEN a ELSE b
Larger(a, b) == IF a > b THEN a ELSE b

Cached(b) == b.last - b.first + 1

(* Mutant: the newest page is taken for a full one. *)
latestPageLenFull(b) == Smaller(PageSize, Cached(b))

latestPageLen(b) == b.newest
hasCachedOlderPage(b) == Cached(b) - latestPageLen(b) > b.page * PageSize

(* NextReadSize; 0 stands for ErrOldestPage. *)
NextReadSize(b) ==
    IF hasCachedOlderPage(b) THEN Larger(Smaller((b.page + 2) * PageSize, MaxLines), Cached(b))
    ELSE IF b.oldest \/ (b.page + 2) * PageSize > MaxLines THEN 0
    ELSE Smaller((b.page + 2) * PageSize, MaxLines)

(* RenderTerminal of page b.page. *)
PageTo(b) == IF b.page = 0 THEN b.last ELSE b.last - latestPageLen(b) - (b.page - 1) * PageSize
PageFrom(b) ==
    Larger(b.first, PageTo(b) - (IF b.page = 0 THEN latestPageLen(b) ELSE PageSize) + 1)

(* RefreshTerminal; a refresh reads at most one page. *)
Refreshed(t, r) ==
    [key |-> t, first |-> r.from, last |-> r.to, page |-> 0, oldest |-> FALSE,
     newest |-> r.to - r.from + 1]

(* ExpandTerminal: the cached lines must lie in the lines read, or, when   *)
(* both are full, run into them by a page at least.                        *)
Anchored(b, r) == r.from <= b.first /\ b.last <= r.to
RolledForward(b, r) ==
    /\ Cached(b) = MaxLines /\ r.to - r.from + 1 = MaxLines
    /\ b.first < r.from /\ r.from + PageSize - 1 <= b.last
Expandable(b, r) == Anchored(b, r) \/ (hasCachedOlderPage(b) /\ RolledForward(b, r))

Prefix(b, r) == IF Anchored(b, r) THEN Larger(r.from, b.last - MaxLines + 1) ELSE b.first
TurnsPage(b, r) == Prefix(b, r) < b.first \/ hasCachedOlderPage(b)

Expanded(b, r) ==
    LET grown == Prefix(b, r) < b.first
    IN [key |-> b.key, first |-> Prefix(b, r), last |-> b.last,
        page |-> IF TurnsPage(b, r) THEN b.page + 1 ELSE b.page,
        oldest |-> IF grown THEN b.last - Prefix(b, r) + 1 >= MaxLines
                   ELSE b.oldest \/ ~TurnsPage(b, r),
        newest |-> b.newest]

----------------------------------------------------------------------------
(* Leases and the end of a call.                                           *)

Goto(a, step) == pc' = [pc EXCEPT ![a] = step]

endOperation(h) ==
    /\ lease' = [lease EXCEPT ![h] = None]
    /\ held' = [held EXCEPT ![h] = None]

Forget(h) ==
    /\ kind' = [kind EXCEPT ![h] = None]
    /\ target' = [target EXCEPT ![h] = None]
    /\ read' = [read EXCEPT ![h] = None]
    /\ left' = [left EXCEPT ![h] = 0]
    /\ accepted' = [accepted EXCEPT ![h] = FALSE]

(* The call replies; a lease it still has ends. *)
Reply(h) == Goto(h, "idle") /\ endOperation(h) /\ Forget(h)

(* Mutant: the lease does not end before the transition. *)
ReleaseLater(h, what) ==
    /\ UNCHANGED leaseVars
    /\ plan' = [plan EXCEPT ![h] = what]
    /\ Goto(h, "lock")

(* The lease ends and the call goes on to a transition. *)
Release(h, what) ==
    /\ endOperation(h)
    /\ plan' = [plan EXCEPT ![h] = what]
    /\ Goto(h, "lock")

Ready(input) == ~(input /\ inputBlocked) /\ ~opsBlocked /\ client # None

BeginStep(k) ==
    CASE k = "list" -> "list" [] k = "snapshot" -> "resolve" [] k \in Inputs -> "target"
      [] OTHER -> "capture"

beginOperation(h, k) ==
    /\ Ready(k \in Inputs)
    /\ lease' = [lease EXCEPT ![h] = IF k \in Inputs THEN "input" ELSE "op"]
    /\ held' = [held EXCEPT ![h] = client]
    /\ kind' = [kind EXCEPT ![h] = k]
    /\ Goto(h, BeginStep(k))

(* HandleMessage or ReadTerminalSnapshot gets a lease. *)
Begin(h) ==
    /\ pc[h] = "idle"
    /\ \E k \in calls[h] \ {"select", "selectTarget", "pagedown"} :
         /\ beginOperation(h, k)
         /\ \E t \in IF k = "snapshot" THEN Targets ELSE {None} :
               target' = [target EXCEPT ![h] = t]
         /\ \E n \in IF k = "keys" THEN 1..MaxKeys ELSE {0} : left' = [left EXCEPT ![h] = n]
    /\ UNCHANGED <<herdrVars, selectionVars, registryVars, lockVars, clientVars, panelVars, read,
                   accepted, fresh, planVars>>

(* No lease: /ls lists what it has, the audit of keys looks at the         *)
(* selection, the other calls only reply.                                  *)
BeginUnavailable(h) ==
    /\ pc[h] = "idle"
    /\ \/ /\ "list" \in calls[h] /\ ~Ready(FALSE)
          /\ kind' = [kind EXCEPT ![h] = "list"]
          /\ Goto(h, "listing")
          /\ UNCHANGED selectionVars
       \/ /\ "keys" \in calls[h] /\ ~inputBlocked /\ ~Ready(TRUE)
          /\ ValidateSelected
          /\ UNCHANGED <<pc, kind>>
    /\ UNCHANGED <<herdrVars, registryVars, lockVars, clientVars, panelVars, leaseVars, target,
                   read, left, accepted, fresh, planVars>>

----------------------------------------------------------------------------
(* Transitions.                                                            *)

(* transitionMu, then beginInputBarrierLocked. *)
LockTransition(a) ==
    /\ pc[a] = "lock" /\ transition = None
    /\ transition' = a
    /\ inputBlocked' = TRUE
    /\ Goto(a, "barrier")
    /\ UNCHANGED <<herdrVars, selectionVars, registryVars, opsBlocked, clientVars, panelVars,
                   leaseVars, callVars, fresh, planVars>>

activeInputs == {h \in Handlers : lease[h] = "input"}
activeOps == {h \in Handlers : lease[h] # None}

Barrier == activeInputs = {}

KeepPanel == UNCHANGED <<panelVars, fresh>>

ClearSelection ==
    /\ selected' = None /\ selectionInvalid' = FALSE /\ listSnapshot' = {}
    /\ resetPanelLocked(None)
    /\ UNCHANGED registry

(* handleSelect: a member of the list, or an index outside it (None).      *)
Select(h) ==
    \E t \in listSnapshot \cup {None} :
       \/ /\ t \in Current
          /\ selected' = t /\ selectionInvalid' = FALSE
          /\ resetPanelLocked(t)
          /\ Goto(h, "content")
          /\ UNCHANGED <<registryVars, leaseVars, callVars>>
       \/ /\ t # None /\ t \notin Current
          /\ ClearSelection
          /\ Reply(h)
       \/ /\ t = None
          /\ UNCHANGED <<selectionVars, registryVars>> /\ KeepPanel
          /\ Reply(h)

SelectTarget(h) ==
    LET t == target[h] IN
    /\ IF t \in Current
       THEN /\ selected' = t /\ selectionInvalid' = FALSE
            /\ IF Validated = t THEN KeepPanel ELSE resetPanelLocked(t)
       ELSE ValidateSelected /\ KeepPanel
    /\ Reply(h)
    /\ UNCHANGED registryVars

(* replace: targets, and the selection unless its occupant stayed. *)
Replaced(v) ==
    /\ registry' = v
    /\ IF selected # None /\ v[selected[1]] # selected[2]
       THEN selected' = None /\ selectionInvalid' = TRUE /\ resetPanelLocked(None)
       ELSE UNCHANGED selectionVars /\ KeepPanel
    /\ UNCHANGED listSnapshot

Reconnected(v) ==
    /\ registry' = v /\ listSnapshot' = {}
    /\ selected' = None /\ selectionInvalid' = FALSE
    /\ resetPanelLocked(None)

invalidateExpected(h) ==
    /\ IF Validated = target[h]
       THEN ClearSelection
       ELSE ValidateSelected /\ KeepPanel /\ UNCHANGED registryVars
    /\ Reply(h)

(* RebindSelected to the agent that agent.get reported, if it is the same  *)
(* Agent in the same terminal (left open here); when it is refused the     *)
(* call goes on to invalidateExpected.                                     *)
rebindExpected(h) ==
    LET t == target[h]
        o == snap[h][t[1]] IN
    \/ /\ o # None /\ ~selectionInvalid /\ selected = t /\ t \in Current
       /\ registry' = [registry EXCEPT ![t[1]] = o]
       /\ selected' = <<t[1], o>>
       /\ listSnapshot' = {IF e = t THEN <<t[1], o>> ELSE e : e \in listSnapshot}
       /\ resetPanelLocked(<<t[1], o>>)
       /\ Reply(h)
       /\ UNCHANGED selectionInvalid
    \/ /\ Goto(h, "lock")
       /\ KeepPanel
       /\ UNCHANGED <<selectionVars, registryVars, leaseVars, callVars>>

ListReplaced(h) ==
    /\ Replaced(snap[h])
    /\ Goto(h, "listing")
    /\ UNCHANGED <<leaseVars, callVars>>

SupervisorTransition ==
    /\ \/ plan[Supervisor] = "baseline" /\ Reconnected(snap[Supervisor]) /\ Goto(Supervisor, "set")
       \/ plan[Supervisor] = "refresh" /\ Replaced(snap[Supervisor]) /\ Goto(Supervisor, "healthy")
       \/ plan[Supervisor] = "clear" /\ ClearSelection /\ Goto(Supervisor, "down")
    /\ UNCHANGED <<leaseVars, callVars>>

(* The change under stateMu, endInputBarrierLocked, unlock.                *)
Change(a) ==
    /\ pc[a] = "barrier"
    /\ \/ a = Supervisor /\ SupervisorTransition
       \/ a # Supervisor /\ \/ plan[a] = "list" /\ ListReplaced(a)
                            \/ plan[a] = "select" /\ Select(a)
                            \/ plan[a] = "selectTarget" /\ SelectTarget(a)
                            \/ plan[a] = "expected" /\ invalidateExpected(a)
                            \/ plan[a] = "rebind" /\ rebindExpected(a)
    /\ plan' = [plan EXCEPT ![a] = IF pc'[a] = "lock" THEN "expected" ELSE None]
    /\ snap' = [snap EXCEPT ![a] = [p \in Panes |-> None]]
    /\ inputBlocked' = FALSE /\ transition' = None
    /\ UNCHANGED <<herdrVars, opsBlocked, clientVars>>

(* Mutant: the state changes without waiting for running inputs. *)
TransitAtOnce(a) == Change(a)

(* A transition goes on once no input runs. *)
Transit(a) == Barrier /\ Change(a)

BeginSelect(h) ==
    /\ pc[h] = "idle"
    /\ \/ /\ "select" \in calls[h]
          /\ plan' = [plan EXCEPT ![h] = "select"]
          /\ kind' = [kind EXCEPT ![h] = "select"] /\ UNCHANGED target
       \/ /\ "selectTarget" \in calls[h]
          /\ plan' = [plan EXCEPT ![h] = "selectTarget"]
          /\ kind' = [kind EXCEPT ![h] = "selectTarget"]
          /\ \E t \in Targets : target' = [target EXCEPT ![h] = t]
    /\ Goto(h, "lock")
    /\ UNCHANGED <<herdrVars, selectionVars, registryVars, lockVars, clientVars, panelVars,
                   leaseVars, read, left, accepted, fresh, snap>>

(* handleSelect goes on to handleContent. *)
SelectContent(h) ==
    /\ pc[h] = "content"
    /\ \/ beginOperation(h, "content") /\ UNCHANGED <<target, read, left, accepted>>
       \/ ~Ready(FALSE) /\ Reply(h)
    /\ UNCHANGED <<herdrVars, selectionVars, registryVars, lockVars, clientVars, panelVars, fresh,
                   planVars>>

(* handleList: the snapshot of Herdr is read under the lease and applied   *)
(* after it.                                                               *)
ListSnapshot(h) ==
    /\ pc[h] = "list"
    /\ \/ /\ snap' = [snap EXCEPT ![h] = occupant]
          /\ Release(h, "list")
          /\ UNCHANGED callVars
       \/ Reply(h) /\ UNCHANGED planVars
    /\ UNCHANGED <<herdrVars, selectionVars, registryVars, lockVars, clientVars, panelVars, fresh>>

Listing(h) ==
    /\ pc[h] = "listing"
    /\ listSnapshot' = Current
    /\ ValidateSelected
    /\ Reply(h)
    /\ UNCHANGED <<herdrVars, registry, lockVars, clientVars, panelVars, fresh, planVars>>

----------------------------------------------------------------------------
(* Input: handlePrompt and handleKeys.                                     *)

(* selectedTarget. *)
InputTarget(h) ==
    /\ pc[h] = "target"
    /\ ValidateSelected
    /\ IF Validated = None
       THEN Reply(h)
       ELSE /\ target' = [target EXCEPT ![h] = Validated]
            /\ Goto(h, "verify")
            /\ UNCHANGED <<leaseVars, kind, read, left, accepted>>
    /\ UNCHANGED <<herdrVars, registryVars, lockVars, clientVars, panelVars, fresh, planVars>>

inputQuiet == <<herdrVars, selectionVars, registryVars, lockVars, clientVars, panelVars, fresh>>

Occupied(h) == occupant[target[h][1]] = target[h][2]     \* MatchesAgent

(* agent.get before a prompt or a key. *)
Verify(h) ==
    /\ pc[h] = "verify"
    /\ \/ Reply(h) /\ UNCHANGED planVars          \* it fails, or the status refuses a prompt
       \/ ~Occupied(h) /\ Release(h, "expected") /\ UNCHANGED <<callVars, snap>>
       \/ /\ Occupied(h)
          /\ Goto(h, IF kind[h] = "prompt" THEN "submit" ELSE "send")
          /\ UNCHANGED <<leaseVars, callVars, planVars>>
    /\ UNCHANGED inputQuiet

(* SubmitPrompt reaches the terminal; accepted is FALSE when it returns    *)
(* agent_prompt_stalled.                                                   *)
Submit(h) ==
    /\ pc[h] = "submit"
    /\ \/ /\ \E ok \in BOOLEAN : accepted' = [accepted EXCEPT ![h] = ok]
          /\ Goto(h, "submitted")
          /\ UNCHANGED <<leaseVars, kind, target, read, left>>
       \/ Reply(h)
    /\ UNCHANGED <<inputQuiet, planVars>>

(* replyPromptTargetChanged, with the agent that was reported. *)
TargetChanged(h) ==
    /\ Release(h, "rebind")
    /\ snap' = [snap EXCEPT ![h] = occupant]
    /\ UNCHANGED callVars

Expected(h) == Release(h, "expected") /\ UNCHANGED <<callVars, snap>>

Submitted(h) ==
    /\ pc[h] = "submitted"
    /\ \/ accepted[h] /\ ~Occupied(h) /\ TargetChanged(h)
       \/ accepted[h] /\ Occupied(h) /\ Reply(h) /\ UNCHANGED planVars
       \/ /\ accepted[h] => Occupied(h)
          /\ Goto(h, "confirm") /\ UNCHANGED <<leaseVars, callVars, planVars>>
    /\ UNCHANGED inputQuiet

(* confirmPromptState up to the Enter: the rounds of agent.get, the wait,  *)
(* and one more agent.get.                                                 *)
Confirm(h, step, next) ==
    /\ pc[h] = step
    /\ \/ Reply(h) /\ UNCHANGED planVars          \* an error, or the status changed
       \/ ~Occupied(h) /\ accepted[h] /\ TargetChanged(h)
       \/ ~Occupied(h) /\ ~accepted[h] /\ Expected(h)
       \/ Occupied(h) /\ Goto(h, next) /\ UNCHANGED <<leaseVars, callVars, planVars>>
    /\ UNCHANGED inputQuiet

SendEnter(h) ==
    /\ pc[h] = "enter"
    /\ \/ Goto(h, "entered") /\ UNCHANGED <<leaseVars, callVars>>
       \/ Reply(h)
    /\ UNCHANGED <<inputQuiet, planVars>>

(* The second rounds: a changed target is not rebound any more. *)
Entered(h) ==
    /\ pc[h] = "entered"
    /\ \/ Reply(h) /\ UNCHANGED planVars
       \/ ~Occupied(h) /\ Expected(h)
    /\ UNCHANGED inputQuiet

(* SendKey: the next key is verified again; a failure, a cancelled         *)
(* interval or the last key leads to the readback, which may be cancelled. *)
SendKey(h) ==
    /\ pc[h] = "send"
    /\ \/ /\ left[h] > 1
          /\ left' = [left EXCEPT ![h] = @ - 1]
          /\ Goto(h, "verify")
          /\ UNCHANGED <<leaseVars, kind, target, read, accepted>>
       \/ Goto(h, "capture") /\ UNCHANGED <<leaseVars, callVars>>
       \/ Reply(h)
    /\ UNCHANGED <<inputQuiet, planVars>>

----------------------------------------------------------------------------
(* Reading the terminal.                                                   *)

readQuiet == <<herdrVars, registryVars, lockVars, clientVars, planVars>>

(* captureContentTarget and capturePageUpTarget; image mode looks at a     *)
(* snapshot first.  A key sequence keeps the target it had.                *)
Readable(h) ==
    /\ Validated # None
    /\ kind[h] = "keys" => Validated = target[h]
    /\ kind[h] = "pageup" => panel # None /\ NextReadSize(panel) # 0

Capture(h) ==
    /\ pc[h] = "capture"
    /\ ValidateSelected
    /\ \/ /\ Readable(h)
          /\ target' = [target EXCEPT ![h] = Validated]
          /\ left' = [left EXCEPT ![h] = IF kind[h] = "pageup" THEN NextReadSize(panel)
                                         ELSE PageSize]
          /\ fresh' = [fresh EXCEPT ![h] = TRUE]
          /\ \/ Goto(h, "read")
             \/ kind[h] # "pageup" /\ Goto(h, "geometry")
          /\ UNCHANGED <<leaseVars, kind, read, accepted>>
       \/ /\ ~Readable(h)
          /\ Reply(h)
          /\ UNCHANGED fresh
    /\ UNCHANGED <<readQuiet, panelVars>>

(* ReadTerminalSnapshot: ResolveTarget changes nothing. *)
Resolve(h) ==
    /\ pc[h] = "resolve"
    /\ \/ /\ target[h] \in Current
          /\ left' = [left EXCEPT ![h] = PageSize]
          /\ \E step \in {"read", "geometry"} : Goto(h, step)
          /\ UNCHANGED <<leaseVars, kind, target, read, accepted>>
       \/ target[h] \notin Current /\ Reply(h)
    /\ UNCHANGED <<readQuiet, selectionVars, panelVars, fresh>>

(* captureDirectTerminalImage: the target in a fresh snapshot. *)
Geometry(h) ==
    /\ pc[h] = "geometry"
    /\ \/ Occupied(h) /\ Goto(h, "read") /\ UNCHANGED <<leaseVars, callVars>>
       \/ Reply(h)
    /\ UNCHANGED <<readQuiet, selectionVars, panelVars, fresh>>

(* Mutant: a terminal is taken to have as many rows as are asked for. *)
RecentUnbounded(p, n) == [from |-> high[p] + blank - n + 1, to |-> high[p]]

(* The last n rows of the terminal; NormalizeANSI trims the empty ones at  *)
(* the end.                                                                *)
Recent(p, n) == [from |-> Larger(low[p], high[p] + blank - n + 1), to |-> high[p]]

(* The read returns and the lease ends; another pane than the one asked    *)
(* for is a change of the target.                                          *)
ReadRecent(h) ==
    /\ pc[h] = "read"
    /\ \/ Reply(h) /\ UNCHANGED planVars
       \/ kind[h] # "snapshot" /\ Release(h, "expected") /\ UNCHANGED <<callVars, snap>>
       \/ /\ kind[h] # "snapshot"
          /\ read' = [read EXCEPT ![h] = Recent(target[h][1], left[h])]
          /\ endOperation(h)
          /\ Goto(h, "apply")
          /\ UNCHANGED <<kind, target, left, accepted, planVars>>
    /\ UNCHANGED <<inputQuiet>>

(* The panel of a refresh or an expansion is rendered to the user. *)
Rendered(b) ==
    /\ panel' = b
    /\ Stale

(* Mutant: the captured generation is not compared. *)
MatchesTarget(h) == Validated # None /\ Validated = target[h]

Matches(h) == Validated # None /\ Validated = target[h] /\ fresh[h]

applyRefresh(h) ==
    /\ pc[h] = "apply" /\ kind[h] # "pageup"
    /\ ValidateSelected
    /\ IF Matches(h)
       THEN /\ Rendered(Refreshed(target[h], read[h]))
            /\ mark' = Larger(mark, read[h].to) /\ shown' = read[h].from
            /\ moved' = FALSE /\ gap' = FALSE
       ELSE KeepPanel
    /\ Reply(h)
    /\ UNCHANGED readQuiet

(* The panel cannot be aligned: Reset and resetPanelLocked.  No page left: *)
(* ErrOldestPage, remembered in oldest.                                    *)
applyExpand(h) ==
    LET b == Expanded(panel, read[h]) IN
    /\ pc[h] = "apply" /\ kind[h] = "pageup"
    /\ ValidateSelected
    /\ \/ /\ Matches(h) /\ panel # None /\ Expandable(panel, read[h])
          /\ IF b.page # panel.page
             THEN /\ Rendered(b)
                  /\ moved' = (moved \/ read[h].to > panel.last)
                  /\ shown' = Smaller(shown, PageFrom(b))
                  /\ gap' = (gap \/ (~moved' /\ (PageTo(b) < shown - 1 \/ PageTo(b) < PageFrom(b))))
                  /\ UNCHANGED mark
             ELSE panel' = b /\ UNCHANGED <<fresh, mark, shown, moved, gap>>
       \/ /\ Matches(h) /\ panel # None /\ ~Expandable(panel, read[h])
          /\ resetPanelLocked(Validated)
       \/ /\ ~Matches(h) \/ panel = None
          /\ KeepPanel
    /\ Reply(h)
    /\ UNCHANGED readQuiet

(* handlePageDown, in one step under stateMu. *)
PageDown(h) ==
    /\ pc[h] = "idle" /\ "pagedown" \in calls[h]
    /\ ValidateSelected
    /\ IF Validated # None /\ panel # None /\ panel.page > 0
       THEN Rendered([panel EXCEPT !.page = @ - 1])
       ELSE UNCHANGED <<panel, fresh>>
    /\ UNCHANGED <<readQuiet, mark, shown, moved, gap, pc, leaseVars, callVars>>

----------------------------------------------------------------------------
(* The Supervisor, as far as it calls the Service.                         *)

superQuiet == <<herdrVars, selectionVars, registryVars, panelVars, fresh, leaseVars, callVars>>

(* Connect, prepareSubscriptions: the baseline snapshot has been read. *)
Connect ==
    /\ pc[Supervisor] = "down" /\ clients < MaxClients
    /\ snap' = [snap EXCEPT ![Supervisor] = occupant]
    /\ plan' = [plan EXCEPT ![Supervisor] = "baseline"]
    /\ Goto(Supervisor, "lock")
    /\ UNCHANGED <<superQuiet, lockVars, clientVars>>

(* SetHerdr(client). *)
SetHerdr ==
    /\ pc[Supervisor] = "set" /\ transition = None
    /\ clients' = clients + 1 /\ client' = clients + 1
    /\ Goto(Supervisor, "healthy")
    /\ UNCHANGED <<superQuiet, lockVars, planVars>>

(* refreshSnapshot has read a snapshot. *)
RefreshSnapshot ==
    /\ pc[Supervisor] = "healthy"
    /\ snap' = [snap EXCEPT ![Supervisor] = occupant]
    /\ plan' = [plan EXCEPT ![Supervisor] = "refresh"]
    /\ Goto(Supervisor, "lock")
    /\ UNCHANGED <<superQuiet, lockVars, clientVars>>

(* The cycle fails, also before it was healthy: degrade. *)
Degrade ==
    /\ pc[Supervisor] \in {"down", "healthy"}
    /\ pc[Supervisor] = "down" => clients < MaxClients
    /\ Goto(Supervisor, "degrade")
    /\ UNCHANGED <<superQuiet, lockVars, clientVars, planVars>>

(* SetHerdr(nil) blocks new leases and waits for the old ones. *)
SetHerdrNil ==
    /\ pc[Supervisor] = "degrade" /\ transition = None
    /\ transition' = Supervisor
    /\ opsBlocked' = TRUE
    /\ client' = None
    /\ Goto(Supervisor, "drain")
    /\ UNCHANGED <<superQuiet, inputBlocked, clients, planVars>>

(* Then InvalidateSelection. *)
Drained ==
    /\ pc[Supervisor] = "drain" /\ activeOps = {}
    /\ opsBlocked' = FALSE /\ transition' = None
    /\ plan' = [plan EXCEPT ![Supervisor] = "clear"]
    /\ Goto(Supervisor, "lock")
    /\ UNCHANGED <<superQuiet, inputBlocked, clientVars, snap>>

----------------------------------------------------------------------------
(* Herdr (external).                                                       *)

ChangeOccupant(p) ==
    /\ \E o \in Occupants \cup {None} : occupant' = [occupant EXCEPT ![p] = o]
    /\ UNCHANGED <<low, high, calls, blank, selectionVars, registryVars, lockVars, clientVars, panelVars, pc,
                   leaseVars, callVars, fresh, planVars>>

(* The terminal prints a line, or is cleared and prints one. *)
PrintLine(p) ==
    /\ high[p] < MaxPrinted
    /\ high' = [high EXCEPT ![p] = @ + 1]
    /\ \E l \in {low[p], high[p] + 1} : low' = [low EXCEPT ![p] = l]
    /\ UNCHANGED <<occupant, calls, blank, selectionVars, registryVars, lockVars, clientVars, panelVars, pc,
                   leaseVars, callVars, fresh, planVars>>

----------------------------------------------------------------------------

Handler(h) ==
    \/ ListSnapshot(h) \/ Listing(h) \/ SelectContent(h)
    \/ InputTarget(h) \/ Verify(h) \/ Submit(h) \/ Submitted(h)
    \/ Confirm(h, "confirm", "recheck") \/ Confirm(h, "recheck", "enter")
    \/ SendEnter(h) \/ Entered(h) \/ SendKey(h)
    \/ Capture(h) \/ Resolve(h) \/ Geometry(h) \/ ReadRecent(h)
    \/ applyRefresh(h) \/ applyExpand(h)

Next ==
    \/ \E h \in Handlers : Begin(h) \/ BeginUnavailable(h) \/ BeginSelect(h) \/ PageDown(h)
                           \/ Handler(h)
    \/ \E a \in Actors : LockTransition(a) \/ Transit(a)
    \/ Connect \/ SetHerdr \/ RefreshSnapshot \/ Degrade \/ SetHerdrNil \/ Drained
    \/ \E p \in Panes : ChangeOccupant(p) \/ PrintLine(p)

Spec == Init /\ [][Next]_vars

(* Calls of Herdr return (they have deadlines) and goroutines run. *)
Fairness ==
    /\ \A h \in Handlers : WF_vars(Handler(h))
    /\ \A a \in Actors : WF_vars(Transit(a))
    /\ WF_vars(Drained)

FairSpec == Spec /\ Fairness

----------------------------------------------------------------------------
(* Type correctness of the state. *)
TypeOK ==
    /\ occupant \in Views /\ registry \in Views
    /\ low \in [Panes -> 1..MaxPrinted] /\ high \in [Panes -> 1..MaxPrinted]
    /\ selected \in Targets \cup {None} /\ selectionInvalid \in BOOLEAN
    /\ listSnapshot \in SUBSET Targets
    /\ client \in 1..MaxClients \cup {None} /\ clients \in 0..MaxClients
    /\ opsBlocked \in BOOLEAN /\ inputBlocked \in BOOLEAN /\ transition \in Actors \cup {None}
    /\ panel \in Panels \cup {None}
    /\ mark \in 0..MaxPrinted /\ shown \in 0..MaxPrinted /\ moved \in BOOLEAN /\ gap \in BOOLEAN
    /\ calls \in [Handlers -> SUBSET Kinds] /\ blank \in 0..(PageSize - 1)
    /\ pc \in [Actors -> Steps]
    /\ kind \in [Handlers -> Kinds \cup {None}]
    /\ target \in [Handlers -> Targets \cup {None}]
    /\ lease \in [Handlers -> {"op", "input", None}]
    /\ held \in [Handlers -> 1..MaxClients \cup {None}]
    /\ fresh \in [Handlers -> BOOLEAN] /\ accepted \in [Handlers -> BOOLEAN]
    /\ read \in [Handlers -> Lines \cup {None}]
    /\ left \in [Handlers -> Nat]
    /\ plan \in [Actors -> Plans \cup {None}] /\ snap \in [Actors -> Views]

(* While a prompt or a key is under way the selection is still the target  *)
(* it was meant for, and whoever talks to Herdr uses the client in use, or *)
(* SetHerdr(nil) is waiting for it (handlePrompt, handleKeys, the barrier  *)
(* of transitions, SetHerdr).                                              *)
LeasesHold ==
    \A h \in Handlers :
       /\ lease[h] = "input" /\ target[h] # None => selected = target[h] /\ selected \in Current
       /\ lease[h] # None => held[h] = client \/ pc[Supervisor] = "drain"

(* The panel belongs to the selection, and it shows nothing that was read  *)
(* before the last change of the panel or the selection, whichever calls   *)
(* finish late (applyRefresh, applyExpand, generation).                    *)
PanelCurrent == panel # None => panel.key = selected /\ panel.last >= mark

(* Paging up skips no line, as long as the terminal prints nothing between *)
(* the pages (NextReadSize, ExpandTerminal, RenderTerminal).               *)
PagesContiguous == ~gap

(* Selections, snapshots, invalidations and client changes let go of      *)
(* transitionMu, whatever calls run: none waits for an input or a call     *)
(* that itself waits for a transition (release before a transition).       *)
TransitionsEnd == transition # None ~> transition = None

(* What the user pages through is the selected terminal as it was read      *)
(* last, without a gap.                                                     *)
PanelHolds == TypeOK /\ PanelCurrent /\ PagesContiguous
=============================================================================
