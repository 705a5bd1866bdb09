------------------------- MODULE BridgeServiceProofs -------------------------
(***************************************************************************)
(* Proofs about BridgeService, for every set of handlers, panes and        *)
(* occupants, whatever the handlers call, any page and cache size, and     *)
(* about BridgeSupervisor, for any panes, agents and channel.              *)
(*                                                                         *)
(* A lease holds its target and its client because nothing but a           *)
(* transition changes them, and a transition waits (InUse).  The panel is  *)
(* that of the selection because whatever changes it makes every captured  *)
(* generation stale (FreshReads).  Pages leave no gap because a page is    *)
(* turned only after the older one is full, or nothing older can be read   *)
(* any more (PagesMeet); for the latter it must be known of every read     *)
(* under way where the terminal began when it was made (ReadsTrue).        *)
(*                                                                         *)
(* The directory is Herdr's in quiet because whatever changes Herdr leaves *)
(* something on its way: a new agent an announcement, a timer or a message *)
(* that asks for a snapshot (KeysFollow), a new status an event of its     *)
(* pane, whose last one tells that status (EventsFresh, StatusesFollow).   *)
(* For that an event of a replaced stream must never count (Generations).  *)
(***************************************************************************)
EXTENDS BridgeService, BridgeSupervisor, TLAPS

(* A selection is registered; one that was lost is none. *)
SelectionHeld ==
    /\ selectionInvalid => selected = None
    /\ selected # None => selected \in Current

(* Without a client no lease is left: SetHerdr(nil) waited for them. *)
Unleased ==
    \/ pc[Supervisor] \in {"down", "set"}
    \/ pc[Supervisor] \in {"lock", "barrier"} /\ plan[Supervisor] \in {"baseline", "clear"}

Connecting ==
    \/ pc[Supervisor] = "set"
    \/ pc[Supervisor] \in {"lock", "barrier"} /\ plan[Supervisor] = "baseline"

InUse ==
    /\ SelectionHeld
    /\ \A h \in Handlers : /\ pc[h] = "idle" => lease[h] = None
                           /\ pc[h] = "resolve" => kind[h] = "snapshot"
    /\ pc[Supervisor] = "drain" => client = None
    /\ Unleased => client = None /\ activeOps = {}
    /\ Connecting => clients < MaxClients

-----------------------------------------------------------------------------
(* Reads and the panel. *)
Span(r) == r.to - r.from + 1
Limited(h) == Span(read[h]) # left[h] - blank       \* by the oldest line there was
PaneOf(h) == target[h][1]
Reading(h) == pc[h] \in {"read", "geometry"}
HasRead(h) == pc[h] = "apply"

ReadsTrue ==
    /\ \A p \in Panes : low[p] <= high[p]
    /\ \A h \in Handlers : Reading(h) \/ HasRead(h) =>
          /\ target[h] \in Targets
          /\ left[h] >= PageSize
          /\ kind[h] # "pageup" => left[h] = PageSize
    /\ \A h \in Handlers : HasRead(h) =>
          /\ kind[h] # "snapshot"
          /\ read[h] \in Lines /\ read[h].from <= read[h].to /\ read[h].to <= high[PaneOf(h)]
          /\ Span(read[h]) <= left[h] - blank
          /\ read[h].to = high[PaneOf(h)] =>
                /\ read[h].from >= low[PaneOf(h)]
                /\ Limited(h) => read[h].from = low[PaneOf(h)]
    /\ \A h, j \in Handlers :
          /\ HasRead(h) /\ HasRead(j) /\ PaneOf(h) = PaneOf(j)
          /\ read[h].to = read[j].to /\ Limited(h)
          => read[j].from >= read[h].from

(* What NextReadSize says, but for the mark of the oldest page. *)
Before(b) == b.page * PageSize
SizeFor(b) ==
    IF hasCachedOlderPage(b) THEN Larger(Smaller((b.page + 2) * PageSize, MaxLines), Cached(b))
    ELSE (b.page + 2) * PageSize
MayTurn(b) == hasCachedOlderPage(b) \/ (b.page + 2) * PageSize <= MaxLines

FreshReads ==
    \A h \in Handlers : fresh[h] /\ kind[h] # "snapshot" /\ (Reading(h) \/ HasRead(h)) =>
       /\ target[h] = selected
       /\ HasRead(h) => read[h].to >= mark
       /\ kind[h] = "pageup" => panel # None /\ MayTurn(panel) /\ left[h] = SizeFor(panel)

PanelSized(b) ==
    /\ b \in Panels
    /\ b.first <= b.last /\ Cached(b) <= MaxLines
    /\ b.newest <= PageSize - blank /\ b.newest <= Cached(b)

PanelOfSelection ==
    /\ selected # None => mark <= high[selected[1]]
    /\ panel # None =>
          /\ panel.key = selected
          /\ PanelSized(panel)
          /\ mark <= panel.last /\ panel.last <= high[panel.key[1]]

(* Nothing older than b.first can be had as long as the terminal ends where b does. *)
Closed(b) ==
    /\ high[b.key[1]] = b.last => b.first <= low[b.key[1]]
    /\ \A h \in Handlers : HasRead(h) /\ PaneOf(h) = b.key[1] /\ read[h].to = b.last =>
          read[h].from >= b.first

Full(b) == Cached(b) >= b.newest + Before(b)
AtLimit(b) == (b.page + 2) * PageSize > MaxLines

PagesMeet ==
    /\ ~gap
    /\ panel # None /\ ~moved =>
          /\ shown <= PageFrom(panel)
          /\ panel.page > 0 => Cached(panel) - panel.newest > Before(panel) - PageSize
          /\ Full(panel) \/ AtLimit(panel) \/ Closed(panel)

PanelInv == ReadsTrue /\ FreshReads /\ PanelOfSelection /\ PagesMeet

IInv == TypeOK /\ LeasesHold /\ InUse /\ PanelInv

-----------------------------------------------------------------------------
(* Type correctness. *)

LEMMA TargetIsPair ==
    ASSUME NEW t \in Targets
    PROVE  t[1] \in Panes /\ t[2] \in Occupants /\ t = <<t[1], t[2]>> /\ t # None
  BY ServiceAssumption DEF Targets

LEMMA InitTypes == Init => TypeOK
  <1> SUFFICES ASSUME Init PROVE TypeOK
    OBVIOUS
  <1>1. PICK m \in Mixes : calls = m.calls /\ blank = m.blank /\ high = [p \in Panes |-> m.lines]
    BY DEF Init
  <1>2. m.calls \in [Handlers -> SUBSET Kinds] /\ m.lines \in 1..MaxPrinted /\ m.blank \in 0..(PageSize - 1)
    BY ServiceAssumption
  <1>3. MaxPrinted \in Nat \ {0} /\ MaxClients \in Nat
    BY ServiceAssumption
  <1>4. /\ occupant \in Views /\ registry \in Views /\ low \in [Panes -> 1..MaxPrinted]
        /\ high \in [Panes -> 1..MaxPrinted] /\ calls \in [Handlers -> SUBSET Kinds]
        /\ blank \in 0..(PageSize - 1)
    BY <1>1, <1>2, <1>3 DEF Init, Views
  <1>5. pc \in [Actors -> Steps] /\ plan \in [Actors -> Plans \cup {None}] /\ snap \in [Actors -> Views]
    BY DEF Init, Steps, Views
  <1>6. /\ mark \in 0..MaxPrinted /\ shown \in 0..MaxPrinted /\ clients \in 0..MaxClients
    BY <1>3 DEF Init
  <1>9. moved \in BOOLEAN /\ gap \in BOOLEAN
    BY DEF Init
  <1>7. /\ kind \in [Handlers -> Kinds \cup {None}] /\ target \in [Handlers -> Targets \cup {None}]
        /\ lease \in [Handlers -> {"op", "input", None}]
        /\ held \in [Handlers -> 1..MaxClients \cup {None}]
        /\ fresh \in [Handlers -> BOOLEAN] /\ accepted \in [Handlers -> BOOLEAN]
        /\ read \in [Handlers -> Lines \cup {None}] /\ left \in [Handlers -> Nat]
    BY DEF Init
  <1>8. /\ selected \in Targets \cup {None} /\ selectionInvalid \in BOOLEAN /\ listSnapshot \in SUBSET Targets
        /\ client \in 1..MaxClients \cup {None} /\ panel \in Panels \cup {None}
        /\ opsBlocked \in BOOLEAN /\ inputBlocked \in BOOLEAN /\ transition \in Actors \cup {None}
    BY DEF Init
  <1> QED
    BY <1>4, <1>5, <1>6, <1>7, <1>8, <1>9 DEF TypeOK

(* What a handler's calls keep of the types. *)
HandlerTypes ==
    /\ pc' \in [Actors -> Steps]
    /\ lease' \in [Handlers -> {"op", "input", None}]
    /\ held' \in [Handlers -> 1..MaxClients \cup {None}]
    /\ kind' \in [Handlers -> Kinds \cup {None}]
    /\ target' \in [Handlers -> Targets \cup {None}]
    /\ accepted' \in [Handlers -> BOOLEAN]
    /\ read' \in [Handlers -> Lines \cup {None}]
    /\ left' \in [Handlers -> Nat]

LEMMA ForgetTypes ==
    ASSUME TypeOK, NEW h \in Handlers, Forget(h)
    PROVE  /\ kind' \in [Handlers -> Kinds \cup {None}]
           /\ target' \in [Handlers -> Targets \cup {None}]
           /\ accepted' \in [Handlers -> BOOLEAN]
           /\ read' \in [Handlers -> Lines \cup {None}]
           /\ left' \in [Handlers -> Nat]
  BY DEF TypeOK, Forget

LEMMA LeaseTypes ==
    ASSUME TypeOK, NEW h \in Handlers, endOperation(h)
    PROVE  /\ lease' \in [Handlers -> {"op", "input", None}]
           /\ held' \in [Handlers -> 1..MaxClients \cup {None}]
  BY DEF TypeOK, endOperation

LEMMA GotoTypes ==
    ASSUME TypeOK, NEW a \in Actors, NEW step \in Steps, Goto(a, step)
    PROVE  pc' \in [Actors -> Steps]
  BY DEF TypeOK, Goto

LEMMA ReplyTypes ==
    ASSUME TypeOK, NEW h \in Handlers, Reply(h)
    PROVE  HandlerTypes
  <1>1. Goto(h, "idle") /\ h \in Actors /\ "idle" \in Steps
    BY DEF Reply, Actors, Steps
  <1> QED
    BY <1>1, GotoTypes, LeaseTypes, ForgetTypes DEF Reply, HandlerTypes

LEMMA ReleaseTypes ==
    ASSUME TypeOK, NEW h \in Handlers, NEW what \in Plans, Release(h, what)
    PROVE  /\ pc' \in [Actors -> Steps]
           /\ lease' \in [Handlers -> {"op", "input", None}]
           /\ held' \in [Handlers -> 1..MaxClients \cup {None}]
           /\ plan' \in [Actors -> Plans \cup {None}]
  <1>1. Goto(h, "lock") /\ h \in Actors /\ "lock" \in Steps
    BY DEF Release, Actors, Steps
  <1> QED
    BY <1>1, GotoTypes, LeaseTypes DEF Release, TypeOK

(* The calls between an input and its reply leave the rest as it was. *)
InputTypes ==
    /\ HandlerTypes
    /\ plan' \in [Actors -> Plans \cup {None}] /\ snap' \in [Actors -> Views]

LEMMA QuietTypes ==
    ASSUME TypeOK, InputTypes, UNCHANGED inputQuiet
    PROVE  TypeOK'
  BY DEF TypeOK, InputTypes, HandlerTypes, inputQuiet, herdrVars, selectionVars, registryVars, lockVars,
         clientVars, panelVars

LEMMA ValidatedIs ==
    ASSUME TypeOK
    PROVE  /\ Validated \in Targets \cup {None}
           /\ ValidateSelected => selected' \in Targets \cup {None} /\ selectionInvalid' \in BOOLEAN
  BY DEF TypeOK, Validated, ValidateSelected

LEMMA BeginTypes ==
    ASSUME TypeOK, NEW h \in Handlers, NEW k \in Kinds, beginOperation(h, k)
    PROVE  /\ pc' \in [Actors -> Steps]
           /\ lease' \in [Handlers -> {"op", "input", None}]
           /\ held' \in [Handlers -> 1..MaxClients \cup {None}]
           /\ kind' \in [Handlers -> Kinds \cup {None}]
  <1>1. BeginStep(k) \in Steps /\ h \in Actors
    BY DEF BeginStep, Steps, Actors
  <1>2. pc' \in [Actors -> Steps]
    BY <1>1, GotoTypes DEF beginOperation
  <1> QED
    BY <1>2 DEF beginOperation, TypeOK

LEMMA TypesOfStarts ==
    ASSUME TypeOK, NEW h \in Handlers,
           Begin(h) \/ BeginUnavailable(h) \/ BeginSelect(h) \/ SelectContent(h)
    PROVE  TypeOK'
  <1> USE DEF herdrVars, selectionVars, registryVars, lockVars, clientVars, panelVars, leaseVars, planVars
  <1>0. h \in Actors
    BY DEF Actors
  <1>1. CASE Begin(h)
    <2>1. PICK k \in calls[h] \ {"select", "selectTarget", "pagedown"} :
            /\ beginOperation(h, k)
            /\ \E t \in IF k = "snapshot" THEN Targets ELSE {None} : target' = [target EXCEPT ![h] = t]
            /\ \E n \in IF k = "keys" THEN 1..MaxKeys ELSE {0} : left' = [left EXCEPT ![h] = n]
      BY <1>1 DEF Begin
    <2>2. k \in Kinds
      BY DEF TypeOK
    <2>3. target' \in [Handlers -> Targets \cup {None}]
      <3>1. PICK t \in IF k = "snapshot" THEN Targets ELSE {None} : target' = [target EXCEPT ![h] = t]
        BY <2>1
      <3>2. t \in Targets \cup {None}
        BY <3>1
      <3> QED
        BY <3>1, <3>2 DEF TypeOK
    <2>4. left' \in [Handlers -> Nat]
      <3>1. PICK n \in IF k = "keys" THEN 1..MaxKeys ELSE {0} : left' = [left EXCEPT ![h] = n]
        BY <2>1
      <3>2. n \in Nat
        BY <3>1, ServiceAssumption
      <3> QED
        BY <3>1, <3>2 DEF TypeOK
    <2>5. UNCHANGED <<herdrVars, selectionVars, registryVars, lockVars, clientVars, panelVars, read,
                      accepted, fresh, planVars>>
      BY <1>1 DEF Begin
    <2> QED
      BY <2>1, <2>2, <2>3, <2>4, <2>5, BeginTypes DEF TypeOK
  <1>2. CASE BeginUnavailable(h)
    <2>1. /\ pc' \in [Actors -> Steps] /\ kind' \in [Handlers -> Kinds \cup {None}]
          /\ selected' \in Targets \cup {None} /\ selectionInvalid' \in BOOLEAN
      <3>1. CASE kind' = [kind EXCEPT ![h] = "list"] /\ Goto(h, "listing") /\ UNCHANGED selectionVars
        BY <1>0, <3>1, GotoTypes DEF Steps, Kinds, TypeOK
      <3>2. CASE ValidateSelected /\ UNCHANGED <<pc, kind>>
        BY <3>2, ValidatedIs DEF TypeOK
      <3> QED
        BY <1>2, <3>1, <3>2 DEF BeginUnavailable
    <2> QED
      BY <1>2, <2>1 DEF BeginUnavailable, TypeOK
  <1>3. CASE BeginSelect(h)
    <2>1. pc' \in [Actors -> Steps]
      BY <1>0, <1>3, GotoTypes DEF BeginSelect, Steps
    <2>2. /\ kind' \in [Handlers -> Kinds \cup {None}] /\ target' \in [Handlers -> Targets \cup {None}]
          /\ plan' \in [Actors -> Plans \cup {None}]
      BY <1>0, <1>3 DEF BeginSelect, Kinds, Plans, TypeOK
    <2> QED
      BY <1>3, <2>1, <2>2 DEF BeginSelect, TypeOK
  <1>4. CASE SelectContent(h)
    <2>1. HandlerTypes
      <3>1. CASE beginOperation(h, "content") /\ UNCHANGED <<target, read, left, accepted>>
        <4>1. "content" \in Kinds
          BY DEF Kinds
        <4> QED
          BY <3>1, <4>1, BeginTypes DEF TypeOK, HandlerTypes
      <3>2. CASE Reply(h)
        BY <3>2, ReplyTypes
      <3> QED
        BY <1>4, <3>1, <3>2 DEF SelectContent
    <2> QED
      BY <1>4, <2>1 DEF SelectContent, HandlerTypes, TypeOK
  <1> QED
    BY <1>1, <1>2, <1>3, <1>4

(* /ls, a prompt or keys up to the reading of the terminal. *)
LEMMA TypesOfInputs ==
    ASSUME TypeOK, NEW h \in Handlers,
           \/ Verify(h) \/ Submit(h) \/ Submitted(h) \/ SendEnter(h) \/ Entered(h) \/ SendKey(h)
           \/ Confirm(h, "confirm", "recheck") \/ Confirm(h, "recheck", "enter")
    PROVE  TypeOK'
  <1> USE DEF planVars, callVars, leaseVars
  <1>0. h \in Actors /\ occupant \in Views
    BY DEF Actors, TypeOK
  <1>1. ASSUME Reply(h), UNCHANGED planVars
        PROVE  InputTypes
    BY <1>1, ReplyTypes DEF InputTypes, HandlerTypes, TypeOK
  <1>2. ASSUME Release(h, "expected"), UNCHANGED <<callVars, snap>>
        PROVE  InputTypes
    BY <1>2, ReleaseTypes DEF InputTypes, HandlerTypes, TypeOK, Plans
  <1>3. ASSUME TargetChanged(h)
        PROVE  InputTypes
    <2>1. Release(h, "rebind") /\ "rebind" \in Plans
      BY <1>3 DEF TargetChanged, Plans
    <2>2. snap' \in [Actors -> Views]
      BY <1>0, <1>3 DEF TargetChanged, TypeOK
    <2> QED
      BY <1>3, <2>1, <2>2, ReleaseTypes DEF TargetChanged, InputTypes, HandlerTypes, TypeOK
  <1>4. ASSUME NEW step \in Steps, Goto(h, step), UNCHANGED <<leaseVars, callVars, planVars>>
        PROVE  InputTypes
    BY <1>0, <1>4, GotoTypes DEF InputTypes, HandlerTypes, TypeOK
  <1>5. CASE Verify(h)
    <2>1. {"submit", "send"} \subseteq Steps
      BY DEF Steps
    <2>2. InputTypes
      BY <1>1, <1>2, <1>4, <1>5, <2>1 DEF Verify
    <2> QED
      BY <1>5, <2>2, QuietTypes DEF Verify
  <1>6. CASE Submit(h)
    <2>1. InputTypes
      <3>1. ASSUME NEW ok \in BOOLEAN, accepted' = [accepted EXCEPT ![h] = ok], Goto(h, "submitted"),
                   UNCHANGED <<leaseVars, kind, target, read, left, planVars>>
            PROVE  InputTypes
        <4>1. pc' \in [Actors -> Steps]
          BY <1>0, <3>1, GotoTypes DEF Steps
        <4>2. accepted' \in [Handlers -> BOOLEAN]
          BY <3>1 DEF TypeOK
        <4> QED
          BY <3>1, <4>1, <4>2 DEF InputTypes, HandlerTypes, TypeOK
      <3> QED
        BY <1>1, <1>6, <3>1 DEF Submit
    <2> QED
      BY <1>6, <2>1, QuietTypes DEF Submit, inputQuiet
  <1>7. CASE Submitted(h)
    <2>1. "confirm" \in Steps
      BY DEF Steps
    <2>2. InputTypes
      BY <1>1, <1>3, <1>4, <1>7, <2>1 DEF Submitted
    <2> QED
      BY <1>7, <2>2, QuietTypes DEF Submitted
  <1>8. ASSUME NEW step \in Steps, NEW next \in Steps, Confirm(h, step, next)
        PROVE  TypeOK'
    <2>1. InputTypes
      BY <1>1, <1>2, <1>3, <1>4, <1>8 DEF Confirm, Expected
    <2> QED
      BY <1>8, <2>1, QuietTypes DEF Confirm
  <1>9. CASE SendEnter(h)
    <2>1. "entered" \in Steps
      BY DEF Steps
    <2>2. InputTypes
      BY <1>1, <1>4, <1>9, <2>1 DEF SendEnter
    <2> QED
      BY <1>9, <2>2, QuietTypes DEF SendEnter, inputQuiet
  <1>10. CASE Entered(h)
    <2>1. InputTypes
      BY <1>1, <1>2, <1>10 DEF Entered, Expected
    <2> QED
      BY <1>10, <2>1, QuietTypes DEF Entered
  <1>11. CASE SendKey(h)
    <2>1. {"verify", "capture"} \subseteq Steps
      BY DEF Steps
    <2>2. ASSUME left[h] > 1, left' = [left EXCEPT ![h] = @ - 1], Goto(h, "verify"),
                 UNCHANGED <<leaseVars, kind, target, read, accepted, planVars>>
          PROVE  InputTypes
      <3>1. left' \in [Handlers -> Nat]
        BY <2>2 DEF TypeOK
      <3>2. pc' \in [Actors -> Steps]
        BY <1>0, <2>1, <2>2, GotoTypes
      <3> QED
        BY <2>2, <3>1, <3>2 DEF InputTypes, HandlerTypes, TypeOK
    <2>3. InputTypes
      BY <1>1, <1>4, <1>11, <2>1, <2>2 DEF SendKey
    <2> QED
      BY <1>11, <2>3, QuietTypes DEF SendKey, inputQuiet
  <1>12. {"confirm", "recheck", "enter"} \subseteq Steps
    BY DEF Steps
  <1> QED
    BY <1>5, <1>6, <1>7, <1>8, <1>9, <1>10, <1>11, <1>12

-----------------------------------------------------------------------------
(* Arithmetic of pages. *)

LEMMA Products ==
    ASSUME NEW n \in Nat, NEW m \in Nat
    PROVE  /\ n * m \in Nat
           /\ (n + 1) * m = n * m + m
           /\ (n + 2) * m = n * m + 2 * m
           /\ (n - 1) * m = n * m - m
           /\ m > 0 => n <= n * m
  OBVIOUS

LEMMA PageNumbers ==
    ASSUME TypeOK, NEW b \in Panels
    PROVE  /\ b.first \in Nat /\ b.last \in Nat /\ b.page \in Nat /\ b.newest \in Nat
           /\ b.first > 0 /\ b.newest > 0 /\ b.newest <= PageSize
           /\ b.page <= MaxLines /\ b.first <= MaxPrinted /\ b.last <= MaxPrinted
           /\ PageSize \in Nat /\ PageSize > 0 /\ MaxLines \in Nat /\ MaxLines >= PageSize
           /\ MaxPrinted \in Nat /\ blank \in Nat /\ blank < PageSize
           /\ Before(b) \in Nat /\ b.page <= Before(b)
           /\ (b.page + 2) * PageSize = Before(b) + 2 * PageSize
           /\ (b.page - 1) * PageSize = Before(b) - PageSize
           /\ (b.page = 0 => Before(b) = 0)
  <1>1. /\ b.first \in Nat /\ b.last \in Nat /\ b.page \in Nat /\ b.newest \in Nat
        /\ b.first > 0 /\ b.newest > 0 /\ b.newest <= PageSize
        /\ b.page <= MaxLines /\ b.first <= MaxPrinted /\ b.last <= MaxPrinted
    BY ServiceAssumption DEF Panels
  <1>2. /\ PageSize \in Nat /\ PageSize > 0 /\ MaxLines \in Nat /\ MaxLines >= PageSize
        /\ MaxPrinted \in Nat /\ blank \in Nat /\ blank < PageSize
    BY ServiceAssumption DEF TypeOK
  <1>3. /\ Before(b) \in Nat /\ b.page <= Before(b)
        /\ (b.page + 2) * PageSize = Before(b) + 2 * PageSize
        /\ (b.page - 1) * PageSize = Before(b) - PageSize
    BY <1>1, <1>2, Products DEF Before
  <1>4. b.page = 0 => Before(b) = 0
    BY <1>2 DEF Before
  <1> QED
    BY <1>1, <1>2, <1>3, <1>4

LEMMA OlderPages ==
    ASSUME TypeOK, NEW b \in Panels
    PROVE  hasCachedOlderPage(b) <=> b.last - b.first + 1 - b.newest > Before(b)
  <1>1. CASE hasCachedOlderPage(b)
    BY <1>1, PageNumbers DEF hasCachedOlderPage, latestPageLen, Cached, Before
  <1>2. CASE ~hasCachedOlderPage(b)
    BY <1>2, PageNumbers DEF hasCachedOlderPage, latestPageLen, Cached, Before
  <1> QED
    BY <1>1, <1>2

(* The size of the next read is that of a page more, or what is cached. *)
LEMMA NextSizes ==
    ASSUME TypeOK, NEW b \in Panels, NextReadSize(b) # 0, b.first <= b.last, Cached(b) <= MaxLines
    PROVE  /\ MayTurn(b) /\ NextReadSize(b) = SizeFor(b)
           /\ SizeFor(b) \in Nat /\ SizeFor(b) >= PageSize
  <1>0. USE PageNumbers DEF Smaller, Larger, Cached, SizeFor
  <1>1. CASE hasCachedOlderPage(b)
    BY <1>1 DEF NextReadSize, MayTurn
  <1>2. CASE ~hasCachedOlderPage(b)
    <2>1. (b.page + 2) * PageSize <= MaxLines
      BY <1>2 DEF NextReadSize
    <2> QED
      BY <1>2, <2>1 DEF NextReadSize, MayTurn
  <1> QED
    BY <1>1, <1>2

(* Page b.page begins where the lines before the newest page and it begin, *)
(* or with the oldest line.                                                *)
LEMMA PageEnds ==
    ASSUME TypeOK, NEW b \in Panels
    PROVE  /\ PageFrom(b) = Larger(b.first, b.last - b.newest - Before(b) + 1)
           /\ b.page > 0 => PageTo(b) = b.last - b.newest - Before(b) + PageSize
           /\ PageFrom(b) \in Int /\ PageTo(b) \in Int
  <1>1. CASE b.page = 0
    <2>1. Before(b) = 0 /\ PageTo(b) = b.last
      BY <1>1, PageNumbers DEF PageTo
    <2> QED
      BY <1>1, <2>1, PageNumbers DEF PageFrom, latestPageLen, Larger
  <1>2. CASE b.page # 0
    <2>1. PageTo(b) = b.last - b.newest - (Before(b) - PageSize)
      BY <1>2, PageNumbers DEF PageTo, latestPageLen
    <2> QED
      BY <1>2, <2>1, PageNumbers DEF PageFrom, Larger
  <1> QED
    BY <1>1, <1>2

(* ExpandTerminal keeps the newest lines and adds older ones, as many as   *)
(* the cache holds.                                                        *)
LEMMA ExpandedIs ==
    ASSUME TypeOK, NEW b \in Panels, PanelSized(b), NEW r \in Lines, Expandable(b, r), MayTurn(b)
    PROVE  /\ Expanded(b, r).key = b.key /\ Expanded(b, r).last = b.last
           /\ Expanded(b, r).newest = b.newest
           /\ Expanded(b, r).first = Prefix(b, r) /\ Prefix(b, r) <= b.first
           /\ Prefix(b, r) \in Nat
           /\ Expanded(b, r).page = b.page \/ Expanded(b, r).page = b.page + 1
           /\ Expanded(b, r).page = b.page + 1 <=> TurnsPage(b, r)
           /\ PanelSized(Expanded(b, r))
  <1> DEFINE e == Expanded(b, r)
  <1>1. r.from \in Nat /\ r.from > 0 /\ r.to \in Nat
    BY ServiceAssumption DEF Lines
  <1>2. Prefix(b, r) \in Nat /\ Prefix(b, r) > 0 /\ Prefix(b, r) <= b.first
        /\ b.last - Prefix(b, r) + 1 <= MaxLines
    BY <1>1, PageNumbers DEF Prefix, Anchored, Larger, PanelSized, Cached
  <1>3. TurnsPage(b, r) => b.page + 1 <= MaxLines
    <2>1. CASE hasCachedOlderPage(b)
      BY <2>1, PageNumbers DEF hasCachedOlderPage, Before, PanelSized, latestPageLen, Cached
    <2>2. CASE ~hasCachedOlderPage(b)
      BY <2>2, PageNumbers DEF MayTurn
    <2> QED
      BY <2>1, <2>2
  <1>4. /\ e.key = b.key /\ e.last = b.last /\ e.newest = b.newest /\ e.first = Prefix(b, r)
        /\ e.page = IF TurnsPage(b, r) THEN b.page + 1 ELSE b.page
    BY DEF Expanded
  <1>5. e \in Panels
    <2>1. e.page \in 0..MaxLines
      BY <1>3, <1>4, PageNumbers
    <2>2. e.first \in 1..MaxPrinted
      BY <1>2, <1>4, PageNumbers
    <2>3. (IF Prefix(b, r) < b.first THEN b.last - Prefix(b, r) + 1 >= MaxLines
           ELSE b.oldest \/ ~TurnsPage(b, r)) \in BOOLEAN
      <3>1. b.oldest \in BOOLEAN
        BY DEF Panels
      <3>2. CASE Prefix(b, r) < b.first
        BY <3>2
      <3>3. CASE ~(Prefix(b, r) < b.first)
        BY <3>1, <3>3
      <3> QED
        BY <3>2, <3>3
    <2>5. e.oldest \in BOOLEAN
      BY <2>3 DEF Expanded
    <2>4. b.key \in Targets /\ b.last \in 1..MaxPrinted /\ b.newest \in 1..PageSize
      BY DEF Panels
    <2>6. e = [key |-> e.key, first |-> e.first, last |-> e.last, page |-> e.page,
               oldest |-> e.oldest, newest |-> e.newest]
      BY DEF Expanded
    <2> HIDE DEF e
    <2> QED
      BY <1>4, <2>1, <2>2, <2>4, <2>5, <2>6 DEF Panels
  <1>6. PanelSized(e)
    BY <1>2, <1>4, <1>5, PageNumbers DEF PanelSized, Cached
  <1> QED
    BY <1>2, <1>4, <1>6, PageNumbers

(* A refresh reads at most a page. *)
LEMMA RefreshedIs ==
    ASSUME TypeOK, NEW t \in Targets, NEW r \in Lines, r.from <= r.to, Span(r) <= PageSize - blank
    PROVE  PanelSized(Refreshed(t, r))
  <1>1. /\ r.from \in Nat /\ r.from > 0 /\ r.to \in Nat /\ r.to <= MaxPrinted
        /\ r.from <= MaxPrinted /\ PageSize \in Nat /\ blank \in Nat /\ MaxLines \in Nat
        /\ PageSize <= MaxLines /\ MaxPrinted \in Nat
    BY ServiceAssumption DEF Lines, TypeOK
  <1>2. r.to - r.from + 1 \in 1..PageSize
    BY <1>1 DEF Span
  <1>3. Refreshed(t, r) \in Panels
    BY <1>1, <1>2 DEF Refreshed, Panels
  <1> QED
    BY <1>1, <1>2, <1>3 DEF Refreshed, PanelSized, Span, Cached

-----------------------------------------------------------------------------
(* Types of the calls that read, of the transitions and of the Supervisor. *)

PanelTypes ==
    /\ panel' \in Panels \cup {None} /\ mark' \in 0..MaxPrinted /\ shown' \in 0..MaxPrinted
    /\ moved' \in BOOLEAN /\ gap' \in BOOLEAN /\ fresh' \in [Handlers -> BOOLEAN]

SelectionTypes ==
    /\ selected' \in Targets \cup {None} /\ selectionInvalid' \in BOOLEAN
    /\ registry' \in Views /\ listSnapshot' \in SUBSET Targets

LEMMA WholeTypes ==
    ASSUME TypeOK, InputTypes, PanelTypes, SelectionTypes,
           UNCHANGED <<herdrVars, clientVars, opsBlocked>>,
           inputBlocked' \in BOOLEAN, transition' \in Actors \cup {None}
    PROVE  TypeOK'
  BY DEF TypeOK, InputTypes, HandlerTypes, PanelTypes, SelectionTypes, herdrVars, clientVars

LEMMA KeptTypes ==
    ASSUME TypeOK
    PROVE  /\ KeepPanel => PanelTypes
           /\ UNCHANGED <<selectionVars, registryVars>> => SelectionTypes
           /\ ValidateSelected /\ UNCHANGED registryVars => SelectionTypes
  BY ValidatedIs DEF TypeOK, KeepPanel, panelVars, selectionVars, registryVars, PanelTypes, SelectionTypes

LEMMA ResetTypes ==
    ASSUME TypeOK, NEW t \in Targets \cup {None}, resetPanelLocked(t)
    PROVE  PanelTypes
  <1>1. Newest(t) \in 0..MaxPrinted
    BY ServiceAssumption, TargetIsPair DEF TypeOK, Newest
  <1>2. fresh' \in [Handlers -> BOOLEAN]
    BY DEF resetPanelLocked, Stale
  <1>3. moved' \in BOOLEAN /\ gap' \in BOOLEAN
    BY DEF resetPanelLocked
  <1>4. panel' \in Panels \cup {None} /\ mark' \in 0..MaxPrinted /\ shown' \in 0..MaxPrinted
    BY <1>1, ServiceAssumption DEF resetPanelLocked
  <1> QED
    BY <1>2, <1>3, <1>4 DEF PanelTypes

LEMMA StaleTypes == Stale => fresh' \in [Handlers -> BOOLEAN]
  BY DEF Stale

(* What a pageup under way that is still current found. *)
LEMMA ExpansionIs ==
    ASSUME TypeOK, FreshReads, ReadsTrue, PanelOfSelection, NEW h \in Handlers,
           pc[h] = "apply", kind[h] = "pageup", Matches(h), panel # None
    PROVE  /\ panel \in Panels /\ PanelSized(panel) /\ MayTurn(panel) /\ left[h] = SizeFor(panel)
           /\ read[h] \in Lines /\ target[h] = selected /\ read[h].to >= mark
  BY ServiceAssumption DEF FreshReads, ReadsTrue, PanelOfSelection, PanelSized, HasRead, Matches

LEMMA RefreshIs ==
    ASSUME TypeOK, FreshReads, ReadsTrue, NEW h \in Handlers,
           pc[h] = "apply", kind[h] # "pageup"
    PROVE  /\ read[h] \in Lines /\ target[h] \in Targets
           /\ PanelSized(Refreshed(target[h], read[h]))
  <1>1. /\ read[h] \in Lines /\ target[h] \in Targets /\ read[h].from <= read[h].to
        /\ Span(read[h]) <= PageSize - blank
    BY DEF ReadsTrue, HasRead
  <1> QED
    BY <1>1, RefreshedIs

LEMMA TypesOfReads ==
    ASSUME TypeOK, PanelInv, NEW h \in Handlers,
           \/ InputTarget(h) \/ Capture(h) \/ Resolve(h) \/ Geometry(h) \/ ReadRecent(h)
           \/ applyRefresh(h) \/ applyExpand(h)
    PROVE  TypeOK'
  <1> USE DEF planVars, callVars, leaseVars, readQuiet, registryVars, lockVars, clientVars
  <1>0. h \in Actors /\ Validated \in Targets \cup {None}
    BY ValidatedIs DEF Actors
  <1>1. ASSUME Reply(h), UNCHANGED planVars
        PROVE  InputTypes
    BY <1>1, ReplyTypes DEF InputTypes, HandlerTypes, TypeOK
  <1>2. opsBlocked \in BOOLEAN /\ inputBlocked \in BOOLEAN /\ transition \in Actors \cup {None}
    BY DEF TypeOK
  <1>3. CASE InputTarget(h)
    <2>1. CASE Validated = None
      <3>1. InputTypes
        BY <1>1, <1>3, <2>1 DEF InputTarget
      <3> QED
        BY <1>2, <1>3, <3>1, WholeTypes, KeptTypes DEF InputTarget, KeepPanel
    <2>2. CASE Validated # None
      <3>1. pc' \in [Actors -> Steps]
        BY <1>0, <1>3, <2>2, GotoTypes DEF InputTarget, Steps
      <3>2. target' \in [Handlers -> Targets \cup {None}]
        BY <1>0, <1>3, <2>2 DEF InputTarget, TypeOK
      <3>3. InputTypes
        BY <1>3, <2>2, <3>1, <3>2 DEF InputTarget, InputTypes, HandlerTypes, TypeOK
      <3> QED
        BY <1>2, <1>3, <3>3, WholeTypes, KeptTypes DEF InputTarget, KeepPanel
    <2> QED
      BY <2>1, <2>2
  <1>4. CASE Capture(h)
    <2>1. CASE Readable(h)
      <3>1. pc' \in [Actors -> Steps]
        BY <1>0, <1>4, <2>1, GotoTypes DEF Capture, Steps
      <3>2. target' \in [Handlers -> Targets \cup {None}]
        BY <1>0, <1>4, <2>1 DEF Capture, TypeOK
      <3>3. left' \in [Handlers -> Nat]
        <4>1. (IF kind[h] = "pageup" THEN NextReadSize(panel) ELSE PageSize) \in Nat
          <5>1. CASE kind[h] # "pageup"
            BY <5>1, ServiceAssumption
          <5>2. CASE kind[h] = "pageup"
            <6>1. panel # None /\ NextReadSize(panel) # 0 /\ panel \in Panels
              BY <2>1, <5>2 DEF Readable, TypeOK
            <6>2. PanelSized(panel)
              BY <6>1 DEF PanelInv, PanelOfSelection
            <6> QED
              BY <5>2, <6>1, <6>2, NextSizes DEF PanelSized
          <5> QED
            BY <5>1, <5>2
        <4>2. left' = [left EXCEPT ![h] = IF kind[h] = "pageup" THEN NextReadSize(panel) ELSE PageSize]
          BY <1>4, <2>1 DEF Capture
        <4> QED
          BY <4>1, <4>2 DEF TypeOK
      <3>4. fresh' \in [Handlers -> BOOLEAN]
        BY <1>4, <2>1 DEF Capture, TypeOK
      <3>5. InputTypes
        BY <1>4, <2>1, <3>1, <3>2, <3>3 DEF Capture, InputTypes, HandlerTypes, TypeOK
      <3>6. PanelTypes
        BY <1>4, <3>4 DEF Capture, panelVars, PanelTypes, TypeOK
      <3> QED
        BY <1>2, <1>4, <3>5, <3>6, WholeTypes, KeptTypes DEF Capture
    <2>2. CASE ~Readable(h)
      <3>1. InputTypes
        BY <1>1, <1>4, <2>2 DEF Capture
      <3> QED
        BY <1>2, <1>4, <2>2, <3>1, WholeTypes, KeptTypes DEF Capture, KeepPanel
    <2> QED
      BY <2>1, <2>2
  <1>5. CASE Resolve(h)
    <2>1. InputTypes
      <3>1. ASSUME left' = [left EXCEPT ![h] = PageSize], NEW step \in {"read", "geometry"}, Goto(h, step),
                   UNCHANGED <<leaseVars, kind, target, read, accepted, planVars>>
            PROVE  InputTypes
        <4>1. pc' \in [Actors -> Steps]
          BY <1>0, <3>1, GotoTypes DEF Steps
        <4>2. left' \in [Handlers -> Nat]
          BY <3>1, ServiceAssumption DEF TypeOK
        <4> QED
          BY <3>1, <4>1, <4>2 DEF InputTypes, HandlerTypes, TypeOK
      <3> QED
        BY <1>1, <1>5, <3>1 DEF Resolve
    <2> QED
      BY <1>2, <1>5, <2>1, WholeTypes, KeptTypes DEF Resolve, KeepPanel
  <1>6. CASE Geometry(h)
    <2>1. InputTypes
      <3>1. ASSUME Goto(h, "read"), UNCHANGED <<leaseVars, callVars, planVars>>
            PROVE  InputTypes
        <4>1. pc' \in [Actors -> Steps]
          BY <1>0, <3>1, GotoTypes DEF Steps
        <4> QED
          BY <3>1, <4>1 DEF InputTypes, HandlerTypes, TypeOK
      <3> QED
        BY <1>1, <1>6, <3>1 DEF Geometry
    <2> QED
      BY <1>2, <1>6, <2>1, WholeTypes, KeptTypes DEF Geometry, KeepPanel
  <1>8. CASE applyRefresh(h)
    <2>1. InputTypes
      BY <1>1, <1>8 DEF applyRefresh
    <2>2. PanelTypes
      <3>1. CASE Matches(h)
        <4>1. /\ Stale /\ panel' = Refreshed(target[h], read[h])
              /\ mark' = Larger(mark, read[h].to) /\ shown' = read[h].from
              /\ moved' = FALSE /\ gap' = FALSE
          BY <1>8, <3>1 DEF applyRefresh, Rendered
        <4>2. read[h] \in Lines /\ panel' \in Panels
          BY <1>8, <4>1, RefreshIs DEF applyRefresh, PanelInv, PanelSized
        <4>3. mark' \in 0..MaxPrinted /\ shown' \in 0..MaxPrinted
          BY <4>1, <4>2, ServiceAssumption DEF Lines, Larger, TypeOK
        <4> QED
          BY <4>1, <4>2, <4>3, StaleTypes DEF PanelTypes
      <3>2. CASE ~Matches(h)
        BY <1>8, <3>2, KeptTypes DEF applyRefresh
      <3> QED
        BY <3>1, <3>2
    <2> QED
      BY <1>2, <1>8, <2>1, <2>2, WholeTypes, KeptTypes DEF applyRefresh
  <1>9. CASE applyExpand(h)
    <2>1. InputTypes
      BY <1>1, <1>9 DEF applyExpand
    <2> DEFINE b == Expanded(panel, read[h])
    <2>2. CASE Matches(h) /\ panel # None /\ Expandable(panel, read[h])
      <3>1. PanelSized(b) /\ b \in Panels
        <4>1. panel \in Panels /\ PanelSized(panel) /\ MayTurn(panel) /\ read[h] \in Lines
          BY <1>9, <2>2, ExpansionIs DEF applyExpand, PanelInv
        <4> QED
          BY <2>2, <4>1, ExpandedIs DEF PanelSized
      <3>2. ASSUME b.page # panel.page
            PROVE  PanelTypes
        <4>1. /\ panel' = b /\ Stale
              /\ moved' = (moved \/ read[h].to > panel.last)
              /\ shown' = Smaller(shown, PageFrom(b))
              /\ gap' = (gap \/ (~moved' /\ (PageTo(b) < shown - 1 \/ PageTo(b) < PageFrom(b))))
              /\ UNCHANGED mark
          BY <1>9, <2>2, <3>2 DEF applyExpand, Rendered
        <4>2. moved' \in BOOLEAN
          <5>1. CASE moved \/ read[h].to > panel.last
            BY <4>1, <5>1
          <5>2. CASE ~(moved \/ read[h].to > panel.last)
            BY <4>1, <5>2
          <5> QED
            BY <5>1, <5>2
        <4>3. gap' \in BOOLEAN
          <5>1. CASE gap \/ (~moved' /\ (PageTo(b) < shown - 1 \/ PageTo(b) < PageFrom(b)))
            BY <4>1, <5>1
          <5>2. CASE ~(gap \/ (~moved' /\ (PageTo(b) < shown - 1 \/ PageTo(b) < PageFrom(b))))
            BY <4>1, <5>2
          <5> QED
            BY <5>1, <5>2
        <4>4. shown' \in 0..MaxPrinted
          <5> HIDE DEF b
          <5>1. PageFrom(b) = Larger(b.first, b.last - b.newest - Before(b) + 1) /\ PageFrom(b) \in Int
            BY <3>1, PageEnds
          <5>2. PageFrom(b) > 0
            BY <3>1, <5>1, PageNumbers DEF Larger
          <5> QED
            BY <4>1, <5>1, <5>2, ServiceAssumption DEF TypeOK, Smaller
        <4>5. mark' \in 0..MaxPrinted
          BY <4>1 DEF TypeOK
        <4>6. panel' \in Panels \cup {None}
          BY <3>1, <4>1
        <4>7. fresh' \in [Handlers -> BOOLEAN]
          BY <4>1, StaleTypes
        <4> QED
          BY <4>2, <4>3, <4>4, <4>5, <4>6, <4>7 DEF PanelTypes
      <3>3. ASSUME b.page = panel.page
            PROVE  PanelTypes
        <4>1. panel' = b /\ UNCHANGED <<fresh, mark, shown, moved, gap>>
          BY <1>9, <2>2, <3>3 DEF applyExpand
        <4>2. mark' \in 0..MaxPrinted /\ shown' \in 0..MaxPrinted
          BY <4>1 DEF TypeOK
        <4>3. fresh' \in [Handlers -> BOOLEAN] /\ moved' \in BOOLEAN /\ gap' \in BOOLEAN
          BY <4>1 DEF TypeOK
        <4>4. panel' \in Panels \cup {None}
          BY <3>1, <4>1
        <4> QED
          BY <4>2, <4>3, <4>4 DEF PanelTypes
      <3> QED
        BY <1>2, <1>9, <2>1, <3>2, <3>3, WholeTypes, KeptTypes DEF applyExpand
    <2>3. CASE Matches(h) /\ panel # None /\ ~Expandable(panel, read[h])
      BY <1>0, <1>2, <1>9, <2>1, <2>3, WholeTypes, KeptTypes, ResetTypes DEF applyExpand
    <2>4. CASE ~Matches(h) \/ panel = None
      BY <1>2, <1>9, <2>1, <2>4, WholeTypes, KeptTypes DEF applyExpand
    <2> QED
      BY <2>2, <2>3, <2>4
  <1>7. CASE ReadRecent(h)
    <2>1. InputTypes
      <3>1. ASSUME Release(h, "expected"), UNCHANGED <<callVars, snap>>
            PROVE  InputTypes
        BY <3>1, ReleaseTypes DEF InputTypes, HandlerTypes, TypeOK, Plans
      <3>2. ASSUME read' = [read EXCEPT ![h] = Recent(target[h][1], left[h])], endOperation(h),
                   Goto(h, "apply"), UNCHANGED <<kind, target, left, accepted, planVars>>, pc[h] = "read"
            PROVE  InputTypes
        <4>1. pc' \in [Actors -> Steps]
          BY <1>0, <3>2, GotoTypes DEF Steps
        <4>2. target[h][1] \in Panes
          BY <3>2, TargetIsPair DEF PanelInv, ReadsTrue, Reading
        <4>3. /\ low[target[h][1]] \in 1..MaxPrinted /\ high[target[h][1]] \in 1..MaxPrinted
              /\ left[h] \in Nat /\ blank \in Nat /\ left[h] >= PageSize /\ blank < PageSize
              /\ PageSize \in Nat /\ low[target[h][1]] <= high[target[h][1]] /\ MaxPrinted \in Nat
          BY <3>2, <4>2, ServiceAssumption DEF PanelInv, ReadsTrue, Reading, TypeOK
        <4>4. Recent(target[h][1], left[h]) \in Lines
          BY <4>3 DEF Recent, Larger, Lines
        <4>5. read' \in [Handlers -> Lines \cup {None}]
          BY <3>2, <4>4 DEF TypeOK
        <4> QED
          BY <3>2, <4>1, <4>5, LeaseTypes DEF InputTypes, HandlerTypes, TypeOK
      <3> QED
        BY <1>1, <1>7, <3>1, <3>2 DEF ReadRecent
    <2> QED
      BY <1>7, <2>1, QuietTypes DEF ReadRecent
  <1> QED
    BY <1>3, <1>4, <1>5, <1>6, <1>7, <1>8, <1>9

LEMMA ReplacedTypes ==
    ASSUME TypeOK, NEW v \in Views, Replaced(v) \/ Reconnected(v)
    PROVE  SelectionTypes /\ PanelTypes
  <1>1. None \in Targets \cup {None} /\ {} \in SUBSET Targets
    OBVIOUS
  <1>2. CASE Replaced(v)
    <2>1. CASE selected # None /\ v[selected[1]] # selected[2]
      <3>1. resetPanelLocked(None) /\ registry' = v /\ selected' = None /\ selectionInvalid' = TRUE
            /\ UNCHANGED listSnapshot
        BY <1>2, <2>1 DEF Replaced
      <3> QED
        BY <1>1, <3>1, ResetTypes DEF SelectionTypes, TypeOK
    <2>2. CASE ~(selected # None /\ v[selected[1]] # selected[2])
      <3>1. UNCHANGED selectionVars /\ KeepPanel /\ registry' = v /\ UNCHANGED listSnapshot
        BY <1>2, <2>2 DEF Replaced
      <3> QED
        BY <3>1, KeptTypes DEF SelectionTypes, TypeOK, selectionVars
    <2> QED
      BY <2>1, <2>2
  <1>3. CASE Reconnected(v)
    BY <1>1, <1>3, ResetTypes DEF Reconnected, SelectionTypes
  <1> QED
    BY <1>2, <1>3

LEMMA ClearedTypes ==
    ASSUME TypeOK, ClearSelection
    PROVE  SelectionTypes /\ PanelTypes
  <1>1. PanelTypes
    BY ResetTypes DEF ClearSelection
  <1> QED
    BY <1>1 DEF ClearSelection, SelectionTypes, TypeOK

LEMMA StepIsTyped ==
    ASSUME TypeOK, NEW a \in Actors, NEW step \in Steps, Goto(a, step), UNCHANGED <<leaseVars, callVars>>
    PROVE  HandlerTypes
  BY GotoTypes DEF HandlerTypes, TypeOK, leaseVars, callVars

LEMMA ChangeTypes ==
    ASSUME TypeOK, NEW a \in Actors, Change(a), HandlerTypes, SelectionTypes, PanelTypes
    PROVE  TypeOK'
  <1>1. plan' \in [Actors -> Plans \cup {None}]
    <2>1. (IF pc'[a] = "lock" THEN "expected" ELSE None) \in Plans \cup {None}
      BY DEF Plans
    <2> QED
      BY <2>1 DEF Change, TypeOK
  <1>2. snap' \in [Actors -> Views]
    <2>1. [p \in Panes |-> None] \in Views
      BY DEF Views
    <2> QED
      BY <2>1 DEF Change, TypeOK
  <1>3. InputTypes
    BY <1>1, <1>2 DEF InputTypes, HandlerTypes
  <1>4. /\ UNCHANGED <<herdrVars, clientVars, opsBlocked>>
        /\ inputBlocked' = FALSE /\ transition' = None
    BY DEF Change
  <1> QED
    BY <1>3, <1>4, WholeTypes

LEMMA TypesOfSelections ==
    ASSUME TypeOK, NEW h \in Handlers, Select(h) \/ SelectTarget(h)
    PROVE  HandlerTypes /\ SelectionTypes /\ PanelTypes
  <1>0. h \in Actors /\ "content" \in Steps
    BY DEF Actors, Steps
  <1>1. CASE Select(h)
    <2>1. ASSUME NEW t \in Targets, t \in Current, selected' = t /\ selectionInvalid' = FALSE,
                 resetPanelLocked(t), Goto(h, "content"), UNCHANGED <<registryVars, leaseVars, callVars>>
          PROVE  HandlerTypes /\ SelectionTypes /\ PanelTypes
      BY <1>0, <2>1, StepIsTyped, ResetTypes DEF SelectionTypes, TypeOK, registryVars
    <2>2. PICK t \in listSnapshot \cup {None} :
             \/ /\ t \in Current
                /\ selected' = t /\ selectionInvalid' = FALSE
                /\ resetPanelLocked(t)
                /\ Goto(h, "content")
                /\ UNCHANGED <<registryVars, leaseVars, callVars>>
             \/ ClearSelection /\ Reply(h)
             \/ UNCHANGED <<selectionVars, registryVars>> /\ KeepPanel /\ Reply(h)
      BY <1>1 DEF Select
    <2>3. CASE ClearSelection /\ Reply(h)
      BY <2>3, ClearedTypes, ReplyTypes
    <2>4. CASE UNCHANGED <<selectionVars, registryVars>> /\ KeepPanel /\ Reply(h)
      BY <2>4, KeptTypes, ReplyTypes
    <2> QED
      BY <2>1, <2>2, <2>3, <2>4 DEF Current
  <1>2. CASE SelectTarget(h)
    <2>1. HandlerTypes
      BY <1>2, ReplyTypes DEF SelectTarget
    <2>2. CASE target[h] \in Current
      <3>1. target[h] \in Targets
        BY <2>2 DEF Current
      <3>2. selected' = target[h] /\ selectionInvalid' = FALSE /\ UNCHANGED registryVars
            /\ (KeepPanel \/ resetPanelLocked(target[h]))
        BY <1>2, <2>2 DEF SelectTarget
      <3>3. PanelTypes
        BY <3>1, <3>2, KeptTypes, ResetTypes
      <3> QED
        BY <2>1, <3>1, <3>2, <3>3 DEF SelectionTypes, TypeOK, registryVars
    <2>3. CASE target[h] \notin Current
      BY <1>2, <2>1, <2>3, KeptTypes DEF SelectTarget
    <2> QED
      BY <2>2, <2>3
  <1> QED
    BY <1>1, <1>2

LEMMA TypesOfTargetChanges ==
    ASSUME TypeOK, NEW h \in Handlers, invalidateExpected(h) \/ rebindExpected(h)
    PROVE  HandlerTypes /\ SelectionTypes /\ PanelTypes
  <1>0. h \in Actors /\ "lock" \in Steps
    BY DEF Actors, Steps
  <1>1. CASE invalidateExpected(h)
    <2>1. HandlerTypes
      BY <1>1, ReplyTypes DEF invalidateExpected
    <2>2. ClearSelection \/ (ValidateSelected /\ KeepPanel /\ UNCHANGED registryVars)
      BY <1>1 DEF invalidateExpected
    <2> QED
      BY <2>1, <2>2, ClearedTypes, KeptTypes
  <1>2. CASE rebindExpected(h)
    <2> DEFINE t == target[h]
               o == snap[h][t[1]]
    <2>1. ASSUME o # None, t \in Current, registry' = [registry EXCEPT ![t[1]] = o],
                 selected' = <<t[1], o>>,
                 listSnapshot' = {IF e = t THEN <<t[1], o>> ELSE e : e \in listSnapshot},
                 resetPanelLocked(<<t[1], o>>), Reply(h), UNCHANGED selectionInvalid
          PROVE  HandlerTypes /\ SelectionTypes /\ PanelTypes
      <3>1. t \in Targets /\ t[1] \in Panes
        BY <2>1, TargetIsPair DEF Current
      <3>2. o \in Occupants
        <4>1. snap[h] \in Views
          BY <1>0 DEF TypeOK
        <4> QED
          BY <2>1, <3>1, <4>1 DEF Views
      <3>3. <<t[1], o>> \in Targets
        BY <3>1, <3>2 DEF Targets
      <3>4. registry' \in Views
        BY <2>1, <3>2 DEF TypeOK, Views
      <3>5. listSnapshot' \in SUBSET Targets
        BY <2>1, <3>3 DEF TypeOK
      <3> QED
        BY <2>1, <3>3, <3>4, <3>5, ReplyTypes, ResetTypes DEF SelectionTypes, TypeOK
    <2>2. ASSUME Goto(h, "lock"), KeepPanel, UNCHANGED <<selectionVars, registryVars, leaseVars, callVars>>
          PROVE  HandlerTypes /\ SelectionTypes /\ PanelTypes
      BY <1>0, <2>2, StepIsTyped, KeptTypes
    <2> QED
      BY <1>2, <2>1, <2>2 DEF rebindExpected
  <1> QED
    BY <1>1, <1>2

LEMMA TypesOfTransits ==
    ASSUME TypeOK, NEW a \in Actors, Transit(a)
    PROVE  TypeOK'
  <1>1. Change(a)
    BY DEF Transit
  <1>2. CASE a = Supervisor
    <2>1. SupervisorTransition /\ snap[Supervisor] \in Views
      BY <1>1, <1>2, ServiceAssumption DEF Change, TypeOK
    <2>2. \A step \in {"set", "healthy", "down"} :
            Goto(a, step) /\ UNCHANGED <<leaseVars, callVars>> => HandlerTypes
      BY StepIsTyped DEF Steps
    <2>3. HandlerTypes
      BY <1>2, <2>1, <2>2 DEF SupervisorTransition
    <2>4. SelectionTypes /\ PanelTypes
      BY <2>1, ReplacedTypes, ClearedTypes DEF SupervisorTransition
    <2> QED
      BY <1>1, <2>3, <2>4, ChangeTypes
  <1>3. CASE a # Supervisor
    <2>0. a \in Handlers /\ snap[a] \in Views
      BY <1>3 DEF Actors, TypeOK
    <2>1. CASE ListReplaced(a)
      <3>1. HandlerTypes
        BY <2>1, StepIsTyped DEF ListReplaced, Steps
      <3> QED
        BY <1>1, <2>0, <2>1, <3>1, ReplacedTypes, ChangeTypes DEF ListReplaced
    <2>2. CASE Select(a) \/ SelectTarget(a)
      BY <1>1, <2>0, <2>2, TypesOfSelections, ChangeTypes
    <2>3. CASE invalidateExpected(a) \/ rebindExpected(a)
      BY <1>1, <2>0, <2>3, TypesOfTargetChanges, ChangeTypes
    <2> QED
      BY <1>1, <1>3, <2>1, <2>2, <2>3 DEF Change
  <1> QED
    BY <1>2, <1>3

LEMMA TypesOfLists ==
    ASSUME TypeOK, PanelInv, NEW h \in Handlers, ListSnapshot(h) \/ Listing(h) \/ PageDown(h)
    PROVE  TypeOK'
  <1>1. CASE ListSnapshot(h)
    <2>1. h \in Actors /\ occupant \in Views
      BY DEF Actors, TypeOK
    <2>2. ASSUME snap' = [snap EXCEPT ![h] = occupant], Release(h, "list"), UNCHANGED callVars
          PROVE  InputTypes
      <3>1. snap' \in [Actors -> Views]
        BY <2>1, <2>2 DEF TypeOK
      <3> QED
        BY <2>2, <3>1, ReleaseTypes DEF InputTypes, HandlerTypes, TypeOK, callVars, Plans
    <2>3. ASSUME Reply(h), UNCHANGED planVars
          PROVE  InputTypes
      BY <2>3, ReplyTypes DEF InputTypes, TypeOK, planVars
    <2>4. InputTypes
      BY <1>1, <2>2, <2>3 DEF ListSnapshot
    <2> QED
      BY <1>1, <2>4, QuietTypes DEF ListSnapshot, inputQuiet
  <1>2. CASE Listing(h)
    <2>1. InputTypes
      BY <1>2, ReplyTypes DEF Listing, InputTypes, TypeOK, planVars
    <2>2. SelectionTypes
      BY <1>2, ValidatedIs DEF Listing, SelectionTypes, TypeOK, Current
    <2>3. PanelTypes
      BY <1>2, KeptTypes DEF Listing, KeepPanel
    <2> QED
      BY <1>2, <2>1, <2>2, <2>3, WholeTypes DEF Listing, lockVars, TypeOK
  <1>3. CASE PageDown(h)
    <2>1. InputTypes
      BY <1>3 DEF PageDown, InputTypes, HandlerTypes, TypeOK, leaseVars, callVars, planVars, readQuiet
    <2>2. panel' \in Panels \cup {None} /\ fresh' \in [Handlers -> BOOLEAN]
      <3>1. CASE Validated # None /\ panel # None /\ panel.page > 0
        <4>1. panel' = [panel EXCEPT !.page = @ - 1] /\ Stale
          BY <1>3, <3>1 DEF PageDown, Rendered
        <4>2. panel \in Panels
          BY <3>1 DEF TypeOK
        <4>3. panel.page \in 0..MaxLines /\ MaxLines \in Nat
          BY <4>2, ServiceAssumption DEF Panels
        <4>4. panel' \in Panels
          BY <3>1, <4>1, <4>2, <4>3 DEF Panels
        <4> QED
          BY <4>1, <4>4, StaleTypes
      <3>2. CASE ~(Validated # None /\ panel # None /\ panel.page > 0)
        BY <1>3, <3>2 DEF PageDown, TypeOK
      <3> QED
        BY <3>1, <3>2
    <2>3. PanelTypes
      BY <1>3, <2>2 DEF PageDown, PanelTypes, TypeOK
    <2> QED
      BY <1>3, <2>1, <2>3, WholeTypes, KeptTypes
      DEF PageDown, readQuiet, registryVars, lockVars, TypeOK
  <1> QED
    BY <1>1, <1>2, <1>3

LEMMA TypesOfSupervisor ==
    ASSUME TypeOK, InUse, Connect \/ SetHerdr \/ RefreshSnapshot \/ Degrade \/ SetHerdrNil \/ Drained
    PROVE  TypeOK'
  <1> USE DEF superQuiet, selectionVars, registryVars, panelVars, leaseVars, callVars, herdrVars,
              lockVars, clientVars, planVars
  <1>0. Supervisor \in Actors /\ {"lock", "healthy", "degrade", "drain"} \subseteq Steps
        /\ {"baseline", "refresh", "clear"} \subseteq Plans /\ occupant \in Views
    BY DEF Actors, Steps, Plans, TypeOK
  <1>1. pc' \in [Actors -> Steps]
    <2>1. PICK step \in {"lock", "healthy", "degrade", "drain"} : Goto(Supervisor, step)
      BY DEF Connect, SetHerdr, RefreshSnapshot, Degrade, SetHerdrNil, Drained
    <2> QED
      BY <1>0, <2>1, GotoTypes
  <1>2. CASE Connect \/ RefreshSnapshot
    <2>1. snap' \in [Actors -> Views] /\ plan' \in [Actors -> Plans \cup {None}]
      BY <1>0, <1>2 DEF Connect, RefreshSnapshot, TypeOK
    <2> QED
      BY <1>1, <1>2, <2>1 DEF Connect, RefreshSnapshot, TypeOK
  <1>3. CASE SetHerdr
    <2>1. clients < MaxClients
      BY <1>3 DEF SetHerdr, InUse, Connecting
    <2>2. clients' \in 0..MaxClients /\ client' \in 1..MaxClients \cup {None}
      BY <1>3, <2>1, ServiceAssumption DEF SetHerdr, TypeOK
    <2> QED
      BY <1>1, <1>3, <2>2 DEF SetHerdr, TypeOK
  <1>4. CASE Degrade
    BY <1>1, <1>4 DEF Degrade, TypeOK
  <1>5. CASE SetHerdrNil
    BY <1>0, <1>1, <1>5 DEF SetHerdrNil, TypeOK
  <1>6. CASE Drained
    <2>1. plan' \in [Actors -> Plans \cup {None}]
      BY <1>0, <1>6 DEF Drained, TypeOK
    <2> QED
      BY <1>1, <1>6, <2>1 DEF Drained, TypeOK
  <1> QED
    BY <1>2, <1>3, <1>4, <1>5, <1>6

LEMMA TypesOfHerdr ==
    ASSUME TypeOK, NEW p \in Panes, ChangeOccupant(p) \/ PrintLine(p)
    PROVE  TypeOK'
  <1> USE DEF selectionVars, registryVars, panelVars, leaseVars, callVars, lockVars, clientVars, planVars
  <1>1. CASE ChangeOccupant(p)
    <2>1. occupant' \in Views
      BY <1>1 DEF ChangeOccupant, TypeOK, Views
    <2> QED
      BY <1>1, <2>1 DEF ChangeOccupant, TypeOK
  <1>2. CASE PrintLine(p)
    <2>1. high[p] + 1 \in 1..MaxPrinted /\ low[p] \in 1..MaxPrinted
      BY <1>2, ServiceAssumption DEF PrintLine, TypeOK
    <2>2. high' \in [Panes -> 1..MaxPrinted] /\ low' \in [Panes -> 1..MaxPrinted]
      BY <1>2, <2>1 DEF PrintLine, TypeOK
    <2> QED
      BY <1>2, <2>2 DEF PrintLine, TypeOK
  <1> QED
    BY <1>1, <1>2

LEMMA TypesOfLocks ==
    ASSUME TypeOK, NEW a \in Actors, LockTransition(a)
    PROVE  TypeOK'
  <1> USE DEF herdrVars, selectionVars, registryVars, panelVars, leaseVars, callVars, clientVars, planVars
  <1>1. pc' \in [Actors -> Steps]
    BY GotoTypes DEF LockTransition, Steps
  <1> QED
    BY <1>1 DEF LockTransition, TypeOK

LEMMA TypeKept == IInv /\ [Next]_vars => TypeOK'
  <1> SUFFICES ASSUME IInv, [Next]_vars PROVE TypeOK'
    OBVIOUS
  <1>0. TypeOK /\ InUse /\ PanelInv
    BY DEF IInv
  <1>1. CASE UNCHANGED vars
    BY <1>0, <1>1 DEF TypeOK, vars, herdrVars, selectionVars, registryVars, panelVars, leaseVars,
           callVars, lockVars, clientVars, planVars
  <1>2. ASSUME NEW h \in Handlers, Begin(h) \/ BeginUnavailable(h) \/ BeginSelect(h) \/ SelectContent(h)
        PROVE  TypeOK'
    BY <1>0, <1>2, TypesOfStarts
  <1>3. ASSUME NEW h \in Handlers, PageDown(h) \/ ListSnapshot(h) \/ Listing(h)
        PROVE  TypeOK'
    BY <1>0, <1>3, TypesOfLists
  <1>4. ASSUME NEW h \in Handlers,
               \/ Verify(h) \/ Submit(h) \/ Submitted(h) \/ SendEnter(h) \/ Entered(h) \/ SendKey(h)
               \/ Confirm(h, "confirm", "recheck") \/ Confirm(h, "recheck", "enter")
        PROVE  TypeOK'
    BY <1>0, <1>4, TypesOfInputs
  <1>5. ASSUME NEW h \in Handlers,
               \/ InputTarget(h) \/ Capture(h) \/ Resolve(h) \/ Geometry(h) \/ ReadRecent(h)
               \/ applyRefresh(h) \/ applyExpand(h)
        PROVE  TypeOK'
    BY <1>0, <1>5, TypesOfReads
  <1> QED
    BY <1>0, <1>1, <1>2, <1>3, <1>4, <1>5, TypesOfLocks, TypesOfTransits, TypesOfSupervisor, TypesOfHerdr
    DEF Next, Handler

-----------------------------------------------------------------------------
(* Leases: what a handler that runs alone can do to them. *)

Touches(h) ==
    /\ pc'[Supervisor] = pc[Supervisor] /\ plan'[Supervisor] = plan[Supervisor]
    /\ \A j \in Handlers \ {h} :
          /\ pc'[j] = pc[j] /\ kind'[j] = kind[j] /\ target'[j] = target[j]
          /\ read'[j] = read[j] /\ left'[j] = left[j]
          /\ lease'[j] = lease[j] /\ held'[j] = held[j]

(* The lease ends, or it is kept with a target that is right, or it begins. *)
LeaseEnds(h) == lease'[h] = None /\ pc'[h] # "resolve"
LeaseKept(h) ==
    /\ lease'[h] = lease[h] /\ held'[h] = held[h]
    /\ pc'[h] \notin {"idle", "resolve"}
    /\ target'[h] \in {None, target[h], selected} \/ lease[h] # "input"
LeaseBegins(h) ==
    /\ lease'[h] \in {"op", "input"} /\ client # None /\ held'[h] = client
    /\ target'[h] = None \/ lease'[h] = "op"
    /\ pc'[h] # "idle" /\ (pc'[h] = "resolve" => kind'[h] = "snapshot")

Settled ==
    /\ UNCHANGED <<registry, client, clients, selected>>
    /\ selectionInvalid' => selected = None

LEMMA HandlerIsNotSupervisor ==
    ASSUME NEW h \in Handlers
    PROVE  h # Supervisor /\ h \in Actors /\ Supervisor \in Actors
  BY ServiceAssumption DEF Actors

LEMMA LeaseQuiet ==
    ASSUME TypeOK, LeasesHold, InUse, NEW h \in Handlers, Touches(h), Settled,
           LeaseEnds(h) \/ LeaseKept(h) \/ LeaseBegins(h)
    PROVE  LeasesHold' /\ InUse'
  <1>1. Current' = Current
    BY DEF Current, Settled
  <1>2. SelectionHeld'
    BY <1>1 DEF SelectionHeld, InUse, Settled
  <1>3. Unleased' <=> Unleased
    BY DEF Unleased, Touches
  <1>4. Connecting' <=> Connecting
    BY DEF Connecting, Touches
  <1>5. ASSUME NEW j \in Handlers
        PROVE  /\ lease'[j] = "input" /\ target'[j] # None => selected = target'[j] /\ selected \in Current
               /\ lease'[j] # None => held'[j] = client \/ pc[Supervisor] = "drain"
               /\ pc'[j] = "idle" => lease'[j] = None
               /\ pc'[j] = "resolve" => kind'[j] = "snapshot"
               /\ lease'[j] # None => lease[j] # None \/ client # None
    <2>1. CASE j # h
      <3>1. /\ pc'[j] = pc[j] /\ kind'[j] = kind[j] /\ target'[j] = target[j]
            /\ lease'[j] = lease[j] /\ held'[j] = held[j]
        BY <2>1 DEF Touches
      <3>2. /\ pc[j] = "idle" => lease[j] = None
            /\ pc[j] = "resolve" => kind[j] = "snapshot"
        BY DEF InUse
      <3> QED
        BY <3>1, <3>2 DEF LeasesHold
    <2>2. CASE j = h /\ LeaseEnds(h)
      BY <2>2, ServiceAssumption DEF LeaseEnds
    <2>3. CASE j = h /\ LeaseKept(h)
      <3>1. selected # None => selected \in Current
        BY DEF InUse, SelectionHeld
      <3> QED
        BY <2>3, <3>1 DEF LeaseKept, LeasesHold
    <2>4. CASE j = h /\ LeaseBegins(h)
      BY <2>4 DEF LeaseBegins
    <2> QED
      BY <2>1, <2>2, <2>3, <2>4
  <1>6. LeasesHold'
    BY <1>1, <1>5 DEF LeasesHold, Settled, Touches
  <1>7. Unleased => client = None /\ activeOps' = {}
    <2>1. Unleased => client = None /\ activeOps = {}
      BY DEF InUse
    <2> QED
      BY <1>5, <2>1 DEF activeOps
  <1>8. pc'[Supervisor] = "drain" => client' = None
    BY DEF InUse, Settled, Touches
  <1>9. Connecting => clients' < MaxClients
    BY DEF InUse, Settled
  <1> QED
    BY <1>2, <1>3, <1>4, <1>5, <1>6, <1>7, <1>8, <1>9 DEF InUse, Settled

(* A step that no handler and no lease is touched by. *)
LEMMA LeaseStill ==
    ASSUME TypeOK, LeasesHold, InUse, Settled, UNCHANGED <<pc, kind, target, leaseVars, plan>>
    PROVE  LeasesHold' /\ InUse'
  <1>1. Current' = Current
    BY DEF Current, Settled
  <1>2. SelectionHeld'
    BY <1>1 DEF SelectionHeld, InUse, Settled
  <1>3. LeasesHold'
    BY <1>1 DEF LeasesHold, Settled, leaseVars
  <1>4. (Unleased' <=> Unleased) /\ (Connecting' <=> Connecting) /\ activeOps' = activeOps
    BY DEF Unleased, Connecting, activeOps, leaseVars
  <1> QED
    BY <1>2, <1>3, <1>4 DEF InUse, Settled, leaseVars

LEMMA SelectionValid ==
    ASSUME TypeOK, SelectionHeld
    PROVE  Validated = selected /\ (ValidateSelected => selected' = selected /\ selectionInvalid' = FALSE)
  <1>1. selected # None => selected \in Current /\ ~selectionInvalid
    BY DEF SelectionHeld
  <1>2. None \notin Current
    BY ServiceAssumption DEF Current, Targets
  <1>3. Validated = selected
    BY <1>1, <1>2 DEF Validated
  <1> QED
    BY <1>1, <1>3 DEF ValidateSelected

LEMMA SettledWhen ==
    ASSUME TypeOK, InUse, UNCHANGED <<registry, client, clients>>,
           ValidateSelected \/ UNCHANGED selectionVars
    PROVE  Settled
  <1>1. SelectionHeld
    BY DEF InUse
  <1>2. CASE ValidateSelected
    BY <1>1, <1>2, SelectionValid DEF Settled
  <1>3. CASE UNCHANGED selectionVars
    BY <1>1, <1>3 DEF Settled, selectionVars, SelectionHeld
  <1> QED
    BY <1>2, <1>3

LEMMA ReplyTouches ==
    ASSUME TypeOK, NEW h \in Handlers, Reply(h), plan'[Supervisor] = plan[Supervisor]
    PROVE  Touches(h) /\ LeaseEnds(h) /\ pc'[h] = "idle"
  BY HandlerIsNotSupervisor DEF Reply, Goto, endOperation, Forget, Touches, LeaseEnds, TypeOK

LEMMA ReleaseTouches ==
    ASSUME TypeOK, NEW h \in Handlers, NEW what, Release(h, what), UNCHANGED callVars
    PROVE  Touches(h) /\ LeaseEnds(h) /\ pc'[h] = "lock"
  BY HandlerIsNotSupervisor DEF Release, Goto, endOperation, callVars, Touches, LeaseEnds, TypeOK

(* The handler goes on; it may have got another target. *)
LEMMA GotoTouches ==
    ASSUME TypeOK, NEW h \in Handlers, NEW step, Goto(h, step), UNCHANGED <<lease, held, plan>>,
           step \notin {"idle", "resolve"},
           \A j \in Handlers \ {h} : /\ kind'[j] = kind[j] /\ target'[j] = target[j]
                                     /\ read'[j] = read[j] /\ left'[j] = left[j],
           target'[h] \in {None, target[h], selected} \/ lease[h] # "input"
    PROVE  Touches(h) /\ LeaseKept(h) /\ pc'[h] = step
  BY HandlerIsNotSupervisor DEF Goto, Touches, LeaseKept, TypeOK

(* A step of h that reads nothing and leaves the panel alone. *)
Moves(h) == Touches(h) /\ (LeaseEnds(h) \/ LeaseKept(h) \/ LeaseBegins(h))
NoRead(h) == pc'[h] \notin {"read", "geometry", "apply"}
CalmStep(h) ==
    /\ Moves(h) /\ NoRead(h) /\ Settled
    /\ UNCHANGED <<panelVars, fresh, low, high, blank>>

LEMMA ReplyMoves ==
    ASSUME TypeOK, NEW h \in Handlers, Reply(h), UNCHANGED planVars
    PROVE  Moves(h) /\ NoRead(h)
  <1>1. plan'[Supervisor] = plan[Supervisor]
    BY DEF planVars
  <1> QED
    BY <1>1, ReplyTouches DEF Moves, NoRead

LEMMA ReleaseMoves ==
    ASSUME TypeOK, NEW h \in Handlers, NEW what, Release(h, what), UNCHANGED callVars
    PROVE  Moves(h) /\ NoRead(h)
  BY ReleaseTouches DEF Moves, NoRead

LEMMA GotoMoves ==
    ASSUME TypeOK, NEW h \in Handlers, NEW step, Goto(h, step), UNCHANGED <<leaseVars, plan>>,
           step \notin {"idle", "resolve", "read", "geometry", "apply"},
           \A j \in Handlers \ {h} : /\ kind'[j] = kind[j] /\ target'[j] = target[j]
                                     /\ read'[j] = read[j] /\ left'[j] = left[j],
           target'[h] \in {None, target[h], selected} \/ lease[h] # "input"
    PROVE  Moves(h) /\ NoRead(h)
  <1>1. UNCHANGED <<lease, held, plan>>
    BY DEF leaseVars
  <1>2. step \notin {"idle", "resolve"}
    OBVIOUS
  <1>3. Touches(h) /\ LeaseKept(h) /\ pc'[h] = step
    BY <1>1, <1>2, GotoTouches
  <1> QED
    BY <1>3 DEF Moves, NoRead

LEMMA BeginMoves ==
    ASSUME TypeOK, NEW h \in Handlers, NEW k \in Kinds, beginOperation(h, k), UNCHANGED plan,
           \A j \in Handlers \ {h} : target'[j] = target[j] /\ read'[j] = read[j] /\ left'[j] = left[j],
           target'[h] = None \/ k \notin Inputs
    PROVE  Moves(h) /\ NoRead(h)
  <1>1. /\ lease' = [lease EXCEPT ![h] = IF k \in Inputs THEN "input" ELSE "op"]
        /\ held' = [held EXCEPT ![h] = client] /\ kind' = [kind EXCEPT ![h] = k]
        /\ pc' = [pc EXCEPT ![h] = BeginStep(k)] /\ client # None
    BY DEF beginOperation, Goto, Ready
  <1>2. Touches(h)
    BY <1>1, HandlerIsNotSupervisor DEF Touches, TypeOK
  <1>3. BeginStep(k) \in {"list", "resolve", "target", "capture"} /\ (BeginStep(k) = "resolve" => k = "snapshot")
    BY DEF BeginStep
  <1>4. /\ lease'[h] = IF k \in Inputs THEN "input" ELSE "op"
        /\ held'[h] = client /\ kind'[h] = k /\ pc'[h] = BeginStep(k)
    BY <1>1, HandlerIsNotSupervisor DEF TypeOK
  <1>5. LeaseBegins(h)
    BY <1>1, <1>3, <1>4 DEF LeaseBegins
  <1> QED
    BY <1>2, <1>3, <1>4, <1>5 DEF Moves, NoRead

LEMMA StartsAreQuiet ==
    ASSUME TypeOK, InUse, NEW h \in Handlers, Begin(h) \/ BeginSelect(h) \/ SelectContent(h)
    PROVE  CalmStep(h)
  <1>0. Settled /\ UNCHANGED <<panelVars, fresh, low, high, blank>>
    <2>1. UNCHANGED <<herdrVars, selectionVars, registryVars, clientVars, panelVars, fresh>>
      BY DEF Begin, BeginSelect, SelectContent
    <2> QED
      BY <2>1, SettledWhen DEF registryVars, clientVars, herdrVars
  <1>1. CASE Begin(h)
    <2>1. PICK k \in calls[h] \ {"select", "selectTarget", "pagedown"} :
            /\ beginOperation(h, k)
            /\ \E t \in IF k = "snapshot" THEN Targets ELSE {None} : target' = [target EXCEPT ![h] = t]
            /\ \E n \in IF k = "keys" THEN 1..MaxKeys ELSE {0} : left' = [left EXCEPT ![h] = n]
      BY <1>1 DEF Begin
    <2>2. k \in Kinds
      BY DEF TypeOK
    <2>3. PICK t \in IF k = "snapshot" THEN Targets ELSE {None} : target' = [target EXCEPT ![h] = t]
      BY <2>1
    <2>4. (\A j \in Handlers \ {h} : target'[j] = target[j]) /\ (target'[h] = None \/ k \notin Inputs)
      BY <2>3 DEF TypeOK, Inputs
    <2>5. UNCHANGED <<read, plan>> /\ \A j \in Handlers \ {h} : left'[j] = left[j]
      BY <1>1, <2>1 DEF Begin, planVars, TypeOK
    <2>6. Moves(h) /\ NoRead(h)
      BY <2>1, <2>2, <2>4, <2>5, BeginMoves
    <2> QED
      BY <1>0, <2>6 DEF CalmStep
  <1>2. CASE BeginSelect(h)
    <2>1. Touches(h)
      BY <1>2, HandlerIsNotSupervisor DEF BeginSelect, Goto, Touches, leaseVars, TypeOK
    <2>2. pc'[h] = "lock" /\ lease[h] # "input"
      BY <1>2, HandlerIsNotSupervisor, ServiceAssumption DEF BeginSelect, Goto, InUse, TypeOK
    <2>3. LeaseKept(h)
      BY <1>2, <2>2 DEF BeginSelect, LeaseKept, leaseVars
    <2> QED
      BY <1>0, <2>1, <2>2, <2>3 DEF CalmStep, Moves, NoRead
  <1>3. CASE SelectContent(h)
    <2>0. "content" \in Kinds /\ "content" \notin Inputs /\ (UNCHANGED planVars => UNCHANGED plan)
      BY DEF Kinds, Inputs, planVars
    <2>1. CASE beginOperation(h, "content") /\ UNCHANGED <<target, read, left, accepted>>
      <3>1. UNCHANGED plan /\ \A j \in Handlers \ {h} :
               target'[j] = target[j] /\ read'[j] = read[j] /\ left'[j] = left[j]
        BY <1>3, <2>0, <2>1 DEF SelectContent
      <3>2. Moves(h) /\ NoRead(h)
        BY <2>0, <2>1, <3>1, BeginMoves
      <3> QED
        BY <1>0, <3>2 DEF CalmStep
    <2>2. CASE Reply(h)
      BY <1>0, <1>3, <2>2, ReplyMoves DEF SelectContent, CalmStep
    <2> QED
      BY <1>3, <2>1, <2>2 DEF SelectContent
  <1> QED
    BY <1>1, <1>2, <1>3

LEMMA InputsAreQuiet ==
    ASSUME TypeOK, InUse, NEW h \in Handlers,
           \/ Verify(h) \/ Submit(h) \/ Submitted(h) \/ SendEnter(h) \/ Entered(h) \/ SendKey(h)
           \/ Confirm(h, "confirm", "recheck") \/ Confirm(h, "recheck", "enter")
    PROVE  CalmStep(h)
  <1>0. Settled /\ UNCHANGED <<panelVars, fresh, low, high, blank>>
    <2>1. UNCHANGED inputQuiet
      BY DEF Verify, Submit, Submitted, SendEnter, Entered, SendKey, Confirm
    <2> QED
      BY <2>1, SettledWhen DEF inputQuiet, registryVars, clientVars, herdrVars
  <1> SUFFICES Moves(h) /\ NoRead(h)
    BY <1>0 DEF CalmStep
  <1> DEFINE Next1 == {"submit", "send", "submitted", "confirm", "recheck", "enter", "entered", "verify", "capture"}
  <1>1. ASSUME NEW step \in Next1, Goto(h, step), UNCHANGED <<leaseVars, callVars, planVars>>
        PROVE  Moves(h) /\ NoRead(h)
    <2>1. /\ UNCHANGED <<leaseVars, plan, kind, target, read, left>>
          /\ step \notin {"idle", "resolve", "read", "geometry", "apply"}
      BY <1>1 DEF callVars, planVars
    <2> QED
      BY <1>1, <2>1, GotoMoves
  <1>2. CASE Verify(h)
    BY <1>1, <1>2, ReplyMoves, ReleaseMoves DEF Verify
  <1>3. CASE Submit(h)
    <2>1. ASSUME Goto(h, "submitted"), UNCHANGED <<leaseVars, kind, target, read, left, planVars>>
          PROVE  Moves(h) /\ NoRead(h)
      <3>1. UNCHANGED <<leaseVars, plan, kind, target, read, left>>
        BY <2>1 DEF planVars
      <3> QED
        BY <2>1, <3>1, GotoMoves
    <2> QED
      BY <1>3, <2>1, ReplyMoves DEF Submit
  <1>4. CASE Submitted(h)
    BY <1>1, <1>4, ReplyMoves, ReleaseMoves DEF Submitted, TargetChanged
  <1>5. ASSUME NEW step, NEW next \in {"recheck", "enter"}, Confirm(h, step, next)
        PROVE  Moves(h) /\ NoRead(h)
    BY <1>1, <1>5, ReplyMoves, ReleaseMoves DEF Confirm, TargetChanged, Expected
  <1>6. CASE SendEnter(h)
    <2>1. UNCHANGED planVars
      BY <1>6 DEF SendEnter
    <2> QED
      BY <1>1, <1>6, <2>1, ReplyMoves DEF SendEnter
  <1>7. CASE Entered(h)
    BY <1>7, ReplyMoves, ReleaseMoves DEF Entered, Expected
  <1>8. CASE SendKey(h)
    <2>0. UNCHANGED planVars
      BY <1>8 DEF SendKey
    <2>1. ASSUME left' = [left EXCEPT ![h] = @ - 1], Goto(h, "verify"),
                 UNCHANGED <<leaseVars, kind, target, read, accepted>>
          PROVE  Moves(h) /\ NoRead(h)
      <3>1. UNCHANGED <<leaseVars, plan, kind, target, read>> /\ \A j \in Handlers \ {h} : left'[j] = left[j]
        BY <2>0, <2>1 DEF planVars, TypeOK
      <3> QED
        BY <2>1, <3>1, GotoMoves
    <2> QED
      BY <1>1, <1>8, <2>0, <2>1, ReplyMoves DEF SendKey
  <1> QED
    BY <1>2, <1>3, <1>4, <1>5, <1>6, <1>7, <1>8

LEMMA ListsAreQuiet ==
    ASSUME TypeOK, InUse, NEW h \in Handlers,
           BeginUnavailable(h) \/ ListSnapshot(h) \/ Listing(h) \/ InputTarget(h)
    PROVE  CalmStep(h)
  <1>0. Settled /\ UNCHANGED <<panelVars, fresh, low, high, blank>>
    <2>1. /\ UNCHANGED <<herdrVars, registry, clientVars, panelVars, fresh>>
          /\ ValidateSelected \/ UNCHANGED selectionVars
      BY DEF BeginUnavailable, ListSnapshot, Listing, InputTarget, registryVars
    <2> QED
      BY <2>1, SettledWhen DEF clientVars, herdrVars
  <1> SUFFICES Moves(h) /\ NoRead(h)
    BY <1>0 DEF CalmStep
  <1>1. CASE BeginUnavailable(h)
    <2>0. UNCHANGED <<leaseVars, target, read, left, planVars>>
      BY <1>1 DEF BeginUnavailable
    <2>1. CASE kind' = [kind EXCEPT ![h] = "list"] /\ Goto(h, "listing")
      <3>1. UNCHANGED plan /\ \A j \in Handlers \ {h} : kind'[j] = kind[j]
        BY <2>0, <2>1 DEF planVars, TypeOK
      <3> QED
        BY <2>0, <2>1, <3>1, GotoMoves
    <2>2. CASE UNCHANGED <<pc, kind>>
      <3>1. pc[h] = "idle" /\ lease[h] = None
        BY <1>1 DEF BeginUnavailable, InUse
      <3> QED
        BY <2>0, <2>2, <3>1 DEF Moves, NoRead, Touches, LeaseEnds, leaseVars, planVars
    <2> QED
      BY <1>1, <2>1, <2>2 DEF BeginUnavailable
  <1>2. CASE ListSnapshot(h)
    BY <1>2, ReplyMoves, ReleaseMoves DEF ListSnapshot
  <1>3. CASE Listing(h)
    BY <1>3, ReplyMoves DEF Listing
  <1>4. CASE InputTarget(h)
    <2>0. UNCHANGED planVars /\ Validated = selected
      BY <1>4, SelectionValid DEF InputTarget, InUse
    <2>1. CASE target' = [target EXCEPT ![h] = Validated] /\ Goto(h, "verify")
               /\ UNCHANGED <<leaseVars, kind, read, left, accepted>>
      <3>1. UNCHANGED plan /\ target'[h] = selected /\ \A j \in Handlers \ {h} : target'[j] = target[j]
        BY <2>0, <2>1 DEF planVars, TypeOK
      <3> QED
        BY <2>1, <3>1, GotoMoves
    <2> QED
      BY <1>4, <2>0, <2>1, ReplyMoves DEF InputTarget
  <1> QED
    BY <1>1, <1>2, <1>3, <1>4

(* A read of the terminal for the target captured. *)
LEMMA ReadsMove ==
    ASSUME TypeOK, InUse, NEW h \in Handlers,
           Capture(h) \/ Resolve(h) \/ Geometry(h) \/ ReadRecent(h) \/ applyRefresh(h) \/ applyExpand(h)
    PROVE  Moves(h) /\ Settled
  <1>0. Settled /\ UNCHANGED <<clientVars, registry>> /\ Validated = selected
    <2>1. /\ UNCHANGED <<registry, clientVars>>
          /\ ValidateSelected \/ UNCHANGED selectionVars
      BY DEF Capture, Resolve, Geometry, ReadRecent, applyRefresh, applyExpand, readQuiet, inputQuiet, registryVars
    <2> QED
      BY <2>1, SettledWhen, SelectionValid DEF clientVars, InUse
  <1> SUFFICES Moves(h)
    BY <1>0
  <1>1. ASSUME NEW step \in {"read", "geometry"}, Goto(h, step), UNCHANGED <<leaseVars, kind, read, planVars>>,
               \A j \in Handlers \ {h} : target'[j] = target[j] /\ left'[j] = left[j],
               target'[h] \in {target[h], selected}
        PROVE  Moves(h)
    <2>1. UNCHANGED <<lease, held, plan>>
      BY <1>1 DEF leaseVars, planVars
    <2>2. Touches(h) /\ LeaseKept(h)
      BY <1>1, <2>1, GotoTouches
    <2> QED
      BY <2>2 DEF Moves
  <1>2. CASE Capture(h)
    <2>0. UNCHANGED planVars
      BY <1>2 DEF Capture, readQuiet
    <2>1. CASE Readable(h)
      <3>1. PICK step \in {"read", "geometry"} : Goto(h, step)
        BY <1>2, <2>1 DEF Capture
      <3>2. /\ target' = [target EXCEPT ![h] = selected]
            /\ left' = [left EXCEPT ![h] = IF kind[h] = "pageup" THEN NextReadSize(panel) ELSE PageSize]
            /\ UNCHANGED <<leaseVars, kind, read, accepted>>
        BY <1>0, <1>2, <2>1 DEF Capture
      <3>3. /\ target'[h] = selected
            /\ \A j \in Handlers \ {h} : target'[j] = target[j] /\ left'[j] = left[j]
        BY <3>2 DEF TypeOK
      <3> QED
        BY <1>1, <2>0, <3>1, <3>2, <3>3
    <2>2. CASE ~Readable(h)
      BY <1>2, <2>0, <2>2, ReplyMoves DEF Capture
    <2> QED
      BY <2>1, <2>2
  <1>3. CASE Resolve(h)
    <2>0. UNCHANGED planVars
      BY <1>3 DEF Resolve, readQuiet
    <2>1. CASE left' = [left EXCEPT ![h] = PageSize] /\ (\E step \in {"read", "geometry"} : Goto(h, step))
               /\ UNCHANGED <<leaseVars, kind, target, read, accepted>>
      <3>1. \A j \in Handlers \ {h} : left'[j] = left[j]
        BY <2>1 DEF TypeOK
      <3> QED
        BY <1>1, <2>0, <2>1, <3>1
    <2> QED
      BY <1>3, <2>0, <2>1, ReplyMoves DEF Resolve
  <1>4. CASE Geometry(h)
    <2>0. UNCHANGED planVars
      BY <1>4 DEF Geometry, readQuiet
    <2>1. CASE Goto(h, "read") /\ UNCHANGED <<leaseVars, callVars>>
      <3>1. UNCHANGED <<leaseVars, kind, read, planVars, target, left>>
        BY <2>0, <2>1 DEF callVars
      <3> QED
        BY <1>1, <2>1, <3>1
    <2> QED
      BY <1>4, <2>0, <2>1, ReplyMoves DEF Geometry
  <1>5. CASE ReadRecent(h)
    <2>1. CASE read' = [read EXCEPT ![h] = Recent(target[h][1], left[h])] /\ endOperation(h)
               /\ Goto(h, "apply") /\ UNCHANGED <<kind, target, left, accepted, planVars>>
      <3>1. Touches(h)
        BY <2>1, HandlerIsNotSupervisor DEF endOperation, Goto, Touches, TypeOK, planVars
      <3>2. LeaseEnds(h)
        BY <2>1, HandlerIsNotSupervisor DEF endOperation, Goto, LeaseEnds, TypeOK
      <3> QED
        BY <3>1, <3>2 DEF Moves
    <2> QED
      BY <1>5, <2>1, ReplyMoves, ReleaseMoves DEF ReadRecent
  <1>6. CASE applyRefresh(h) \/ applyExpand(h)
    <2>1. Reply(h) /\ UNCHANGED planVars
      BY <1>6 DEF applyRefresh, applyExpand, readQuiet
    <2> QED
      BY <2>1, ReplyMoves
  <1> QED
    BY <1>2, <1>3, <1>4, <1>5, <1>6

LEMMA UseOfTransits ==
    ASSUME TypeOK, LeasesHold, InUse, NEW a \in Actors, Transit(a)
    PROVE  LeasesHold' /\ InUse'
  <1>0. /\ Change(a) /\ pc[a] = "barrier" /\ UNCHANGED clientVars
        /\ \A j \in Handlers : lease[j] # "input"
        /\ plan' = [plan EXCEPT ![a] = IF pc'[a] = "lock" THEN "expected" ELSE None]
    BY DEF Transit, Barrier, activeInputs, Change
  <1>1. SelectionHeld'
    <2>1. SelectionHeld /\ (selected # None => selected \in Targets)
      BY DEF InUse, TypeOK
    <2>2. ASSUME NEW v, Replaced(v)
          PROVE  SelectionHeld'
      <3>1. selected \in Current /\ v[selected[1]] = selected[2] /\ registry' = v => selected \in Current'
        BY DEF Current
      <3> QED
        BY <2>1, <2>2, <3>1 DEF Replaced, SelectionHeld, selectionVars
    <2>3. ASSUME ClearSelection
          PROVE  SelectionHeld'
      BY <2>3 DEF ClearSelection, SelectionHeld
    <2>4. ASSUME UNCHANGED registry, ValidateSelected \/ UNCHANGED selectionVars
          PROVE  SelectionHeld'
      <3>1. Current' = Current
        BY <2>4 DEF Current
      <3>2. selected' = selected /\ (selectionInvalid' => selected = None)
        <4>1. CASE ValidateSelected
          BY <2>1, <4>1, SelectionValid
        <4>2. CASE UNCHANGED selectionVars
          BY <2>1, <4>2 DEF selectionVars, SelectionHeld
        <4> QED
          BY <2>4, <4>1, <4>2
      <3> QED
        BY <2>1, <3>1, <3>2 DEF SelectionHeld
    <2>5. ASSUME NEW t \in Current, UNCHANGED registry, selected' = t, selectionInvalid' = FALSE
          PROVE  SelectionHeld'
      <3>1. Current' = Current
        BY <2>5 DEF Current
      <3> QED
        BY <2>5, <3>1 DEF SelectionHeld
    <2>6. CASE a = Supervisor
      <3>1. SupervisorTransition
        BY <1>0, <2>6 DEF Change
      <3>2. CASE Reconnected(snap[Supervisor])
        BY <3>2 DEF Reconnected, SelectionHeld
      <3> QED
        BY <2>2, <2>3, <3>1, <3>2 DEF SupervisorTransition
    <2>7. CASE ListReplaced(a)
      BY <2>2, <2>7 DEF ListReplaced
    <2>8. CASE Select(a)
      <3>1. PICK t \in listSnapshot \cup {None} :
             \/ /\ t \in Current
                /\ selected' = t /\ selectionInvalid' = FALSE /\ UNCHANGED registryVars
             \/ ClearSelection
             \/ UNCHANGED <<selectionVars, registryVars>>
        BY <2>8 DEF Select
      <3> QED
        BY <2>3, <2>4, <2>5, <3>1 DEF registryVars
    <2>9. CASE SelectTarget(a)
      BY <2>4, <2>5, <2>9 DEF SelectTarget, registryVars
    <2>10. CASE invalidateExpected(a)
      BY <2>3, <2>4, <2>10 DEF invalidateExpected, registryVars
    <2>11. CASE rebindExpected(a)
      <3> DEFINE t == target[a]
                 o == snap[a][t[1]]
      <3>1. CASE /\ o # None /\ ~selectionInvalid /\ t \in Current
                 /\ registry' = [registry EXCEPT ![t[1]] = o] /\ selected' = <<t[1], o>>
                 /\ UNCHANGED selectionInvalid
        <4>1. t \in Targets /\ t[1] \in Panes /\ snap[a] \in Views
          BY <3>1, TargetIsPair DEF Current, TypeOK
        <4>2. o \in Occupants /\ registry'[t[1]] = o
          BY <3>1, <4>1 DEF Views, TypeOK
        <4>3. selected' \in Targets /\ registry'[selected'[1]] = selected'[2]
          BY <3>1, <4>1, <4>2 DEF Targets
        <4> QED
          BY <3>1, <4>3 DEF Current, SelectionHeld
      <3>2. CASE UNCHANGED <<selectionVars, registryVars>>
        BY <2>4, <3>2 DEF registryVars
      <3> QED
        BY <2>11, <3>1, <3>2 DEF rebindExpected
    <2> QED
      BY <1>0, <2>6, <2>7, <2>8, <2>9, <2>10, <2>11 DEF Change
  <1>2. ASSUME NEW j \in Handlers
        PROVE  /\ lease'[j] = None \/ (lease'[j] = lease[j] /\ held'[j] = held[j])
               /\ pc'[j] = "idle" => lease'[j] = None
               /\ pc'[j] = "resolve" => kind'[j] = "snapshot"
    <2>0. pc[j] = "idle" => lease[j] = None
      BY DEF InUse
    <2>1. CASE a = Supervisor
      <3>1. UNCHANGED <<leaseVars, callVars>> /\ pc'[j] = pc[j]
        BY <1>0, <2>1, HandlerIsNotSupervisor DEF Change, SupervisorTransition, Goto, TypeOK
      <3> QED
        BY <2>0, <3>1 DEF leaseVars, callVars, InUse
    <2>2. CASE a \in Handlers
      <3>1. PICK step \in {"listing", "content", "lock"} :
              Reply(a) \/ (Goto(a, step) /\ UNCHANGED <<leaseVars, callVars>>)
        BY <1>0, <2>2, HandlerIsNotSupervisor
        DEF Change, ListReplaced, Select, SelectTarget, invalidateExpected, rebindExpected
      <3>2. CASE Reply(a)
        BY <2>0, <2>2, <3>2 DEF Reply, Goto, endOperation, Forget, TypeOK, InUse, Actors
      <3>3. CASE Goto(a, step) /\ UNCHANGED <<leaseVars, callVars>>
        BY <2>0, <2>2, <3>1, <3>3 DEF Goto, leaseVars, callVars, TypeOK, InUse, Actors
      <3> QED
        BY <3>1, <3>2, <3>3
    <2> QED
      BY <2>1, <2>2 DEF Actors
  <1>3. LeasesHold'
    <2>1. ASSUME NEW j \in Handlers, lease'[j] # None
          PROVE  lease'[j] # "input" /\ (held'[j] = client' \/ pc'[Supervisor] = "drain")
      <3>1. lease'[j] = lease[j] /\ held'[j] = held[j] /\ lease[j] # "input"
        BY <1>0, <1>2, <2>1
      <3>2. held[j] = client \/ pc[Supervisor] = "drain"
        BY <2>1, <3>1 DEF LeasesHold
      <3>3. pc[Supervisor] = "drain" => pc'[Supervisor] = "drain"
        <4>1. CASE a = Supervisor
          BY <1>0, <4>1
        <4>2. CASE a \in Handlers
          BY <1>0, <4>2, HandlerIsNotSupervisor
          DEF Change, ListReplaced, Select, SelectTarget, invalidateExpected, rebindExpected, Reply, Goto, TypeOK
        <4> QED
          BY <4>1, <4>2 DEF Actors
      <3> QED
        BY <1>0, <3>1, <3>2, <3>3 DEF clientVars
    <2> QED
      BY <2>1, ServiceAssumption DEF LeasesHold
  <1>4. activeOps' \subseteq activeOps
    BY <1>2 DEF activeOps
  <1>5. /\ pc'[Supervisor] = "drain" => client = None
        /\ Unleased' => Unleased
        /\ Connecting' => Connecting
    <2>1. CASE a = Supervisor
      <3>1. SupervisorTransition
        BY <1>0, <2>1, HandlerIsNotSupervisor DEF Change
      <3>2. \/ plan[Supervisor] = "baseline" /\ pc'[Supervisor] = "set"
            \/ plan[Supervisor] = "refresh" /\ pc'[Supervisor] = "healthy"
            \/ plan[Supervisor] = "clear" /\ pc'[Supervisor] = "down"
        BY <3>1 DEF SupervisorTransition, Goto, TypeOK, Actors
      <3> QED
        BY <1>0, <2>1, <3>2 DEF Unleased, Connecting
    <2>2. CASE a \in Handlers
      <3>1. pc'[Supervisor] = pc[Supervisor] /\ plan'[Supervisor] = plan[Supervisor]
        BY <1>0, <2>2, HandlerIsNotSupervisor
        DEF Change, ListReplaced, Select, SelectTarget, invalidateExpected, rebindExpected, Reply, Goto, TypeOK
      <3>2. pc[Supervisor] = "drain" => client = None
        BY DEF InUse
      <3> QED
        BY <3>1, <3>2 DEF Unleased, Connecting
    <2> QED
      BY <2>1, <2>2 DEF Actors
  <1>6. Unleased => client = None /\ activeOps = {}
    BY DEF InUse
  <1>7. Connecting => clients < MaxClients
    BY DEF InUse
  <1> QED
    BY <1>0, <1>1, <1>2, <1>3, <1>4, <1>5, <1>6, <1>7 DEF InUse, clientVars

LEMMA UseOfLocks ==
    ASSUME TypeOK, LeasesHold, InUse, NEW a \in Actors, LockTransition(a)
    PROVE  LeasesHold' /\ InUse'
  <1>1. /\ pc' = [pc EXCEPT ![a] = "barrier"] /\ pc[a] = "lock"
        /\ UNCHANGED <<selectionVars, registry, clientVars, leaseVars, callVars, plan>>
    BY DEF LockTransition, Goto, registryVars, planVars
  <1>2. /\ pc'[a] = "barrier" /\ \A j \in Actors \ {a} : pc'[j] = pc[j]
    BY <1>1 DEF TypeOK
  <1>3. (Unleased' <=> Unleased) /\ (Connecting' <=> Connecting)
        /\ (pc'[Supervisor] = "drain" => pc[Supervisor] = "drain")
    BY <1>1, <1>2 DEF Unleased, Connecting, Actors
  <1>4. ASSUME NEW j \in Handlers
        PROVE  /\ pc'[j] = "idle" => pc[j] = "idle"
               /\ pc'[j] = "resolve" => pc[j] = "resolve"
    BY <1>1, <1>2, HandlerIsNotSupervisor
  <1>5. SelectionHeld' /\ activeOps' = activeOps /\ Current' = Current
    BY <1>1 DEF InUse, SelectionHeld, activeOps, Current, selectionVars, leaseVars
  <1>6. LeasesHold'
    <2>1. pc[Supervisor] = "drain" => pc'[Supervisor] = "drain"
      BY <1>1, <1>2 DEF Actors
    <2> QED
      BY <1>1, <1>5, <2>1 DEF LeasesHold, selectionVars, clientVars, leaseVars, callVars
  <1> QED
    BY <1>1, <1>3, <1>4, <1>5, <1>6 DEF InUse, clientVars, leaseVars, callVars

LEMMA UseOfSupervisor ==
    ASSUME TypeOK, LeasesHold, InUse,
           Connect \/ SetHerdr \/ RefreshSnapshot \/ Degrade \/ SetHerdrNil \/ Drained
    PROVE  LeasesHold' /\ InUse'
  <1>0. UNCHANGED superQuiet
    BY DEF Connect, SetHerdr, RefreshSnapshot, Degrade, SetHerdrNil, Drained
  <1>1. /\ UNCHANGED <<selectionVars, registry, leaseVars, callVars>>
        /\ Current' = Current /\ activeOps' = activeOps
    BY <1>0 DEF superQuiet, registryVars, Current, activeOps, leaseVars
  <1>2. SelectionHeld'
    BY <1>1 DEF InUse, SelectionHeld, selectionVars
  <1>3. \A j \in Handlers : pc'[j] = pc[j]
    BY HandlerIsNotSupervisor
    DEF Connect, SetHerdr, RefreshSnapshot, Degrade, SetHerdrNil, Drained, Goto, TypeOK
  <1>4. ASSUME activeOps = {} \/ UNCHANGED client \/ pc'[Supervisor] = "drain",
               pc[Supervisor] = "drain" => activeOps = {} \/ pc'[Supervisor] = "drain"
        PROVE  LeasesHold'
    <2>1. ASSUME NEW j \in Handlers, lease[j] # None
          PROVE  held[j] = client' \/ pc'[Supervisor] = "drain"
      <3>1. activeOps # {}
        BY <2>1 DEF activeOps
      <3> QED
        BY <1>4, <2>1, <3>1 DEF LeasesHold
    <2> QED
      BY <1>1, <2>1 DEF LeasesHold, leaseVars, callVars, selectionVars
  <1>5. ASSUME pc'[Supervisor] = "drain" => client' = None,
               Unleased' => client' = None /\ activeOps = {},
               Connecting' => clients' < MaxClients
        PROVE  InUse'
    BY <1>1, <1>2, <1>3, <1>5 DEF InUse, leaseVars, callVars
  <1>6. /\ pc[Supervisor] = "drain" => client = None
        /\ Unleased => client = None /\ activeOps = {}
        /\ Connecting => clients < MaxClients
    BY DEF InUse
  <1>7. CASE Connect
    <2>1. pc[Supervisor] = "down" /\ pc'[Supervisor] = "lock" /\ plan'[Supervisor] = "baseline"
          /\ clients < MaxClients /\ UNCHANGED <<client, clients>>
      BY <1>7 DEF Connect, Goto, TypeOK, Actors, clientVars
    <2> QED
      BY <1>4, <1>5, <1>6, <2>1 DEF Unleased
  <1>8. CASE SetHerdr
    <2>1. pc[Supervisor] = "set" /\ pc'[Supervisor] = "healthy"
      BY <1>8 DEF SetHerdr, Goto, TypeOK, Actors
    <2> QED
      BY <1>4, <1>5, <1>6, <2>1 DEF Unleased, Connecting
  <1>9. CASE RefreshSnapshot
    <2>1. pc[Supervisor] = "healthy" /\ pc'[Supervisor] = "lock" /\ plan'[Supervisor] = "refresh"
          /\ UNCHANGED <<client, clients>>
      BY <1>9 DEF RefreshSnapshot, Goto, TypeOK, Actors, clientVars
    <2> QED
      BY <1>4, <1>5, <1>6, <2>1 DEF Unleased, Connecting
  <1>10. CASE Degrade
    <2>1. pc[Supervisor] \in {"down", "healthy"} /\ pc'[Supervisor] = "degrade" /\ UNCHANGED <<client, clients>>
      BY <1>10 DEF Degrade, Goto, TypeOK, Actors, clientVars
    <2> QED
      BY <1>4, <1>5, <1>6, <2>1 DEF Unleased, Connecting
  <1>11. CASE SetHerdrNil
    <2>1. pc'[Supervisor] = "drain" /\ client' = None
      BY <1>11 DEF SetHerdrNil, Goto, TypeOK, Actors
    <2> QED
      BY <1>4, <1>5, <1>6, <2>1 DEF Unleased, Connecting
  <1>12. CASE Drained
    <2>1. pc[Supervisor] = "drain" /\ pc'[Supervisor] = "lock" /\ plan'[Supervisor] = "clear"
          /\ activeOps = {} /\ UNCHANGED <<client, clients>>
      BY <1>12 DEF Drained, Goto, TypeOK, Actors, clientVars
    <2> QED
      BY <1>4, <1>5, <1>6, <2>1 DEF Unleased, Connecting
  <1> QED
    BY <1>7, <1>8, <1>9, <1>10, <1>11, <1>12

LEMMA UseKept == IInv /\ [Next]_vars => LeasesHold' /\ InUse'
  <1> SUFFICES ASSUME IInv, [Next]_vars PROVE LeasesHold' /\ InUse'
    OBVIOUS
  <1>0. TypeOK /\ LeasesHold /\ InUse
    BY DEF IInv
  <1>1. ASSUME UNCHANGED <<registryVars, clientVars, pc, leaseVars, callVars, planVars>>,
               ValidateSelected \/ UNCHANGED selectionVars
        PROVE  LeasesHold' /\ InUse'
    <2>1. UNCHANGED <<registry, client, clients, pc, kind, target, leaseVars, plan>>
      BY <1>1 DEF registryVars, clientVars, callVars, planVars
    <2>2. Settled
      BY <1>0, <1>1, <2>1, SettledWhen
    <2> QED
      BY <1>0, <2>1, <2>2, LeaseStill
  <1>2. CASE UNCHANGED vars
    BY <1>1, <1>2 DEF vars
  <1>3. ASSUME NEW h \in Handlers, CalmStep(h) \/ (Moves(h) /\ Settled)
        PROVE  LeasesHold' /\ InUse'
    BY <1>0, <1>3, LeaseQuiet DEF CalmStep, Moves
  <1>4. ASSUME NEW h \in Handlers,
               Begin(h) \/ BeginUnavailable(h) \/ BeginSelect(h) \/ Handler(h)
        PROVE  LeasesHold' /\ InUse'
    BY <1>0, <1>3, <1>4, StartsAreQuiet, InputsAreQuiet, ListsAreQuiet, ReadsMove DEF Handler
  <1>5. ASSUME NEW h \in Handlers, PageDown(h)
        PROVE  LeasesHold' /\ InUse'
    BY <1>1, <1>5 DEF PageDown, readQuiet
  <1>6. ASSUME NEW p \in Panes, ChangeOccupant(p) \/ PrintLine(p)
        PROVE  LeasesHold' /\ InUse'
    BY <1>1, <1>6 DEF ChangeOccupant, PrintLine
  <1> QED
    BY <1>0, <1>2, <1>4, <1>5, <1>6, UseOfLocks, UseOfTransits, UseOfSupervisor DEF Next

-----------------------------------------------------------------------------
(* The panel: steps that change no read and either leave the panel alone   *)
(* or reset it.                                                            *)

KeepsRead(j) ==
    /\ pc'[j] \in {"read", "geometry", "apply"} =>
          kind'[j] = kind[j] /\ target'[j] = target[j] /\ left'[j] = left[j]
    /\ pc'[j] \in {"read", "geometry"} => Reading(j)
    /\ pc'[j] = "apply" => HasRead(j) /\ read'[j] = read[j]

LEMMA ReadsKept ==
    ASSUME ReadsTrue, UNCHANGED <<low, high, blank>>, \A j \in Handlers : KeepsRead(j)
    PROVE  ReadsTrue'
  <1>1. \A p \in Panes : low'[p] <= high'[p]
    BY DEF ReadsTrue
  <1>2. ASSUME NEW j \in Handlers, Reading(j)' \/ HasRead(j)'
        PROVE  /\ Reading(j) \/ HasRead(j)
               /\ kind'[j] = kind[j] /\ target'[j] = target[j] /\ left'[j] = left[j]
    BY <1>2 DEF KeepsRead, Reading, HasRead
  <1>3. ASSUME NEW j \in Handlers, HasRead(j)'
        PROVE  /\ HasRead(j) /\ read'[j] = read[j] /\ PaneOf(j)' = PaneOf(j)
               /\ Limited(j)' = Limited(j) /\ kind'[j] = kind[j]
    BY <1>2, <1>3 DEF KeepsRead, HasRead, PaneOf, Limited, Span
  <1>4. \A j \in Handlers : (Reading(j) \/ HasRead(j))' =>
          /\ target'[j] \in Targets
          /\ left'[j] >= PageSize
          /\ kind'[j] # "pageup" => left'[j] = PageSize
    BY <1>2 DEF ReadsTrue
  <1>5. ASSUME NEW j \in Handlers, HasRead(j)'
        PROVE  /\ kind'[j] # "snapshot"
               /\ read'[j] \in Lines /\ read'[j].from <= read'[j].to /\ read'[j].to <= high'[PaneOf(j)']
               /\ Span(read'[j]) <= left'[j] - blank'
               /\ read'[j].to = high'[PaneOf(j)'] =>
                     /\ read'[j].from >= low'[PaneOf(j)']
                     /\ Limited(j)' => read'[j].from = low'[PaneOf(j)']
    <2>1. /\ HasRead(j) /\ read'[j] = read[j] /\ PaneOf(j)' = PaneOf(j)
          /\ Limited(j)' = Limited(j) /\ left'[j] = left[j] /\ kind'[j] = kind[j]
      BY <1>2, <1>3, <1>5
    <2>2. /\ kind[j] # "snapshot"
          /\ read[j] \in Lines /\ read[j].from <= read[j].to /\ read[j].to <= high[PaneOf(j)]
          /\ Span(read[j]) <= left[j] - blank
          /\ read[j].to = high[PaneOf(j)] =>
                /\ read[j].from >= low[PaneOf(j)]
                /\ Limited(j) => read[j].from = low[PaneOf(j)]
      BY <2>1 DEF ReadsTrue
    <2> QED
      BY <2>1, <2>2
  <1>6. ASSUME NEW i \in Handlers, NEW j \in Handlers, HasRead(i)', HasRead(j)', PaneOf(i)' = PaneOf(j)',
               read'[i].to = read'[j].to, Limited(i)'
        PROVE  read'[j].from >= read'[i].from
    <2>1. /\ HasRead(i) /\ read'[i] = read[i] /\ PaneOf(i)' = PaneOf(i) /\ Limited(i)' = Limited(i)
          /\ HasRead(j) /\ read'[j] = read[j] /\ PaneOf(j)' = PaneOf(j)
      BY <1>3, <1>6
    <2> QED
      BY <1>6, <2>1 DEF ReadsTrue
  <1> QED
    BY <1>1, <1>4, <1>5, <1>6 DEF ReadsTrue, Span

LEMMA PanelUntouched ==
    ASSUME PanelInv, UNCHANGED <<panelVars, selected, low, high, blank>>,
           \A j \in Handlers : KeepsRead(j) /\ (fresh'[j] => fresh[j])
    PROVE  PanelInv'
  <1>0. UNCHANGED <<panel, mark, shown, moved, gap, selected, low, high, blank>>
    BY DEF panelVars
  <1>1. ReadsTrue'
    BY ReadsKept DEF PanelInv
  <1>2. FreshReads'
    <2> SUFFICES ASSUME NEW j \in Handlers, fresh'[j], kind'[j] # "snapshot", Reading(j)' \/ HasRead(j)'
                 PROVE  /\ target'[j] = selected'
                        /\ HasRead(j)' => read'[j].to >= mark'
                        /\ kind'[j] = "pageup" => panel' # None /\ MayTurn(panel) /\ left'[j] = SizeFor(panel)
      BY <1>0 DEF FreshReads, MayTurn, SizeFor, hasCachedOlderPage, Cached, latestPageLen
    <2>1. /\ fresh[j] /\ (Reading(j) \/ HasRead(j)) /\ kind'[j] = kind[j] /\ target'[j] = target[j]
          /\ left'[j] = left[j]
      BY DEF KeepsRead, Reading, HasRead
    <2>2. HasRead(j)' => HasRead(j) /\ read'[j] = read[j]
      BY DEF KeepsRead, HasRead
    <2> QED
      BY <1>0, <2>1, <2>2 DEF PanelInv, FreshReads
  <1>3. PanelOfSelection'
    BY <1>0 DEF PanelInv, PanelOfSelection, PanelSized, Cached
  <1>4. PagesMeet'
    <2>1. panel # None /\ Closed(panel) => Closed(panel)'
      BY <1>0 DEF Closed, KeepsRead, HasRead, PaneOf
    <2> QED
      BY <1>0, <2>1 DEF PanelInv, PagesMeet, PageFrom, PageTo, Larger, latestPageLen, Full, AtLimit, Cached, Before
  <1> QED
    BY <1>1, <1>2, <1>3, <1>4 DEF PanelInv

LEMMA PanelReset ==
    ASSUME TypeOK, PanelInv, NEW t \in Targets \cup {None}, selected' = t, resetPanelLocked(t),
           UNCHANGED <<low, high, blank>>, \A j \in Handlers : KeepsRead(j)
    PROVE  PanelInv'
  <1>1. ReadsTrue'
    BY ReadsKept DEF PanelInv
  <1>2. FreshReads'
    BY DEF resetPanelLocked, Stale, FreshReads
  <1>3. PanelOfSelection'
    <2>1. t # None => Newest(t) = high[t[1]] /\ high[t[1]] \in Nat
      BY TargetIsPair DEF Newest, TypeOK
    <2> QED
      BY <2>1 DEF resetPanelLocked, PanelOfSelection
  <1>4. PagesMeet'
    BY DEF resetPanelLocked, PagesMeet
  <1> QED
    BY <1>1, <1>2, <1>3, <1>4 DEF PanelInv

(* An expansion of the current panel that turns a page, while the terminal *)
(* prints nothing.                                                         *)
LEMMA TurnMeets ==
    ASSUME TypeOK, PanelInv, NEW h \in Handlers, pc[h] = "apply", kind[h] = "pageup", Matches(h),
           panel # None, Expandable(panel, read[h]), ~moved, read[h].to <= panel.last,
           NEW b, b = Expanded(panel, read[h]), b.page # panel.page
    PROVE  /\ PageTo(b) >= shown - 1 /\ PageTo(b) >= PageFrom(b)
           /\ Cached(b) - b.newest > Before(b) - PageSize
           /\ Full(b) \/ AtLimit(b) \/ Closed(b)
  <1> DEFINE P == panel
             r == read[h]
  <1>1. /\ P \in Panels /\ PanelSized(P) /\ MayTurn(P) /\ left[h] = SizeFor(P)
        /\ r \in Lines /\ target[h] = selected /\ HasRead(h) /\ P.key = selected
    BY ExpansionIs DEF PanelInv, HasRead, PanelOfSelection
  <1>2. /\ b.last = P.last /\ b.newest = P.newest /\ b.first = Prefix(P, r) /\ b.first <= P.first
        /\ b.key = P.key /\ b.page = P.page + 1 /\ TurnsPage(P, r) /\ b \in Panels /\ PanelSized(b)
        /\ b.first \in Nat
    BY <1>1, ExpandedIs DEF PanelSized
  <1>3. /\ r.from \in Nat /\ r.from > 0 /\ r.to \in Nat /\ shown \in Nat
    BY <1>1, ServiceAssumption DEF Lines, TypeOK
  <1>4. /\ P.first \in Nat /\ P.last \in Nat /\ P.page \in Nat /\ P.newest \in Nat /\ P.newest > 0
        /\ PageSize \in Nat /\ PageSize > 0 /\ MaxLines \in Nat /\ MaxLines >= PageSize
        /\ blank \in Nat /\ blank < PageSize
        /\ Before(P) \in Nat /\ Before(P) >= 0 /\ (P.page + 2) * PageSize = Before(P) + 2 * PageSize
    BY <1>1, PageNumbers
  <1>5. Before(b) = Before(P) + PageSize /\ (b.page + 2) * PageSize = Before(P) + 3 * PageSize
    <2>1. Before(b) = P.page * PageSize + PageSize
      BY <1>2, <1>4, Products DEF Before
    <2>2. (b.page + 2) * PageSize = Before(b) + 2 * PageSize
      BY <1>2, PageNumbers
    <2> QED
      BY <1>4, <2>1, <2>2 DEF Before
  <1>6. P.newest <= PageSize - blank /\ P.first <= P.last /\ P.last - P.first + 1 <= MaxLines
    BY <1>1 DEF PanelSized, Cached
  <1>7. r.from <= P.first /\ r.to = P.last /\ Anchored(P, r)
    <2>1. CASE Anchored(P, r)
      <3>1. r.from <= P.first /\ P.last <= r.to
        BY <2>1 DEF Anchored
      <3>2. r.to = P.last
        BY <1>3, <1>4, <3>1
      <3> QED
        BY <2>1, <3>1, <3>2
    <2>2. CASE ~Anchored(P, r)
      <3>1. RolledForward(P, r)
        BY <2>2 DEF Expandable
      <3> QED
        BY <1>3, <1>4, <3>1 DEF RolledForward, Cached
    <2> QED
      BY <2>1, <2>2
  <1>8. b.first = Larger(r.from, P.last - MaxLines + 1)
    BY <1>2, <1>7 DEF Prefix
  <1>9. /\ PageFrom(b) = Larger(b.first, P.last - P.newest - Before(P) - PageSize + 1)
        /\ PageTo(b) = P.last - P.newest - Before(P)
    <2>1. b.page > 0
      BY <1>2, <1>4
    <2>2. PageTo(b) = b.last - b.newest - Before(b) + PageSize
      BY <1>2, <2>1, PageEnds
    <2>3. PageFrom(b) = Larger(b.first, b.last - b.newest - Before(b) + 1)
      BY <1>2, PageEnds
    <2>4. b.last - b.newest - Before(b) + PageSize = P.last - P.newest - Before(P)
      BY <1>2, <1>4, <1>5
    <2>5. b.last - b.newest - Before(b) + 1 = P.last - P.newest - Before(P) - PageSize + 1
      BY <1>2, <1>4, <1>5
    <2> QED
      BY <2>2, <2>3, <2>4, <2>5
  <1>10. shown <= Larger(P.first, P.last - P.newest - Before(P) + 1)
    <2>1. shown <= PageFrom(P)
      BY DEF PanelInv, PagesMeet
    <2> QED
      BY <1>1, <2>1, PageEnds
  <1>11. \/ P.last - P.first + 1 - P.newest > Before(P)
         \/ /\ b.first < P.first /\ P.last - P.first + 1 - P.newest = Before(P)
            /\ Before(P) + 2 * PageSize <= MaxLines /\ ~hasCachedOlderPage(P)
    <2>0. hasCachedOlderPage(P) <=> P.last - P.first + 1 - P.newest > Before(P)
      BY <1>1, OlderPages
    <2>1. CASE hasCachedOlderPage(P)
      BY <2>0, <2>1
    <2>2. CASE ~hasCachedOlderPage(P)
      <3>1. b.first < P.first
        BY <1>2, <2>2 DEF TurnsPage
      <3>2. Before(P) + 2 * PageSize <= MaxLines
        BY <1>1, <1>4, <2>2 DEF MayTurn
      <3>3. ~AtLimit(P)
        BY <1>4, <3>2 DEF AtLimit
      <3>4. ~Closed(P)
        <4>1. Closed(P) => r.from >= P.first
          BY <1>1, <1>7 DEF Closed, PaneOf
        <4> QED
          BY <1>3, <1>4, <1>8, <3>1, <4>1 DEF Larger
      <3>5. Full(P)
        BY <3>3, <3>4 DEF PanelInv, PagesMeet
      <3>6. P.last - P.first + 1 >= P.newest + Before(P)
        BY <3>5 DEF Full, Cached
      <3>7. ~(P.last - P.first + 1 - P.newest > Before(P))
        BY <2>0, <2>2
      <3>8. P.last - P.first + 1 - P.newest = Before(P)
        BY <1>4, <3>6, <3>7
      <3> QED
        BY <2>2, <3>1, <3>2, <3>8
    <2> QED
      BY <2>1, <2>2
  <1>12. /\ b.first <= P.last - P.newest - Before(P)
         /\ shown <= P.last - P.newest - Before(P) + 1
    BY <1>2, <1>3, <1>4, <1>10, <1>11 DEF Larger
  <1>13. PageTo(b) >= shown - 1 /\ PageTo(b) >= PageFrom(b)
    BY <1>2, <1>3, <1>4, <1>9, <1>12 DEF Larger
  <1>14. Cached(b) - b.newest > Before(b) - PageSize
    BY <1>2, <1>4, <1>5, <1>12 DEF Cached
  <1>15. Full(b) \/ AtLimit(b) \/ Closed(b)
    <2> SUFFICES ASSUME ~AtLimit(b) PROVE Full(b) \/ Closed(b)
      OBVIOUS
    <2>1. Before(P) + 3 * PageSize <= MaxLines
      BY <1>4, <1>5 DEF AtLimit
    <2>2. ASSUME P.last - b.first + 1 >= P.newest + Before(P) + PageSize
          PROVE  Full(b)
      BY <1>2, <1>4, <1>5, <2>2 DEF Full, Cached
    <2>3. CASE b.first # r.from
      <3>1. b.first = P.last - MaxLines + 1
        BY <1>8, <2>3 DEF Larger
      <3> QED
        BY <1>4, <1>6, <2>1, <2>2, <3>1
    <2>4. CASE b.first = r.from /\ ~Limited(h)
      <3>1. Span(r) = left[h] - blank
        BY <2>4 DEF Limited
      <3>2. left[h] \in Nat /\ left[h] >= Before(P) + 2 * PageSize
        <4>1. CASE hasCachedOlderPage(P)
          <5>1. Smaller((P.page + 2) * PageSize, MaxLines) = Before(P) + 2 * PageSize
            BY <1>4, <2>1 DEF Smaller
          <5>2. left[h] = Larger(Before(P) + 2 * PageSize, Cached(P))
            BY <1>1, <4>1, <5>1 DEF SizeFor
          <5> QED
            BY <1>4, <5>2 DEF Larger, Cached
        <4>2. CASE ~hasCachedOlderPage(P)
          BY <1>1, <1>4, <4>2 DEF SizeFor
        <4> QED
          BY <4>1, <4>2
      <3> QED
        BY <1>3, <1>4, <1>6, <1>7, <2>2, <2>4, <3>1, <3>2 DEF Span
    <2>5. CASE b.first = r.from /\ Limited(h)
      <3>1. PaneOf(h) = b.key[1]
        BY <1>1, <1>2 DEF PaneOf
      <3>2. high[b.key[1]] = b.last => r.from = low[b.key[1]]
        BY <1>1, <1>2, <1>7, <2>5, <3>1 DEF PanelInv, ReadsTrue
      <3>3. low[b.key[1]] \in Nat
        BY <1>1, <1>2, TargetIsPair, ServiceAssumption DEF PanelSized, Panels, TypeOK
      <3>4. ASSUME NEW j \in Handlers, HasRead(j), PaneOf(j) = b.key[1], read[j].to = b.last
            PROVE  read[j].from >= b.first
        BY <1>1, <1>2, <1>7, <2>5, <3>1, <3>4 DEF PanelInv, ReadsTrue
      <3>5. Closed(b)
        BY <2>5, <3>2, <3>3, <3>4 DEF Closed
      <3> QED
        BY <3>5
    <2> QED
      BY <2>3, <2>4, <2>5
  <1> QED
    BY <1>13, <1>14, <1>15

(* No call under way sees the panel any more, and it holds what it shows. *)
LEMMA PanelShown ==
    ASSUME TypeOK, PanelInv, UNCHANGED <<low, high, blank, selected>>, Stale, \A j \in Handlers : KeepsRead(j),
           NEW b, panel' = b, PanelSized(b), b.key = selected, ~gap',
           mark' \in Nat, mark' <= b.last, b.last <= high[b.key[1]],
           ~moved' => /\ shown' <= PageFrom(b)
                      /\ b.page > 0 => Cached(b) - b.newest > Before(b) - PageSize
                      /\ Full(b) \/ AtLimit(b) \/ Closed(b)
    PROVE  PanelInv'
  <1>1. ReadsTrue'
    BY ReadsKept DEF PanelInv
  <1>2. FreshReads'
    BY DEF Stale, FreshReads
  <1>3. b \in Panels /\ b.key \in Targets /\ b.key # None /\ high[b.key[1]] \in Nat
    <2>1. b \in Panels /\ b.key \in Targets
      BY DEF PanelSized, Panels
    <2> QED
      BY <2>1, TargetIsPair DEF TypeOK
  <1>4. PanelOfSelection'
    <2>1. mark' <= high[b.key[1]]
      BY <1>3, PageNumbers
    <2>2. PanelSized(panel)'
      BY DEF PanelSized, Cached
    <2> QED
      BY <2>1, <2>2 DEF PanelOfSelection
  <1>5. PagesMeet'
    <2>1. Closed(b) => Closed(panel)'
      BY DEF Closed, KeepsRead, HasRead, PaneOf
    <2>2. ~moved' => shown' <= PageFrom(panel)'
      BY DEF PageFrom, PageTo, Larger, latestPageLen
    <2>3. ~moved' => (panel'.page > 0 => Cached(panel)' - panel'.newest > Before(panel)' - PageSize)
      BY DEF Cached, Before
    <2>4. ~moved' => Full(panel)' \/ AtLimit(panel)' \/ Closed(panel)'
      BY <2>1 DEF Full, AtLimit, Cached, Before
    <2> QED
      BY <2>2, <2>3, <2>4 DEF PagesMeet
  <1> QED
    BY <1>1, <1>2, <1>4, <1>5 DEF PanelInv

LEMMA ReplyKeepsReads ==
    ASSUME TypeOK, NEW h \in Handlers, Moves(h), NoRead(h)
    PROVE  \A j \in Handlers : KeepsRead(j)
  <1> SUFFICES ASSUME NEW j \in Handlers PROVE KeepsRead(j)
    OBVIOUS
  <1>1. CASE j = h
    BY <1>1 DEF NoRead, KeepsRead
  <1>2. CASE j # h
    BY <1>2 DEF Moves, Touches, KeepsRead, Reading, HasRead
  <1> QED
    BY <1>1, <1>2

LEMMA QuietPanel ==
    ASSUME TypeOK, PanelInv, NEW h \in Handlers, CalmStep(h)
    PROVE  PanelInv'
  <1>1. \A j \in Handlers : KeepsRead(j)
    BY ReplyKeepsReads DEF CalmStep
  <1>2. UNCHANGED <<panelVars, fresh, selected, low, high, blank>>
    BY DEF CalmStep, Settled
  <1> QED
    BY <1>1, <1>2, PanelUntouched

LEMMA PanelOfRefresh ==
    ASSUME TypeOK, InUse, PanelInv, NEW h \in Handlers, applyRefresh(h)
    PROVE  PanelInv'
  <1>1. /\ pc[h] = "apply" /\ kind[h] # "pageup" /\ Reply(h) /\ UNCHANGED <<low, high, blank, planVars>>
        /\ selected' = selected /\ Validated = selected
    BY SelectionValid DEF applyRefresh, readQuiet, herdrVars, InUse
  <1>2. \A j \in Handlers : KeepsRead(j)
    BY <1>1, ReplyMoves, ReplyKeepsReads
  <1>3. CASE Matches(h)
    <2> DEFINE t == target[h]
               r == read[h]
               b == Refreshed(t, r)
    <2>1. /\ panel' = b /\ Stale /\ mark' = Larger(mark, r.to) /\ shown' = r.from
          /\ moved' = FALSE /\ gap' = FALSE
      BY <1>3 DEF applyRefresh, Rendered
    <2>2. r \in Lines /\ t \in Targets /\ PanelSized(b)
      BY <1>1, RefreshIs DEF PanelInv
    <2>3. t = selected /\ fresh[h]
      BY <1>1, <1>3 DEF Matches
    <2>4. r.to >= mark /\ r.to <= high[t[1]] /\ r.from <= r.to
      BY <1>1, <2>3 DEF PanelInv, FreshReads, ReadsTrue, HasRead, PaneOf
    <2>5. r.to \in Nat /\ r.from \in Nat /\ mark \in Nat
      BY <2>2, ServiceAssumption DEF Lines, TypeOK
    <2>6. mark' = r.to
      BY <2>1, <2>4, <2>5 DEF Larger
    <2>7. /\ b.key = t /\ b.first = r.from /\ b.last = r.to /\ b.page = 0 /\ b.newest = r.to - r.from + 1
      BY DEF Refreshed
    <2>8. b \in Panels
      BY <2>2 DEF PanelSized
    <2> HIDE DEF b
    <2>9. shown' <= PageFrom(b)
      <3>1. PageFrom(b) = Larger(b.first, b.last - b.newest - Before(b) + 1)
        BY <2>8, PageEnds
      <3> QED
        BY <2>1, <2>7, <2>8, <3>1, PageNumbers DEF Larger
    <2>10. Full(b)
      BY <2>5, <2>7, <2>8, PageNumbers DEF Full, Cached
    <2> QED
      BY <1>1, <1>2, <2>1, <2>2, <2>3, <2>4, <2>5, <2>6, <2>7, <2>8, <2>9, <2>10, PanelShown
  <1>4. CASE ~Matches(h)
    <2>1. UNCHANGED <<panelVars, fresh>>
      BY <1>4 DEF applyRefresh, KeepPanel
    <2> QED
      BY <1>1, <1>2, <2>1, PanelUntouched
  <1> QED
    BY <1>3, <1>4

(* A page up that found no older page only remembers so. *)
LEMMA PanelRemembers ==
    ASSUME TypeOK, PanelInv, UNCHANGED <<mark, shown, moved, gap, selected, low, high, blank>>, panel # None,
           NEW b, panel' = b, PanelSized(b), b.key = panel.key, b.first = panel.first, b.last = panel.last,
           b.page = panel.page, b.newest = panel.newest,
           \A j \in Handlers : KeepsRead(j) /\ (fresh'[j] => fresh[j])
    PROVE  PanelInv'
  <1>1. ReadsTrue'
    BY ReadsKept DEF PanelInv
  <1>2. FreshReads'
    <2>1. (MayTurn(panel)' <=> MayTurn(panel)) /\ SizeFor(panel)' = SizeFor(panel)
      BY DEF MayTurn, SizeFor, hasCachedOlderPage, Cached, latestPageLen
    <2> SUFFICES ASSUME NEW j \in Handlers, fresh'[j], kind'[j] # "snapshot", Reading(j)' \/ HasRead(j)'
                 PROVE  /\ target'[j] = selected'
                        /\ HasRead(j)' => read'[j].to >= mark'
                        /\ kind'[j] = "pageup" => panel' # None /\ MayTurn(panel)' /\ left'[j] = SizeFor(panel)'
      BY DEF FreshReads
    <2>2. /\ fresh[j] /\ (Reading(j) \/ HasRead(j)) /\ kind'[j] = kind[j] /\ target'[j] = target[j]
          /\ left'[j] = left[j]
      BY DEF KeepsRead, Reading, HasRead
    <2>3. HasRead(j)' => HasRead(j) /\ read'[j] = read[j]
      BY DEF KeepsRead, HasRead
    <2> QED
      BY <2>1, <2>2, <2>3, ServiceAssumption DEF PanelInv, FreshReads, PanelSized
  <1>3. PanelOfSelection'
    <2>1. PanelSized(panel)'
      BY DEF PanelSized, Cached
    <2> QED
      BY <2>1 DEF PanelInv, PanelOfSelection
  <1>4. PagesMeet'
    <2>1. Closed(panel) => Closed(panel)'
      BY DEF Closed, KeepsRead, HasRead, PaneOf
    <2>2. PageFrom(panel)' = PageFrom(panel)
      BY DEF PageFrom, PageTo, Larger, latestPageLen
    <2>3. /\ Cached(panel)' = Cached(panel) /\ Before(panel)' = Before(panel)
          /\ (Full(panel) => Full(panel)') /\ (AtLimit(panel) => AtLimit(panel)')
      BY DEF Full, AtLimit, Cached, Before
    <2> QED
      BY <2>1, <2>2, <2>3 DEF PanelInv, PagesMeet
  <1> QED
    BY <1>1, <1>2, <1>3, <1>4 DEF PanelInv

LEMMA PanelOfExpand ==
    ASSUME TypeOK, InUse, PanelInv, NEW h \in Handlers, applyExpand(h)
    PROVE  PanelInv'
  <1>1. /\ pc[h] = "apply" /\ kind[h] = "pageup" /\ Reply(h) /\ UNCHANGED <<low, high, blank, planVars>>
        /\ selected' = selected /\ Validated = selected
    BY SelectionValid DEF applyExpand, readQuiet, herdrVars, InUse
  <1>2. \A j \in Handlers : KeepsRead(j)
    BY <1>1, ReplyMoves, ReplyKeepsReads
  <1>3. CASE Matches(h) /\ panel # None /\ Expandable(panel, read[h])
    <2>1. /\ panel \in Panels /\ PanelSized(panel) /\ MayTurn(panel) /\ read[h] \in Lines
          /\ panel.key = selected /\ mark <= panel.last /\ panel.last <= high[panel.key[1]]
      BY <1>1, <1>3, ExpansionIs DEF PanelInv, PanelOfSelection
    <2>2. PICK b : b = Expanded(panel, read[h])
      OBVIOUS
    <2>3. /\ b.key = panel.key /\ b.last = panel.last /\ b.newest = panel.newest
          /\ b.first = Prefix(panel, read[h]) /\ b.first <= panel.first
          /\ b.page = panel.page + 1 <=> TurnsPage(panel, read[h])
          /\ b.page = panel.page \/ b.page = panel.page + 1
          /\ PanelSized(b)
      BY <1>3, <2>1, <2>2, ExpandedIs
    <2>4. CASE b.page # panel.page
      <3>1. /\ panel' = b /\ Stale
            /\ moved' = (moved \/ read[h].to > panel.last)
            /\ shown' = Smaller(shown, PageFrom(b))
            /\ gap' = (gap \/ (~moved' /\ (PageTo(b) < shown - 1 \/ PageTo(b) < PageFrom(b))))
            /\ mark' = mark
        BY <1>1, <1>3, <2>2, <2>4 DEF applyExpand, Rendered
      <3>2. b \in Panels /\ mark \in Nat /\ shown \in Nat /\ PageFrom(b) \in Int /\ PageTo(b) \in Int
        BY <2>3, PageEnds, ServiceAssumption DEF PanelSized, TypeOK
      <3>3. read[h].to \in Nat /\ panel.last \in Nat
        BY <2>1, PageNumbers, ServiceAssumption DEF Lines
      <3>4. ~moved' => ~moved /\ read[h].to <= panel.last
        <4>1. CASE moved \/ read[h].to > panel.last
          BY <3>1, <4>1
        <4>2. CASE ~(moved \/ read[h].to > panel.last)
          BY <3>3, <4>2
        <4> QED
          BY <4>1, <4>2
      <3>5. ~moved' => /\ PageTo(b) >= shown - 1 /\ PageTo(b) >= PageFrom(b)
                       /\ Cached(b) - b.newest > Before(b) - PageSize
                       /\ Full(b) \/ AtLimit(b) \/ Closed(b)
        BY <1>1, <1>3, <2>2, <2>4, <3>4, TurnMeets
      <3>6. ~gap'
        <4>1. ~(~moved' /\ (PageTo(b) < shown - 1 \/ PageTo(b) < PageFrom(b)))
          BY <3>2, <3>5
        <4>2. ~gap
          BY DEF PanelInv, PagesMeet
        <4> QED
          BY <3>1, <4>1, <4>2
      <3>7. shown' <= PageFrom(b)
        BY <3>1, <3>2 DEF Smaller
      <3> QED
        BY <1>1, <1>2, <2>1, <2>3, <3>1, <3>2, <3>5, <3>6, <3>7, PanelShown
    <2>5. CASE b.page = panel.page
      <3>1. panel' = b /\ UNCHANGED <<fresh, mark, shown, moved, gap>>
        BY <1>1, <1>3, <2>2, <2>5 DEF applyExpand
      <3>2. b.first = panel.first
        <4>1. panel.page \in Nat /\ panel.first \in Nat
          BY <2>1, PageNumbers
        <4>2. ~TurnsPage(panel, read[h])
          BY <2>3, <2>5, <4>1
        <4>3. b.first \in Nat
          BY <2>3, PageNumbers DEF PanelSized
        <4> QED
          BY <2>3, <4>1, <4>2, <4>3 DEF TurnsPage
      <3> QED
        BY <1>1, <1>2, <1>3, <2>3, <2>5, <3>1, <3>2, PanelRemembers
    <2> QED
      BY <2>4, <2>5
  <1>4. CASE Matches(h) /\ panel # None /\ ~Expandable(panel, read[h])
    <2>1. resetPanelLocked(selected) /\ selected \in Targets \cup {None}
      BY <1>1, <1>4 DEF applyExpand, TypeOK
    <2> QED
      BY <1>1, <1>2, <2>1, PanelReset
  <1>5. CASE ~Matches(h) \/ panel = None
    <2>1. UNCHANGED <<panelVars, fresh>>
      BY <1>5 DEF applyExpand, KeepPanel
    <2> QED
      BY <1>1, <1>2, <2>1, PanelUntouched
  <1> QED
    BY <1>3, <1>4, <1>5

LEMMA PanelOfPageDown ==
    ASSUME TypeOK, InUse, PanelInv, NEW h \in Handlers, PageDown(h)
    PROVE  PanelInv'
  <1>1. /\ UNCHANGED <<low, high, blank, mark, shown, moved, gap, pc, kind, target, read, left>>
        /\ selected' = selected
    BY SelectionValid DEF PageDown, readQuiet, herdrVars, callVars, InUse
  <1>2. \A j \in Handlers : KeepsRead(j)
    BY <1>1 DEF KeepsRead, Reading, HasRead
  <1>3. CASE Validated # None /\ panel # None /\ panel.page > 0
    <2>1. PICK b : b = [panel EXCEPT !.page = @ - 1]
      OBVIOUS
    <2>2. panel' = b /\ Stale
      BY <1>3, <2>1 DEF PageDown, Rendered
    <2>3. /\ panel \in Panels /\ PanelSized(panel) /\ panel.key = selected
          /\ mark <= panel.last /\ panel.last <= high[panel.key[1]]
      BY <1>3 DEF PanelInv, PanelOfSelection, PanelSized
    <2>4. /\ b.key = panel.key /\ b.first = panel.first /\ b.last = panel.last
          /\ b.newest = panel.newest /\ b.page = panel.page - 1
      BY <2>1, <2>3 DEF Panels
    <2>5. b \in Panels
      <3>1. panel.page \in 0..MaxLines /\ MaxLines \in Nat
        BY <2>3, ServiceAssumption DEF Panels
      <3>2. panel.page - 1 \in 0..MaxLines
        BY <1>3, <3>1
      <3> QED
        BY <2>1, <2>3, <3>2 DEF Panels
    <2>6. PanelSized(b)
      BY <2>3, <2>4, <2>5 DEF PanelSized, Cached
    <2>7. Before(b) = Before(panel) - PageSize
      BY <2>3, <2>4, PageNumbers DEF Before
    <2>8. mark \in Nat /\ shown \in Nat
      BY ServiceAssumption DEF TypeOK
    <2>9. ~moved => /\ shown <= PageFrom(panel)
                    /\ Cached(panel) - panel.newest > Before(panel) - PageSize
      BY <1>3 DEF PanelInv, PagesMeet
    <2>10. ASSUME ~moved
           PROVE  /\ shown <= PageFrom(b)
                  /\ Cached(b) - b.newest > Before(b) - PageSize
                  /\ Full(b)
      <3>1. PageFrom(panel) = Larger(panel.first, panel.last - panel.newest - Before(panel) + 1)
        BY <2>3, PageEnds
      <3>2. PageFrom(b) = Larger(b.first, b.last - b.newest - Before(b) + 1)
        BY <2>5, PageEnds
      <3>3. /\ panel.first \in Nat /\ panel.last \in Nat /\ panel.newest \in Nat /\ PageSize \in Nat
            /\ PageSize > 0 /\ Before(panel) \in Nat
        BY <2>3, PageNumbers
      <3>4. shown <= PageFrom(b)
        BY <2>4, <2>7, <2>8, <2>9, <2>10, <3>1, <3>2, <3>3 DEF Larger
      <3>5. Cached(b) - b.newest > Before(b) - PageSize
        BY <2>4, <2>7, <2>9, <2>10, <3>3 DEF Cached
      <3>6. Full(b)
        BY <2>4, <2>7, <2>9, <2>10, <3>3 DEF Cached, Full
      <3> QED
        BY <3>4, <3>5, <3>6
    <2>11. ~gap'
      BY <1>1 DEF PanelInv, PagesMeet
    <2> QED
      BY <1>1, <1>2, <2>2, <2>3, <2>4, <2>6, <2>8, <2>10, <2>11, PanelShown
  <1>4. CASE ~(Validated # None /\ panel # None /\ panel.page > 0)
    <2>1. UNCHANGED <<panelVars, fresh>>
      BY <1>1, <1>4 DEF PageDown, panelVars
    <2> QED
      BY <1>1, <1>2, <2>1, PanelUntouched
  <1> QED
    BY <1>3, <1>4

LEMMA PanelOfHerdr ==
    ASSUME TypeOK, PanelInv, NEW p \in Panes, ChangeOccupant(p) \/ PrintLine(p)
    PROVE  PanelInv'
  <1>1. UNCHANGED <<blank, selected, panel, mark, shown, moved, gap, fresh, pc, kind, target, read, left>>
    BY DEF ChangeOccupant, PrintLine, selectionVars, panelVars, callVars
  <1>2. \A j \in Handlers : KeepsRead(j)
    BY <1>1 DEF KeepsRead, Reading, HasRead
  <1>3. CASE ChangeOccupant(p)
    BY <1>1, <1>2, <1>3, PanelUntouched DEF ChangeOccupant, panelVars
  <1>4. CASE PrintLine(p)
    <2>1. /\ low \in [Panes -> 1..MaxPrinted] /\ high \in [Panes -> 1..MaxPrinted] /\ MaxPrinted \in Nat
          /\ mark \in Nat
      BY ServiceAssumption DEF TypeOK
    <2>2. /\ high' = [high EXCEPT ![p] = @ + 1]
          /\ \E l \in {low[p], high[p] + 1} : low' = [low EXCEPT ![p] = l]
      BY <1>4 DEF PrintLine
    <2>3. ASSUME NEW q \in Panes
          PROVE  /\ high[q] \in Nat /\ high[q] <= high'[q] /\ high'[q] \in Nat
                 /\ high'[q] = high[q] => q # p /\ low'[q] = low[q]
      BY <2>1, <2>2
    <2>4. \A q \in Panes : low'[q] <= high'[q]
      <3>1. \A q \in Panes : low[q] <= high[q]
        BY DEF PanelInv, ReadsTrue
      <3> QED
        BY <2>1, <2>2, <3>1
    <2>5. ReadsTrue'
      <3>1. \A j \in Handlers : /\ Reading(j)' <=> Reading(j)
                                /\ HasRead(j)' <=> HasRead(j)
                                /\ Limited(j)' <=> Limited(j)
                                /\ PaneOf(j)' = PaneOf(j)
        BY <1>1 DEF Reading, HasRead, Limited, Span, PaneOf
      <3>2. ASSUME NEW j \in Handlers, HasRead(j)
            PROVE  /\ read[j] \in Lines /\ read[j].from <= read[j].to /\ read[j].to <= high'[PaneOf(j)]
                   /\ Span(read[j]) <= left[j] - blank /\ kind[j] # "snapshot"
                   /\ read[j].to = high'[PaneOf(j)] =>
                         /\ read[j].from >= low'[PaneOf(j)]
                         /\ Limited(j) => read[j].from = low'[PaneOf(j)]
        <4>1. /\ read[j] \in Lines /\ read[j].from <= read[j].to /\ read[j].to <= high[PaneOf(j)]
              /\ Span(read[j]) <= left[j] - blank /\ kind[j] # "snapshot"
              /\ read[j].to = high[PaneOf(j)] =>
                    /\ read[j].from >= low[PaneOf(j)]
                    /\ Limited(j) => read[j].from = low[PaneOf(j)]
          BY <3>2 DEF PanelInv, ReadsTrue
        <4>2. PaneOf(j) \in Panes
          BY <3>2, TargetIsPair DEF PanelInv, ReadsTrue, PaneOf
        <4>3. read[j].to \in Nat
          BY <4>1, <2>1 DEF Lines
        <4>4. /\ read[j].to <= high'[PaneOf(j)]
              /\ read[j].to = high'[PaneOf(j)] => high'[PaneOf(j)] = high[PaneOf(j)]
          BY <2>3, <4>1, <4>2, <4>3
        <4> QED
          BY <2>3, <4>1, <4>2, <4>4
      <3>3. \A i, j \in Handlers :
              /\ HasRead(i) /\ HasRead(j) /\ PaneOf(i) = PaneOf(j)
              /\ read[i].to = read[j].to /\ Limited(i)
              => read[j].from >= read[i].from
        BY DEF PanelInv, ReadsTrue
      <3>4. \A j \in Handlers : Reading(j) \/ HasRead(j) =>
              /\ target[j] \in Targets
              /\ left[j] >= PageSize
              /\ kind[j] # "pageup" => left[j] = PageSize
        BY DEF PanelInv, ReadsTrue
      <3> QED
        BY <1>1, <2>4, <3>1, <3>2, <3>3, <3>4 DEF ReadsTrue, Span
    <2>6. FreshReads'
      BY <1>1 DEF PanelInv, FreshReads, Reading, HasRead, MayTurn, SizeFor, hasCachedOlderPage, Cached, latestPageLen
    <2>7. PanelOfSelection'
      <3>1. selected # None => mark <= high'[selected[1]]
        <4>1. selected # None => selected \in Targets /\ mark <= high[selected[1]]
          BY DEF PanelInv, PanelOfSelection, TypeOK
        <4> QED
          BY <2>1, <2>3, <4>1, TargetIsPair
      <3>2. ASSUME panel # None
            PROVE  panel.last <= high'[panel.key[1]]
        <4>1. panel \in Panels /\ panel.last <= high[panel.key[1]]
          BY <3>2 DEF PanelInv, PanelOfSelection, PanelSized
        <4>2. panel.key[1] \in Panes /\ panel.last \in Nat
          BY <4>1, TargetIsPair, PageNumbers DEF Panels
        <4> QED
          BY <2>3, <4>1, <4>2
      <3>3. PanelSized(panel)' <=> PanelSized(panel)
        BY <1>1 DEF PanelSized, Cached
      <3> QED
        BY <1>1, <3>1, <3>2, <3>3 DEF PanelInv, PanelOfSelection
    <2>8. PagesMeet'
      <3>1. ASSUME panel # None, Closed(panel)
            PROVE  Closed(panel)'
        <4>1. panel \in Panels /\ panel.last <= high[panel.key[1]]
          BY <3>1 DEF PanelInv, PanelOfSelection, PanelSized
        <4>2. panel.key[1] \in Panes /\ panel.last \in Nat
          BY <4>1, TargetIsPair, PageNumbers DEF Panels
        <4>3. high'[panel.key[1]] = panel.last => panel.first <= low'[panel.key[1]]
          BY <2>3, <3>1, <4>1, <4>2 DEF Closed
        <4> QED
          BY <1>1, <3>1, <4>3 DEF Closed, HasRead, PaneOf
      <3> QED
        BY <1>1, <3>1 DEF PanelInv, PagesMeet, PageFrom, PageTo, Larger, latestPageLen, Full, AtLimit, Cached, Before
    <2> QED
      BY <2>5, <2>6, <2>7, <2>8 DEF PanelInv
  <1> QED
    BY <1>3, <1>4

(* A call captures a target and the panel it sees. *)
LEMMA PanelOfCapture ==
    ASSUME TypeOK, InUse, PanelInv, NEW h \in Handlers, Capture(h) \/ Resolve(h)
    PROVE  PanelInv'
  <1>0. /\ UNCHANGED <<low, high, blank, planVars, panel, mark, shown, moved, gap>>
        /\ selected' = selected /\ Validated = selected
    BY SelectionValid DEF Capture, Resolve, readQuiet, herdrVars, panelVars, selectionVars, InUse
  <1>1. CASE UNCHANGED fresh /\ Reply(h)
    BY <1>0, <1>1, ReplyMoves, ReplyKeepsReads, PanelUntouched DEF panelVars
  <1>2. ASSUME pc'[h] \in {"read", "geometry"}, Moves(h), target'[h] \in Targets,
               left'[h] \in Nat /\ left'[h] >= PageSize, kind'[h] = kind[h],
               kind'[h] # "pageup" => left'[h] = PageSize,
               \A j \in Handlers \ {h} : fresh'[j] = fresh[j],
               kind'[h] # "snapshot" =>
                  /\ target'[h] = selected
                  /\ kind'[h] = "pageup" => panel # None /\ MayTurn(panel) /\ left'[h] = SizeFor(panel)
        PROVE  PanelInv'
    <2>1. /\ Reading(h)' /\ ~HasRead(h)'
          /\ \A j \in Handlers \ {h} :
               /\ pc'[j] = pc[j] /\ kind'[j] = kind[j] /\ target'[j] = target[j]
               /\ read'[j] = read[j] /\ left'[j] = left[j] /\ fresh'[j] = fresh[j]
      BY <1>2 DEF Moves, Touches, Reading, HasRead
    <2>2. ReadsTrue'
      <3>1. ASSUME NEW j \in Handlers \ {h}
            PROVE  /\ Reading(j)' <=> Reading(j)
                   /\ HasRead(j)' <=> HasRead(j)
                   /\ Limited(j)' <=> Limited(j)
                   /\ PaneOf(j)' = PaneOf(j)
        BY <1>0, <2>1 DEF Reading, HasRead, Limited, Span, PaneOf
      <3>2. \A j \in Handlers : (Reading(j) \/ HasRead(j))' =>
              /\ target'[j] \in Targets
              /\ left'[j] >= PageSize
              /\ kind'[j] # "pageup" => left'[j] = PageSize
        BY <1>2, <2>1, <3>1 DEF PanelInv, ReadsTrue
      <3>3. ASSUME NEW j \in Handlers, HasRead(j)'
            PROVE  /\ kind'[j] # "snapshot"
                   /\ read'[j] \in Lines /\ read'[j].from <= read'[j].to /\ read'[j].to <= high'[PaneOf(j)']
                   /\ Span(read'[j]) <= left'[j] - blank'
                   /\ read'[j].to = high'[PaneOf(j)'] =>
                         /\ read'[j].from >= low'[PaneOf(j)']
                         /\ Limited(j)' => read'[j].from = low'[PaneOf(j)']
        <4>1. j # h
          BY <2>1, <3>3
        <4>2. HasRead(j) /\ PaneOf(j)' = PaneOf(j) /\ (Limited(j)' <=> Limited(j))
          BY <3>1, <3>3, <4>1
        <4>3. /\ kind[j] # "snapshot"
              /\ read[j] \in Lines /\ read[j].from <= read[j].to /\ read[j].to <= high[PaneOf(j)]
              /\ Span(read[j]) <= left[j] - blank
              /\ read[j].to = high[PaneOf(j)] =>
                    /\ read[j].from >= low[PaneOf(j)]
                    /\ Limited(j) => read[j].from = low[PaneOf(j)]
          BY <4>2 DEF PanelInv, ReadsTrue
        <4> QED
          BY <1>0, <2>1, <4>1, <4>2, <4>3
      <3>4. ASSUME NEW i \in Handlers, NEW j \in Handlers, HasRead(i)', HasRead(j)', PaneOf(i)' = PaneOf(j)',
                   read'[i].to = read'[j].to, Limited(i)'
            PROVE  read'[j].from >= read'[i].from
        <4>1. i # h /\ j # h
          BY <2>1, <3>4
        <4> QED
          BY <2>1, <3>1, <3>4, <4>1 DEF PanelInv, ReadsTrue
      <3>5. \A p \in Panes : low'[p] <= high'[p]
        BY <1>0 DEF PanelInv, ReadsTrue
      <3> QED
        BY <3>2, <3>3, <3>4, <3>5 DEF ReadsTrue, Span
    <2>3. FreshReads'
      <3> SUFFICES ASSUME NEW j \in Handlers, fresh'[j], kind'[j] # "snapshot", Reading(j)' \/ HasRead(j)'
                   PROVE  /\ target'[j] = selected'
                          /\ HasRead(j)' => read'[j].to >= mark'
                          /\ kind'[j] = "pageup" => panel' # None /\ MayTurn(panel)' /\ left'[j] = SizeFor(panel)'
        BY DEF FreshReads
      <3>1. (MayTurn(panel)' <=> MayTurn(panel)) /\ SizeFor(panel)' = SizeFor(panel)
        BY <1>0 DEF MayTurn, SizeFor, hasCachedOlderPage, Cached, latestPageLen
      <3>2. CASE j = h
        BY <1>0, <1>2, <2>1, <3>1, <3>2
      <3>3. CASE j # h
        <4>1. fresh[j] /\ kind[j] # "snapshot" /\ (Reading(j) \/ HasRead(j)) /\ (HasRead(j)' => HasRead(j))
          BY <2>1, <3>3 DEF Reading, HasRead
        <4> QED
          BY <1>0, <2>1, <3>1, <3>3, <4>1 DEF PanelInv, FreshReads
      <3> QED
        BY <3>2, <3>3
    <2>4. PanelOfSelection'
      BY <1>0 DEF PanelInv, PanelOfSelection, PanelSized, Cached
    <2>5. PagesMeet'
      <3>1. Closed(panel) => Closed(panel)'
        BY <1>0, <2>1 DEF Closed, HasRead, PaneOf
      <3> QED
        BY <1>0, <3>1 DEF PanelInv, PagesMeet, PageFrom, PageTo, Larger, latestPageLen, Full, AtLimit, Cached, Before
    <2> QED
      BY <2>2, <2>3, <2>4, <2>5 DEF PanelInv
  <1>3. PageSize \in Nat /\ Moves(h)
    BY ReadsMove, ServiceAssumption
  <1>4. CASE Capture(h) /\ Readable(h)
    <2>1. /\ target' = [target EXCEPT ![h] = selected]
          /\ left' = [left EXCEPT ![h] = IF kind[h] = "pageup" THEN NextReadSize(panel) ELSE PageSize]
          /\ fresh' = [fresh EXCEPT ![h] = TRUE]
          /\ UNCHANGED kind /\ selected # None /\ \E step \in {"read", "geometry"} : Goto(h, step)
          /\ kind[h] = "pageup" => panel # None /\ NextReadSize(panel) # 0
      BY <1>0, <1>4 DEF Capture, Readable
    <2>2. pc'[h] \in {"read", "geometry"}
      BY <2>1, HandlerIsNotSupervisor DEF Goto, TypeOK
    <2>3. target'[h] = selected /\ selected \in Targets /\ (\A j \in Handlers \ {h} : fresh'[j] = fresh[j])
      BY <2>1 DEF TypeOK
    <2>4. left'[h] = IF kind[h] = "pageup" THEN NextReadSize(panel) ELSE PageSize
      BY <2>1 DEF TypeOK
    <2>5. ASSUME kind[h] = "pageup"
          PROVE  /\ panel # None /\ MayTurn(panel) /\ left'[h] = SizeFor(panel)
                 /\ left'[h] \in Nat /\ left'[h] >= PageSize
      <3>1. panel \in Panels /\ PanelSized(panel) /\ panel # None /\ NextReadSize(panel) # 0
        BY <2>1, <2>5 DEF PanelInv, PanelOfSelection, PanelSized
      <3>2. MayTurn(panel) /\ NextReadSize(panel) = SizeFor(panel) /\ SizeFor(panel) \in Nat /\ SizeFor(panel) >= PageSize
        BY <3>1, NextSizes DEF PanelSized
      <3> QED
        BY <2>4, <2>5, <3>1, <3>2
    <2>6. kind[h] # "pageup" => left'[h] = PageSize
      BY <2>4
    <2>7. left'[h] \in Nat /\ left'[h] >= PageSize
      BY <1>3, <2>5, <2>6
    <2> QED
      BY <1>2, <1>3, <2>1, <2>2, <2>3, <2>5, <2>6, <2>7
  <1>5. CASE /\ Resolve(h) /\ target[h] \in Current /\ left' = [left EXCEPT ![h] = PageSize]
             /\ \E step \in {"read", "geometry"} : Goto(h, step)
             /\ UNCHANGED <<leaseVars, kind, target, read, accepted>>
    <2>1. kind[h] = "snapshot" /\ UNCHANGED fresh
      BY <1>5 DEF Resolve, InUse
    <2>2. pc'[h] \in {"read", "geometry"} /\ left'[h] = PageSize /\ target'[h] \in Targets /\ kind'[h] = kind[h]
      BY <1>5, HandlerIsNotSupervisor DEF Goto, TypeOK, Current
    <2> QED
      BY <1>2, <1>3, <2>1, <2>2
  <1> QED
    BY <1>1, <1>4, <1>5 DEF Capture, Resolve

(* The read returns: it ends where the terminal does. *)
LEMMA PanelOfRead ==
    ASSUME TypeOK, InUse, PanelInv, NEW h \in Handlers, ReadRecent(h)
    PROVE  PanelInv'
  <1>0. UNCHANGED <<low, high, blank, panelVars, fresh, selected, panel, mark, shown, moved, gap>>
    BY DEF ReadRecent, inputQuiet, herdrVars, panelVars, selectionVars
  <1>1. CASE (Reply(h) /\ UNCHANGED planVars) \/ (Release(h, "expected") /\ UNCHANGED <<callVars, snap>>)
    <2>1. \A j \in Handlers : KeepsRead(j)
      BY <1>1, ReplyMoves, ReleaseMoves, ReplyKeepsReads
    <2> QED
      BY <1>0, <2>1, PanelUntouched
  <1>2. CASE /\ kind[h] # "snapshot" /\ read' = [read EXCEPT ![h] = Recent(target[h][1], left[h])]
             /\ Goto(h, "apply") /\ UNCHANGED <<kind, target, left, accepted, planVars>>
    <2> DEFINE p == PaneOf(h)
               r == read'[h]
    <2>1. /\ Reading(h) /\ HasRead(h)'
          /\ \A j \in Handlers \ {h} : pc'[j] = pc[j] /\ read'[j] = read[j]
      BY <1>2, HandlerIsNotSupervisor DEF ReadRecent, Goto, Reading, HasRead, TypeOK
    <2>2. /\ target[h] \in Targets /\ p \in Panes /\ left[h] >= PageSize
          /\ kind[h] # "pageup" => left[h] = PageSize
          /\ low[p] <= high[p]
      BY <2>1, TargetIsPair DEF PanelInv, ReadsTrue, PaneOf
    <2>3. /\ low[p] \in 1..MaxPrinted /\ high[p] \in 1..MaxPrinted /\ MaxPrinted \in Nat /\ left[h] \in Nat
          /\ blank \in Nat /\ blank < PageSize /\ PageSize \in Nat
      BY <2>2, ServiceAssumption DEF TypeOK
    <2>4. r = [from |-> Larger(low[p], high[p] + blank - left[h] + 1), to |-> high[p]]
      BY <1>2 DEF Recent, PaneOf, TypeOK
    <2>5. /\ r \in Lines /\ r.to = high[p] /\ r.from <= r.to /\ r.from >= low[p]
          /\ Span(r) <= left[h] - blank
          /\ Span(r) # left[h] - blank => r.from = low[p]
      <3>1. r.to = high[p] /\ r.from = Larger(low[p], high[p] + blank - left[h] + 1)
        BY <2>4
      <3>2. r \in Lines
        BY <2>2, <2>3, <2>4 DEF Lines, Larger
      <3> HIDE DEF p, r
      <3>3. CASE low[p] > high[p] + blank - left[h] + 1
        BY <2>2, <2>3, <3>1, <3>2, <3>3 DEF Larger, Span
      <3>4. CASE ~(low[p] > high[p] + blank - left[h] + 1)
        BY <2>2, <2>3, <3>1, <3>2, <3>4 DEF Larger, Span
      <3> QED
        BY <3>3, <3>4
    <2> HIDE DEF r, p
    <2>6. ASSUME NEW j \in Handlers
          PROVE  /\ PaneOf(j)' = PaneOf(j) /\ kind'[j] = kind[j] /\ target'[j] = target[j] /\ left'[j] = left[j]
                 /\ Reading(j)' => Reading(j)
                 /\ j # h => /\ HasRead(j)' <=> HasRead(j)
                             /\ Limited(j)' <=> Limited(j)
                             /\ read'[j] = read[j]
      BY <1>0, <1>2, <2>1 DEF PaneOf, Reading, HasRead, Limited, Span
    <2>7. /\ PaneOf(h)' = p /\ read'[h] = r /\ (Limited(h)' <=> Span(r) # left[h] - blank)
      BY <1>0, <1>2 DEF PaneOf, Limited, Span, p, r
    <2>8. ReadsTrue'
      <3>1. \A q \in Panes : low'[q] <= high'[q]
        BY <1>0 DEF PanelInv, ReadsTrue
      <3>2. ASSUME NEW j \in Handlers, Reading(j)' \/ HasRead(j)'
            PROVE  /\ target'[j] \in Targets
                   /\ left'[j] >= PageSize
                   /\ kind'[j] # "pageup" => left'[j] = PageSize
        <4>1. Reading(j) \/ HasRead(j)
          BY <2>1, <2>6, <3>2
        <4> QED
          BY <2>6, <4>1 DEF PanelInv, ReadsTrue
      <3>3. ASSUME NEW j \in Handlers, HasRead(j)'
            PROVE  /\ kind'[j] # "snapshot"
                   /\ read'[j] \in Lines /\ read'[j].from <= read'[j].to /\ read'[j].to <= high'[PaneOf(j)']
                   /\ Span(read'[j]) <= left'[j] - blank'
                   /\ read'[j].to = high'[PaneOf(j)'] =>
                         /\ read'[j].from >= low'[PaneOf(j)']
                         /\ Limited(j)' => read'[j].from = low'[PaneOf(j)']
        <4>1. CASE j = h
          BY <1>0, <1>2, <2>3, <2>5, <2>6, <2>7, <4>1
        <4>2. CASE j # h
          <5>1. HasRead(j) /\ PaneOf(j)' = PaneOf(j) /\ (Limited(j)' <=> Limited(j)) /\ read'[j] = read[j]
            BY <2>6, <3>3, <4>2
          <5>2. /\ kind[j] # "snapshot"
                /\ read[j] \in Lines /\ read[j].from <= read[j].to /\ read[j].to <= high[PaneOf(j)]
                /\ Span(read[j]) <= left[j] - blank
                /\ read[j].to = high[PaneOf(j)] =>
                      /\ read[j].from >= low[PaneOf(j)]
                      /\ Limited(j) => read[j].from = low[PaneOf(j)]
            BY <5>1 DEF PanelInv, ReadsTrue
          <5> QED
            BY <1>0, <2>6, <5>1, <5>2
        <4> QED
          BY <4>1, <4>2
      <3>4. ASSUME NEW i \in Handlers, NEW j \in Handlers, HasRead(i)', HasRead(j)', PaneOf(i)' = PaneOf(j)',
                   read'[i].to = read'[j].to, Limited(i)'
            PROVE  read'[j].from >= read'[i].from
        <4>1. CASE i = h /\ j = h
          <5>1. r.from \in Nat
            BY <2>5, <2>3 DEF Lines
          <5> QED
            BY <2>7, <4>1, <5>1
        <4>2. CASE i = h /\ j # h
          <5>1. HasRead(j) /\ PaneOf(j) = p /\ read[j].to = high[p] /\ r.from = low[p] /\ read'[j] = read[j]
            BY <2>5, <2>6, <2>7, <3>4, <4>2
          <5>2. read[j].from >= low[p]
            BY <5>1 DEF PanelInv, ReadsTrue
          <5> QED
            BY <2>7, <4>2, <5>1, <5>2
        <4>3. CASE i # h /\ j = h
          <5>1. HasRead(i) /\ PaneOf(i) = p /\ read[i].to = high[p] /\ Limited(i) /\ read'[i] = read[i]
            BY <2>5, <2>6, <2>7, <3>4, <4>3
          <5>2. read[i].from = low[p]
            BY <5>1 DEF PanelInv, ReadsTrue
          <5> QED
            BY <2>5, <2>7, <4>3, <5>1, <5>2
        <4>4. CASE i # h /\ j # h
          <5>1. /\ HasRead(i) /\ HasRead(j) /\ PaneOf(i) = PaneOf(j) /\ Limited(i)
                /\ read[i].to = read[j].to /\ read'[i] = read[i] /\ read'[j] = read[j]
            BY <2>6, <3>4, <4>4
          <5> QED
            BY <5>1 DEF PanelInv, ReadsTrue
        <4> QED
          BY <4>1, <4>2, <4>3, <4>4
      <3> QED
        BY <3>1, <3>2, <3>3, <3>4 DEF ReadsTrue, Span
    <2>9. FreshReads'
      <3> SUFFICES ASSUME NEW j \in Handlers, fresh'[j], kind'[j] # "snapshot", Reading(j)' \/ HasRead(j)'
                   PROVE  /\ target'[j] = selected'
                          /\ HasRead(j)' => read'[j].to >= mark'
                          /\ kind'[j] = "pageup" => panel' # None /\ MayTurn(panel)' /\ left'[j] = SizeFor(panel)'
        BY DEF FreshReads
      <3>1. (MayTurn(panel)' <=> MayTurn(panel)) /\ SizeFor(panel)' = SizeFor(panel)
        BY <1>0 DEF MayTurn, SizeFor, hasCachedOlderPage, Cached, latestPageLen
      <3>2. /\ fresh[j] /\ kind[j] # "snapshot" /\ (Reading(j) \/ HasRead(j))
        BY <1>0, <2>1, <2>6
      <3>3. /\ target[j] = selected
            /\ HasRead(j) => read[j].to >= mark
            /\ kind[j] = "pageup" => panel # None /\ MayTurn(panel) /\ left[j] = SizeFor(panel)
        BY <3>2 DEF PanelInv, FreshReads
      <3>4. HasRead(j)' => read'[j].to >= mark
        <4>1. CASE j = h
          <5>1. selected # None /\ selected[1] = p
            BY <2>2, <3>3, <4>1, TargetIsPair DEF PaneOf, p
          <5>2. mark <= high[p]
            BY <5>1 DEF PanelInv, PanelOfSelection
          <5>3. mark \in Nat
            BY ServiceAssumption DEF TypeOK
          <5> QED
            BY <2>3, <2>5, <2>7, <4>1, <5>2, <5>3
        <4>2. CASE j # h
          BY <2>6, <3>3, <4>2
        <4> QED
          BY <4>1, <4>2
      <3> QED
        BY <1>0, <2>6, <3>1, <3>3, <3>4
    <2>10. PanelOfSelection'
      BY <1>0 DEF PanelInv, PanelOfSelection, PanelSized, Cached
    <2>11. PagesMeet'
      <3>1. ASSUME panel # None, Closed(panel)
            PROVE  Closed(panel)'
        <4>0. panel.first \in Nat
          BY <3>1, PageNumbers DEF PanelInv, PanelOfSelection, PanelSized
        <4>1. ASSUME NEW j \in Handlers, HasRead(j)', PaneOf(j)' = panel.key[1], read'[j].to = panel.last
              PROVE  read'[j].from >= panel.first
          <5>1. CASE j = h
            <6>1. p = panel.key[1] /\ high[p] = panel.last
              BY <2>5, <2>7, <4>1, <5>1
            <6>2. panel.first <= low[p]
              BY <3>1, <6>1 DEF Closed
            <6>3. r.from \in Nat
              BY <2>3, <2>5 DEF Lines
            <6> QED
              BY <2>3, <2>5, <2>7, <4>0, <5>1, <6>2, <6>3
          <5>2. CASE j # h
            BY <2>6, <3>1, <4>1, <5>2 DEF Closed
          <5> QED
            BY <5>1, <5>2
        <4> QED
          BY <1>0, <3>1, <4>1 DEF Closed
      <3> QED
        BY <1>0, <3>1 DEF PanelInv, PagesMeet, PageFrom, PageTo, Larger, latestPageLen, Full, AtLimit, Cached, Before
    <2> QED
      BY <2>8, <2>9, <2>10, <2>11 DEF PanelInv
  <1> QED
    BY <1>1, <1>2 DEF ReadRecent

LEMMA PanelOfGeometry ==
    ASSUME TypeOK, InUse, PanelInv, NEW h \in Handlers, Geometry(h)
    PROVE  PanelInv'
  <1>0. UNCHANGED <<low, high, blank, panelVars, fresh, selected, planVars>>
    BY DEF Geometry, readQuiet, herdrVars, selectionVars
  <1>1. CASE Reply(h)
    BY <1>0, <1>1, ReplyMoves, ReplyKeepsReads, PanelUntouched
  <1>2. CASE Goto(h, "read") /\ UNCHANGED <<leaseVars, callVars>>
    <2>1. pc[h] = "geometry" /\ pc'[h] = "read" /\ \A j \in Handlers \ {h} : pc'[j] = pc[j]
      BY <1>2, HandlerIsNotSupervisor DEF Geometry, Goto, TypeOK
    <2>2. \A j \in Handlers : KeepsRead(j)
      BY <1>2, <2>1 DEF KeepsRead, Reading, HasRead, callVars
    <2> QED
      BY <1>0, <2>2, PanelUntouched
  <1> QED
    BY <1>1, <1>2 DEF Geometry

(* A transition leaves the panel with its selection, or resets it with a   *)
(* new one.                                                                *)
PanelFollows ==
    \/ KeepPanel /\ selected' = selected
    \/ \E t \in Targets \cup {None} : resetPanelLocked(t) /\ selected' = t

LEMMA FollowsPanel ==
    ASSUME TypeOK, PanelInv, PanelFollows, UNCHANGED <<low, high, blank>>, \A j \in Handlers : KeepsRead(j)
    PROVE  PanelInv'
  <1>1. CASE KeepPanel /\ selected' = selected
    <2>1. UNCHANGED <<panelVars, fresh, selected, low, high, blank>>
      BY <1>1 DEF KeepPanel
    <2> QED
      BY <2>1, PanelUntouched
  <1>2. ASSUME NEW t \in Targets \cup {None}, resetPanelLocked(t), selected' = t
        PROVE  PanelInv'
    BY <1>2, PanelReset
  <1> QED
    BY <1>1, <1>2 DEF PanelFollows

LEMMA PanelOfTransits ==
    ASSUME TypeOK, InUse, PanelInv, NEW a \in Actors, Transit(a)
    PROVE  PanelInv'
  <1>0. Change(a) /\ UNCHANGED <<low, high, blank>>
    BY DEF Transit, Change, herdrVars
  <1>1. /\ None \in Targets \cup {None} /\ selected \in Targets \cup {None}
        /\ Validated = selected /\ (ValidateSelected => selected' = selected)
        /\ (UNCHANGED selectionVars => selected' = selected)
    BY SelectionValid DEF TypeOK, InUse, selectionVars
  <1>2. ASSUME NEW v, Replaced(v)
        PROVE  PanelFollows
    BY <1>1, <1>2 DEF Replaced, PanelFollows
  <1>3. ClearSelection => PanelFollows
    BY <1>1 DEF ClearSelection, PanelFollows
  <1>4. ASSUME NEW t \in Targets, selected' = t, resetPanelLocked(t)
        PROVE  PanelFollows
    BY <1>4 DEF PanelFollows
  <1>5. CASE a = Supervisor
    <2>1. SupervisorTransition /\ UNCHANGED callVars
      BY <1>0, <1>5 DEF Change, SupervisorTransition
    <2>2. ASSUME Reconnected(snap[Supervisor])
          PROVE  PanelFollows
      BY <1>1, <2>2 DEF Reconnected, PanelFollows
    <2>3. PanelFollows
      BY <1>2, <1>3, <2>1, <2>2 DEF SupervisorTransition
    <2>4. \A j \in Handlers : pc'[j] = pc[j]
      BY <2>1, HandlerIsNotSupervisor DEF SupervisorTransition, Goto, TypeOK
    <2>5. \A j \in Handlers : KeepsRead(j)
      BY <2>1, <2>4 DEF KeepsRead, Reading, HasRead, callVars
    <2> QED
      BY <1>0, <2>3, <2>5, FollowsPanel
  <1>6. CASE a \in Handlers
    <2>1. PanelFollows
      <3>1. CASE ListReplaced(a)
        BY <1>2, <3>1 DEF ListReplaced
      <3>2. CASE Select(a)
        <4>1. PICK t \in listSnapshot \cup {None} :
               \/ t \in Current /\ selected' = t /\ resetPanelLocked(t)
               \/ ClearSelection
               \/ UNCHANGED <<selectionVars, registryVars>> /\ KeepPanel
          BY <3>2 DEF Select
        <4> QED
          BY <1>1, <1>3, <1>4, <4>1 DEF Current, PanelFollows
      <3>3. CASE SelectTarget(a)
        <4>1. target[a] \in Current => target[a] \in Targets
          BY DEF Current
        <4> QED
          BY <1>1, <1>4, <3>3, <4>1 DEF SelectTarget, PanelFollows
      <3>4. CASE invalidateExpected(a)
        BY <1>1, <1>3, <3>4 DEF invalidateExpected, PanelFollows
      <3>5. CASE rebindExpected(a)
        <4> DEFINE t == target[a]
                   o == snap[a][t[1]]
        <4>1. CASE /\ o # None /\ t \in Current /\ selected' = <<t[1], o>>
                   /\ resetPanelLocked(<<t[1], o>>)
          <5>1. t \in Targets /\ t[1] \in Panes /\ snap[a] \in Views
            BY <4>1, TargetIsPair DEF Current, TypeOK
          <5>2. <<t[1], o>> \in Targets
            BY <4>1, <5>1 DEF Views, Targets
          <5> QED
            BY <1>4, <4>1, <5>2
        <4>2. CASE KeepPanel /\ UNCHANGED selectionVars
          BY <1>1, <4>2 DEF PanelFollows
        <4> QED
          BY <3>5, <4>1, <4>2 DEF rebindExpected
      <3> QED
        BY <1>0, <1>6, <3>1, <3>2, <3>3, <3>4, <3>5, HandlerIsNotSupervisor DEF Change
    <2>2. \A j \in Handlers : KeepsRead(j)
      <3>1. PICK step \in {"listing", "content", "lock"} :
              Reply(a) \/ (Goto(a, step) /\ UNCHANGED <<leaseVars, callVars>>)
        BY <1>0, <1>6, HandlerIsNotSupervisor
        DEF Change, ListReplaced, Select, SelectTarget, invalidateExpected, rebindExpected
      <3>2. CASE Reply(a)
        <4>1. /\ pc'[a] = "idle"
              /\ \A j \in Handlers \ {a} :
                   /\ pc'[j] = pc[j] /\ kind'[j] = kind[j] /\ target'[j] = target[j]
                   /\ read'[j] = read[j] /\ left'[j] = left[j]
          BY <1>6, <3>2, HandlerIsNotSupervisor DEF Reply, Goto, Forget, TypeOK
        <4> QED
          BY <4>1 DEF KeepsRead, Reading, HasRead
      <3>3. CASE Goto(a, step) /\ UNCHANGED <<leaseVars, callVars>>
        <4>1. pc'[a] = step /\ \A j \in Handlers \ {a} : pc'[j] = pc[j]
          BY <1>6, <3>3, HandlerIsNotSupervisor DEF Goto, TypeOK
        <4> QED
          BY <3>1, <3>3, <4>1 DEF KeepsRead, Reading, HasRead, callVars
      <3> QED
        BY <3>1, <3>2, <3>3
    <2> QED
      BY <1>0, <2>1, <2>2, FollowsPanel
  <1> QED
    BY <1>5, <1>6 DEF Actors

LEMMA PanelOfOthers ==
    ASSUME TypeOK, PanelInv,
           \/ Connect \/ SetHerdr \/ RefreshSnapshot \/ Degrade \/ SetHerdrNil \/ Drained
           \/ \E a \in Actors : LockTransition(a)
    PROVE  PanelInv'
  <1>1. UNCHANGED <<herdrVars, selectionVars, panelVars, fresh, callVars>>
    BY DEF Connect, SetHerdr, RefreshSnapshot, Degrade, SetHerdrNil, Drained, LockTransition, superQuiet
  <1>2. \A j \in Handlers : pc'[j] = pc[j] \/ pc'[j] = "barrier"
    <2>1. ASSUME NEW a \in Actors, LockTransition(a)
          PROVE  \A j \in Handlers : pc'[j] = pc[j] \/ pc'[j] = "barrier"
      BY <2>1, HandlerIsNotSupervisor DEF LockTransition, Goto, TypeOK
    <2> QED
      BY <2>1, HandlerIsNotSupervisor
      DEF Connect, SetHerdr, RefreshSnapshot, Degrade, SetHerdrNil, Drained, Goto, TypeOK
  <1>3. \A j \in Handlers : KeepsRead(j)
    BY <1>1, <1>2 DEF KeepsRead, Reading, HasRead, callVars
  <1> QED
    BY <1>1, <1>3, PanelUntouched DEF herdrVars, selectionVars

LEMMA PanelKept == IInv /\ [Next]_vars => PanelInv'
  <1> SUFFICES ASSUME IInv, [Next]_vars PROVE PanelInv'
    OBVIOUS
  <1>0. TypeOK /\ InUse /\ PanelInv
    BY DEF IInv
  <1>1. CASE UNCHANGED vars
    <2>1. UNCHANGED <<panelVars, fresh, selected, low, high, blank, pc, kind, target, read, left>>
      BY <1>1 DEF vars, herdrVars, selectionVars, callVars
    <2>2. \A j \in Handlers : KeepsRead(j)
      BY <2>1 DEF KeepsRead, Reading, HasRead
    <2> QED
      BY <1>0, <2>1, <2>2, PanelUntouched
  <1>2. ASSUME NEW h \in Handlers, Begin(h) \/ BeginUnavailable(h) \/ BeginSelect(h) \/ PageDown(h) \/ Handler(h)
        PROVE  PanelInv'
    <2>1. CASE CalmStep(h)
      BY <1>0, <2>1, QuietPanel
    <2> QED
      BY <1>0, <1>2, <2>1, StartsAreQuiet, InputsAreQuiet, ListsAreQuiet, PanelOfPageDown, PanelOfCapture,
         PanelOfGeometry, PanelOfRead, PanelOfRefresh, PanelOfExpand DEF Handler
  <1> QED
    BY <1>0, <1>1, <1>2, PanelOfTransits, PanelOfOthers, PanelOfHerdr DEF Next

-----------------------------------------------------------------------------

LEMMA InitInv == Init => IInv
  <1> SUFFICES ASSUME Init PROVE IInv
    OBVIOUS
  <1>1. TypeOK
    BY InitTypes
  <1>2. /\ \A h \in Handlers : pc[h] = "idle" /\ lease[h] = None
        /\ pc[Supervisor] = "down" /\ selected = None /\ ~selectionInvalid /\ client = None
        /\ panel = None /\ ~gap
    BY HandlerIsNotSupervisor DEF Init, Actors
  <1>3. LeasesHold
    BY <1>2, ServiceAssumption DEF LeasesHold
  <1>4. InUse
    BY <1>2 DEF InUse, SelectionHeld, activeOps, Connecting
  <1>5. PanelInv
    <2>1. \A p \in Panes : low[p] <= high[p]
      BY <1>1, ServiceAssumption DEF Init, TypeOK
    <2>2. ReadsTrue /\ FreshReads
      BY <1>2, <2>1 DEF ReadsTrue, FreshReads, Reading, HasRead
    <2> QED
      BY <1>2, <2>2 DEF PanelInv, PanelOfSelection, PagesMeet
  <1> QED
    BY <1>1, <1>3, <1>4, <1>5 DEF IInv

LEMMA Inductive == Spec => []IInv
  <1>1. IInv /\ [Next]_vars => IInv'
    BY TypeKept, UseKept, PanelKept DEF IInv
  <1> QED
    BY <1>1, InitInv, PTL DEF Spec

(* The state of the Service has its type. *)
THEOREM BridgeTypeOK == Spec => []TypeOK
  BY Inductive, PTL DEF IInv

(* While a prompt or keys are under way, the selection stays the target    *)
(* they were meant for, and a call keeps the client it began with until    *)
(* SetHerdr(nil) has waited for it.                                        *)
THEOREM BridgeLeasesHold == Spec => []LeasesHold
  BY Inductive, PTL DEF IInv

(* The panel is that of the selection, shows nothing older than its last   *)
(* change, and skips no line between two pages.                            *)
THEOREM BridgePanelHolds == Spec => []PanelHolds
  <1>1. IInv => PanelHolds
    BY DEF IInv, PanelInv, PanelOfSelection, PagesMeet, PanelHolds, PanelCurrent, PagesContiguous
  <1> QED
    BY <1>1, Inductive, PTL

----------------------------------------------------------------------------
(* The supervisor (BridgeSupervisor).                                      *)

PaneStates == Occupancy \cup {Empty}
PaneKeys == OccupantKeys \cup {NoAgent}
StatusEvents ==
    [kind : {"status"}, pane : PaneIDs, agent : {AgentOf[k] : k \in OccupantKeys}, status : Statuses]
LoopMessages ==
    [kind : {"lifecycle"}]
      \cup [kind : {"debounce"}, gen : Nat] \cup [kind : {"closed"}, gen : Nat]
      \cup [event : StatusEvents, kind : {"status"}, gen : Nat]
Streams == [panes : SUBSET PaneIDs, events : Seq(StatusEvents), reading : BOOLEAN]
Prompts == [pane : PaneIDs, expected : OccupantKeys, seen : PaneStates]
CycleStages ==
    {"down", "discovery", "lifecycle", "status", "snapshot", "reconcile", "resubscribe", "select"}

SupervisorTypes ==
    /\ world \in [PaneIDs -> PaneStates] /\ targets \in [PaneIDs -> PaneStates]
    /\ latest \in [PaneIDs -> PaneStates] /\ planned \in [PaneIDs -> PaneKeys]
    /\ stage \in CycleStages /\ healthy \in BOOLEAN /\ rebuilt \in BOOLEAN
    /\ generation \in Nat /\ announced \in Nat /\ stream \in Streams
    /\ messages \in Seq(LoopMessages) /\ leftover \subseteq LoopMessages
    /\ debounce \in [gen : Nat, running : BOOLEAN]
    /\ answer \in Prompts \cup {NoAgent} /\ listing \in [PaneIDs -> PaneStates] \cup {NoAgent}

(* Where the cycle stands says which of its parts are there.               *)
CycleFits ==
    /\ stage \in {"down", "discovery", "lifecycle", "status"} => ~healthy
    /\ stage = "select" => healthy /\ ~rebuilt
    /\ ~healthy => messages = <<>> /\ leftover = {} /\ ~debounce.running /\ ~stream.reading
    /\ stage \in {"snapshot", "reconcile", "select"} => stream.panes = AgentPanes(planned)
    /\ stage = "resubscribe" => stream = NoStream

(* The events of a stream in use that the loop has not seen, in its channel*)
(* and still unread, by pane.                                              *)
Live(m) == m.kind = "status" /\ m.gen = generation
MessagesOf(p) == {k \in DOMAIN messages : Live(messages[k]) /\ messages[k].event.pane = p}
UnreadOf(p) == {k \in DOMAIN stream.events : stream.events[k].pane = p}
Awaited(p) == MessagesOf(p) # {} \/ UnreadOf(p) # {}

(* What a replaced stream left behind is of an earlier generation.         *)
Generations ==
    /\ \A m \in leftover : m.kind = "status" => m.gen < generation
    /\ \A k \in DOMAIN messages : messages[k].kind = "status" =>
          /\ messages[k].gen <= generation
          /\ stage = "resubscribe" => messages[k].gen < generation

(* The last event of a pane that is on its way tells the pane's status.    *)
EventsFresh ==
    \A p \in PaneIDs :
        /\ Awaited(p) => p \in stream.panes
        /\ world[p] # Empty =>
            /\ \A k \in UnreadOf(p) :
                  stream.events[k] = StatusOf(p, world[p]) \/ \E j \in UnreadOf(p) : j > k
            /\ UnreadOf(p) = {} => \A k \in MessagesOf(p) :
                  messages[k].event = StatusOf(p, world[p]) \/ \E j \in MessagesOf(p) : j > k

(* Something that is on its way makes the loop read a new snapshot.        *)
AsksSnapshot(m) == m.kind = "lifecycle" \/ (m.kind = "debounce" /\ m.gen = debounce.gen)
RefreshDue ==
    \/ announced > 0 \/ debounce.running
    \/ \E k \in DOMAIN messages : AsksSnapshot(messages[k])

(* The directory and the status stream belong to the same plan.            *)
Intact == healthy /\ ~rebuilt /\ stage # "resubscribe"

KeysFollow ==
    /\ stage = "reconcile" =>
          \A p \in PaneIDs : latest[p].key = world[p].key \/ unseen \/ RefreshDue
    /\ stage = "select" =>
          \A p \in PaneIDs \ overtaken : targets[p].key = world[p].key \/ unseen \/ RefreshDue
    /\ stage = "select" =>
          \A p \in PaneIDs : planned[p] = world[p].key \/ unseen \/ RefreshDue

StatusesFollow ==
    /\ stage = "reconcile" => \A p \in PaneIDs :
          planned[p] = latest[p].key /\ latest[p].key = world[p].key /\ ~Awaited(p)
            => latest[p] = world[p]
    /\ Intact => \A p \in PaneIDs \ overtaken :
          planned[p] = world[p].key /\ targets[p].key = world[p].key /\ ~Awaited(p)
            => targets[p] = world[p]

SupervisorInv ==
    SupervisorTypes /\ CycleFits /\ Generations /\ EventsFresh /\ KeysFollow /\ StatusesFollow

LEMMA EmptyPane ==
    /\ \A s \in PaneStates : s.key = NoAgent <=> s = Empty
    /\ \A s \in PaneStates : s.key \in PaneKeys /\ (s # Empty => s \in Occupancy)
    /\ Empty \in PaneStates
BY SupervisorAssumption DEF PaneStates, PaneKeys, Occupancy, Empty

LEMMA NoStreamTyped == NoStream \in Streams /\ <<>> \in Seq(LoopMessages)
BY DEF NoStream, Streams

LEMMA MessageAppended ==
    ASSUME NEW S, NEW s \in Seq(S), NEW e \in S
    PROVE  /\ Append(s, e) \in Seq(S) /\ Len(s) \in Nat /\ DOMAIN s = 1..Len(s)
           /\ DOMAIN Append(s, e) = 1..(Len(s) + 1) /\ Append(s, e)[Len(s) + 1] = e
           /\ \A k \in DOMAIN s : k \in DOMAIN Append(s, e) /\ Append(s, e)[k] = s[k]
OBVIOUS

LEMMA MessageTaken ==
    ASSUME NEW S, NEW s \in Seq(S), s # <<>>
    PROVE  /\ Tail(s) \in Seq(S) /\ Head(s) = s[1] /\ Head(s) \in S /\ 1 \in DOMAIN s
           /\ Len(s) \in Nat \ {0} /\ DOMAIN s = 1..Len(s) /\ DOMAIN Tail(s) = 1..(Len(s) - 1)
           /\ \A k \in DOMAIN Tail(s) : k + 1 \in DOMAIN s /\ Tail(s)[k] = s[k + 1]
OBVIOUS

(* Steps that touch neither events nor panes.                              *)
LEMMA EventsKept ==
    ASSUME SupervisorInv, UNCHANGED <<world, stream, messages, generation>>
    PROVE  EventsFresh' /\ \A p \in PaneIDs : Awaited(p)' = Awaited(p)
BY DEF SupervisorInv, EventsFresh, Awaited, MessagesOf, UnreadOf, Live, StatusOf

LEMMA RefreshKept ==
    ASSUME UNCHANGED <<announced, debounce, messages>>
    PROVE  RefreshDue' = RefreshDue
BY DEF RefreshDue, AsksSnapshot

(* The beginning of a cycle: nothing is read yet.                          *)
LEMMA BeginKeeps ==
    ASSUME SupervisorInv, ConnectHerdr \/ Discover \/ SubscribeLifecycle \/ SubscribeStatus
    PROVE  SupervisorInv'
<1>1. ~healthy /\ messages = <<>> /\ leftover = {} /\ stage \in {"down", "discovery", "lifecycle", "status"}
    BY DEF SupervisorInv, CycleFits, ConnectHerdr, Discover, SubscribeLifecycle, SubscribeStatus
<1>2. /\ UNCHANGED <<world, targets, healthy, rebuilt, latest, generation, messages, leftover, debounce,
                     answer, listing>>
      /\ stage' \in {"discovery", "lifecycle", "status", "snapshot"}
    BY DEF ConnectHerdr, Discover, SubscribeLifecycle, SubscribeStatus, feedVars, worldVars, promptVars, loopVars
<1>3. SupervisorTypes'
    <2>1. announced' \in Nat
        BY DEF SupervisorInv, SupervisorTypes, ConnectHerdr, Discover, SubscribeLifecycle, SubscribeStatus, feedVars
    <2>2. planned' \in [PaneIDs -> PaneKeys]
        <3>1. CASE Discover
            BY <3>1, EmptyPane DEF Discover, SupervisorInv, SupervisorTypes, Identities
        <3>2. CASE ~Discover
            BY <3>2 DEF ConnectHerdr, SubscribeLifecycle, SubscribeStatus, SupervisorInv, SupervisorTypes
        <3> QED
            BY <3>1, <3>2
    <2>3. stream' \in Streams
        <3>1. CASE SubscribeStatus
            <4>1. stream' = [panes |-> AgentPanes(planned), events |-> <<>>, reading |-> FALSE]
                BY <3>1 DEF SubscribeStatus, Subscribed
            <4> QED
                BY <4>1 DEF Streams, AgentPanes
        <3>2. CASE ~SubscribeStatus
            BY <3>2 DEF ConnectHerdr, Discover, SubscribeLifecycle, feedVars, SupervisorInv, SupervisorTypes
        <3> QED
            BY <3>1, <3>2
    <2> QED
        BY <1>2, <2>1, <2>2, <2>3 DEF SupervisorInv, SupervisorTypes, CycleStages
<1>4. CycleFits'
    <2>1. stage' = "snapshot" => stream'.panes = AgentPanes(planned')
        BY DEF ConnectHerdr, Discover, SubscribeLifecycle, SubscribeStatus, Subscribed, AgentPanes
    <2>2. ~stream'.reading
        BY <1>1 DEF SupervisorInv, CycleFits, ConnectHerdr, Discover, SubscribeLifecycle, SubscribeStatus,
           Subscribed, feedVars
    <2> QED
        BY <1>1, <1>2, <2>1, <2>2 DEF SupervisorInv, CycleFits
<1>5. Generations'
    BY <1>1, <1>2 DEF Generations
<1>6. EventsFresh'
    <2>1. CASE SubscribeStatus
        <3>1. messages' = <<>> /\ stream'.events = <<>>
            BY <1>1, <1>2, <2>1 DEF SubscribeStatus, Subscribed
        <3> QED
            BY <3>1 DEF EventsFresh, Awaited, MessagesOf, UnreadOf
    <2>2. CASE ~SubscribeStatus
        BY <1>2, <2>2, EventsKept DEF ConnectHerdr, Discover, SubscribeLifecycle, feedVars
    <2> QED
        BY <2>1, <2>2
<1>7. KeysFollow' /\ StatusesFollow'
    BY <1>1, <1>2 DEF KeysFollow, StatusesFollow, Intact
<1> QED
    BY <1>3, <1>4, <1>5, <1>6, <1>7 DEF SupervisorInv

LEMMA ReadSnapshotKeeps ==
    ASSUME SupervisorInv, ReadSnapshot
    PROVE  SupervisorInv'
<1>1. /\ UNCHANGED <<world, changes, targets, healthy, rebuilt, planned, generation, stream, announced, messages,
                     leftover, debounce, answer, rebinds, listing, overtaken, cycles>>
      /\ stage = "snapshot" /\ stage' = "reconcile" /\ latest' = world
    BY DEF ReadSnapshot, worldVars, feedVars, promptVars
<1>2. SupervisorTypes' /\ CycleFits' /\ Generations'
    BY <1>1 DEF SupervisorInv, SupervisorTypes, CycleStages, CycleFits, Generations
<1>3. EventsFresh' /\ \A p \in PaneIDs : Awaited(p)' = Awaited(p)
    BY <1>1, EventsKept
<1>4. KeysFollow' /\ StatusesFollow'
    BY <1>1, <1>3 DEF SupervisorInv, KeysFollow, StatusesFollow, Intact
<1> QED
    BY <1>2, <1>3, <1>4 DEF SupervisorInv

LEMMA CloseStreamKeeps ==
    ASSUME SupervisorInv, CloseStream
    PROVE  SupervisorInv'
<1>1. /\ UNCHANGED <<world, changes, targets, healthy, rebuilt, latest, announced, messages, debounce, answer,
                     rebinds, listing, overtaken, cycles>>
      /\ stage = "reconcile" /\ stage' = "resubscribe" /\ stream' = NoStream
      /\ generation' = NextGeneration /\ planned' = Identities(latest)
      /\ leftover' = leftover \cup StoppedReader
    BY DEF CloseStream, worldVars, promptVars
<1>2. /\ generation \in Nat /\ generation' \in Nat /\ generation' >= generation
      /\ healthy => generation' = generation + 1
    BY <1>1 DEF SupervisorInv, SupervisorTypes, NextGeneration
<1>3. ~healthy => messages = <<>> /\ leftover' = {} /\ ~debounce.running
    BY <1>1 DEF SupervisorInv, CycleFits, StoppedReader
<1>4. \A m \in StoppedReader : m \in LoopMessages /\ (m.kind = "status" => m.gen = generation /\ healthy)
    <2>1. stream.events # <<>> => Head(stream.events) \in StatusEvents
        BY MessageTaken DEF SupervisorInv, SupervisorTypes, Streams
    <2>2. StoppedReader # {} => healthy
        BY DEF SupervisorInv, CycleFits, StoppedReader
    <2> QED
        BY <1>2, <2>1, <2>2 DEF StoppedReader, LoopMessages
<1>5. SupervisorTypes'
    BY <1>1, <1>2, <1>4, EmptyPane
       DEF SupervisorInv, SupervisorTypes, Identities, CycleStages, NoStream, Streams
<1>6. CycleFits'
    BY <1>1, <1>3 DEF SupervisorInv, CycleFits, NoStream
<1>7. Generations'
    <2>1. \A m \in leftover' : m.kind = "status" => m.gen < generation'
        <3> SUFFICES ASSUME NEW m \in leftover', m.kind = "status" PROVE m.gen < generation'
            OBVIOUS
        <3>1. m.gen \in Nat
            BY <1>1, <1>4 DEF SupervisorInv, SupervisorTypes, LoopMessages
        <3>2. healthy
            BY <1>3
        <3>3. CASE m \in leftover
            BY <1>2, <3>1, <3>2, <3>3 DEF SupervisorInv, Generations
        <3>4. CASE m \in StoppedReader
            BY <1>2, <1>4, <3>2, <3>4
        <3> QED
            BY <1>1, <3>3, <3>4
    <2>2. \A k \in DOMAIN messages : messages[k].kind = "status" => messages[k].gen < generation'
        <3> SUFFICES ASSUME NEW k \in DOMAIN messages, messages[k].kind = "status"
            PROVE  messages[k].gen < generation'
            OBVIOUS
        <3>1. messages[k].gen \in Nat
            BY DEF SupervisorInv, SupervisorTypes, LoopMessages
        <3> QED
            BY <1>2, <1>3, <3>1 DEF SupervisorInv, Generations
    <2>3. \A k \in DOMAIN messages' : messages'[k].kind = "status" => messages'[k].gen \in Nat
        BY <1>1 DEF SupervisorInv, SupervisorTypes, LoopMessages
    <2> QED
        BY <1>1, <1>2, <2>1, <2>2, <2>3 DEF Generations
<1>8. \A p \in PaneIDs : ~Awaited(p)'
    BY <1>1, <1>2, <1>7 DEF Generations, Awaited, MessagesOf, UnreadOf, Live, NoStream, SupervisorInv, SupervisorTypes,
       LoopMessages
<1>9. EventsFresh'
    BY <1>8 DEF EventsFresh, Awaited
<1>10. KeysFollow' /\ StatusesFollow'
    BY <1>1 DEF KeysFollow, StatusesFollow, Intact
<1> QED
    BY <1>5, <1>6, <1>7, <1>9, <1>10 DEF SupervisorInv

LEMMA ResubscribeKeeps ==
    ASSUME SupervisorInv, Resubscribe
    PROVE  SupervisorInv'
<1>1. /\ UNCHANGED <<world, changes, targets, healthy, latest, planned, generation, announced, messages,
                     leftover, debounce, answer, rebinds, listing, overtaken, cycles>>
      /\ stage = "resubscribe" /\ stage' = "snapshot" /\ stream' = Subscribed(planned) /\ rebuilt' = TRUE
    BY DEF Resubscribe, worldVars, promptVars
<1>2. SupervisorTypes'
    BY <1>1 DEF SupervisorInv, SupervisorTypes, CycleStages, Subscribed, Streams, AgentPanes
<1>3. CycleFits'
    BY <1>1 DEF SupervisorInv, CycleFits, Subscribed, AgentPanes
<1>4. Generations'
    BY <1>1 DEF SupervisorInv, Generations
<1>5. \A p \in PaneIDs : ~Awaited(p)'
    <2>1. \A k \in DOMAIN messages : messages[k].kind = "status" => messages[k].gen # generation
        BY <1>1 DEF SupervisorInv, SupervisorTypes, LoopMessages, Generations
    <2> QED
        BY <1>1, <2>1 DEF Awaited, MessagesOf, UnreadOf, Live, Subscribed
<1>6. EventsFresh'
    BY <1>5 DEF EventsFresh, Awaited
<1>7. KeysFollow' /\ StatusesFollow'
    BY <1>1 DEF KeysFollow, StatusesFollow, Intact
<1> QED
    BY <1>2, <1>3, <1>4, <1>6, <1>7 DEF SupervisorInv

LEMMA ReplaceSnapshotKeeps ==
    ASSUME SupervisorInv, ReplaceSnapshot
    PROVE  SupervisorInv'
<1>1. /\ UNCHANGED <<world, changes, unseen, planned, announced, messages, leftover, debounce, answer, rebinds,
                     listing, cycles>>
      /\ stage = "reconcile" /\ planned = Identities(latest)
      /\ generation' = IF ~healthy /\ stream.panes # {} THEN generation + 1 ELSE generation
      /\ stream' = [stream EXCEPT !.reading = @ \/ stream.panes # {}]
      /\ healthy' = TRUE /\ stage' = "select" /\ rebuilt' = FALSE /\ latest' = EmptyView
    BY DEF ReplaceSnapshot, worldVars
<1>2. /\ generation \in Nat /\ stream \in Streams
      /\ stream' \in Streams /\ stream'.panes = stream.panes /\ stream'.events = stream.events
    BY <1>1 DEF SupervisorInv, SupervisorTypes, Streams
<1>3. \A p \in PaneIDs : planned[p] = latest[p].key
    BY <1>1 DEF Identities
<1>4. \A p \in PaneIDs : targets'[p].key = latest[p].key /\ targets'[p] \in PaneStates
    <2>1. CASE ~healthy \/ rebuilt
        BY <2>1 DEF ReplaceSnapshot, SupervisorInv, SupervisorTypes
    <2>2. CASE ~(~healthy \/ rebuilt)
        BY <2>2 DEF ReplaceSnapshot, Preserving, SupervisorInv, SupervisorTypes
    <2> QED
        BY <2>1, <2>2
<1>5. SupervisorTypes'
    <2>1. targets' \in [PaneIDs -> PaneStates]
        BY <1>4 DEF ReplaceSnapshot, Preserving, SupervisorInv, SupervisorTypes
    <2>2. latest' \in [PaneIDs -> PaneStates]
        BY <1>1, EmptyPane DEF EmptyView
    <2>3. /\ world' \in [PaneIDs -> PaneStates] /\ planned' \in [PaneIDs -> PaneKeys]
          /\ announced' \in Nat /\ messages' \in Seq(LoopMessages) /\ leftover' \subseteq LoopMessages
          /\ debounce' \in [gen : Nat, running : BOOLEAN] /\ answer' \in Prompts \cup {NoAgent}
          /\ listing' \in [PaneIDs -> PaneStates] \cup {NoAgent}
        BY <1>1 DEF SupervisorInv, SupervisorTypes
    <2>4. generation' \in Nat /\ stage' \in CycleStages /\ healthy' \in BOOLEAN /\ rebuilt' \in BOOLEAN
        <3>1. generation' = generation \/ generation' = generation + 1
            BY <1>1
        <3>2. generation' \in Nat
            BY <1>2, <3>1
        <3>3. stage' \in CycleStages /\ healthy' \in BOOLEAN /\ rebuilt' \in BOOLEAN
            BY <1>1 DEF CycleStages
        <3> QED
            BY <3>2, <3>3
    <2> QED
        BY <1>2, <2>1, <2>2, <2>3, <2>4 DEF SupervisorTypes
<1>6. CycleFits'
    BY <1>1, <1>2 DEF SupervisorInv, CycleFits
<1>7. Generations'
    BY <1>1, <1>2 DEF SupervisorInv, Generations, CycleFits
<1>8. \A p \in PaneIDs : MessagesOf(p)' = MessagesOf(p) /\ UnreadOf(p)' = UnreadOf(p)
    BY <1>1, <1>2 DEF SupervisorInv, CycleFits, MessagesOf, UnreadOf, Live
<1>9. EventsFresh'
    <2> SUFFICES ASSUME NEW p \in PaneIDs
        PROVE /\ Awaited(p)' => p \in stream'.panes
              /\ world'[p] # Empty =>
                  /\ \A k \in UnreadOf(p)' :
                        stream'.events[k] = StatusOf(p, world'[p]) \/ \E j \in UnreadOf(p)' : j > k
                  /\ UnreadOf(p)' = {} => \A k \in MessagesOf(p)' :
                        messages'[k].event = StatusOf(p, world'[p]) \/ \E j \in MessagesOf(p)' : j > k
        BY DEF EventsFresh, StatusOf
    <2> QED
        BY <1>1, <1>2, <1>8 DEF SupervisorInv, EventsFresh, Awaited
<1>10. KeysFollow'
    <2>1. RefreshDue' = RefreshDue
        BY <1>1, RefreshKept
    <2> QED
        BY <1>1, <1>3, <1>4, <2>1, EmptyPane DEF SupervisorInv, KeysFollow
<1>11. StatusesFollow'
    <2> SUFFICES ASSUME NEW p \in PaneIDs \ overtaken', targets'[p].key = world[p].key, ~Awaited(p)
        PROVE  targets'[p] = world[p]
        BY <1>1, <1>8 DEF StatusesFollow, Awaited
    <2>1. latest[p] = world[p]
        BY <1>1, <1>3, <1>4 DEF SupervisorInv, StatusesFollow
    <2>2. CASE ~healthy \/ rebuilt
        BY <2>1, <2>2 DEF ReplaceSnapshot
    <2>3. CASE ~(~healthy \/ rebuilt) /\ targets[p].key # latest[p].key
        BY <2>1, <2>3 DEF ReplaceSnapshot, Preserving
    <2>4. CASE ~(~healthy \/ rebuilt) /\ targets[p].key = latest[p].key
        <3>1. p \notin overtaken /\ targets'[p] = targets[p]
            BY <2>4 DEF ReplaceSnapshot, Preserving
        <3> QED
            BY <1>1, <1>3, <2>1, <2>4, <3>1 DEF SupervisorInv, StatusesFollow, Intact
    <2> QED
        BY <2>2, <2>3, <2>4
<1> QED
    BY <1>5, <1>6, <1>7, <1>9, <1>10, <1>11 DEF SupervisorInv

LEMMA PaneChangesKeeps ==
    ASSUME SupervisorInv, NEW p \in PaneIDs, PaneChanges(p)
    PROVE  SupervisorInv'
<1>1. PICK pane \in PaneStates \ {world[p]} :
          /\ world' = [world EXCEPT ![p] = pane]
          /\ stream' = Sent(p, pane)
          /\ IF pane.key = world[p].key THEN UNCHANGED <<announced, unseen>>
             ELSE \/ stage # "down" /\ announced' = announced + 1 /\ UNCHANGED unseen
                  \/ unseen' = TRUE /\ UNCHANGED announced
    BY DEF PaneChanges, PaneStates
<1>2. UNCHANGED <<targets, stage, healthy, rebuilt, latest, planned, generation, messages, leftover, debounce,
                  answer, listing, overtaken>>
    BY DEF PaneChanges, loopVars, promptVars
<1>3. /\ pane \in PaneStates /\ world \in [PaneIDs -> PaneStates] /\ stream \in Streams
      /\ stream.events \in Seq(StatusEvents) /\ announced \in Nat
    BY DEF SupervisorInv, SupervisorTypes, Streams
<1>4. world' \in [PaneIDs -> PaneStates] /\ world'[p] = pane /\ \A q \in PaneIDs \ {p} : world'[q] = world[q]
    BY <1>1, <1>3
<1>5. /\ stream'.panes = stream.panes /\ stream'.reading = stream.reading /\ stream' \in Streams
      /\ p \in stream.panes /\ pane # Empty => stream'.events = Append(stream.events, StatusOf(p, pane))
      /\ ~(p \in stream.panes /\ pane # Empty) => stream' = stream
    <2>1. pane # Empty => StatusOf(p, pane) \in StatusEvents
        BY <1>3, EmptyPane DEF StatusOf, StatusEvents, Occupancy
    <2>2. CASE p \in stream.panes /\ pane # Empty
        BY <1>1, <1>3, <2>1, <2>2, MessageAppended DEF Sent, Streams
    <2>3. CASE ~(p \in stream.panes /\ pane # Empty)
        BY <1>1, <1>3, <2>3 DEF Sent
    <2> QED
        BY <2>2, <2>3
<1>6. SupervisorTypes'
    BY <1>1, <1>2, <1>3, <1>4, <1>5 DEF SupervisorInv, SupervisorTypes
<1>7. CycleFits'
    BY <1>2, <1>5 DEF SupervisorInv, CycleFits, NoStream
<1>8. Generations'
    BY <1>2 DEF SupervisorInv, Generations
<1>9. \A q \in PaneIDs : MessagesOf(q)' = MessagesOf(q)
    BY <1>2 DEF MessagesOf, Live
<1>10. \A q \in PaneIDs \ {p} :
           /\ UnreadOf(q)' = UnreadOf(q)
           /\ \A k \in UnreadOf(q) : stream'.events[k] = stream.events[k]
    <2>1. CASE p \in stream.panes /\ pane # Empty
        <3> DEFINE e == StatusOf(p, pane)
        <3>1. e \in StatusEvents /\ e.pane = p
            BY <1>3, <2>1, EmptyPane DEF StatusOf, StatusEvents, Occupancy
        <3> QED
            BY <1>3, <1>5, <2>1, <3>1, MessageAppended DEF UnreadOf
    <2>2. CASE ~(p \in stream.panes /\ pane # Empty)
        BY <1>5, <2>2 DEF UnreadOf
    <2> QED
        BY <2>1, <2>2
<1>11. p \in stream.panes /\ pane # Empty =>
           \E n \in UnreadOf(p)' : stream'.events[n] = StatusOf(p, pane) /\ \A k \in UnreadOf(p)' : k = n \/ n > k
    <2> SUFFICES ASSUME p \in stream.panes /\ pane # Empty
        PROVE  LET n == Len(stream.events) + 1
               IN  /\ n \in UnreadOf(p)' /\ stream'.events[n] = StatusOf(p, pane)
                   /\ \A k \in UnreadOf(p)' : k = n \/ n > k
        OBVIOUS
    <2> DEFINE e == StatusOf(p, pane)
    <2>1. e \in StatusEvents /\ e.pane = p
        BY <1>3, EmptyPane DEF StatusOf, StatusEvents, Occupancy
    <2> QED
        BY <1>3, <1>5, <2>1, MessageAppended DEF UnreadOf
<1>12. EventsFresh'
    <2> SUFFICES ASSUME NEW q \in PaneIDs
        PROVE /\ Awaited(q)' => q \in stream'.panes
              /\ world'[q] # Empty =>
                  /\ \A k \in UnreadOf(q)' :
                        stream'.events[k] = StatusOf(q, world'[q]) \/ \E j \in UnreadOf(q)' : j > k
                  /\ UnreadOf(q)' = {} => \A k \in MessagesOf(q)' :
                        messages'[k].event = StatusOf(q, world'[q]) \/ \E j \in MessagesOf(q)' : j > k
        BY DEF EventsFresh, StatusOf
    <2>1. CASE q # p
        BY <1>2, <1>4, <1>5, <1>9, <1>10, <2>1 DEF SupervisorInv, EventsFresh, Awaited
    <2>2. CASE q = p /\ p \in stream.panes /\ pane # Empty
        BY <1>4, <1>5, <1>11, <2>2
    <2>3. CASE q = p /\ ~(p \in stream.panes /\ pane # Empty)
        <3>1. UnreadOf(p)' = UnreadOf(p)
            BY <1>5, <2>3 DEF UnreadOf
        <3> QED
            BY <1>4, <1>5, <1>9, <2>3, <3>1 DEF SupervisorInv, EventsFresh, Awaited
    <2> QED
        BY <2>1, <2>2, <2>3
<1>13. RefreshDue => RefreshDue'
    BY <1>1, <1>2, <1>3 DEF RefreshDue, AsksSnapshot
<1>14. world'[p].key = world[p].key \/ unseen' \/ RefreshDue'
    BY <1>1, <1>3, <1>4 DEF RefreshDue
<1>15. unseen => unseen'
    BY <1>1
<1>16. KeysFollow'
    <2>1. \A q \in PaneIDs : world'[q].key = world[q].key \/ unseen' \/ RefreshDue'
        BY <1>4, <1>14
    <2> QED
        BY <1>2, <1>13, <1>15, <2>1 DEF SupervisorInv, KeysFollow, Intact
<1>17. \A q \in PaneIDs \ {p} : Awaited(q)' = Awaited(q)
    BY <1>9, <1>10 DEF Awaited
<1>18. pane # Empty /\ ~Awaited(p)' => p \notin stream.panes
    BY <1>11 DEF Awaited
<1>19. StatusesFollow'
    <2>1. stage = "reconcile" => \A q \in PaneIDs :
              planned[q] = latest[q].key /\ latest[q].key = world'[q].key /\ ~Awaited(q)' => latest[q] = world'[q]
        <3> SUFFICES ASSUME stage = "reconcile", NEW q \in PaneIDs, planned[q] = latest[q].key,
                            latest[q].key = world'[q].key, ~Awaited(q)'
            PROVE  latest[q] = world'[q]
            OBVIOUS
        <3>1. CASE q # p
            BY <1>4, <1>17, <3>1 DEF SupervisorInv, StatusesFollow
        <3>2. CASE q = p /\ pane = Empty
            BY <1>4, <3>2, EmptyPane DEF SupervisorInv, SupervisorTypes
        <3>3. CASE q = p /\ pane # Empty
            BY <1>3, <1>4, <1>18, <3>3, EmptyPane DEF SupervisorInv, CycleFits, AgentPanes
        <3> QED
            BY <3>1, <3>2, <3>3
    <2>2. Intact => \A q \in PaneIDs \ overtaken :
              planned[q] = world'[q].key /\ targets[q].key = world'[q].key /\ ~Awaited(q)' => targets[q] = world'[q]
        <3> SUFFICES ASSUME Intact, NEW q \in PaneIDs \ overtaken, planned[q] = world'[q].key,
                            targets[q].key = world'[q].key, ~Awaited(q)'
            PROVE  targets[q] = world'[q]
            OBVIOUS
        <3>1. CASE q # p
            BY <1>4, <1>17, <3>1 DEF SupervisorInv, StatusesFollow
        <3>2. CASE q = p /\ pane = Empty
            BY <1>4, <3>2, EmptyPane DEF SupervisorInv, SupervisorTypes
        <3>3. CASE q = p /\ pane # Empty
            <4>1. stage \in {"snapshot", "reconcile", "select"}
                BY DEF Intact, SupervisorInv, SupervisorTypes, CycleFits, CycleStages
            <4>2. planned[p] = NoAgent
                BY <1>18, <3>3, <4>1 DEF SupervisorInv, CycleFits, AgentPanes
            <4> QED
                BY <1>3, <1>4, <3>3, <4>2, EmptyPane
        <3> QED
            BY <3>1, <3>2, <3>3
    <2> QED
        BY <1>2, <2>1, <2>2 DEF StatusesFollow, Intact
<1> QED
    BY <1>6, <1>7, <1>8, <1>12, <1>16, <1>19 DEF SupervisorInv

(* The reader hands an event over; it stays the last word of its pane.     *)
LEMMA RecvStatusKeeps ==
    ASSUME SupervisorInv, RecvStatus
    PROVE  SupervisorInv'
<1> DEFINE e == Head(stream.events)
           m == [event |-> e, kind |-> "status", gen |-> generation]
           n == Len(messages) + 1
<1>1. /\ UNCHANGED <<world, unseen, targets, stage, healthy, rebuilt, latest, planned, generation, announced, leftover,
                     debounce, answer, listing, overtaken>>
      /\ stream.reading /\ stream.events # <<>>
      /\ messages' = Append(messages, m) /\ stream' = [stream EXCEPT !.events = Tail(@)]
    BY DEF RecvStatus, FeedQuiet, worldVars, loopVars, promptVars
<1>2. stream \in Streams /\ stream.events \in Seq(StatusEvents) /\ generation \in Nat /\ messages \in Seq(LoopMessages)
    BY DEF SupervisorInv, SupervisorTypes, Streams
<1>3. /\ e = stream.events[1] /\ e \in StatusEvents /\ 1 \in DOMAIN stream.events
      /\ stream' \in Streams /\ stream'.panes = stream.panes /\ stream'.reading = stream.reading
      /\ stream'.events = Tail(stream.events)
    BY <1>1, <1>2, MessageTaken DEF Streams
<1>4. m \in LoopMessages /\ Live(m) /\ ~AsksSnapshot(m) /\ m.event = e
    BY <1>2, <1>3 DEF LoopMessages, Live, AsksSnapshot
<1> HIDE DEF e, m
<1>5. /\ messages' \in Seq(LoopMessages) /\ DOMAIN messages' = DOMAIN messages \cup {n} /\ messages'[n] = m
      /\ \A k \in DOMAIN messages : messages'[k] = messages[k] /\ n > k
    BY <1>1, <1>2, <1>4, MessageAppended
<1>6. SupervisorTypes'
    BY <1>1, <1>3, <1>5 DEF SupervisorInv, SupervisorTypes
<1>7. stage # "resubscribe" /\ healthy
    BY <1>1 DEF SupervisorInv, CycleFits, NoStream
<1>8. CycleFits'
    BY <1>1, <1>3, <1>7 DEF SupervisorInv, CycleFits
<1>9. Generations'
    <2>1. \A k \in DOMAIN messages' : messages'[k].kind = "status" => messages'[k].gen <= generation
        BY <1>2, <1>4, <1>5 DEF SupervisorInv, Generations, Live
    <2> QED
        BY <1>1, <1>7, <2>1 DEF SupervisorInv, Generations
<1>10. \A q \in PaneIDs : MessagesOf(q)' = MessagesOf(q) \cup (IF q = e.pane THEN {n} ELSE {})
    BY <1>1, <1>4, <1>5 DEF MessagesOf, Live
<1>11. \A q \in PaneIDs :
           /\ \A k \in UnreadOf(q)' : k + 1 \in UnreadOf(q) /\ stream'.events[k] = stream.events[k + 1]
           /\ \A j \in UnreadOf(q) : j \in Nat /\ (j > 1 => j - 1 \in UnreadOf(q)')
    <2> SUFFICES ASSUME NEW q \in PaneIDs
        PROVE  /\ \A k \in UnreadOf(q)' : k + 1 \in UnreadOf(q) /\ stream'.events[k] = stream.events[k + 1]
               /\ \A j \in UnreadOf(q) : j \in Nat /\ (j > 1 => j - 1 \in UnreadOf(q)')
        OBVIOUS
    <2>1. /\ Len(stream.events) \in Nat \ {0} /\ DOMAIN stream.events = 1..Len(stream.events)
          /\ DOMAIN stream'.events = 1..(Len(stream.events) - 1)
          /\ \A k \in DOMAIN stream'.events :
                k + 1 \in DOMAIN stream.events /\ stream'.events[k] = stream.events[k + 1]
        BY <1>1, <1>2, <1>3, MessageTaken
    <2>2. \A j \in UnreadOf(q) : j > 1 => j - 1 \in DOMAIN stream'.events /\ stream'.events[j - 1] = stream.events[j]
        BY <2>1 DEF UnreadOf
    <2>3. \A k \in UnreadOf(q)' : k + 1 \in UnreadOf(q) /\ stream'.events[k] = stream.events[k + 1]
        BY <2>1 DEF UnreadOf
    <2>4. \A j \in UnreadOf(q) : j \in Nat
        BY <2>1 DEF UnreadOf
    <2>5. \A j \in UnreadOf(q) : j > 1 => j - 1 \in UnreadOf(q)'
        BY <2>2 DEF UnreadOf
    <2> QED
        BY <2>3, <2>4, <2>5
<1>12. \A q \in PaneIDs : 1 \in UnreadOf(q) <=> q = e.pane
    BY <1>3 DEF UnreadOf
<1>13. \A q \in PaneIDs : \A k \in UnreadOf(q)' : k \in Nat \ {0}
    BY <1>3, <1>6 DEF UnreadOf, SupervisorTypes, Streams
<1>14. \A q \in PaneIDs : Awaited(q)' = Awaited(q)
    <2> SUFFICES ASSUME NEW q \in PaneIDs PROVE Awaited(q)' <=> Awaited(q)
        BY DEF Awaited
    <2>1. CASE q = e.pane
        BY <1>10, <1>12, <2>1 DEF Awaited
    <2>2. CASE q # e.pane
        <3>1. \A j \in UnreadOf(q) : j > 1
            BY <1>2, <1>12, <2>2 DEF UnreadOf
        <3> QED
            BY <1>10, <1>11, <2>2, <3>1 DEF Awaited
    <2> QED
        BY <2>1, <2>2
<1>15. EventsFresh'
    <2> SUFFICES ASSUME NEW q \in PaneIDs
        PROVE /\ Awaited(q)' => q \in stream'.panes
              /\ world[q] # Empty =>
                  /\ \A k \in UnreadOf(q)' :
                        stream'.events[k] = StatusOf(q, world[q]) \/ \E j \in UnreadOf(q)' : j > k
                  /\ UnreadOf(q)' = {} => \A k \in MessagesOf(q)' :
                        messages'[k].event = StatusOf(q, world[q]) \/ \E j \in MessagesOf(q)' : j > k
        BY <1>1 DEF EventsFresh, StatusOf
    <2>1. Awaited(q)' => q \in stream'.panes
        BY <1>3, <1>14 DEF SupervisorInv, EventsFresh
    <2>2. world[q] # Empty => \A k \in UnreadOf(q)' :
              stream'.events[k] = StatusOf(q, world[q]) \/ \E j \in UnreadOf(q)' : j > k
        <3> SUFFICES ASSUME world[q] # Empty, NEW k \in UnreadOf(q)', stream'.events[k] # StatusOf(q, world[q])
            PROVE  \E j \in UnreadOf(q)' : j > k
            OBVIOUS
        <3>1. k \in Nat \ {0} /\ k + 1 \in UnreadOf(q) /\ stream'.events[k] = stream.events[k + 1]
            BY <1>11, <1>13
        <3>2. PICK j \in UnreadOf(q) : j > k + 1
            BY <3>1 DEF SupervisorInv, EventsFresh
        <3>3. j \in Nat /\ j - 1 \in UnreadOf(q)' /\ j - 1 > k
            BY <1>11, <3>1, <3>2
        <3> QED
            BY <3>3
    <2>3. world[q] # Empty /\ UnreadOf(q)' = {} => \A k \in MessagesOf(q)' :
              messages'[k].event = StatusOf(q, world[q]) \/ \E j \in MessagesOf(q)' : j > k
        <3> SUFFICES ASSUME world[q] # Empty, UnreadOf(q)' = {}, NEW k \in MessagesOf(q)'
            PROVE  messages'[k].event = StatusOf(q, world[q]) \/ \E j \in MessagesOf(q)' : j > k
            OBVIOUS
        <3>1. \A j \in UnreadOf(q) : j = 1
            BY <1>2, <1>11 DEF UnreadOf
        <3>2. CASE q = e.pane
            <4>1. stream.events[1] = StatusOf(q, world[q])
                BY <1>12, <3>1, <3>2 DEF SupervisorInv, EventsFresh
            <4> QED
                BY <1>3, <1>4, <1>5, <1>10, <3>2, <4>1 DEF MessagesOf
        <3>3. CASE q # e.pane
            <4>1. UnreadOf(q) = {} /\ MessagesOf(q)' = MessagesOf(q) /\ k \in DOMAIN messages
                BY <1>10, <1>12, <3>1, <3>3 DEF MessagesOf
            <4> QED
                BY <1>5, <4>1 DEF SupervisorInv, EventsFresh
        <3> QED
            BY <3>2, <3>3
    <2> QED
        BY <2>1, <2>2, <2>3
<1>16. RefreshDue => RefreshDue'
    BY <1>1, <1>5 DEF RefreshDue, AsksSnapshot
<1>17. KeysFollow'
    BY <1>1, <1>16 DEF SupervisorInv, KeysFollow, Intact
<1>18. StatusesFollow'
    BY <1>1, <1>14 DEF SupervisorInv, StatusesFollow, Intact
<1> QED
    BY <1>6, <1>8, <1>9, <1>15, <1>17, <1>18 DEF SupervisorInv

(* Lifecycle events, elapsed timers and messages of replaced streams.      *)
LEMMA FeedKeeps ==
    ASSUME SupervisorInv, RecvLifecycle \/ SendLeftover \/ DebounceElapses
    PROVE  SupervisorInv'
<1> DEFINE n == Len(messages) + 1
<1>1. /\ UNCHANGED <<world, unseen, targets, stage, healthy, rebuilt, latest, planned, generation, stream, answer,
                     listing, overtaken>>
      /\ announced' \in Nat /\ leftover' \subseteq leftover
      /\ debounce' \in [gen : Nat, running : BOOLEAN] /\ debounce'.gen = debounce.gen
    <2>1. CASE RecvLifecycle
        BY <2>1 DEF RecvLifecycle, FeedQuiet, worldVars, loopVars, promptVars, SupervisorInv, SupervisorTypes
    <2>2. CASE SendLeftover
        BY <2>2 DEF SendLeftover, FeedQuiet, worldVars, loopVars, promptVars, SupervisorInv, SupervisorTypes
    <2>3. CASE DebounceElapses
        BY <2>3 DEF DebounceElapses, FeedQuiet, worldVars, loopVars, promptVars, SupervisorInv, SupervisorTypes
    <2> QED
        BY <2>1, <2>2, <2>3
<1>2. healthy /\ (debounce'.running => debounce.running)
    <2>1. leftover # {} => healthy
        BY DEF SupervisorInv, CycleFits
    <2>2. debounce.running => healthy
        BY DEF SupervisorInv, CycleFits
    <2>3. DebounceElapses => ~debounce'.running
        BY DEF DebounceElapses, SupervisorInv, SupervisorTypes
    <2> QED
        BY <2>1, <2>2, <2>3 DEF RecvLifecycle, SendLeftover, DebounceElapses
<1>3. PICK m \in LoopMessages :
          /\ messages' = Append(messages, m)
          /\ m.kind = "status" => m.gen < generation
          /\ AsksSnapshot(m) \/ (announced' = announced /\ debounce' = debounce)
    <2>1. CASE RecvLifecycle
        <3> DEFINE m == [kind |-> "lifecycle"]
        <3>1. m \in LoopMessages /\ AsksSnapshot(m) /\ m.kind # "status" /\ messages' = Append(messages, m)
            BY <2>1 DEF RecvLifecycle, LoopMessages, AsksSnapshot
        <3> QED
            BY <3>1
    <2>2. CASE SendLeftover
        BY <2>2 DEF SendLeftover, SupervisorInv, SupervisorTypes, Generations
    <2>3. CASE DebounceElapses
        <3> DEFINE m == [kind |-> "debounce", gen |-> debounce.gen]
        <3>1. m \in LoopMessages /\ AsksSnapshot(m) /\ m.kind # "status" /\ messages' = Append(messages, m)
            BY <2>3 DEF DebounceElapses, LoopMessages, AsksSnapshot, SupervisorInv, SupervisorTypes
        <3> QED
            BY <3>1
    <2> QED
        BY <2>1, <2>2, <2>3
<1>4. /\ messages' \in Seq(LoopMessages) /\ DOMAIN messages' = DOMAIN messages \cup {n} /\ messages'[n] = m
      /\ \A k \in DOMAIN messages : messages'[k] = messages[k]
    BY <1>3, MessageAppended DEF SupervisorInv, SupervisorTypes
<1> HIDE DEF n
<1>5. ~Live(m)
    BY <1>3 DEF Live, SupervisorInv, SupervisorTypes
<1>6. \A q \in PaneIDs : MessagesOf(q)' = MessagesOf(q) /\ UnreadOf(q)' = UnreadOf(q)
    BY <1>1, <1>4, <1>5 DEF MessagesOf, UnreadOf, Live
<1>7. SupervisorTypes'
    BY <1>1, <1>4 DEF SupervisorInv, SupervisorTypes
<1>8. CycleFits'
    BY <1>1, <1>2 DEF SupervisorInv, CycleFits
<1>9. Generations'
    <2>1. \A k \in DOMAIN messages' : messages'[k].kind = "status" =>
              messages'[k].gen <= generation /\ (stage = "resubscribe" => messages'[k].gen < generation)
        <3>1. m.kind = "status" => m.gen \in Nat
            BY DEF LoopMessages
        <3> QED
            BY <1>3, <1>4, <3>1 DEF SupervisorInv, SupervisorTypes, Generations
    <2> QED
        BY <1>1, <2>1 DEF SupervisorInv, Generations
<1>10. EventsFresh'
    <2> SUFFICES ASSUME NEW q \in PaneIDs
        PROVE /\ Awaited(q)' => q \in stream'.panes
              /\ world[q] # Empty =>
                  /\ \A k \in UnreadOf(q)' :
                        stream'.events[k] = StatusOf(q, world[q]) \/ \E j \in UnreadOf(q)' : j > k
                  /\ UnreadOf(q)' = {} => \A k \in MessagesOf(q)' :
                        messages'[k].event = StatusOf(q, world[q]) \/ \E j \in MessagesOf(q)' : j > k
        BY <1>1 DEF EventsFresh, StatusOf
    <2>1. \A k \in MessagesOf(q) : messages'[k] = messages[k]
        BY <1>4 DEF MessagesOf
    <2> QED
        BY <1>1, <1>6, <2>1 DEF SupervisorInv, EventsFresh, Awaited
<1>11. RefreshDue => RefreshDue'
    <2>1. AsksSnapshot(m)' = AsksSnapshot(m)
        BY <1>1 DEF AsksSnapshot
    <2>2. CASE AsksSnapshot(m)
        BY <1>4, <2>1, <2>2 DEF RefreshDue
    <2>3. CASE ~AsksSnapshot(m)
        BY <1>3, <1>4, <2>3 DEF RefreshDue, AsksSnapshot
    <2> QED
        BY <2>2, <2>3
<1>12. KeysFollow' /\ StatusesFollow'
    BY <1>1, <1>6, <1>11 DEF SupervisorInv, KeysFollow, StatusesFollow, Intact, Awaited
<1> QED
    BY <1>7, <1>8, <1>9, <1>10, <1>12 DEF SupervisorInv

(* The loop takes a message.                                               *)
LEMMA HeadTaken ==
    ASSUME SupervisorInv, UNCHANGED <<world, stream, generation>>, messages # <<>>, messages' = Tail(messages)
    PROVE  /\ EventsFresh' /\ \A p \in PaneIDs : Awaited(p)' => Awaited(p)
           /\ ~Live(Head(messages)) => \A p \in PaneIDs : Awaited(p)' = Awaited(p)
           /\ \A p \in PaneIDs : ~Awaited(p)' => UnreadOf(p) = {} /\ \A j \in MessagesOf(p) : j = 1
           /\ ~AsksSnapshot(Head(messages)) /\ UNCHANGED <<announced, debounce>> /\ RefreshDue => RefreshDue'
<1>1. /\ messages' \in Seq(LoopMessages) /\ Head(messages) = messages[1] /\ 1 \in DOMAIN messages
      /\ Len(messages) \in Nat \ {0} /\ DOMAIN messages = 1..Len(messages)
      /\ DOMAIN messages' = 1..(Len(messages) - 1)
      /\ \A k \in DOMAIN messages' : k + 1 \in DOMAIN messages /\ messages'[k] = messages[k + 1]
    BY MessageTaken DEF SupervisorInv, SupervisorTypes
<1>2. \A j \in DOMAIN messages : j # 1 => j - 1 \in DOMAIN messages' /\ messages'[j - 1] = messages[j]
    BY <1>1
<1>3. \A p \in PaneIDs :
          /\ UnreadOf(p)' = UnreadOf(p)
          /\ \A k \in MessagesOf(p)' : k \in Nat \ {0} /\ k + 1 \in MessagesOf(p) /\ messages'[k] = messages[k + 1]
          /\ \A j \in MessagesOf(p) : j \in Nat \ {0} /\ (j # 1 => j - 1 \in MessagesOf(p)')
    <2> SUFFICES ASSUME NEW p \in PaneIDs
        PROVE  /\ UnreadOf(p)' = UnreadOf(p)
               /\ \A k \in MessagesOf(p)' :
                     k \in Nat \ {0} /\ k + 1 \in MessagesOf(p) /\ messages'[k] = messages[k + 1]
               /\ \A j \in MessagesOf(p) : j \in Nat \ {0} /\ (j # 1 => j - 1 \in MessagesOf(p)')
        OBVIOUS
    <2>1. UnreadOf(p)' = UnreadOf(p)
        BY DEF UnreadOf
    <2>2. \A k \in MessagesOf(p)' : k \in Nat \ {0} /\ k + 1 \in MessagesOf(p) /\ messages'[k] = messages[k + 1]
        BY <1>1 DEF MessagesOf, Live
    <2>3. \A j \in MessagesOf(p) : j \in Nat \ {0} /\ (j # 1 => j - 1 \in MessagesOf(p)')
        BY <1>1, <1>2 DEF MessagesOf, Live
    <2> QED
        BY <2>1, <2>2, <2>3
<1>4. EventsFresh'
    <2> SUFFICES ASSUME NEW q \in PaneIDs
        PROVE /\ Awaited(q)' => q \in stream'.panes
              /\ world[q] # Empty =>
                  /\ \A k \in UnreadOf(q)' :
                        stream'.events[k] = StatusOf(q, world[q]) \/ \E j \in UnreadOf(q)' : j > k
                  /\ UnreadOf(q)' = {} => \A k \in MessagesOf(q)' :
                        messages'[k].event = StatusOf(q, world[q]) \/ \E j \in MessagesOf(q)' : j > k
        BY DEF EventsFresh, StatusOf
    <2>1. Awaited(q)' => q \in stream'.panes
        BY <1>3 DEF SupervisorInv, EventsFresh, Awaited
    <2>2. world[q] # Empty /\ UnreadOf(q) = {} => \A k \in MessagesOf(q)' :
              messages'[k].event = StatusOf(q, world[q]) \/ \E j \in MessagesOf(q)' : j > k
        <3> SUFFICES ASSUME world[q] # Empty, UnreadOf(q) = {}, NEW k \in MessagesOf(q)',
                            messages'[k].event # StatusOf(q, world[q])
            PROVE  \E j \in MessagesOf(q)' : j > k
            OBVIOUS
        <3>1. k \in Nat \ {0} /\ k + 1 \in MessagesOf(q) /\ messages'[k] = messages[k + 1]
            BY <1>3
        <3>2. PICK j \in MessagesOf(q) : j > k + 1
            BY <3>1 DEF SupervisorInv, EventsFresh
        <3>3. j \in Nat /\ j - 1 \in MessagesOf(q)' /\ j - 1 > k
            BY <1>3, <3>1, <3>2
        <3> QED
            BY <3>3
    <2> QED
        BY <1>3, <2>1, <2>2 DEF SupervisorInv, EventsFresh
<1>5. \A p \in PaneIDs : Awaited(p)' => Awaited(p)
    BY <1>3 DEF Awaited
<1>6. ~Live(Head(messages)) => \A p \in PaneIDs : Awaited(p)' = Awaited(p)
    <2>1. ~Live(Head(messages)) => \A p \in PaneIDs : 1 \notin MessagesOf(p)
        BY <1>1 DEF MessagesOf
    <2> QED
        BY <1>3, <2>1 DEF Awaited
<1>7. \A p \in PaneIDs : ~Awaited(p)' => UnreadOf(p) = {} /\ \A j \in MessagesOf(p) : j = 1
    BY <1>3 DEF Awaited
<1>8. ~AsksSnapshot(Head(messages)) /\ UNCHANGED <<announced, debounce>> /\ RefreshDue => RefreshDue'
    <2> SUFFICES ASSUME ~AsksSnapshot(Head(messages)), UNCHANGED <<announced, debounce>>,
                        NEW k \in DOMAIN messages, AsksSnapshot(messages[k])
        PROVE  \E j \in DOMAIN messages' : AsksSnapshot(messages[k]) /\ messages'[j] = messages[k]
        BY DEF RefreshDue, AsksSnapshot
    <2> QED
        BY <1>1, <1>2
<1> QED
    BY <1>4, <1>5, <1>6, <1>7, <1>8

LEMMA SnapshotTickKeeps ==
    ASSUME SupervisorInv, SnapshotTick
    PROVE  SupervisorInv'
<1>1. /\ UNCHANGED <<world, unseen, targets, healthy, rebuilt, latest, planned, generation, stream, announced, messages,
                     leftover, debounce, answer, listing, overtaken>>
      /\ stage = "select" /\ stage' = "snapshot"
    BY DEF SnapshotTick, Refresh, worldVars, feedVars, promptVars
<1>2. SupervisorTypes' /\ CycleFits' /\ Generations'
    BY <1>1 DEF SupervisorInv, SupervisorTypes, CycleStages, CycleFits, Generations
<1>3. EventsFresh' /\ \A p \in PaneIDs : Awaited(p)' = Awaited(p)
    BY <1>1, EventsKept
<1>4. KeysFollow' /\ StatusesFollow'
    BY <1>1, <1>3 DEF SupervisorInv, KeysFollow, StatusesFollow, Intact
<1> QED
    BY <1>2, <1>3, <1>4 DEF SupervisorInv

(* A message that is no status event of the stream in use.                 *)
LEMMA OtherMessageKeeps ==
    ASSUME SupervisorInv, OnLifecycle \/ OnDebounce \/ (OnClosed /\ ~Ended)
    PROVE  SupervisorInv'
<1>1. /\ UNCHANGED <<world, unseen, targets, healthy, rebuilt, latest, planned, generation, stream, announced, answer,
                     listing, overtaken>>
      /\ stage = "select" /\ stage' \in {"select", "snapshot"}
      /\ messages # <<>> /\ Head(messages).kind # "status" /\ messages' = Tail(messages)
    BY DEF OnLifecycle, OnDebounce, OnClosed, Message, Refresh, worldVars, loopVars, promptVars
<1>2. /\ debounce' \in [gen : Nat, running : BOOLEAN] /\ leftover' \subseteq LoopMessages
      /\ \A m \in leftover' : m.kind = "status" => m \in leftover
    <2>1. CASE OnLifecycle
        BY <2>1 DEF OnLifecycle, SupervisorInv, SupervisorTypes, LoopMessages
    <2>2. CASE ~OnLifecycle
        BY <2>2 DEF OnDebounce, OnClosed, SupervisorInv, SupervisorTypes
    <2> QED
        BY <2>1, <2>2
<1>3. healthy /\ ~rebuilt
    BY <1>1 DEF SupervisorInv, CycleFits
<1>4. messages' \in Seq(LoopMessages) /\ \A k \in DOMAIN messages' : k + 1 \in DOMAIN messages /\ messages'[k] = messages[k + 1]
    BY <1>1, MessageTaken DEF SupervisorInv, SupervisorTypes
<1>5. SupervisorTypes'
    BY <1>1, <1>2, <1>4 DEF SupervisorInv, SupervisorTypes, CycleStages
<1>6. CycleFits'
    BY <1>1, <1>3 DEF SupervisorInv, CycleFits
<1>7. Generations'
    BY <1>1, <1>2, <1>4 DEF SupervisorInv, Generations
<1>8. EventsFresh' /\ \A p \in PaneIDs : Awaited(p)' = Awaited(p)
    BY <1>1, HeadTaken DEF Live
<1>9. stage' = "select" /\ RefreshDue => RefreshDue'
    <2>1. CASE OnLifecycle
        BY <2>1 DEF OnLifecycle, RefreshDue, SupervisorInv, SupervisorTypes
    <2>2. CASE OnDebounce
        <3>1. stage' = "select" => ~AsksSnapshot(Head(messages)) /\ UNCHANGED <<announced, debounce>>
            BY <2>2 DEF OnDebounce, Message, Refresh, AsksSnapshot
        <3> QED
            BY <1>1, <3>1, HeadTaken
    <2>3. CASE OnClosed /\ ~Ended
        <3>1. ~AsksSnapshot(Head(messages)) /\ UNCHANGED <<announced, debounce>>
            BY <2>3 DEF OnClosed, AsksSnapshot
        <3> QED
            BY <1>1, <3>1, HeadTaken
    <2> QED
        BY <2>1, <2>2, <2>3
<1>10. KeysFollow' /\ StatusesFollow'
    BY <1>1, <1>8, <1>9 DEF SupervisorInv, KeysFollow, StatusesFollow, Intact
<1> QED
    BY <1>5, <1>6, <1>7, <1>8, <1>10 DEF SupervisorInv

(* The last event of a pane brings its status up to date.                  *)
LEMMA OnStatusKeeps ==
    ASSUME SupervisorInv, OnStatus
    PROVE  SupervisorInv'
<1> DEFINE m == Head(messages)
<1>1. /\ UNCHANGED <<world, unseen, stage, healthy, rebuilt, latest, planned, generation, stream, announced, leftover,
                     debounce, answer, listing, overtaken>>
      /\ stage = "select" /\ messages # <<>> /\ m.kind = "status" /\ messages' = Tail(messages)
      /\ targets' = IF Live(m) THEN Applied(m.event) ELSE targets
    BY DEF OnStatus, Message, Live, worldVars, loopVars, promptVars
<1>2. /\ m = messages[1] /\ m \in LoopMessages /\ 1 \in DOMAIN messages /\ messages' \in Seq(LoopMessages)
      /\ \A k \in DOMAIN messages' : k + 1 \in DOMAIN messages /\ messages'[k] = messages[k + 1]
    BY <1>1, MessageTaken DEF SupervisorInv, SupervisorTypes
<1>3. m.event \in StatusEvents /\ ~AsksSnapshot(m)
    BY <1>1, <1>2 DEF LoopMessages, AsksSnapshot
<1> HIDE DEF m
<1>4. /\ targets' \in [PaneIDs -> PaneStates]
      /\ \A p \in PaneIDs : targets'[p].key = targets[p].key /\ (p # m.event.pane => targets'[p] = targets[p])
    <2>1. CASE Live(m) /\ targets[m.event.pane] # Empty /\ AgentOf[targets[m.event.pane].key] = m.event.agent
        <3>1. targets[m.event.pane] \in Occupancy /\ m.event.pane \in PaneIDs /\ m.event.status \in Statuses
            BY <1>3, <2>1, EmptyPane DEF SupervisorInv, SupervisorTypes, StatusEvents
        <3>2. targets' = [targets EXCEPT ![m.event.pane].status = m.event.status]
            BY <1>1, <2>1 DEF Applied
        <3>3. [targets[m.event.pane] EXCEPT !.status = m.event.status] \in Occupancy
            BY <3>1 DEF Occupancy
        <3>4. [targets[m.event.pane] EXCEPT !.status = m.event.status].key = targets[m.event.pane].key
            BY <3>1 DEF Occupancy
        <3> QED
            BY <3>1, <3>2, <3>3, <3>4 DEF SupervisorInv, SupervisorTypes, PaneStates
    <2>2. CASE ~(Live(m) /\ targets[m.event.pane] # Empty /\ AgentOf[targets[m.event.pane].key] = m.event.agent)
        BY <1>1, <2>2 DEF Applied, SupervisorInv, SupervisorTypes
    <2> QED
        BY <2>1, <2>2
<1>5. healthy /\ ~rebuilt /\ Intact
    BY <1>1 DEF SupervisorInv, CycleFits, Intact
<1>6. SupervisorTypes'
    BY <1>1, <1>2, <1>4 DEF SupervisorInv, SupervisorTypes
<1>7. CycleFits'
    BY <1>1, <1>5 DEF SupervisorInv, CycleFits
<1>8. Generations'
    BY <1>1, <1>2 DEF SupervisorInv, Generations
<1>9. /\ EventsFresh' /\ (~Live(m) => \A p \in PaneIDs : Awaited(p)' = Awaited(p))
      /\ \A p \in PaneIDs : Awaited(p)' => Awaited(p)
      /\ \A p \in PaneIDs : ~Awaited(p)' => UnreadOf(p) = {} /\ \A j \in MessagesOf(p) : j = 1
      /\ RefreshDue => RefreshDue'
    BY <1>1, <1>3, HeadTaken DEF m
<1>10. KeysFollow'
    BY <1>1, <1>4, <1>9 DEF SupervisorInv, KeysFollow, Intact
<1>11. StatusesFollow'
    <2> SUFFICES ASSUME NEW p \in PaneIDs \ overtaken, planned[p] = world[p].key,
                        targets[p].key = world[p].key, ~Awaited(p)'
        PROVE  targets'[p] = world[p]
        BY <1>1, <1>4 DEF StatusesFollow
    <2>1. CASE ~Awaited(p)
        <3>1. targets[p] = world[p]
            BY <1>5, <2>1 DEF SupervisorInv, StatusesFollow
        <3>2. Live(m) => p # m.event.pane
            BY <1>1, <1>2, <2>1 DEF Awaited, MessagesOf
        <3> QED
            BY <1>1, <1>4, <3>1, <3>2
    <2>2. CASE Awaited(p) /\ world[p] = Empty
        BY <1>4, <2>2, EmptyPane DEF Empty
    <2>3. CASE Awaited(p) /\ world[p] # Empty
        <3>1. UnreadOf(p) = {} /\ MessagesOf(p) = {1} /\ Live(m) /\ m.event.pane = p
            BY <1>2, <1>9, <2>3 DEF Awaited, MessagesOf
        <3>2. m.event = StatusOf(p, world[p])
            <4>1. messages[1].event = StatusOf(p, world[p]) \/ \E j \in MessagesOf(p) : j > 1
                BY <2>3, <3>1 DEF SupervisorInv, EventsFresh
            <4> QED
                BY <1>2, <3>1, <4>1
        <3>3. targets[p] \in Occupancy /\ world[p] \in Occupancy
            BY <2>3, EmptyPane DEF SupervisorInv, SupervisorTypes
        <3>4. targets[p] # Empty /\ AgentOf[targets[p].key] = m.event.agent /\ m.event.status = world[p].status
            BY <2>3, <3>2, <3>3, EmptyPane DEF SupervisorInv, SupervisorTypes, StatusOf
        <3>5. targets' = [targets EXCEPT ![p].status = world[p].status]
            BY <1>1, <3>1, <3>4 DEF Applied
        <3>6. targets'[p] = [targets[p] EXCEPT !.status = world[p].status]
            BY <3>5 DEF SupervisorInv, SupervisorTypes
        <3> QED
            BY <3>3, <3>6 DEF Occupancy
    <2> QED
        BY <2>1, <2>2, <2>3
<1> QED
    BY <1>6, <1>7, <1>8, <1>9, <1>10, <1>11 DEF SupervisorInv

LEMMA EndedKeeps ==
    ASSUME SupervisorInv, Ended
    PROVE  SupervisorInv'
<1>1. /\ stage' = "down" /\ healthy' = FALSE /\ rebuilt' = FALSE /\ generation' = 0
      /\ stream' = NoStream /\ announced' = 0 /\ messages' = <<>> /\ leftover' = {}
      /\ latest' = EmptyView /\ planned' = Unplanned /\ debounce' = [gen |-> 0, running |-> FALSE]
      /\ answer' \in Prompts \cup {NoAgent} /\ UNCHANGED <<world, targets, listing>>
    BY DEF Ended, worldVars, SupervisorInv, SupervisorTypes
<1>2. latest' \in [PaneIDs -> PaneStates] /\ planned' \in [PaneIDs -> PaneKeys]
    BY <1>1, EmptyPane DEF EmptyView, Unplanned, PaneKeys
<1>3. SupervisorTypes'
    BY <1>1, <1>2, NoStreamTyped DEF SupervisorInv, SupervisorTypes, CycleStages
<1>4. CycleFits' /\ Generations'
    BY <1>1 DEF CycleFits, Generations, NoStream
<1>5. EventsFresh'
    BY <1>1 DEF EventsFresh, Awaited, MessagesOf, UnreadOf, NoStream
<1>6. KeysFollow' /\ StatusesFollow'
    BY <1>1 DEF KeysFollow, StatusesFollow, Intact
<1> QED
    BY <1>3, <1>4, <1>5, <1>6 DEF SupervisorInv

(* The prompt only looks.                                                  *)
LEMMA PromptKeeps ==
    ASSUME SupervisorInv, GetAgent \/ \E p \in PaneIDs : BeginPrompt(p)
    PROVE  SupervisorInv'
<1>1. UNCHANGED <<world, unseen, targets, stage, healthy, rebuilt, latest, planned, generation, stream, announced,
                  messages, leftover, debounce, listing, overtaken>>
    BY DEF GetAgent, BeginPrompt, PromptQuiet, worldVars, loopVars, feedVars
<1>2. answer' \in Prompts \cup {NoAgent}
    <2>1. CASE GetAgent
        BY <2>1 DEF GetAgent, Prompting, SupervisorInv, SupervisorTypes, Prompts
    <2>2. CASE \E p \in PaneIDs : BeginPrompt(p)
        BY <2>2, EmptyPane DEF BeginPrompt, SupervisorInv, SupervisorTypes, Prompts, Occupancy
    <2> QED
        BY <2>1, <2>2
<1>3. SupervisorTypes' /\ CycleFits' /\ Generations'
    BY <1>1, <1>2 DEF SupervisorInv, SupervisorTypes, CycleFits, Generations
<1>4. EventsFresh' /\ \A p \in PaneIDs : Awaited(p)' = Awaited(p)
    BY <1>1, EventsKept
<1>5. KeysFollow' /\ StatusesFollow'
    BY <1>1, <1>4, RefreshKept DEF SupervisorInv, KeysFollow, StatusesFollow, Intact
<1> QED
    BY <1>3, <1>4, <1>5 DEF SupervisorInv

(* A rebind binds its pane to what Herdr has there, or the pane counts as  *)
(* overtaken until its target is replaced.                                 *)
LEMMA RebindKeeps ==
    ASSUME SupervisorInv, RebindSelected
    PROVE  SupervisorInv'
<1>1. /\ UNCHANGED <<world, unseen, stage, healthy, rebuilt, latest, planned, generation, stream, announced,
                     messages, leftover, debounce, listing>>
      /\ answer # NoAgent /\ answer' = NoAgent
    BY DEF RebindSelected, PromptQuiet, worldVars, loopVars, feedVars
<1> DEFINE r == answer.pane
<1>2. r \in PaneIDs /\ answer.expected \in OccupantKeys /\ answer.seen \in PaneStates
    BY <1>1 DEF SupervisorInv, SupervisorTypes, Prompts
<1>3. /\ targets' \in [PaneIDs -> PaneStates] /\ overtaken \subseteq overtaken'
      /\ \A p \in PaneIDs : targets'[p] = targets[p] \/ p \in overtaken' \/ targets'[p] = world[p]
    <2>1. CASE targets[r].key = answer.expected
        <3>1. targets' = [targets EXCEPT ![r] = answer.seen]
              /\ overtaken' = IF world[r] = answer.seen THEN overtaken ELSE overtaken \cup {r}
            BY <2>1 DEF RebindSelected
        <3> QED
            BY <1>2, <2>1, <3>1 DEF SupervisorInv, SupervisorTypes
    <2>2. CASE targets[r].key # answer.expected
        BY <2>2 DEF RebindSelected, SupervisorInv, SupervisorTypes
    <2> QED
        BY <2>1, <2>2
<1> HIDE DEF r
<1>4. SupervisorTypes' /\ CycleFits' /\ Generations'
    BY <1>1, <1>3 DEF SupervisorInv, SupervisorTypes, CycleFits, Generations
<1>5. EventsFresh' /\ \A p \in PaneIDs : Awaited(p)' = Awaited(p)
    BY <1>1, EventsKept
<1>6. KeysFollow' /\ StatusesFollow'
    BY <1>1, <1>3, <1>5, RefreshKept DEF SupervisorInv, KeysFollow, StatusesFollow, Intact
<1> QED
    BY <1>4, <1>5, <1>6 DEF SupervisorInv

LEMMA ListReadsKeeps ==
    ASSUME SupervisorInv, ListReads
    PROVE  SupervisorInv'
<1>1. /\ UNCHANGED <<world, unseen, targets, stage, healthy, rebuilt, latest, planned, generation, stream, announced,
                     messages, leftover, debounce, answer, overtaken>>
      /\ listing' = world
    BY DEF ListReads, PromptQuiet, worldVars, loopVars, feedVars
<1>2. SupervisorTypes' /\ CycleFits' /\ Generations'
    BY <1>1 DEF SupervisorInv, SupervisorTypes, CycleFits, Generations
<1>3. EventsFresh' /\ \A p \in PaneIDs : Awaited(p)' = Awaited(p)
    BY <1>1, EventsKept
<1>4. KeysFollow' /\ StatusesFollow'
    BY <1>1, <1>3, RefreshKept DEF SupervisorInv, KeysFollow, StatusesFollow, Intact
<1> QED
    BY <1>2, <1>3, <1>4 DEF SupervisorInv

(* A list's snapshot keeps a pane's target, or gives the pane what Herdr   *)
(* has there, or the pane counts as overtaken.                             *)
LEMMA ListAppliesKeeps ==
    ASSUME SupervisorInv, ListApplies
    PROVE  SupervisorInv'
<1>1. /\ UNCHANGED <<world, unseen, stage, healthy, rebuilt, latest, planned, generation, stream, announced,
                     messages, leftover, debounce, answer>>
      /\ listing # NoAgent /\ listing' = NoAgent /\ targets' = Preserving(listing)
      /\ overtaken' = {p \in PaneIDs : IF targets[p].key = listing[p].key THEN p \in overtaken
                                       ELSE listing[p] # world[p]}
    BY DEF ListApplies, PromptQuiet, worldVars, loopVars, feedVars
<1>2. listing \in [PaneIDs -> PaneStates] /\ targets \in [PaneIDs -> PaneStates]
    BY <1>1 DEF SupervisorInv, SupervisorTypes
<1>3. targets' \in [PaneIDs -> PaneStates]
    BY <1>1, <1>2 DEF Preserving
<1>4. \A p \in PaneIDs \ overtaken' : (targets'[p] = targets[p] /\ p \notin overtaken) \/ targets'[p] = world[p]
    BY <1>1, <1>2 DEF Preserving
<1>5. SupervisorTypes' /\ CycleFits' /\ Generations'
    BY <1>1, <1>3 DEF SupervisorInv, SupervisorTypes, CycleFits, Generations
<1>6. EventsFresh' /\ \A p \in PaneIDs : Awaited(p)' = Awaited(p)
    BY <1>1, EventsKept
<1>7. KeysFollow' /\ StatusesFollow'
    BY <1>1, <1>4, <1>6, RefreshKept DEF SupervisorInv, KeysFollow, StatusesFollow, Intact
<1> QED
    BY <1>5, <1>6, <1>7 DEF SupervisorInv

LEMMA SupervisorStarts ==
    ASSUME SupervisorInit
    PROVE  SupervisorInv
<1>1. /\ latest \in [PaneIDs -> PaneStates] /\ targets \in [PaneIDs -> PaneStates]
      /\ planned \in [PaneIDs -> PaneKeys]
    BY EmptyPane DEF SupervisorInit, EmptyView, Unplanned, PaneKeys
<1>2. SupervisorTypes
    BY <1>1, NoStreamTyped DEF SupervisorInit, SupervisorTypes, CycleStages, PaneStates
<1>3. CycleFits /\ Generations
    BY DEF SupervisorInit, CycleFits, Generations, NoStream
<1>4. EventsFresh
    BY DEF SupervisorInit, EventsFresh, Awaited, MessagesOf, UnreadOf, NoStream
<1>5. KeysFollow /\ StatusesFollow
    BY DEF SupervisorInit, KeysFollow, StatusesFollow, Intact
<1> QED
    BY <1>2, <1>3, <1>4, <1>5 DEF SupervisorInv

LEMMA SupervisorSteps ==
    ASSUME SupervisorInv, [SupervisorNext]_supervisorVars
    PROVE  SupervisorInv'
<1>1. CASE UNCHANGED supervisorVars
    <2>1. UNCHANGED <<world, unseen, targets, stage, healthy, rebuilt, latest, planned, generation, stream, announced,
                      messages, leftover, debounce, answer, listing, overtaken>>
        BY <1>1 DEF supervisorVars, worldVars, loopVars, feedVars, promptVars
    <2>2. EventsFresh' /\ \A p \in PaneIDs : Awaited(p)' = Awaited(p)
        BY <2>1, EventsKept
    <2>3. SupervisorTypes' /\ CycleFits' /\ Generations'
        BY <2>1 DEF SupervisorInv, SupervisorTypes, CycleFits, Generations
    <2>4. KeysFollow' /\ StatusesFollow'
        BY <2>1, <2>2, RefreshKept DEF SupervisorInv, KeysFollow, StatusesFollow, Intact
    <2> QED
        BY <2>2, <2>3, <2>4 DEF SupervisorInv
<1>2. CASE \E p \in PaneIDs : PaneChanges(p)
    BY <1>2, PaneChangesKeeps
<1>3. CASE ConnectHerdr \/ Discover \/ SubscribeLifecycle \/ SubscribeStatus
    BY <1>3, BeginKeeps
<1>4. CASE ReadSnapshot \/ CloseStream \/ Resubscribe \/ ReplaceSnapshot
    BY <1>4, ReadSnapshotKeeps, CloseStreamKeeps, ResubscribeKeeps, ReplaceSnapshotKeeps
<1>5. CASE RecvStatus \/ RecvLifecycle \/ SendLeftover \/ DebounceElapses
    BY <1>5, RecvStatusKeeps, FeedKeeps
<1>6. CASE SnapshotTick \/ OnLifecycle \/ OnStatus \/ OnDebounce
    BY <1>6, SnapshotTickKeeps, OtherMessageKeeps, OnStatusKeeps
<1>7. CASE OnClosed \/ CycleFails
    <2>1. CASE Ended
        BY <2>1, EndedKeeps
    <2>2. CASE ~Ended
        BY <1>7, <2>2, OtherMessageKeeps DEF CycleFails
    <2> QED
        BY <2>1, <2>2
<1>8. CASE GetAgent \/ RebindSelected \/ \E p \in PaneIDs : BeginPrompt(p)
    BY <1>8, PromptKeeps, RebindKeeps
<1>9. CASE ListReads \/ ListApplies
    BY <1>9, ListReadsKeeps, ListAppliesKeeps
<1> QED
    BY <1>1, <1>2, <1>3, <1>4, <1>5, <1>6, <1>7, <1>8, <1>9 DEF SupervisorNext

(* In quiet nothing is on its way, so what may lag does not.               *)
LEMMA QuietFollows ==
    ASSUME SupervisorInv
    PROVE  DirectoryFollowsHerdr
<1> SUFFICES ASSUME Quiet, ~unseen, NEW p \in PaneIDs \ overtaken
    PROVE  targets[p] = world[p]
    BY DEF DirectoryFollowsHerdr
<1>1. ~RefreshDue /\ ~Awaited(p)
    BY DEF Quiet, RefreshDue, Awaited, MessagesOf, UnreadOf
<1>2. Intact
    BY DEF Quiet, Intact, SupervisorInv, CycleFits
<1> QED
    BY <1>1, <1>2 DEF Quiet, SupervisorInv, KeysFollow, StatusesFollow

(* Whatever the panes, the agents, the channel and the changes: once what  *)
(* Herdr has said is worked off, the directory is Herdr's, but for the     *)
(* panes that a late rebind or a list's late snapshot gave what Herdr had  *)
(* left (runHealthyCycle, rebindExpected, handleList).                     *)
THEOREM DirectoryFollows == SupervisorSpec => []DirectoryFollowsHerdr
<1>1. SupervisorInit => SupervisorInv
    BY SupervisorStarts
<1>2. SupervisorInv /\ [SupervisorNext]_supervisorVars => SupervisorInv'
    BY SupervisorSteps
<1>3. SupervisorInv => DirectoryFollowsHerdr
    BY QuietFollows
<1> QED
    BY <1>1, <1>2, <1>3, PTL DEF SupervisorSpec
=============================================================================
