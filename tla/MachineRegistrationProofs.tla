----------------------- MODULE MachineRegistrationProofs -----------------------
(***************************************************************************)
(* Proofs about MachineRegistration, for every set of users, machines,     *)
(* requests, calls and administrators.                                     *)
(*                                                                         *)
(* A call that has its principal's lock is Working.  What it read of the   *)
(* two stores stays true until it acts on it (Holds), because whoever else *)
(* is at work has another principal (Alone), and a step touches only what  *)
(* belongs to the principal of its call (Effect).                          *)
(***************************************************************************)
EXTENDS MachineRegistration, FiniteSetTheorems, TLAPS

Principal(p) == calls[p].owner[1]
Working(p) == calls[p].at \in Places \ {"lock"}
KeyPlaces == {"deliver", "rollback", "cleanup"}

(* Which operation is found in which place, and what it names. *)
Shape(p) ==
    /\ calls[p].at \in {"first", "another", "create"} => calls[p].op = "register"
    /\ calls[p].at = "issue" => calls[p].op \in {"register", "approve", "issue"}
    /\ calls[p].at \in {"deliver", "rollback"} => calls[p].op \in {"register", "approve"}
    /\ calls[p].at = "cleanup" => calls[p].op = "approve"
    /\ calls[p].op \in {"approve", "reject"} <=> calls[p].request \in Requests
    /\ calls[p].op = "delete" <=> calls[p].key \in Keys /\ calls[p].at = "lock"
    /\ calls[p].at \in KeyPlaces <=> calls[p].key \in Keys /\ calls[p].at # "lock"

(* What a call with the lock relies on. *)
Holds(p) ==
    Working(p) =>
        /\ lock[Principal(p)] = p
        /\ calls[p].at = "first" => HeldBy(Principal(p)) = {}
        /\ calls[p].at \in {"another", "create"} => HeldFor(calls[p].owner) = {}
        /\ At(p, "register", "issue") =>
               HeldBy(Principal(p)) = {} /\ RequestedBy(Principal(p)) = {}
        /\ At(p, "issue", "issue") => RequestedFor(calls[p].owner) = {}
        /\ calls[p].op = "approve" => owner[calls[p].request] = calls[p].owner
        /\ calls[p].at \in KeyPlaces => credentials[calls[p].key] = calls[p].owner
        /\ calls[p].at \in {"deliver", "rollback"} => fate[calls[p].key] = "issued"
        /\ calls[p].at = "cleanup" => "granted" \in marks[calls[p].request]

(* A call names a request only while its identifier is taken, and the       *)
(* request belongs to the owner the call knows.                             *)
Named(p) ==
    calls[p].request \in Requests =>
        /\ marks[calls[p].request] # {}
        /\ owner[calls[p].request] \in {NoOwner, calls[p].owner}

(* A stored request was not rejected, and if its key was delivered it is    *)
(* about to be removed or could not be.                                     *)
Undecided ==
    \A r \in pending :
        /\ marks[r] # {} /\ "rejected" \notin marks[r]
        /\ "granted" \in marks[r] =>
               \/ "leftover" \in marks[r]
               \/ \E p \in Procs : calls[p].at = "cleanup" /\ calls[p].request = r

FreshIDs == \A k \in Keys : k >= nextID => credentials[k] = NoOwner

Attended ==
    \A k \in Keys : credentials[k] # NoOwner /\ fate[k] \notin {"delivered", "manual", "stuck"} =>
        \E p \in Procs : calls[p].key = k /\ calls[p].at \in {"deliver", "rollback"}

ChatAgrees == \A a \in Admins : snapshots[a].sent => snapshots[a].entries \subseteq shown[a]

Agreement ==
    /\ \A p \in Procs : Shape(p) /\ Holds(p) /\ Named(p)
    /\ Undecided /\ FreshIDs /\ Attended
    /\ OneOwnerPerMachine /\ RequestsDecidedOnce

IInv == TypeOK /\ Agreement /\ ChatAgrees

-----------------------------------------------------------------------------
(* Type correctness.                                                       *)

LEMMA IdleTyped == Idle.op = "none" /\ Idle.at = "idle" /\ Idle.request = NoRequest /\ Idle.key = NoKey
BY DEF Idle, Call

(* A call that is somewhere has an operation and an owner. *)
LEMMA CallTyped ==
    ASSUME TypeOK, NEW p \in Procs, calls[p] # Idle
    PROVE  /\ calls[p].op \in Operations /\ calls[p].at \in Places
           /\ calls[p].owner \in Owners /\ Principal(p) \in Users
           /\ calls[p].request \in Requests \cup {NoRequest}
           /\ calls[p].key \in Keys \cup {NoKey}
<1>1. calls[p] \in CallStates
    BY DEF TypeOK
<1> QED
    BY <1>1 DEF CallStates, Principal, Owners

LEMMA CallsTyped ==
    ASSUME NEW op \in Operations, NEW at \in Places, NEW o \in Owners,
           NEW r \in Requests \cup {NoRequest}, NEW k \in Keys \cup {NoKey}
    PROVE  Call(op, at, o, r, k) \in CallStates
BY DEF Call, CallStates

LEMMA StartTypes ==
    ASSUME TypeOK, NEW p \in Procs, NEW op \in Operations, NEW o \in Owners,
           NEW r \in Requests \cup {NoRequest}, NEW k \in Keys \cup {NoKey}, Start(p, op, o, r, k)
    PROVE  calls' \in [Procs -> CallStates \cup {Idle}]
<1>1. Call(op, "lock", o, r, k) \in CallStates
    BY CallsTyped DEF Places
<1> QED
    BY <1>1 DEF Start, TypeOK

LEMMA MoveTypes ==
    ASSUME TypeOK, NEW p \in Procs, calls[p] # Idle
    PROVE  /\ End(p) => /\ calls' \in [Procs -> CallStates \cup {Idle}]
                        /\ lock' \in [Users -> Procs \cup {NoProc}]
           /\ \A place \in Places :
                  Enter(p, place) => /\ calls' \in [Procs -> CallStates \cup {Idle}]
                                     /\ lock' \in [Users -> Procs \cup {NoProc}]
           /\ \A place \in Places, k \in Keys \cup {NoKey} :
                  GoWith(p, place, k) => /\ calls' \in [Procs -> CallStates \cup {Idle}]
                                         /\ lock' \in [Users -> Procs \cup {NoProc}]
<1>1. \A place \in Places, k \in Keys \cup {NoKey} :
          Call(calls[p].op, place, calls[p].owner, calls[p].request, k) \in CallStates
    BY CallTyped, CallsTyped
<1>2. calls[p].key \in Keys \cup {NoKey}
    BY CallTyped
<1> QED
    BY <1>1, <1>2 DEF End, Enter, GoWith, TypeOK

LEMMA ListTyped == ListPending \in SUBSET Entries
<1> SUFFICES ASSUME NEW r \in pending PROVE <<Number(r), r>> \in Entries
    BY DEF ListPending
<1>1. r \in Requests
    BY DEF pending
<1>2. Number(r) \in Nat
  <2>1. {s \in pending : requestedAt[s] <= requestedAt[r]} \in SUBSET Requests
    BY DEF pending
  <2>2. IsFiniteSet({s \in pending : requestedAt[s] <= requestedAt[r]})
    BY <2>1, FS_Subset, RegistrationAssumption
  <2> QED
    BY <2>2, FS_CardinalityType DEF Number
<1> QED
    BY <1>1, <1>2 DEF Entries

LEMMA InitType == Init => TypeOK
<1> SUFFICES ASSUME Init PROVE TypeOK
    OBVIOUS
<1>1. NoList \in Lists /\ Batch("approve", {}) \in Batches
    BY DEF NoList, Lists, Batch, Batches
<1> QED
    BY <1>1, RegistrationAssumption DEF Init, TypeOK

(* At work, a call is not idle. *)
LEMMA WorkBusy ==
    ASSUME NEW p, Work(p)
    PROVE  calls[p] # Idle
<1>1. calls[p].at \in Places
    BY DEF Work, LookRegister, LookPending, LookIssue, LookApprove, Create, IssueKey,
           Deliver, DeliveryFails, Rollback, RollbackFails, Cleanup, CleanupFails,
           Discard, DeleteKey, Fail, Locked, Places
<1> QED
    BY <1>1, IdleTyped DEF Places

LEMMA WorkType == ASSUME TypeOK, NEW p \in Procs, Work(p) PROVE TypeOK'
<1> DEFINE Moved == /\ calls' \in [Procs -> CallStates \cup {Idle}]
                    /\ lock' \in [Users -> Procs \cup {NoProc}]
<1> USE RegistrationAssumption
<1>1. /\ End(p) => Moved
      /\ \A place \in Places : Enter(p, place) => Moved
      /\ \A place \in Places : Go(p, place) => Moved
      /\ \A place \in Places, k \in Keys : GoWith(p, place, k) => Moved
    BY MoveTypes, WorkBusy, CallTyped DEF Go
<1>2. calls[p].request \in Requests \cup {NoRequest} /\ calls[p].owner \in Owners
    BY WorkBusy, CallTyped
<1> HIDE DEF Moved
<1>3. CASE LookRegister(p) \/ LookPending(p) \/ LookIssue(p) \/ LookApprove(p) \/ Fail(p)
  <2>1. Moved
    BY <1>3, <1>1 DEF LookRegister, LookPending, LookIssue, LookApprove, Fail, Places
  <2> QED
    BY <1>3, <2>1 DEF LookRegister, LookPending, LookIssue, LookApprove, Fail,
           TypeOK, stores, chat, history, Moved
<1>4. ASSUME NEW r \in Requests, NEW t \in Times, Create(p, r, t) PROVE TypeOK'
    BY <1>4, <1>1, <1>2 DEF Create, TypeOK, chat, Moved
<1>5. CASE IssueKey(p)
  <2>1. Moved /\ nextID \in Keys
    BY <1>5, <1>1 DEF IssueKey, Places
  <2>2. nextID' \in 1..(MaxKeys + 1)
    BY <1>5, <2>1 DEF IssueKey, Keys
  <2> QED
    BY <1>5, <1>2, <2>1, <2>2 DEF IssueKey, TypeOK, chat, Moved
<1>6. CASE Deliver(p)
  <2>1. Moved
    BY <1>6, <1>1 DEF Deliver, Places
  <2>2. fate' \in [Keys -> {"none", "issued", "delivered", "manual", "stuck"}]
    BY <1>6 DEF Deliver, TypeOK
  <2>3. marks' \in [Requests -> SUBSET {"created", "granted", "rejected", "leftover"}]
    BY <1>6 DEF Deliver, TypeOK
  <2> QED
    BY <1>6, <2>1, <2>2, <2>3 DEF Deliver, TypeOK, stores, chat, Moved
<1>7. CASE DeliveryFails(p) \/ RollbackFails(p) \/ CleanupFails(p)
  <2>1. Moved
    BY <1>7, <1>1 DEF DeliveryFails, RollbackFails, CleanupFails, Places
  <2> QED
    BY <1>7, <2>1 DEF DeliveryFails, RollbackFails, CleanupFails, TypeOK, stores, chat, history, Moved
<1>8. CASE Rollback(p) \/ DeleteKey(p)
    BY <1>8, <1>1 DEF Rollback, DeleteKey, RemoveKey, TypeOK, chat, Moved
<1>9. CASE Cleanup(p) \/ Discard(p)
    BY <1>9, <1>1 DEF Cleanup, Discard, RemoveRequest, TypeOK, chat, history, Moved
<1> QED
    BY <1>3, <1>4, <1>5, <1>6, <1>7, <1>8, <1>9 DEF Work

LEMMA BeginType == ASSUME TypeOK, NEW p \in Calls, Begin(p) PROVE TypeOK'
<1>1. p \in Procs /\ NoRequest \in Requests \cup {NoRequest} /\ NoKey \in Keys \cup {NoKey}
    BY DEF Procs
<1>2. calls' \in [Procs -> CallStates \cup {Idle}]
  <2>1. CASE \E o \in Owners : StartRegister(p, o) \/ StartIssue(p, o)
    BY <2>1, <1>1, StartTypes DEF StartRegister, StartIssue, Operations
  <2>2. ASSUME NEW k \in Keys, StartDelete(p, k) PROVE calls' \in [Procs -> CallStates \cup {Idle}]
    <3>1. credentials[k] \in Owners
      BY <2>2 DEF StartDelete, TypeOK
    <3> QED
      BY <2>2, <3>1, <1>1, StartTypes DEF StartDelete, Operations
  <2>3. ASSUME NEW r \in Requests, NEW op \in {"approve", "reject"}, StartDecision(p, op, r)
        PROVE  calls' \in [Procs -> CallStates \cup {Idle}]
    <3>1. owner[r] \in Owners
      BY <2>3 DEF StartDecision, TypeOK, pending
    <3> QED
      BY <2>3, <3>1, <1>1, StartTypes DEF StartDecision, Operations
  <2> QED
    BY <2>1, <2>2, <2>3 DEF Begin
<1>3. UNCHANGED <<stores, lock, chat, history, restarts>>
    BY DEF Begin, StartRegister, StartIssue, StartDelete, StartDecision
<1> QED
    BY <1>2, <1>3 DEF TypeOK, stores, chat, history

LEMMA ChatType == ASSUME TypeOK, NEW a \in Admins, Chat(a) PROVE TypeOK'
<1>1. NoList \in Lists /\ List(ListPending) \in Lists
    BY ListTyped DEF NoList, List, Lists
<1>2. CASE SendList(a) \/ ListFails(a)
    BY <1>1, <1>2, ListTyped DEF SendList, ListFails, TypeOK, stores, history
<1>3. ASSUME NEW op \in {"approve", "reject"}, NEW numbers, ResolveSelection(a, op, numbers)
      PROVE  TypeOK'
  <2> DEFINE picks == {e \in snapshots[a].entries \cap ListPending : e[1] \in numbers}
             taken == IF {e[1] : e \in picks} = numbers THEN picks ELSE {}
  <2>1. taken \in SUBSET Entries
    BY ListTyped
  <2>2. Batch(op, taken) \in Batches
    BY <2>1 DEF Batch, Batches
  <2>3. todo' \in [Admins -> Batches]
    BY <1>3, <2>2 DEF ResolveSelection, TypeOK
  <2> QED
    BY <1>1, <1>3, <2>3 DEF ResolveSelection, TypeOK, stores, history
<1>4. ASSUME NEW e \in todo[a].picks, NextDecision(a, e) PROVE TypeOK'
  <2>1. todo[a].op \in {"approve", "reject"} /\ todo[a].picks \in SUBSET Entries /\ a \in Procs
    BY DEF TypeOK, Batches, Procs
  <2>2. Batch(todo[a].op, todo[a].picks \ {e}) \in Batches
    BY <2>1 DEF Batch, Batches
  <2>3. calls' \in [Procs -> CallStates \cup {Idle}]
    <3>1. CASE e[2] \in pending
      <4>1. e[2] \in Requests /\ owner[e[2]] \in Owners
        BY <3>1 DEF pending, TypeOK
      <4> QED
        BY <1>4, <2>1, <3>1, <4>1, StartTypes DEF NextDecision, Operations
    <3>2. CASE e[2] \notin pending
      BY <1>4, <3>2 DEF NextDecision, TypeOK
    <3> QED
      BY <3>1, <3>2
  <2> QED
    BY <1>4, <2>2, <2>3 DEF NextDecision, TypeOK, stores, history
<1> QED
    BY <1>2, <1>3, <1>4 DEF Chat

LEMMA RestartType == ASSUME TypeOK, Restart PROVE TypeOK'
<1>1. NoList \in Lists /\ Batch("approve", {}) \in Batches
    BY DEF NoList, Lists, Batch, Batches
<1> QED
    BY <1>1, RegistrationAssumption DEF Restart, NextIDs, TypeOK

LEMMA NextType == TypeOK /\ [Next]_vars => TypeOK'
<1>1. ASSUME TypeOK, UNCHANGED vars PROVE TypeOK'
    BY <1>1 DEF vars, stores, chat, history, TypeOK
<1> QED
    BY <1>1, WorkType, BeginType, ChatType, RestartType DEF Next

(* Every variable of a reachable state has its type. *)
THEOREM RegistrationTypeOK == Spec => []TypeOK
<1> QED
    BY InitType, NextType, PTL DEF Spec

-----------------------------------------------------------------------------
(* What a step of a call touches.                                          *)

OwnCall(p) ==
    /\ \A q \in Procs \ {p} : calls'[q] = calls[q]
    /\ lock[Principal(p)] \in {p, NoProc}
    /\ \A u \in Users \ {Principal(p)} : lock'[u] = lock[u]

OwnKeys(p) ==
    \A k \in Keys :
        /\ \/ credentials'[k] = credentials[k]
           \/ credentials[k] = NoOwner /\ credentials'[k] = calls[p].owner
           \/ credentials[k] = calls[p].owner /\ credentials'[k] = NoOwner
        /\ fate'[k] # fate[k] => calls[p].owner \in {credentials[k], credentials'[k]}

OwnRequests(p) ==
    \A r \in Requests :
        /\ \/ owner'[r] = owner[r]
           \/ owner[r] = NoOwner /\ marks[r] = {} /\ owner'[r] = calls[p].owner
           \/ owner[r] = calls[p].owner /\ owner'[r] = NoOwner
        /\ marks[r] \subseteq marks'[r]

Effect(p) == OwnCall(p) /\ OwnKeys(p) /\ OwnRequests(p)

LEMMA OwnCallStep ==
    ASSUME TypeOK, NEW p \in Procs, Work(p), Holds(p)
    PROVE  OwnCall(p)
<1>1. calls[p] # Idle /\ Principal(p) \in Users /\ p \in DOMAIN calls
    BY WorkBusy, CallTyped DEF TypeOK
<1>2. lock[Principal(p)] \in {p, NoProc}
  <2>1. CASE calls[p].at = "lock"
    BY <2>1 DEF Work, LookRegister, LookPending, LookIssue, LookApprove, Create, IssueKey,
           Deliver, DeliveryFails, Rollback, RollbackFails, Cleanup, CleanupFails,
           Discard, DeleteKey, Fail, Locked, Principal
  <2>2. CASE calls[p].at # "lock"
    BY <1>1, <2>2, CallTyped DEF Holds, Working
  <2> QED
    BY <2>1, <2>2
<1>3. \/ End(p) \/ \E place \in Places : Enter(p, place)
      \/ \E place \in Places, k \in Keys \cup {NoKey} : GoWith(p, place, k)
  <2>1. calls[p].key \in Keys \cup {NoKey}
    BY <1>1, CallTyped
  <2>2. CASE LookRegister(p) \/ LookIssue(p) \/ LookApprove(p) \/ Fail(p)
    BY <2>2 DEF LookRegister, LookIssue, LookApprove, Fail, Places
  <2>3. CASE LookPending(p) \/ Deliver(p) \/ DeliveryFails(p)
    BY <2>1, <2>3 DEF LookPending, Deliver, DeliveryFails, Go, Places
  <2>4. CASE IssueKey(p)
    BY <2>4 DEF IssueKey, Places
  <2>5. CASE \/ \E r \in Requests, t \in Times : Create(p, r, t)
             \/ Rollback(p) \/ RollbackFails(p) \/ Cleanup(p) \/ CleanupFails(p)
             \/ Discard(p) \/ DeleteKey(p)
    BY <2>5 DEF Create, Rollback, RollbackFails, Cleanup, CleanupFails, Discard, DeleteKey
  <2> QED
    BY <2>2, <2>3, <2>4, <2>5 DEF Work
<1>4. \A q \in Procs \ {p} : calls'[q] = calls[q]
    BY <1>3 DEF End, Enter, GoWith, TypeOK
<1>5. \A u \in Users \ {Principal(p)} : lock'[u] = lock[u]
    BY <1>3 DEF End, Enter, GoWith, Principal, TypeOK
<1> QED
    BY <1>2, <1>4, <1>5 DEF OwnCall

LEMMA OwnKeysStep ==
    ASSUME TypeOK, NEW p \in Procs, Work(p), Shape(p), Holds(p), FreshIDs
    PROVE  OwnKeys(p)
<1>1. calls[p] # Idle
    BY WorkBusy
<1>2. CASE UNCHANGED <<credentials, fate>>
    BY <1>2 DEF OwnKeys
<1>3. CASE IssueKey(p)
  <2>1. nextID \in Keys /\ credentials[nextID] = NoOwner
    BY <1>3 DEF IssueKey, FreshIDs, Keys
  <2>2. /\ credentials' = [credentials EXCEPT ![nextID] = calls[p].owner]
        /\ \A k \in Keys \ {nextID} : fate'[k] = fate[k]
    BY <1>3 DEF IssueKey, TypeOK
  <2> QED
    BY <2>1, <2>2 DEF OwnKeys, TypeOK
<1>4. CASE Deliver(p) \/ RollbackFails(p)
    BY <1>4 DEF Deliver, RollbackFails, Holds, Working, KeyPlaces, Places, OwnKeys, stores, TypeOK
<1>5. CASE Rollback(p)
    BY <1>5 DEF Rollback, RemoveKey, Holds, Working, KeyPlaces, Places, OwnKeys, TypeOK
<1>6. CASE DeleteKey(p)
    BY <1>6 DEF DeleteKey, RemoveKey, OwnKeys, TypeOK
<1>7. CASE \/ LookRegister(p) \/ LookPending(p) \/ LookIssue(p) \/ LookApprove(p) \/ Fail(p)
           \/ DeliveryFails(p) \/ CleanupFails(p) \/ Cleanup(p) \/ Discard(p)
           \/ \E r \in Requests, t \in Times : Create(p, r, t)
    BY <1>2, <1>7 DEF LookRegister, LookPending, LookIssue, LookApprove, Fail, DeliveryFails,
           CleanupFails, Cleanup, Discard, RemoveRequest, Create, stores, history
<1> QED
    BY <1>3, <1>4, <1>5, <1>6, <1>7 DEF Work

LEMMA OwnRequestsStep ==
    ASSUME TypeOK, NEW p \in Procs, Work(p), Shape(p), Holds(p), Named(p), Undecided
    PROVE  OwnRequests(p)
<1>1. CASE UNCHANGED <<owner, marks>>
    BY <1>1 DEF OwnRequests
<1>2. ASSUME NEW r \in Requests, NEW t \in Times, Create(p, r, t) PROVE OwnRequests(p)
    BY <1>2 DEF Create, Undecided, pending, OwnRequests, TypeOK
<1>3. CASE Deliver(p) \/ CleanupFails(p)
    BY <1>3 DEF Deliver, CleanupFails, OwnRequests, stores, TypeOK
<1>4. CASE Cleanup(p)
    BY <1>4 DEF Cleanup, RemoveRequest, history, Shape, Holds, Working, Places, OwnRequests, TypeOK
<1>5. CASE Discard(p)
    BY <1>5 DEF Discard, RemoveRequest, pending, Named, OwnRequests, TypeOK
<1>6. CASE \/ LookRegister(p) \/ LookPending(p) \/ LookIssue(p) \/ LookApprove(p) \/ Fail(p)
           \/ DeliveryFails(p) \/ RollbackFails(p) \/ Rollback(p) \/ DeleteKey(p) \/ IssueKey(p)
    BY <1>1, <1>6 DEF LookRegister, LookPending, LookIssue, LookApprove, Fail, DeliveryFails,
           RollbackFails, Rollback, DeleteKey, RemoveKey, IssueKey, stores, history
<1> QED
    BY <1>2, <1>3, <1>4, <1>5, <1>6 DEF Work

(* Whoever else is at work has another principal, so that what it relies on *)
(* stays true.                                                              *)
LEMMA Alone ==
    ASSUME TypeOK, NEW p \in Procs, NEW q \in Procs \ {p}, OwnCall(p), Holds(q), Working(q)
    PROVE  Principal(q) # Principal(p)
BY RegistrationAssumption DEF OwnCall, Holds

LEMMA OthersShape ==
    ASSUME NEW p \in Procs, NEW q \in Procs \ {p}, OwnCall(p), Shape(q)
    PROVE  Shape(q)'
BY DEF OwnCall, Shape

LEMMA OthersNamed ==
    ASSUME TypeOK, NEW p \in Procs, NEW q \in Procs \ {p}, OwnCall(p), OwnRequests(p), Named(q)
    PROVE  Named(q)'
BY DEF OwnCall, OwnRequests, Named

LEMMA OthersHold ==
    ASSUME TypeOK, NEW p \in Procs, NEW q \in Procs \ {p}, calls[p] # Idle,
           Effect(p), Shape(q), Holds(q)
    PROVE  Holds(q)'
<1> SUFFICES ASSUME Working(q) PROVE Holds(q)'
    BY DEF Effect, OwnCall, Holds, Working
<1>1. calls'[q] = calls[q] /\ Principal(q)' = Principal(q)
    BY DEF Effect, OwnCall, Principal
<1>2. calls[q] # Idle
    BY IdleTyped DEF Working, Places
<1>3. Principal(q) # Principal(p) /\ calls[q].owner # calls[p].owner
    BY Alone DEF Effect, Principal
<1>4. Principal(q) \in Users /\ calls[q].owner \in Owners /\ calls[q].owner # NoOwner
    BY <1>2, CallTyped, RegistrationAssumption
<1>5. lock'[Principal(q)] = q
    BY <1>3, <1>4 DEF Effect, OwnCall, Holds
<1>6. HeldBy(Principal(q)) = {} => HeldBy(Principal(q))' = {}
  <2> SUFFICES ASSUME NEW k \in Keys, NEW m \in Machines, credentials'[k] = <<Principal(q), m>>,
                      credentials[k] # credentials'[k]
               PROVE  FALSE
    BY <1>1 DEF HeldBy
  <2>1. credentials'[k] = calls[p].owner \/ credentials'[k] = NoOwner
    BY DEF Effect, OwnKeys
  <2>2. <<Principal(q), m>> \in Owners
    BY <1>4 DEF Owners
  <2>3. calls[p].owner = <<Principal(q), m>>
    BY <2>1, <2>2, RegistrationAssumption
  <2> QED
    BY <1>3, <2>3 DEF Principal
<1>7. HeldFor(calls[q].owner) = {} => HeldFor(calls[q].owner)' = {}
    BY <1>1, <1>3, <1>4 DEF HeldFor, Effect, OwnKeys
<1>8. RequestedBy(Principal(q)) = {} => RequestedBy(Principal(q))' = {}
  <2> SUFFICES ASSUME NEW r \in pending', owner'[r][1] = Principal(q), RequestedBy(Principal(q)) = {}
               PROVE  FALSE
    BY <1>1 DEF RequestedBy
  <2>1. r \in Requests /\ owner'[r] # NoOwner
    BY DEF pending
  <2>2. owner'[r] = owner[r] \/ owner'[r] = calls[p].owner
    BY <2>1 DEF Effect, OwnRequests
  <2> QED
    BY <1>3, <2>1, <2>2 DEF RequestedBy, pending, Principal
<1>9. RequestedFor(calls[q].owner) = {} => RequestedFor(calls[q].owner)' = {}
  <2> SUFFICES ASSUME NEW r \in pending', owner'[r] = calls[q].owner, RequestedFor(calls[q].owner) = {}
               PROVE  FALSE
    BY <1>1 DEF RequestedFor
  <2>1. r \in Requests /\ owner'[r] # NoOwner
    BY DEF pending
  <2>2. owner'[r] = owner[r] \/ owner'[r] = calls[p].owner
    BY <2>1 DEF Effect, OwnRequests
  <2> QED
    BY <1>3, <2>1, <2>2 DEF RequestedFor, pending
<1>10. calls[q].op = "approve" => owner'[calls[q].request] = calls[q].owner
    BY <1>3, <1>4 DEF Shape, Holds, Effect, OwnRequests
<1>11. calls[q].at \in KeyPlaces =>
          /\ credentials'[calls[q].key] = calls[q].owner
          /\ fate'[calls[q].key] = fate[calls[q].key]
  <2> SUFFICES ASSUME calls[q].at \in KeyPlaces
               PROVE  /\ credentials'[calls[q].key] = calls[q].owner
                      /\ fate'[calls[q].key] = fate[calls[q].key]
    OBVIOUS
  <2>1. calls[q].key \in Keys /\ credentials[calls[q].key] = calls[q].owner
    BY DEF Shape, Holds
  <2> QED
    BY <1>3, <1>4, <2>1 DEF Effect, OwnKeys
<1>12. calls[q].at = "cleanup" => "granted" \in marks'[calls[q].request]
    BY DEF Shape, Holds, Effect, OwnRequests
<1> QED
    BY <1>1, <1>5, <1>6, <1>7, <1>8, <1>9, <1>10, <1>11, <1>12
    DEF Holds, At, KeyPlaces

-----------------------------------------------------------------------------
(* What the call itself relies on afterwards.                              *)

SameCall(p) ==
    /\ calls'[p].op = calls[p].op /\ calls'[p].owner = calls[p].owner
    /\ calls'[p].request = calls[p].request /\ Principal(p)' = Principal(p)

LEMMA Ended ==
    ASSUME TypeOK, NEW p \in Procs, End(p)
    PROVE  calls'[p] = Idle /\ Shape(p)' /\ Holds(p)' /\ Named(p)'
<1>1. calls'[p] = Idle
    BY DEF End, TypeOK
<1> QED
    BY <1>1, IdleTyped, RegistrationAssumption DEF Shape, Holds, Named, Working, Places, KeyPlaces, Keys

LEMMA Entered ==
    ASSUME TypeOK, NEW p \in Procs, calls[p] # Idle, NEW place \in Places, Enter(p, place)
    PROVE  /\ SameCall(p) /\ calls'[p].at = place /\ calls'[p].key = calls[p].key
           /\ lock'[Principal(p)] = p
<1>1. calls'[p] = Call(calls[p].op, place, calls[p].owner, calls[p].request, calls[p].key)
    BY DEF Enter, TypeOK
<1>2. lock'[Principal(p)] = p
    BY CallTyped DEF Enter, TypeOK, Principal
<1> QED
    BY <1>1, <1>2 DEF Call, SameCall, Principal

LEMMA Went ==
    ASSUME TypeOK, NEW p \in Procs, calls[p] # Idle, NEW place, NEW k, GoWith(p, place, k)
    PROVE  SameCall(p) /\ calls'[p].at = place /\ calls'[p].key = k /\ lock' = lock
<1>1. calls'[p] = Call(calls[p].op, place, calls[p].owner, calls[p].request, k)
    BY DEF GoWith, TypeOK
<1> QED
    BY <1>1 DEF GoWith, Call, SameCall, Principal

LEMMA OwnState ==
    ASSUME TypeOK, NEW p \in Procs, Work(p), Shape(p), Holds(p), Named(p), OwnRequests(p), FreshIDs
    PROVE  Shape(p)' /\ Holds(p)' /\ Named(p)'
<1> DEFINE Goal == Shape(p)' /\ Holds(p)' /\ Named(p)'
<1> USE RegistrationAssumption
<1>1. calls[p] # Idle
    BY WorkBusy
<1>2. /\ calls[p].op \in Operations /\ calls[p].at \in Places /\ calls[p].owner \in Owners
      /\ calls[p].owner # NoOwner
      /\ calls[p].request \in Requests \cup {NoRequest} /\ calls[p].key \in Keys \cup {NoKey}
    BY <1>1, CallTyped
<1>3. End(p) => Goal
    BY Ended
<1>4. SameCall(p) => Named(p)'
    BY DEF SameCall, Named, OwnRequests
<1>5. CASE LookRegister(p)
  <2>1. CASE End(p)
    BY <2>1, <1>3
  <2>2. ASSUME NEW place \in {"first", "another"}, Enter(p, place),
               HeldFor(calls[p].owner) = {}, place = "first" => HeldBy(Principal(p)) = {}
        PROVE  Goal
    <3>1. SameCall(p) /\ calls'[p].at = place /\ calls'[p].key = calls[p].key /\ lock'[Principal(p)] = p
      BY <2>2, <1>1, Entered DEF Places
    <3>2. Shape(p)'
      BY <3>1, <1>5 DEF LookRegister, Locked, Shape, SameCall, KeyPlaces
    <3>3. /\ HeldFor(calls[p].owner)' = HeldFor(calls[p].owner)
          /\ HeldBy(Principal(p))' = HeldBy(Principal(p))
      BY <3>1, <1>5 DEF LookRegister, stores, HeldFor, HeldBy, SameCall
    <3>4. Holds(p)'
      BY <3>1, <3>3, <2>2, <1>5 DEF LookRegister, Holds, SameCall, At, KeyPlaces
    <3> QED
      BY <3>1, <3>2, <3>4, <1>4
  <2> QED
    BY <1>5, <2>1, <2>2 DEF LookRegister, Principal
<1>6. CASE LookPending(p)
  <2>1. CASE End(p)
    BY <2>1, <1>3
  <2>2. ASSUME NEW place \in {"issue", "create"}, Go(p, place),
               place = "issue" => calls[p].at = "first" /\ RequestedBy(Principal(p)) = {}
        PROVE  Goal
    <3>1. SameCall(p) /\ calls'[p].at = place /\ calls'[p].key = calls[p].key /\ lock' = lock
      BY <2>2, <1>1, Went DEF Go
    <3>2. Shape(p)'
      BY <3>1, <1>6 DEF LookPending, Shape, SameCall, KeyPlaces
    <3>3. /\ HeldFor(calls[p].owner)' = HeldFor(calls[p].owner)
          /\ HeldBy(Principal(p))' = HeldBy(Principal(p))
          /\ RequestedBy(Principal(p))' = RequestedBy(Principal(p))
      BY <3>1, <1>6 DEF LookPending, stores, HeldFor, HeldBy, RequestedBy, pending, SameCall
    <3>4. HeldBy(Principal(p)) = {} => HeldFor(calls[p].owner) = {}
      BY <1>2 DEF HeldBy, HeldFor, Principal, Owners
    <3>5. Holds(p)'
      BY <3>1, <3>3, <3>4, <2>2, <1>6
      DEF LookPending, Holds, Shape, Working, Places, SameCall, At, KeyPlaces
    <3> QED
      BY <3>1, <3>2, <3>5, <1>4
  <2> QED
    BY <1>6, <2>1, <2>2 DEF LookPending, Principal
<1>7. CASE LookIssue(p) \/ LookApprove(p)
  <2>1. CASE End(p)
    BY <2>1, <1>3
  <2>2. CASE /\ Enter(p, "issue")
             /\ \/ calls[p].op = "issue" /\ RequestedFor(calls[p].owner) = {}
                \/ calls[p].op = "approve" /\ calls[p].request \in pending
    <3>1. SameCall(p) /\ calls'[p].at = "issue" /\ calls'[p].key = calls[p].key /\ lock'[Principal(p)] = p
      BY <2>2, <1>1, Entered DEF Places
    <3>2. Shape(p)'
      BY <3>1, <2>2, <1>7 DEF LookIssue, LookApprove, Locked, Shape, SameCall, KeyPlaces
    <3>3. RequestedFor(calls[p].owner)' = RequestedFor(calls[p].owner) /\ owner' = owner
      BY <3>1, <1>7 DEF LookIssue, LookApprove, stores, RequestedFor, pending, SameCall
    <3>4. calls[p].op = "approve" => owner[calls[p].request] = calls[p].owner
      BY <2>2 DEF Named, pending
    <3>5. Holds(p)'
      BY <3>1, <3>3, <3>4, <2>2 DEF Holds, SameCall, At, KeyPlaces
    <3> QED
      BY <3>1, <3>2, <3>5, <1>4
  <2> QED
    BY <1>7, <2>1, <2>2 DEF LookIssue, LookApprove
<1>8. CASE IssueKey(p)
  <2>1. CASE End(p)
    BY <2>1, <1>3
  <2>2. CASE GoWith(p, "deliver", nextID) /\ calls[p].op # "issue"
    <3>1. SameCall(p) /\ calls'[p].at = "deliver" /\ calls'[p].key = nextID /\ lock' = lock
      BY <2>2, <1>1, Went
    <3>2. nextID \in Keys /\ owner' = owner /\ marks' = marks
      BY <1>8 DEF IssueKey
    <3>3. Shape(p)'
      BY <3>1, <3>2, <2>2, <1>8 DEF IssueKey, Shape, SameCall, KeyPlaces
    <3>4. credentials'[nextID] = calls[p].owner /\ fate'[nextID] = "issued"
      BY <3>2, <2>2, <1>8 DEF IssueKey, TypeOK
    <3>5. Holds(p)'
      BY <3>1, <3>2, <3>4, <1>8 DEF IssueKey, Holds, Working, Places, SameCall, At, KeyPlaces
    <3> QED
      BY <3>1, <3>3, <3>5, <1>4
  <2> QED
    BY <1>8, <2>1, <2>2 DEF IssueKey
<1>9. CASE Deliver(p)
  <2>1. CASE End(p)
    BY <2>1, <1>3
  <2>2. CASE Go(p, "cleanup") /\ calls[p].op = "approve"
    <3>1. SameCall(p) /\ calls'[p].at = "cleanup" /\ calls'[p].key = calls[p].key /\ lock' = lock
      BY <2>2, <1>1, Went DEF Go
    <3>2. Shape(p)'
      BY <3>1, <2>2, <1>9 DEF Deliver, Shape, SameCall, KeyPlaces
    <3>3. UNCHANGED <<credentials, owner>> /\ "granted" \in marks'[calls[p].request]
      BY <2>2, <1>9 DEF Deliver, Shape, stores, TypeOK
    <3>4. Holds(p)'
      BY <3>1, <3>3, <2>2, <1>9 DEF Deliver, Holds, Working, Places, SameCall, At, KeyPlaces
    <3> QED
      BY <3>1, <3>2, <3>4, <1>4
  <2> QED
    BY <1>9, <2>1, <2>2 DEF Deliver
<1>10. CASE DeliveryFails(p)
  <2>1. SameCall(p) /\ calls'[p].at = "rollback" /\ calls'[p].key = calls[p].key /\ lock' = lock
    BY <1>10, <1>1, Went DEF DeliveryFails, Go
  <2>2. Shape(p)'
    BY <2>1, <1>10 DEF DeliveryFails, Shape, SameCall, KeyPlaces
  <2>3. Holds(p)'
    BY <2>1, <1>10 DEF DeliveryFails, Holds, Working, Places, SameCall, At, KeyPlaces, stores, history
  <2> QED
    BY <2>1, <2>2, <2>3, <1>4
<1>11. CASE \/ Rollback(p) \/ RollbackFails(p) \/ Cleanup(p) \/ CleanupFails(p)
            \/ Discard(p) \/ DeleteKey(p) \/ Fail(p)
            \/ \E r \in Requests, t \in Times : Create(p, r, t)
    BY <1>3, <1>11 DEF Rollback, RollbackFails, Cleanup, CleanupFails, Discard, DeleteKey, Fail, Create
<1> QED
    BY <1>5, <1>6, <1>7, <1>8, <1>9, <1>10, <1>11 DEF Work

-----------------------------------------------------------------------------
(* The remaining parts of the invariant under the work of a call.          *)

LEMMA FreshIDsWork ==
    ASSUME TypeOK, NEW p \in Procs, Work(p), OwnKeys(p), FreshIDs
    PROVE  FreshIDs'
<1>1. CASE IssueKey(p)
    BY <1>1 DEF IssueKey, FreshIDs, Keys, TypeOK
<1>2. CASE Rollback(p) \/ DeleteKey(p)
    BY <1>2 DEF Rollback, DeleteKey, RemoveKey, FreshIDs, TypeOK
<1>3. CASE \/ LookRegister(p) \/ LookPending(p) \/ LookIssue(p) \/ LookApprove(p) \/ Fail(p)
           \/ Deliver(p) \/ DeliveryFails(p) \/ RollbackFails(p) \/ CleanupFails(p)
           \/ Cleanup(p) \/ Discard(p) \/ \E r \in Requests, t \in Times : Create(p, r, t)
  <2>1. UNCHANGED <<credentials, nextID>>
    BY <1>3 DEF LookRegister, LookPending, LookIssue, LookApprove, Fail, Deliver, DeliveryFails,
           RollbackFails, CleanupFails, Cleanup, Discard, RemoveRequest, Create, stores
  <2> QED
    BY <2>1 DEF FreshIDs
<1> QED
    BY <1>1, <1>2, <1>3 DEF Work

(* A key in the hands of a call stays there until it is delivered, rolled   *)
(* back or left behind.                                                     *)
LEMMA AttendedWork ==
    ASSUME TypeOK, NEW p \in Procs, Work(p), Shape(p), Holds(p), Effect(p), Attended
    PROVE  Attended'
<1> USE RegistrationAssumption
<1> SUFFICES ASSUME NEW k \in Keys, credentials'[k] # NoOwner,
                    fate'[k] \notin {"delivered", "manual", "stuck"}
             PROVE  \E q \in Procs : calls'[q].key = k /\ calls'[q].at \in {"deliver", "rollback"}
    BY DEF Attended
<1>1. calls[p] # Idle
    BY WorkBusy
<1>2. CASE IssueKey(p) /\ k = nextID
  <2>1. calls[p].op # "issue"
    BY <1>2 DEF IssueKey, TypeOK
  <2>2. calls'[p].key = k /\ calls'[p].at = "deliver"
    BY <1>1, <1>2, <2>1, Went DEF IssueKey
  <2> QED
    BY <2>2
<1>3. CASE ~(IssueKey(p) /\ k = nextID)
  <2>1. credentials[k] # NoOwner /\ fate'[k] = fate[k]
    <3>1. CASE IssueKey(p)
      BY <1>3, <3>1 DEF IssueKey, TypeOK
    <3>2. CASE Deliver(p) \/ RollbackFails(p)
      BY <3>2 DEF Deliver, RollbackFails, stores, TypeOK
    <3>3. CASE Rollback(p) \/ DeleteKey(p)
      BY <3>3 DEF Rollback, DeleteKey, RemoveKey, TypeOK
    <3>4. CASE \/ LookRegister(p) \/ LookPending(p) \/ LookIssue(p) \/ LookApprove(p) \/ Fail(p)
               \/ DeliveryFails(p) \/ CleanupFails(p)
               \/ Cleanup(p) \/ Discard(p) \/ \E r \in Requests, t \in Times : Create(p, r, t)
      BY <3>4 DEF LookRegister, LookPending, LookIssue, LookApprove, Fail, DeliveryFails,
             CleanupFails, Cleanup, Discard, RemoveRequest, Create, stores, history
    <3> QED
      BY <3>1, <3>2, <3>3, <3>4 DEF Work
  <2>2. PICK q \in Procs : calls[q].key = k /\ calls[q].at \in {"deliver", "rollback"}
    BY <2>1 DEF Attended
  <2>3. CASE q # p
    BY <2>2, <2>3 DEF Effect, OwnCall
  <2>4. CASE q = p
    <3>1. Deliver(p) \/ DeliveryFails(p) \/ Rollback(p) \/ RollbackFails(p)
      BY <2>2, <2>4 DEF Work, LookRegister, LookPending, LookIssue, LookApprove, Create, IssueKey,
             Cleanup, CleanupFails, Discard, DeleteKey, Fail, Locked
    <3>2. CASE DeliveryFails(p)
      BY <3>2, <1>1, <2>2, <2>4, Went DEF DeliveryFails, Go
    <3>3. CASE Deliver(p) \/ RollbackFails(p)
      BY <3>3, <2>2, <2>4 DEF Deliver, RollbackFails, TypeOK
    <3>4. CASE Rollback(p)
      BY <3>4, <2>2, <2>4 DEF Rollback, RemoveKey, TypeOK
    <3> QED
      BY <3>1, <3>2, <3>3, <3>4
  <2> QED
    BY <2>3, <2>4
<1> QED
    BY <1>2, <1>3

LEMMA UndecidedWork ==
    ASSUME TypeOK, NEW p \in Procs, Work(p), Shape(p), Holds(p), Effect(p), Undecided
    PROVE  Undecided'
<1> USE RegistrationAssumption
<1> SUFFICES ASSUME NEW r \in Requests, owner'[r] # NoOwner
             PROVE  /\ marks'[r] # {} /\ "rejected" \notin marks'[r]
                    /\ "granted" \in marks'[r] =>
                           \/ "leftover" \in marks'[r]
                           \/ \E q \in Procs : calls'[q].at = "cleanup" /\ calls'[q].request = r
    BY DEF Undecided, pending
<1>1. calls[p] # Idle
    BY WorkBusy
<1>2. ASSUME NEW s \in Requests, NEW t \in Times, Create(p, s, t), s = r
      PROVE  marks'[r] = {"created"}
    BY <1>2 DEF Create, TypeOK
<1>3. CASE ~ \E t \in Times : Create(p, r, t)
  <2>1. r \in pending
    <3>1. CASE owner' = owner
      BY <3>1 DEF pending
    <3>2. CASE Cleanup(p) \/ Discard(p)
      BY <3>2 DEF Cleanup, Discard, RemoveRequest, pending, TypeOK
    <3>3. ASSUME NEW s \in Requests, NEW t \in Times, Create(p, s, t) PROVE r \in pending
      BY <1>3, <3>3 DEF Create, pending, TypeOK
    <3>4. CASE \/ LookRegister(p) \/ LookPending(p) \/ LookIssue(p) \/ LookApprove(p) \/ Fail(p)
               \/ IssueKey(p) \/ Deliver(p) \/ DeliveryFails(p) \/ Rollback(p) \/ RollbackFails(p)
               \/ CleanupFails(p) \/ DeleteKey(p)
      BY <3>1, <3>4 DEF LookRegister, LookPending, LookIssue, LookApprove, Fail, IssueKey, Deliver,
             DeliveryFails, Rollback, RollbackFails, CleanupFails, DeleteKey, RemoveKey, stores
    <3> QED
      BY <3>2, <3>3, <3>4 DEF Work
  <2>2. marks[r] # {} /\ "rejected" \notin marks[r]
    BY <2>1 DEF Undecided
  <2>3. CASE Deliver(p) /\ calls[p].op = "approve" /\ calls[p].request = r
    <3>1. SameCall(p) /\ calls'[p].at = "cleanup"
      BY <1>1, <2>3, Went DEF Deliver, Go
    <3>2. marks'[r] = marks[r] \cup {"granted"}
      BY <2>3 DEF Deliver, TypeOK
    <3> QED
      BY <2>2, <2>3, <3>1, <3>2 DEF SameCall
  <2>4. CASE CleanupFails(p) /\ calls[p].request = r
    BY <2>2, <2>4 DEF CleanupFails, TypeOK
  <2>5. CASE ~(Deliver(p) /\ calls[p].op = "approve" /\ calls[p].request = r)
             /\ ~(CleanupFails(p) /\ calls[p].request = r)
    <3>1. marks'[r] = marks[r]
      <4>1. CASE marks' = marks
        BY <4>1
      <4>2. CASE Deliver(p) \/ CleanupFails(p)
        BY <2>5, <4>2 DEF Deliver, CleanupFails, TypeOK
      <4>3. CASE Discard(p)
        BY <4>3 DEF Discard, RemoveRequest, TypeOK
      <4>4. ASSUME NEW s \in Requests, NEW t \in Times, Create(p, s, t) PROVE marks'[r] = marks[r]
        BY <1>3, <4>4 DEF Create, TypeOK
      <4>5. CASE \/ LookRegister(p) \/ LookPending(p) \/ LookIssue(p) \/ LookApprove(p) \/ Fail(p)
                 \/ IssueKey(p) \/ DeliveryFails(p) \/ Rollback(p) \/ RollbackFails(p)
                 \/ Cleanup(p) \/ DeleteKey(p)
        BY <4>1, <4>5 DEF LookRegister, LookPending, LookIssue, LookApprove, Fail, IssueKey,
               DeliveryFails, Rollback, RollbackFails, Cleanup, DeleteKey, RemoveKey, history
      <4> QED
        BY <4>2, <4>3, <4>4, <4>5 DEF Work
    <3>2. ASSUME NEW q \in Procs, calls[q].at = "cleanup", calls[q].request = r PROVE q # p
      <4>1. SUFFICES ASSUME q = p PROVE FALSE
        OBVIOUS
      <4>2. Cleanup(p) \/ CleanupFails(p)
        BY <3>2, <4>1 DEF Work, LookRegister, LookPending, LookIssue, LookApprove, Create, IssueKey,
               Deliver, DeliveryFails, Rollback, RollbackFails, Discard, DeleteKey, Fail, Locked
      <4> QED
        BY <2>5, <3>2, <4>1, <4>2 DEF Cleanup, RemoveRequest, TypeOK
    <3>3. ASSUME NEW q \in Procs, calls[q].at = "cleanup", calls[q].request = r
          PROVE  calls'[q] = calls[q]
      BY <3>2, <3>3 DEF Effect, OwnCall
    <3> QED
      BY <2>1, <2>2, <3>1, <3>3 DEF Undecided
  <2> QED
    BY <2>3, <2>4, <2>5
<1> QED
    BY <1>2, <1>3

LEMMA DecidedWork ==
    ASSUME TypeOK, NEW p \in Procs, Work(p), \A q \in Procs : Shape(q) /\ Holds(q), Named(p),
           Effect(p), Undecided, RequestsDecidedOnce
    PROVE  RequestsDecidedOnce'
<1> USE RegistrationAssumption
<1> SUFFICES ASSUME NEW r \in Requests
             PROVE  /\ "created" \in marks'[r] =>
                           owner'[r] # NoOwner \/ "rejected" \in marks'[r] \/ "granted" \in marks'[r]
                    /\ {"rejected", "granted"} \subseteq marks'[r] => "leftover" \in marks'[r]
    BY DEF RequestsDecidedOnce, pending
<1>1. /\ "created" \in marks[r] =>
             owner[r] # NoOwner \/ "rejected" \in marks[r] \/ "granted" \in marks[r]
      /\ {"rejected", "granted"} \subseteq marks[r] => "leftover" \in marks[r]
    BY DEF RequestsDecidedOnce, pending
<1>2. calls[p] # Idle /\ calls[p].owner # NoOwner
    BY WorkBusy, CallTyped
<1>3. ASSUME NEW s \in Requests, NEW t \in Times, Create(p, s, t)
      PROVE  IF s = r THEN marks'[r] = {"created"} /\ owner'[r] = calls[p].owner
             ELSE marks'[r] = marks[r] /\ owner'[r] = owner[r]
    BY <1>3 DEF Create, TypeOK
<1>4. CASE Deliver(p)
  <2>1. CASE calls[p].op = "approve" /\ calls[p].request = r
    <3>1. owner[r] # NoOwner
      BY <1>2, <1>4, <2>1 DEF Deliver, Holds, Working, Places
    <3>2. "rejected" \notin marks[r]
      BY <3>1 DEF Undecided, pending
    <3>3. owner'[r] = owner[r] /\ marks'[r] = marks[r] \cup {"granted"}
      BY <1>4, <2>1 DEF Deliver, stores, TypeOK
    <3> QED
      BY <3>1, <3>2, <3>3
  <2>2. CASE ~(calls[p].op = "approve" /\ calls[p].request = r)
    BY <1>1, <1>4, <2>2 DEF Deliver, stores, TypeOK
  <2> QED
    BY <2>1, <2>2
<1>5. CASE Cleanup(p)
  <2>1. calls[p].request \in Requests /\ "granted" \in marks[calls[p].request]
    BY <1>5 DEF Cleanup, Shape, Holds, Working, Places
  <2> QED
    BY <1>1, <1>5, <2>1 DEF Cleanup, RemoveRequest, history, TypeOK
<1>6. CASE CleanupFails(p)
    BY <1>1, <1>6 DEF CleanupFails, stores, TypeOK
<1>7. CASE Discard(p)
  <2>1. CASE calls[p].request = r
    <3>1. r \in pending /\ owner[r] = calls[p].owner
      BY <1>7, <2>1 DEF Discard, Named, pending
    <3>2. ASSUME NEW q \in Procs, calls[q].at = "cleanup", calls[q].request = r
          PROVE  FALSE
      <4>1. q # p /\ Working(q) /\ calls[q].op = "approve"
        BY <1>7, <3>2 DEF Discard, Locked, Working, Places, Shape
      <4>2. owner[r] = calls[q].owner
        BY <3>2, <4>1 DEF Holds
      <4> QED
        BY <3>1, <4>1, <4>2, Alone DEF Principal, Effect
    <3>3. "granted" \in marks[r] => "leftover" \in marks[r]
      BY <3>1, <3>2 DEF Undecided
    <3>4. marks'[r] = marks[r] \cup {"rejected"}
      BY <1>7, <2>1 DEF Discard, TypeOK
    <3> QED
      BY <3>3, <3>4
  <2>2. CASE calls[p].request # r
    BY <1>1, <1>7, <2>2 DEF Discard, RemoveRequest, TypeOK
  <2> QED
    BY <2>1, <2>2
<1>8. CASE \/ LookRegister(p) \/ LookPending(p) \/ LookIssue(p) \/ LookApprove(p) \/ Fail(p)
           \/ IssueKey(p) \/ DeliveryFails(p) \/ Rollback(p) \/ RollbackFails(p) \/ DeleteKey(p)
  <2>1. owner' = owner /\ marks' = marks
    BY <1>8 DEF LookRegister, LookPending, LookIssue, LookApprove, Fail, IssueKey, DeliveryFails,
           Rollback, RollbackFails, DeleteKey, RemoveKey, stores, history
  <2> QED
    BY <1>1, <2>1
<1> QED
    BY <1>1, <1>2, <1>3, <1>4, <1>5, <1>6, <1>7, <1>8 DEF Work

LEMMA OneKeyWork ==
    ASSUME TypeOK, NEW p \in Procs, Work(p), OneOwnerPerMachine
    PROVE  /\ \A j, k \in Keys :
                  credentials'[j] # NoOwner /\ credentials'[j] = credentials'[k] => j = k
           /\ \A r, s \in Requests : owner'[r] # NoOwner /\ owner'[r] = owner'[s] => r = s
<1>1. \A j, k \in Keys : credentials'[j] # NoOwner /\ credentials'[j] = credentials'[k] => j = k
  <2>1. CASE IssueKey(p)
    BY <2>1 DEF IssueKey, HeldFor, OneOwnerPerMachine, TypeOK
  <2>2. CASE Rollback(p) \/ DeleteKey(p)
    BY <2>2 DEF Rollback, DeleteKey, RemoveKey, OneOwnerPerMachine, TypeOK
  <2>3. CASE \/ LookRegister(p) \/ LookPending(p) \/ LookIssue(p) \/ LookApprove(p) \/ Fail(p)
             \/ Deliver(p) \/ DeliveryFails(p) \/ RollbackFails(p) \/ CleanupFails(p)
             \/ Cleanup(p) \/ Discard(p) \/ \E r \in Requests, t \in Times : Create(p, r, t)
    <3>1. credentials' = credentials
      BY <2>3 DEF LookRegister, LookPending, LookIssue, LookApprove, Fail, Deliver, DeliveryFails,
             RollbackFails, CleanupFails, Cleanup, Discard, RemoveRequest, Create, stores
    <3> QED
      BY <3>1 DEF OneOwnerPerMachine
  <2> QED
    BY <2>1, <2>2, <2>3 DEF Work
<1>2. \A r, s \in Requests : owner'[r] # NoOwner /\ owner'[r] = owner'[s] => r = s
  <2>1. \A r, s \in Requests : owner[r] # NoOwner /\ owner[r] = owner[s] => r = s
    BY DEF OneOwnerPerMachine, pending
  <2>2. ASSUME NEW r \in Requests, NEW t \in Times, Create(p, r, t)
        PROVE  \A i, j \in Requests : owner'[i] # NoOwner /\ owner'[i] = owner'[j] => i = j
    BY <2>1, <2>2 DEF Create, RequestedFor, pending, TypeOK
  <2>3. CASE Cleanup(p) \/ Discard(p)
    BY <2>1, <2>3 DEF Cleanup, Discard, RemoveRequest, TypeOK
  <2>4. CASE \/ LookRegister(p) \/ LookPending(p) \/ LookIssue(p) \/ LookApprove(p) \/ Fail(p)
             \/ IssueKey(p) \/ Deliver(p) \/ DeliveryFails(p) \/ Rollback(p) \/ RollbackFails(p)
             \/ CleanupFails(p) \/ DeleteKey(p)
    <3>1. owner' = owner
      BY <2>4 DEF LookRegister, LookPending, LookIssue, LookApprove, Fail, IssueKey, Deliver,
             DeliveryFails, Rollback, RollbackFails, CleanupFails, DeleteKey, RemoveKey, stores
    <3> QED
      BY <2>1, <3>1
  <2> QED
    BY <2>2, <2>3, <2>4 DEF Work
<1> QED
    BY <1>1, <1>2

(* A request and a key of one machine. *)
Excused(r, k) ==
    \/ fate[k] = "stuck" \/ "leftover" \in marks[r]
    \/ \E p \in Procs : calls[p].request = r /\ calls[p].key = k

LEMMA OneOwnerWork ==
    ASSUME TypeOK, NEW p \in Procs, Work(p), Shape(p), Holds(p), Effect(p), OneOwnerPerMachine
    PROVE  OneOwnerPerMachine'
<1> USE RegistrationAssumption
<1>1. calls[p] # Idle /\ calls[p].owner \in Owners /\ calls[p].owner # NoOwner
    BY WorkBusy, CallTyped
<1> SUFFICES ASSUME NEW r \in Requests, NEW k \in Keys, owner'[r] # NoOwner, owner'[r] = credentials'[k]
             PROVE  Excused(r, k)'
    BY OneKeyWork DEF OneOwnerPerMachine, Excused, pending
<1>2. CASE IssueKey(p) /\ k = nextID
  <2>1. owner' = owner /\ owner[r] = calls[p].owner /\ r \in pending
    BY <1>2 DEF IssueKey, pending, TypeOK
  <2>2. r \in RequestedFor(calls[p].owner) /\ r \in RequestedBy(Principal(p))
    BY <2>1 DEF RequestedFor, RequestedBy, Principal
  <2>3. calls[p].op = "approve"
    BY <1>2, <2>2 DEF IssueKey, Shape, Holds, Working, Places, At
  <2>4. calls[p].request = r
    BY <1>2, <2>1, <2>3 DEF IssueKey, Shape, Holds, Working, Places, OneOwnerPerMachine, pending
  <2>5. SameCall(p) /\ calls'[p].key = k
    BY <1>1, <1>2, <2>3, Went DEF IssueKey
  <2> QED
    BY <2>4, <2>5 DEF Excused, SameCall
<1>3. ASSUME NEW t \in Times, Create(p, r, t) PROVE FALSE
  <2>1. owner'[r] = calls[p].owner /\ credentials[k] = calls[p].owner
    BY <1>3 DEF Create, TypeOK
  <2>2. HeldFor(calls[p].owner) = {}
    BY <1>3 DEF Create, Holds, Working, Places
  <2> QED
    BY <2>1, <2>2 DEF HeldFor
<1>4. CASE ~(IssueKey(p) /\ k = nextID) /\ ~ \E t \in Times : Create(p, r, t)
  <2>1. credentials[k] = credentials'[k]
    <3>1. CASE IssueKey(p)
      BY <1>4, <3>1 DEF IssueKey, TypeOK
    <3>2. CASE Rollback(p) \/ DeleteKey(p)
      BY <3>2 DEF Rollback, DeleteKey, RemoveKey, TypeOK
    <3>3. CASE \/ LookRegister(p) \/ LookPending(p) \/ LookIssue(p) \/ LookApprove(p) \/ Fail(p)
               \/ Deliver(p) \/ DeliveryFails(p) \/ RollbackFails(p) \/ CleanupFails(p)
               \/ Cleanup(p) \/ Discard(p) \/ \E s \in Requests, t \in Times : Create(p, s, t)
      BY <3>3 DEF LookRegister, LookPending, LookIssue, LookApprove, Fail, Deliver, DeliveryFails,
             RollbackFails, CleanupFails, Cleanup, Discard, RemoveRequest, Create, stores
    <3> QED
      BY <3>1, <3>2, <3>3 DEF Work
  <2>2. owner[r] = owner'[r]
    <3>1. ASSUME NEW s \in Requests, NEW t \in Times, Create(p, s, t) PROVE owner[r] = owner'[r]
      BY <1>4, <3>1 DEF Create, TypeOK
    <3>2. CASE Cleanup(p) \/ Discard(p)
      BY <3>2 DEF Cleanup, Discard, RemoveRequest, TypeOK
    <3>3. CASE \/ LookRegister(p) \/ LookPending(p) \/ LookIssue(p) \/ LookApprove(p) \/ Fail(p)
               \/ IssueKey(p) \/ Deliver(p) \/ DeliveryFails(p) \/ Rollback(p) \/ RollbackFails(p)
               \/ CleanupFails(p) \/ DeleteKey(p)
      BY <3>3 DEF LookRegister, LookPending, LookIssue, LookApprove, Fail, IssueKey, Deliver,
             DeliveryFails, Rollback, RollbackFails, CleanupFails, DeleteKey, RemoveKey, stores
    <3> QED
      BY <3>1, <3>2, <3>3 DEF Work
  <2>3. Excused(r, k) /\ r \in pending /\ credentials[k] # NoOwner
    BY <2>1, <2>2 DEF OneOwnerPerMachine, Excused, pending
  <2>4. CASE "leftover" \in marks[r]
    BY <2>4 DEF Effect, OwnRequests, Excused
  <2>5. CASE fate[k] = "stuck"
    <3>1. ~(Deliver(p) /\ calls[p].key = k)
      BY <2>5 DEF Deliver, Holds, Working, Places
    <3>2. ~(Rollback(p) /\ calls[p].key = k) /\ ~(DeleteKey(p) /\ calls[p].key = k)
      BY <2>1, <2>3 DEF Rollback, DeleteKey, RemoveKey, TypeOK
    <3>3. fate'[k] = "stuck"
      <4>1. CASE IssueKey(p)
        BY <1>4, <2>5, <4>1 DEF IssueKey, TypeOK
      <4>2. CASE Deliver(p) \/ RollbackFails(p)
        BY <2>5, <3>1, <4>2 DEF Deliver, RollbackFails, TypeOK
      <4>3. CASE Rollback(p) \/ DeleteKey(p)
        BY <2>5, <3>2, <4>3 DEF Rollback, DeleteKey, RemoveKey, TypeOK
      <4>4. CASE \/ LookRegister(p) \/ LookPending(p) \/ LookIssue(p) \/ LookApprove(p) \/ Fail(p)
                 \/ DeliveryFails(p) \/ CleanupFails(p) \/ Cleanup(p) \/ Discard(p)
                 \/ \E s \in Requests, t \in Times : Create(p, s, t)
        BY <2>5, <4>4 DEF LookRegister, LookPending, LookIssue, LookApprove, Fail, DeliveryFails,
               CleanupFails, Cleanup, Discard, RemoveRequest, Create, stores, history
      <4> QED
        BY <4>1, <4>2, <4>3, <4>4 DEF Work
    <3> QED
      BY <3>3 DEF Excused
  <2>6. CASE \E q \in Procs : calls[q].request = r /\ calls[q].key = k
    <3>1. PICK q \in Procs : calls[q].request = r /\ calls[q].key = k
      BY <2>6
    <3>2. CASE q # p
      BY <3>1, <3>2 DEF Effect, OwnCall, Excused
    <3>3. CASE q = p
      <4>1. calls[p].at \in KeyPlaces
        BY <3>1, <3>3 DEF Shape
      <4>2. Deliver(p) \/ DeliveryFails(p) \/ Rollback(p) \/ RollbackFails(p) \/ Cleanup(p) \/ CleanupFails(p)
        BY <4>1 DEF KeyPlaces, Work, LookRegister, LookPending, LookIssue, LookApprove, Create,
               IssueKey, Discard, DeleteKey, Fail, Locked
      <4>3. CASE Deliver(p)
        <5>1. calls[p].op = "approve"
          BY <3>1, <3>3, <4>3 DEF Deliver, Shape
        <5>2. SameCall(p) /\ calls'[p].key = k
          BY <1>1, <3>1, <3>3, <4>3, <5>1, Went DEF Deliver, Go
        <5> QED
          BY <3>1, <3>3, <5>2 DEF Excused, SameCall
      <4>4. CASE DeliveryFails(p)
        <5>1. SameCall(p) /\ calls'[p].key = k
          BY <1>1, <3>1, <3>3, <4>4, Went DEF DeliveryFails, Go
        <5> QED
          BY <3>1, <3>3, <5>1 DEF Excused, SameCall
      <4>5. CASE Rollback(p)
        BY <2>1, <2>3, <3>1, <3>3, <4>5 DEF Rollback, RemoveKey, TypeOK
      <4>6. CASE RollbackFails(p)
        BY <3>1, <3>3, <4>6 DEF RollbackFails, Excused, TypeOK
      <4>7. CASE Cleanup(p)
        BY <2>2, <2>3, <3>1, <3>3, <4>7 DEF Cleanup, RemoveRequest, pending, TypeOK
      <4>8. CASE CleanupFails(p)
        BY <3>1, <3>3, <4>8 DEF CleanupFails, Excused, TypeOK
      <4> QED
        BY <4>2, <4>3, <4>4, <4>5, <4>6, <4>7, <4>8
    <3> QED
      BY <3>2, <3>3
  <2> QED
    BY <2>3, <2>4, <2>5, <2>6 DEF Excused
<1> QED
    BY <1>2, <1>3, <1>4

-----------------------------------------------------------------------------
(* The invariant.                                                          *)

LEMMA WorkInv == ASSUME IInv, NEW p \in Procs, Work(p) PROVE IInv'
<1> USE DEF IInv, Agreement
<1>1. TypeOK' /\ calls[p] # Idle
    BY WorkType, WorkBusy
<1>2. Effect(p)
    BY OwnCallStep, OwnKeysStep, OwnRequestsStep DEF Effect
<1>3. \A q \in Procs : Shape(q)' /\ Holds(q)' /\ Named(q)'
  <2>1. Shape(p)' /\ Holds(p)' /\ Named(p)'
    BY <1>2, OwnState DEF Effect
  <2>2. ASSUME NEW q \in Procs \ {p} PROVE Shape(q)' /\ Holds(q)' /\ Named(q)'
    BY <1>1, <1>2, OthersShape, OthersHold, OthersNamed DEF Effect
  <2> QED
    BY <2>1, <2>2
<1>4. Undecided' /\ FreshIDs' /\ Attended'
    BY <1>2, UndecidedWork, FreshIDsWork, AttendedWork DEF Effect
<1>5. OneOwnerPerMachine' /\ RequestsDecidedOnce'
    BY <1>2, OneOwnerWork, DecidedWork
<1>6. UNCHANGED chat
    BY DEF Work, LookRegister, LookPending, LookIssue, LookApprove, Create, IssueKey, Deliver,
           DeliveryFails, Rollback, RollbackFails, Cleanup, CleanupFails, Discard, DeleteKey, Fail
<1>7. ChatAgrees'
    BY <1>6 DEF chat, ChatAgrees
<1> QED
    BY <1>1, <1>3, <1>4, <1>5, <1>7

(* A new call has no lock, and disturbs nobody. *)
LEMMA StartInv ==
    ASSUME TypeOK, Agreement, NEW p \in Procs, NEW op \in Operations, NEW o,
           NEW r \in Requests \cup {NoRequest}, NEW k \in Keys \cup {NoKey},
           Start(p, op, o, r, k), UNCHANGED <<stores, lock, history>>,
           op \in {"approve", "reject"} <=> r \in Requests,
           op = "delete" <=> k \in Keys,
           r \in pending => o = owner[r], r \in Requests => r \in pending
    PROVE  Agreement'
<1> USE RegistrationAssumption
<1>1. /\ calls[p] = Idle
      /\ calls'[p] = Call(op, "lock", o, r, k)
      /\ \A q \in Procs \ {p} : calls'[q] = calls[q]
    BY DEF Start, TypeOK
<1>2. /\ calls'[p].op = op /\ calls'[p].at = "lock" /\ calls'[p].owner = o
      /\ calls'[p].request = r /\ calls'[p].key = k
    BY <1>1 DEF Call
<1>3. UNCHANGED <<credentials, nextID, owner, lock, fate, marks>> /\ pending' = pending
    BY DEF stores, history, pending
<1>4. Shape(p)' /\ Holds(p)' /\ Named(p)'
  <2>1. Shape(p)'
    BY <1>2 DEF Shape, KeyPlaces
  <2>2. Holds(p)'
    BY <1>2 DEF Holds, Working
  <2>3. Named(p)'
    BY <1>2, <1>3 DEF Named, Agreement, Undecided
  <2> QED
    BY <2>1, <2>2, <2>3
<1>5. ASSUME NEW q \in Procs \ {p} PROVE Shape(q)' /\ Holds(q)' /\ Named(q)'
  <2>1. calls'[q] = calls[q] /\ Shape(q) /\ Holds(q) /\ Named(q)
    BY <1>1 DEF Agreement
  <2>2. Shape(q)' /\ Named(q)'
    BY <1>3, <2>1 DEF Shape, Named
  <2>3. Holds(q)'
    BY <1>3, <2>1 DEF Holds, Working, Principal, HeldBy, HeldFor, RequestedBy, RequestedFor, At
  <2> QED
    BY <2>2, <2>3
<1>6. Undecided' /\ FreshIDs' /\ Attended'
  <2>1. \A q \in Procs : calls[q].at # "idle" => calls'[q] = calls[q]
    BY <1>1, IdleTyped
  <2> QED
    BY <1>3, <2>1 DEF Agreement, Undecided, FreshIDs, Attended
<1>7. OneOwnerPerMachine' /\ RequestsDecidedOnce'
  <2>1. \A q \in Procs : calls[q].request \in Requests => calls'[q] = calls[q]
    BY <1>1, IdleTyped
  <2>2. pending \subseteq Requests
    BY DEF pending
  <2> QED
    BY <1>3, <2>1, <2>2 DEF Agreement, OneOwnerPerMachine, RequestsDecidedOnce
<1> QED
    BY <1>4, <1>5, <1>6, <1>7 DEF Agreement

LEMMA BeginInv == ASSUME IInv, NEW p \in Calls, Begin(p) PROVE IInv'
<1> USE RegistrationAssumption
<1>1. TypeOK' /\ UNCHANGED <<stores, lock, chat, history>> /\ p \in Procs
    BY BeginType DEF IInv, Begin, StartRegister, StartIssue, StartDelete, StartDecision, Procs
<1>2. NoRequest \in Requests \cup {NoRequest} /\ NoKey \in Keys \cup {NoKey} /\ NoKey \notin Keys
      /\ pending \subseteq Requests
    BY DEF Keys, pending
<1>3. Agreement'
  <2>1. ASSUME NEW o \in Owners, StartRegister(p, o) \/ StartIssue(p, o) PROVE Agreement'
    BY <2>1, <1>1, <1>2, StartInv DEF StartRegister, StartIssue, Operations, IInv
  <2>2. ASSUME NEW k \in Keys, StartDelete(p, k) PROVE Agreement'
    BY <2>2, <1>1, <1>2, StartInv DEF StartDelete, Operations, IInv
  <2>3. ASSUME NEW r \in Requests, NEW op \in {"approve", "reject"}, StartDecision(p, op, r)
        PROVE  Agreement'
    BY <2>3, <1>1, <1>2, StartInv DEF StartDecision, Operations, IInv
  <2> QED
    BY <2>1, <2>2, <2>3 DEF Begin
<1>4. ChatAgrees'
    BY <1>1 DEF chat, ChatAgrees, IInv
<1> QED
    BY <1>1, <1>3, <1>4 DEF IInv

(* What the calls agree on does not depend on the chat. *)
LEMMA AgreementFrame ==
    ASSUME Agreement, UNCHANGED <<stores, lock, calls, history>>
    PROVE  Agreement'
<1>1. UNCHANGED <<credentials, nextID, owner, lock, calls, fate, marks>> /\ pending' = pending
    BY DEF stores, history, pending
<1>2. ASSUME NEW q \in Procs PROVE Shape(q)' /\ Holds(q)' /\ Named(q)'
    BY <1>1 DEF Agreement, Shape, Named, KeyPlaces, Holds, Working, Principal, HeldBy, HeldFor,
           RequestedBy, RequestedFor, At
<1>3. Undecided' /\ FreshIDs' /\ Attended'
    BY <1>1 DEF Agreement, Undecided, FreshIDs, Attended
<1>4. OneOwnerPerMachine' /\ RequestsDecidedOnce'
    BY <1>1 DEF Agreement, OneOwnerPerMachine, RequestsDecidedOnce
<1> QED
    BY <1>2, <1>3, <1>4 DEF Agreement

LEMMA ChatInv == ASSUME IInv, NEW a \in Admins, Chat(a) PROVE IInv'
<1> USE RegistrationAssumption
<1>1. TypeOK' /\ a \in Procs
    BY ChatType DEF IInv, Procs
<1>2. CASE SendList(a) \/ ListFails(a)
  <2>1. Agreement'
    BY <1>2, AgreementFrame DEF SendList, ListFails, IInv
  <2>2. ChatAgrees'
    BY <1>2 DEF SendList, ListFails, List, NoList, ChatAgrees, IInv, TypeOK
  <2> QED
    BY <1>1, <2>1, <2>2 DEF IInv
<1>3. ASSUME NEW op, NEW numbers, ResolveSelection(a, op, numbers) PROVE IInv'
  <2>1. Agreement'
    BY <1>3, AgreementFrame DEF ResolveSelection, IInv
  <2>2. ChatAgrees'
    BY <1>3 DEF ResolveSelection, NoList, ChatAgrees, IInv, TypeOK
  <2> QED
    BY <1>1, <2>1, <2>2 DEF IInv
<1>4. ASSUME NEW e \in todo[a].picks, NextDecision(a, e) PROVE IInv'
  <2>1. UNCHANGED <<stores, lock, history, snapshots, shown>>
    BY <1>4 DEF NextDecision
  <2>2. Agreement'
    <3>1. CASE e[2] \in pending
      <4>1. /\ e[2] \in Requests /\ todo[a].op \in {"approve", "reject"}
            /\ NoKey \in Keys \cup {NoKey} /\ NoKey \notin Keys
        BY <3>1 DEF pending, IInv, TypeOK, Batches, Keys
      <4> QED
        BY <1>1, <1>4, <2>1, <3>1, <4>1, StartInv DEF NextDecision, Operations, IInv
    <3>2. CASE e[2] \notin pending
      BY <1>4, <2>1, <3>2, AgreementFrame DEF NextDecision, IInv
    <3> QED
      BY <3>1, <3>2
  <2>3. ChatAgrees'
    BY <2>1 DEF ChatAgrees, IInv
  <2> QED
    BY <1>1, <2>2, <2>3 DEF IInv
<1> QED
    BY <1>2, <1>3, <1>4 DEF Chat

(* A restart leaves behind what its calls had in their hands. *)
LEMMA RestartInv == ASSUME IInv, Restart PROVE IInv'
<1> USE RegistrationAssumption DEF IInv
<1>1. TypeOK' /\ UNCHANGED <<credentials, owner>> /\ pending' = pending /\ pending \subseteq Requests
    BY RestartType DEF Restart, pending
<1>2. \A p \in Procs : calls'[p] = Idle
    BY DEF Restart
<1>3. \A p \in Procs : Shape(p)' /\ Holds(p)' /\ Named(p)'
    BY <1>2, IdleTyped DEF Shape, Holds, Named, Working, Places, KeyPlaces, Keys
<1>4. FreshIDs'
    BY <1>1 DEF Restart, NextIDs, FreshIDs, Keys, TypeOK
<1>5. \A r \in Requests :
          /\ marks[r] \subseteq marks'[r] /\ marks'[r] \subseteq marks[r] \cup {"leftover"}
          /\ (\E p \in Procs : calls[p].at = "cleanup" /\ calls[p].request = r) => "leftover" \in marks'[r]
    BY DEF Restart
<1>6. \A k \in Keys :
          /\ fate'[k] \in {fate[k], "stuck"}
          /\ (\E p \in Procs : calls[p].at \in {"deliver", "rollback"} /\ calls[p].key = k) => fate'[k] = "stuck"
          /\ fate[k] = "stuck" => fate'[k] = "stuck"
  <2>1. \A p \in Procs : calls[p].at \in {"deliver", "rollback"} =>
            Interrupted(p) /\ fate[calls[p].key] = "issued"
    BY DEF Agreement, Holds, Working, Places, Interrupted
  <2> QED
    BY <2>1 DEF Restart
<1>7. Undecided'
    BY <1>1, <1>5 DEF Agreement, Undecided
<1>8. Attended'
    BY <1>1, <1>6 DEF Agreement, Attended
<1>9. OneOwnerPerMachine'
  <2>1. ASSUME NEW r \in pending, NEW k \in Keys, owner[r] = credentials[k]
        PROVE  fate'[k] = "stuck" \/ "leftover" \in marks'[r]
    <3>1. CASE fate[k] = "stuck" \/ "leftover" \in marks[r]
      BY <1>1, <1>5, <1>6, <3>1
    <3>2. CASE \E p \in Procs : calls[p].request = r /\ calls[p].key = k
      <4>1. PICK p \in Procs : calls[p].request = r /\ calls[p].key = k
        BY <3>2
      <4>2. calls[p].at \in KeyPlaces
        BY <1>1, <4>1 DEF Agreement, Shape
      <4> QED
        BY <1>1, <1>5, <1>6, <4>1, <4>2 DEF KeyPlaces
    <3> QED
      BY <2>1, <3>1, <3>2 DEF Agreement, OneOwnerPerMachine
  <2> QED
    BY <1>1, <2>1 DEF Agreement, OneOwnerPerMachine
<1>10. RequestsDecidedOnce'
    BY <1>1, <1>5 DEF Agreement, RequestsDecidedOnce
<1>11. ChatAgrees'
    BY DEF Restart, NoList, ChatAgrees
<1> QED
    BY <1>1, <1>3, <1>4, <1>7, <1>8, <1>9, <1>10, <1>11 DEF Agreement

LEMMA InitInv == Init => IInv
<1> SUFFICES ASSUME Init PROVE IInv
    OBVIOUS
<1>1. /\ \A p \in Procs : calls[p] = Idle
      /\ pending = {} /\ \A k \in Keys : credentials[k] = NoOwner
    BY DEF Init, pending
<1>2. \A p \in Procs : Shape(p) /\ Holds(p) /\ Named(p)
    BY <1>1, IdleTyped, RegistrationAssumption
    DEF Shape, Holds, Named, Working, Places, KeyPlaces, Keys
<1>3. Undecided /\ FreshIDs /\ Attended /\ OneOwnerPerMachine
    BY <1>1 DEF Undecided, FreshIDs, Attended, OneOwnerPerMachine
<1>4. RequestsDecidedOnce /\ ChatAgrees
    BY DEF Init, NoList, RequestsDecidedOnce, ChatAgrees
<1> QED
    BY <1>2, <1>3, <1>4, InitType DEF IInv, Agreement

LEMMA NextInv == IInv /\ [Next]_vars => IInv'
<1>1. ASSUME IInv, UNCHANGED vars PROVE IInv'
  <2>1. UNCHANGED <<stores, lock, calls, chat, history>>
    BY <1>1 DEF vars
  <2>2. TypeOK'
    BY <1>1, NextType DEF IInv
  <2>3. ChatAgrees'
    BY <1>1, <2>1 DEF chat, ChatAgrees, IInv
  <2> QED
    BY <1>1, <2>1, <2>2, <2>3, AgreementFrame DEF IInv
<1> QED
    BY <1>1, WorkInv, BeginInv, ChatInv, RestartInv DEF Next

LEMMA Invariance == Spec => []IInv
<1> QED
    BY InitInv, NextInv, PTL DEF Spec

(* A machine has one key or one request, and both only around an approval   *)
(* that is at work or could not be completed.                               *)
THEOREM RegistrationOneOwner == Spec => []OneOwnerPerMachine
<1>1. IInv => OneOwnerPerMachine
    BY DEF IInv, Agreement
<1> QED
    BY <1>1, Invariance, PTL

(* A key is given out without a decision only to a user who has nothing,    *)
(* at the moment it is issued.                                              *)
THEOREM RegistrationFirstMachine == Spec => []FirstMachineOnly
<1>1. ASSUME IInv, NEW p \in Procs, At(p, "register", "issue")
      PROVE  HeldBy(Principal(p)) = {} /\ RequestedBy(Principal(p)) = {}
    BY <1>1 DEF IInv, Agreement, Holds, Working, Places, At
<1>2. IInv => FirstMachineOnly
    BY <1>1 DEF FirstMachineOnly, Principal
<1> QED
    BY <1>2, Invariance, PTL

(* A key is known to its user, or a call with the lock has it in hand, or   *)
(* it is one that a failed rollback or a restart left behind.               *)
THEOREM RegistrationKeysAccounted == Spec => []KeysAccounted
<1>1. ASSUME IInv, NEW k \in Keys, credentials[k] # NoOwner,
             fate[k] \notin {"delivered", "manual", "stuck"}
      PROVE  \E p \in Procs : calls[p].key = k /\ lock[credentials[k][1]] = p
  <2>1. PICK p \in Procs : calls[p].key = k /\ calls[p].at \in {"deliver", "rollback"}
    BY <1>1 DEF IInv, Agreement, Attended
  <2>2. credentials[k] = calls[p].owner /\ lock[Principal(p)] = p
    BY <1>1, <2>1 DEF IInv, Agreement, Holds, Working, Places, KeyPlaces
  <2> QED
    BY <2>1, <2>2 DEF Principal
<1>2. IInv => KeysAccounted
    BY <1>1 DEF KeysAccounted
<1> QED
    BY <1>2, Invariance, PTL

(* No request is lost, and none is rejected whose key was delivered, unless *)
(* its removal had failed.                                                  *)
THEOREM RegistrationDecidedOnce == Spec => []RequestsDecidedOnce
<1>1. IInv => RequestsDecidedOnce
    BY DEF IInv, Agreement
<1> QED
    BY <1>1, Invariance, PTL

(* What an administrator decides by number is what stood beside the number  *)
(* in the list sent last.                                                   *)
THEOREM RegistrationNumbers == Spec => NumbersMeanLastShown
<1> DEFINE LastShown == \A a \in Admins : todo'[a].picks \ todo[a].picks \subseteq shown[a]
<1>1. ASSUME IInv, [Next]_vars PROVE LastShown
  <2> SUFFICES ASSUME NEW b \in Admins PROVE todo'[b].picks \ todo[b].picks \subseteq shown[b]
    OBVIOUS
  <2>1. CASE todo'[b] = todo[b] \/ todo'[b].picks = {}
    BY <2>1
  <2>2. ASSUME NEW p \in Procs, Work(p) PROVE todo' = todo
    BY <2>2 DEF Work, LookRegister, LookPending, LookIssue, LookApprove, Create, IssueKey, Deliver,
           DeliveryFails, Rollback, RollbackFails, Cleanup, CleanupFails, Discard, DeleteKey, Fail, chat
  <2>3. ASSUME NEW p \in Calls, Begin(p) PROVE todo' = todo
    BY <2>3 DEF Begin, StartRegister, StartIssue, StartDelete, StartDecision, chat
  <2>4. ASSUME Restart PROVE todo'[b].picks = {}
    BY <2>4 DEF Restart, Batch
  <2>5. ASSUME NEW a \in Admins, Chat(a) PROVE todo'[b].picks \ todo[b].picks \subseteq shown[b]
    <3>1. CASE SendList(a) \/ ListFails(a)
      BY <3>1 DEF SendList, ListFails
    <3>2. ASSUME NEW op, NEW numbers, ResolveSelection(a, op, numbers)
          PROVE  todo'[b].picks \ todo[b].picks \subseteq shown[b]
      <4>1. CASE a # b
        BY <1>1, <3>2, <4>1 DEF ResolveSelection, IInv, TypeOK
      <4>2. CASE a = b
        <5> DEFINE picks == {e \in snapshots[a].entries \cap ListPending : e[1] \in numbers}
                   taken == IF {e[1] : e \in picks} = numbers THEN picks ELSE {}
        <5>1. snapshots[b].entries \subseteq shown[b]
          BY <1>1, <3>2, <4>2 DEF ResolveSelection, IInv, ChatAgrees
        <5>2. taken \subseteq snapshots[a].entries
          OBVIOUS
        <5>3. todo'[b] = Batch(op, taken)
          BY <1>1, <3>2, <4>2 DEF ResolveSelection, IInv, TypeOK
        <5> QED
          BY <4>2, <5>1, <5>2, <5>3 DEF Batch
      <4> QED
        BY <4>1, <4>2
    <3>3. ASSUME NEW e \in todo[a].picks, NextDecision(a, e)
          PROVE  todo'[b].picks \subseteq todo[b].picks
      BY <1>1, <3>3 DEF NextDecision, Batch, IInv, TypeOK
    <3> QED
      BY <2>5, <3>1, <3>2, <3>3 DEF Chat
  <2>6. CASE UNCHANGED vars
    BY <2>6 DEF vars, chat
  <2> QED
    BY <1>1, <2>1, <2>2, <2>3, <2>4, <2>5, <2>6 DEF Next
<1>2. IInv /\ [Next]_vars => [LastShown]_vars
    BY <1>1
<1> QED
    BY <1>2, Invariance, PTL DEF Spec, NumbersMeanLastShown

(* A machine is claimed once, and undecided only as its user's first,       *)
(* for any number of machines, users and calls (MachinesClaimedOnce).       *)
THEOREM RegistrationClaimedOnce == Spec => []MachinesClaimedOnce
<1> QED
    BY RegistrationTypeOK, RegistrationOneOwner, RegistrationFirstMachine, PTL DEF MachinesClaimedOnce
=============================================================================
