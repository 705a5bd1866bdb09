------------------------- MODULE MachineRegistration -------------------------
(***************************************************************************)
(* How a machine gets its key.  The credential store and the store of      *)
(* pending requests are two files with a lock each; machinereg.Service     *)
(* ties them together with one lock per principal, and delivers keys by    *)
(* WeCom between two writes.  Administrators decide on the web by the      *)
(* stable identifier of a request, or in the chat by the numbers of a list *)
(* they were sent.  Code: internal/machinereg, internal/credential/store.go,*)
(* internal/server/registration_approval.go and the list command of        *)
(* internal/server/router.go.                                              *)
(*                                                                         *)
(* A write replaces the file by a rename, which is also when memory        *)
(* changes: it happens or fails as a whole, and a restart loads what was   *)
(* last written.  Principals whose locks share a stripe are only           *)
(* serialised more.  The source rules of a key are in ConnectionLifecycle. *)
(***************************************************************************)
EXTENDS Naturals, FiniteSets

CONSTANTS
    Users,          \* principals
    Machines,       \* machine identifiers
    Requests,       \* registration identifiers; each is generated once
    Times,          \* the order of requests: time of arrival, then identifier
    Calls,          \* concurrent calls of the web console and of /reg
    Admins,         \* approval administrators in the chat; each is served serially
    MaxKeys,        \* bound on credential identifiers
    MaxRestarts,    \* bound on restarts of the server
    NoOwner, NoRequest, NoKey, NoProc

Owners == Users \X Machines
Keys == 1..MaxKeys
Procs == Calls \cup Admins

ASSUME RegistrationAssumption ==
    /\ IsFiniteSet(Requests)
    /\ Times \subseteq Nat
    /\ MaxKeys \in Nat /\ MaxRestarts \in Nat
    /\ NoOwner \notin Owners
    /\ NoRequest \notin Requests
    /\ NoKey \notin Nat
    /\ NoProc \notin Procs

VARIABLES
    credentials,    \* credential identifier -> whose machine it is for
    nextID,         \* next credential identifier
    owner,          \* request -> whose machine it is for, while it is stored
    requestedAt,    \* request -> its place in the order of the list
    lock,           \* principal -> the call that holds its lock
    calls,          \* call -> what it does and where it is
    snapshots,      \* administrator -> the numbered list /apr and /rej refer to
    todo,           \* administrator -> what is left of a batch
    shown,          \* administrator -> the list last sent, whole or in part, till used
    fate,           \* credential identifier -> what became of its key
    marks,          \* request -> what happened to it
    restarts

stores == <<credentials, nextID, owner, requestedAt>>
chat == <<snapshots, todo, shown>>
history == <<fate, marks>>
vars == <<stores, lock, calls, chat, history, restarts>>

Call(op, at, o, r, k) == [op |-> op, at |-> at, owner |-> o, request |-> r, key |-> k]
Idle == Call("none", "idle", NoOwner, NoRequest, NoKey)
Operations == {"register", "approve", "reject", "issue", "delete"}
Places ==
    {"lock", "first", "another", "create", "issue", "deliver", "rollback", "cleanup"}
CallStates ==
    [op : Operations, at : Places, owner : Owners, request : Requests \cup {NoRequest},
     key : Keys \cup {NoKey}]

pending == {r \in Requests : owner[r] # NoOwner}

HeldFor(o) == {k \in Keys : credentials[k] = o}
HeldBy(u) == {k \in Keys : \E m \in Machines : credentials[k] = <<u, m>>}
RequestedFor(o) == {r \in pending : owner[r] = o}
RequestedBy(u) == {r \in pending : owner[r][1] = u}

(* sortedRequests: the number of a request in the list of all requests. *)
Number(r) == Cardinality({s \in pending : requestedAt[s] <= requestedAt[r]})
ListPending == {<<Number(r), r>> : r \in pending}

Entries == Nat \X Requests
Lists == [sent : BOOLEAN, entries : SUBSET Entries]
Batches == [op : {"approve", "reject"}, picks : SUBSET Entries]

NoList == [sent |-> FALSE, entries |-> {}]
List(entries) == [sent |-> TRUE, entries |-> entries]
Batch(op, picks) == [op |-> op, picks |-> picks]

Init ==
    /\ credentials = [k \in Keys |-> NoOwner] /\ nextID = 1
    /\ owner = [r \in Requests |-> NoOwner]
    /\ requestedAt = [r \in Requests |-> 0]
    /\ lock = [u \in Users |-> NoProc]
    /\ calls = [p \in Procs |-> Idle]
    /\ snapshots = [a \in Admins |-> NoList]
    /\ todo = [a \in Admins |-> Batch("approve", {})]
    /\ shown = [a \in Admins |-> {}]
    /\ fate = [k \in Keys |-> "none"]
    /\ marks = [r \in Requests |-> {}]
    /\ restarts = 0

-----------------------------------------------------------------------------
(* A call: start, take the principal's lock, work, return it. *)

Start(p, op, o, r, k) ==
    /\ calls[p] = Idle
    /\ calls' = [calls EXCEPT ![p] = Call(op, "lock", o, r, k)]

At(p, op, place) == calls[p].op = op /\ calls[p].at = place

GoWith(p, place, k) ==
    /\ calls' = [calls EXCEPT ![p] =
           Call(calls[p].op, place, calls[p].owner, calls[p].request, k)]
    /\ UNCHANGED lock

Go(p, place) == GoWith(p, place, calls[p].key)

End(p) ==
    /\ calls' = [calls EXCEPT ![p] = Idle]
    /\ lock' = [lock EXCEPT ![calls[p].owner[1]] = NoProc]

StartRegister(p, o) ==
    /\ Start(p, "register", o, NoRequest, NoKey)
    /\ UNCHANGED <<stores, lock, chat, history, restarts>>

(* The console or hp-cli issues a key by hand. *)
StartIssue(p, o) ==
    /\ Start(p, "issue", o, NoRequest, NoKey)
    /\ UNCHANGED <<stores, lock, chat, history, restarts>>

(* withCredentialLock shows the record to learn the principal. *)
StartDelete(p, k) ==
    /\ credentials[k] # NoOwner
    /\ Start(p, "delete", credentials[k], NoRequest, k)
    /\ UNCHANGED <<stores, lock, chat, history, restarts>>

(* The console names a request by its identifier. *)
StartDecision(p, op, r) ==
    /\ r \in pending
    /\ Start(p, op, owner[r], r, NoKey)
    /\ UNCHANGED <<stores, lock, chat, history, restarts>>

(* Mutant: the lock admits everybody. *)
LockedAlways(p) == calls[p].at = "lock"

(* principalLock: from here to its end the call has its principal alone.    *)
(* The first look of each operation is taken together with the lock.        *)
Locked(p) == calls[p].at = "lock" /\ lock[calls[p].owner[1]] = NoProc

Enter(p, place) ==
    /\ lock' = [lock EXCEPT ![calls[p].owner[1]] = p]
    /\ calls' = [calls EXCEPT ![p] = Call(calls[p].op, place, calls[p].owner,
                                          calls[p].request, calls[p].key)]

-----------------------------------------------------------------------------
(* Register. *)

LookRegister(p) ==
    /\ Locked(p) /\ calls[p].op = "register"
    /\ IF HeldFor(calls[p].owner) # {} THEN End(p)
       ELSE Enter(p, IF HeldBy(calls[p].owner[1]) = {} THEN "first" ELSE "another")
    /\ UNCHANGED <<stores, chat, history, restarts>>

(* Find and HasPrincipal, on the other store. *)
LookPending(p) ==
    /\ calls[p].at \in {"first", "another"}
    /\ IF RequestedFor(calls[p].owner) # {} THEN End(p)
       ELSE Go(p, IF calls[p].at = "first" /\ RequestedBy(calls[p].owner[1]) = {}
                  THEN "issue" ELSE "create")
    /\ UNCHANGED <<stores, chat, history, restarts>>

(* Store.Create: a clock that stepped back puts it anywhere in the list. *)
Create(p, r, t) ==
    /\ calls[p].at = "create"
    /\ RequestedFor(calls[p].owner) = {}
    /\ marks[r] = {}
    /\ \A s \in pending : requestedAt[s] # t
    /\ owner' = [owner EXCEPT ![r] = calls[p].owner]
    /\ requestedAt' = [requestedAt EXCEPT ![r] = t]
    /\ marks' = [marks EXCEPT ![r] = {"created"}]
    /\ End(p)
    /\ UNCHANGED <<credentials, nextID, chat, fate, restarts>>

(* machinereg.Store.Delete and credential.Store.Delete. *)
RemoveRequest(r) ==
    /\ owner' = [owner EXCEPT ![r] = NoOwner]
    /\ requestedAt' = [requestedAt EXCEPT ![r] = 0]
    /\ UNCHANGED <<credentials, nextID>>

RemoveKey(k) ==
    /\ credentials' = [credentials EXCEPT ![k] = NoOwner]
    /\ fate' = [fate EXCEPT ![k] = "none"]
    /\ UNCHANGED <<nextID, owner, requestedAt, marks>>

-----------------------------------------------------------------------------
(* Issue, delivery, rollback: shared by Register, Approve and Issue. *)

(* Mutant: issuing by hand passes by a pending request. *)
LookIssueUnchecked(p) ==
    /\ Locked(p) /\ calls[p].op = "issue"
    /\ Enter(p, "issue")
    /\ UNCHANGED <<stores, chat, history, restarts>>

LookIssue(p) ==
    /\ Locked(p) /\ calls[p].op = "issue"
    /\ IF RequestedFor(calls[p].owner) # {} THEN End(p) ELSE Enter(p, "issue")
    /\ UNCHANGED <<stores, chat, history, restarts>>

LookApprove(p) ==
    /\ Locked(p) /\ calls[p].op = "approve"
    /\ IF calls[p].request \in pending /\ HeldFor(calls[p].owner) = {}
       THEN Enter(p, "issue") ELSE End(p)
    /\ UNCHANGED <<stores, chat, history, restarts>>

(* credential.Store.Issue refuses a second key for a machine. *)
IssueKey(p) ==
    /\ calls[p].at = "issue"
    /\ HeldFor(calls[p].owner) = {}
    /\ nextID \in Keys
    /\ credentials' = [credentials EXCEPT ![nextID] = calls[p].owner]
    /\ nextID' = nextID + 1
    /\ IF calls[p].op = "issue"
       THEN End(p) /\ fate' = [fate EXCEPT ![nextID] = "manual"]
       ELSE GoWith(p, "deliver", nextID) /\ fate' = [fate EXCEPT ![nextID] = "issued"]
    /\ UNCHANGED <<owner, requestedAt, chat, marks, restarts>>

Deliver(p) ==
    /\ calls[p].at = "deliver"
    /\ fate' = [fate EXCEPT ![calls[p].key] = "delivered"]
    /\ IF calls[p].op = "approve"
       THEN /\ Go(p, "cleanup")
            /\ marks' = [marks EXCEPT ![calls[p].request] = @ \cup {"granted"}]
       ELSE End(p) /\ UNCHANGED marks
    /\ UNCHANGED <<stores, chat, restarts>>

(* Mutant: a failed approval also drops its request. *)
DeliveryFailsDropped(p) ==
    /\ calls[p].at = "deliver"
    /\ Go(p, "rollback")
    /\ IF calls[p].op = "approve" THEN RemoveRequest(calls[p].request) ELSE UNCHANGED stores
    /\ UNCHANGED <<chat, history, restarts>>

DeliveryFails(p) ==
    /\ calls[p].at = "deliver"
    /\ Go(p, "rollback")
    /\ UNCHANGED <<stores, chat, history, restarts>>

(* Mutant: a failed delivery is reported and nothing is rolled back. *)
RollbackReported(p) ==
    /\ calls[p].at = "rollback"
    /\ End(p)
    /\ UNCHANGED <<stores, chat, history, restarts>>

Rollback(p) ==
    /\ calls[p].at = "rollback"
    /\ RemoveKey(calls[p].key)
    /\ End(p)
    /\ UNCHANGED <<chat, restarts>>

RollbackFails(p) ==
    /\ calls[p].at = "rollback"
    /\ fate' = [fate EXCEPT ![calls[p].key] = "stuck"]
    /\ End(p)
    /\ UNCHANGED <<stores, chat, marks, restarts>>

Cleanup(p) ==
    /\ calls[p].at = "cleanup"
    /\ RemoveRequest(calls[p].request)
    /\ End(p)
    /\ UNCHANGED <<chat, history, restarts>>

CleanupFails(p) ==
    /\ calls[p].at = "cleanup"
    /\ marks' = [marks EXCEPT ![calls[p].request] = @ \cup {"leftover"}]
    /\ End(p)
    /\ UNCHANGED <<stores, chat, fate, restarts>>

-----------------------------------------------------------------------------
(* Reject and Delete. *)

Discard(p) ==
    /\ Locked(p) /\ calls[p].op = "reject"
    /\ calls[p].request \in pending
    /\ RemoveRequest(calls[p].request)
    /\ marks' = [marks EXCEPT ![calls[p].request] = @ \cup {"rejected"}]
    /\ End(p)
    /\ UNCHANGED <<chat, fate, restarts>>

DeleteKey(p) ==
    /\ Locked(p) /\ calls[p].op = "delete"
    /\ credentials[calls[p].key] = calls[p].owner
    /\ RemoveKey(calls[p].key)
    /\ End(p)
    /\ UNCHANGED <<chat, restarts>>

(* A write fails, or its store refuses it (Create and Issue: a second one   *)
(* for the machine, or no identifier; Reject and Delete: no longer there):  *)
(* nothing changes and the caller is told.                                  *)
Fail(p) ==
    /\ \/ calls[p].at \in {"create", "issue"}
       \/ Locked(p) /\ calls[p].op \in {"reject", "delete"}
    /\ End(p)
    /\ UNCHANGED <<stores, chat, history, restarts>>

-----------------------------------------------------------------------------
(* The chat: /ls-reg, then /apr or /rej with numbers. *)

Free(a) == calls[a] = Idle /\ todo[a].picks = {}

(* PrepareList, Invalidate, the reply and CommitList.  Nobody else uses the *)
(* snapshot of an administrator, so they are one step, at the time when the *)
(* list is taken ...                                                        *)
SendList(a) ==
    /\ Free(a)
    /\ snapshots' = [snapshots EXCEPT ![a] = List(ListPending)]
    /\ shown' = [shown EXCEPT ![a] = ListPending]
    /\ UNCHANGED <<stores, lock, calls, todo, history, restarts>>

(* Mutant: the numbers of an older list stay valid. *)
ListFailsQuietly(a) ==
    /\ Free(a)
    /\ shown' = [shown EXCEPT ![a] = ListPending]
    /\ UNCHANGED <<stores, lock, calls, snapshots, todo, history, restarts>>

(* ... or the reply breaks off: the administrator may have seen a part of   *)
(* the new list, and neither the new nor the old one is valid.              *)
ListFails(a) ==
    /\ Free(a)
    /\ snapshots' = [snapshots EXCEPT ![a] = NoList]
    /\ shown' = [shown EXCEPT ![a] = ListPending]
    /\ UNCHANGED <<stores, lock, calls, todo, history, restarts>>

(* resolveSelection: the snapshot is used up by any attempt, and serves     *)
(* only if every chosen number still names the same request.                *)
ResolveSelection(a, op, numbers) ==
    /\ Free(a)
    /\ snapshots[a].sent
    /\ snapshots' = [snapshots EXCEPT ![a] = NoList]
    /\ LET picks == {e \in snapshots[a].entries \cap ListPending : e[1] \in numbers}
       IN  todo' = [todo EXCEPT ![a] =
                Batch(op, IF {e[1] : e \in picks} = numbers THEN picks ELSE {})]
    /\ shown' = [shown EXCEPT ![a] = {}]
    /\ UNCHANGED <<stores, lock, calls, history, restarts>>

(* The decisions of a batch, one after the other, in the order given. *)
NextDecision(a, e) ==
    /\ e \in todo[a].picks
    /\ calls[a] = Idle
    /\ todo' = [todo EXCEPT ![a] = Batch(todo[a].op, todo[a].picks \ {e})]
    /\ IF e[2] \in pending
       THEN Start(a, todo[a].op, owner[e[2]], e[2], NoKey)
       ELSE UNCHANGED calls
    /\ UNCHANGED <<stores, lock, snapshots, shown, history, restarts>>

-----------------------------------------------------------------------------
(* The server stops anywhere and loads its two files. *)

(* Mutant: the largest identifier in the file. *)
NextIDsLast ==
    {n \in 0..MaxKeys :
        /\ \A k \in Keys : credentials[k] # NoOwner => k <= n
        /\ n = 0 \/ credentials[n] # NoOwner}

(* LoadStore: one more than the largest identifier in the file, or 1. *)
NextIDs ==
    {n \in 1..(MaxKeys + 1) :
        /\ \A k \in Keys : credentials[k] # NoOwner => k < n
        /\ n = 1 \/ credentials[n - 1] # NoOwner}

Interrupted(p) == calls[p].at \in {"deliver", "rollback", "cleanup"}

Restart ==
    /\ restarts < MaxRestarts
    /\ restarts' = restarts + 1
    /\ nextID' \in NextIDs
    /\ fate' = [k \in Keys |->
           IF fate[k] = "issued" /\ (\E p \in Procs : Interrupted(p) /\ calls[p].key = k)
           THEN "stuck" ELSE fate[k]]
    /\ marks' = [r \in Requests |->
           IF \E p \in Procs : calls[p].at = "cleanup" /\ calls[p].request = r
           THEN marks[r] \cup {"leftover"} ELSE marks[r]]
    /\ lock' = [u \in Users |-> NoProc]
    /\ calls' = [p \in Procs |-> Idle]
    /\ snapshots' = [a \in Admins |-> NoList]
    /\ todo' = [a \in Admins |-> Batch("approve", {})]
    /\ shown' = [a \in Admins |-> {}]
    /\ UNCHANGED <<credentials, owner, requestedAt>>

-----------------------------------------------------------------------------
Begin(p) ==
    \/ \E o \in Owners : StartRegister(p, o) \/ StartIssue(p, o)
    \/ \E k \in Keys : StartDelete(p, k)
    \/ \E r \in Requests : StartDecision(p, "approve", r) \/ StartDecision(p, "reject", r)

Work(p) ==
    \/ LookRegister(p) \/ LookPending(p) \/ LookIssue(p) \/ LookApprove(p)
    \/ \E r \in Requests, t \in Times : Create(p, r, t)
    \/ IssueKey(p) \/ Deliver(p) \/ DeliveryFails(p)
    \/ Rollback(p) \/ RollbackFails(p) \/ Cleanup(p) \/ CleanupFails(p)
    \/ Discard(p) \/ DeleteKey(p) \/ Fail(p)

Chat(a) ==
    \/ SendList(a) \/ ListFails(a)
    \/ \E numbers \in (SUBSET (1..Cardinality(Requests))) \ {{}} :
           \/ ResolveSelection(a, "approve", numbers)
           \/ ResolveSelection(a, "reject", numbers)
    \/ \E e \in todo[a].picks : NextDecision(a, e)

Next ==
    \/ \E p \in Calls : Begin(p)
    \/ \E p \in Procs : Work(p)
    \/ \E a \in Admins : Chat(a)
    \/ Restart

Spec == Init /\ [][Next]_vars

-----------------------------------------------------------------------------
(* Properties. *)

(* Every variable has its type. *)
TypeOK ==
    /\ credentials \in [Keys -> Owners \cup {NoOwner}]
    /\ nextID \in 1..(MaxKeys + 1)
    /\ owner \in [Requests -> Owners \cup {NoOwner}]
    /\ requestedAt \in [Requests -> Nat]
    /\ lock \in [Users -> Procs \cup {NoProc}]
    /\ calls \in [Procs -> CallStates \cup {Idle}]
    /\ snapshots \in [Admins -> Lists]
    /\ todo \in [Admins -> Batches]
    /\ shown \in [Admins -> SUBSET Entries]
    /\ fate \in [Keys -> {"none", "issued", "delivered", "manual", "stuck"}]
    /\ marks \in [Requests -> SUBSET {"created", "granted", "rejected", "leftover"}]
    /\ restarts \in 0..MaxRestarts

(* A machine is claimed once: it has one key, or one request (two would     *)
(* keep the server from loading its file), and both only while an approval  *)
(* is at work or after one that could not be completed.                     *)
OneOwnerPerMachine ==
    /\ \A j, k \in Keys : credentials[j] # NoOwner /\ credentials[j] = credentials[k] => j = k
    /\ \A r, s \in pending : owner[r] = owner[s] => r = s
    /\ \A r \in pending, k \in Keys :
           owner[r] = credentials[k] =>
               \/ fate[k] = "stuck" \/ "leftover" \in marks[r]
               \/ \E p \in Procs : calls[p].request = r /\ calls[p].key = k

(* A key is given out without a decision only to a user who has nothing:    *)
(* what Register read of the two stores still holds when it issues.         *)
FirstMachineOnly ==
    \A p \in Procs :
        At(p, "register", "issue") =>
            HeldBy(calls[p].owner[1]) = {} /\ RequestedBy(calls[p].owner[1]) = {}

(* Every key in the store was delivered or issued by hand, is in the hands  *)
(* of a call, or is one that a failed rollback or a restart left behind.    *)
KeysAccounted ==
    \A k \in Keys :
        credentials[k] # NoOwner =>
            \/ fate[k] \in {"delivered", "manual", "stuck"}
            \/ \E p \in Procs : calls[p].key = k /\ lock[credentials[k][1]] = p

(* A request is not lost: it is pending, or was rejected, or its key was    *)
(* delivered; and no request is rejected after its key was delivered unless *)
(* it could not be removed then.                                            *)
RequestsDecidedOnce ==
    \A r \in Requests :
        /\ "created" \in marks[r] => r \in pending \/ "rejected" \in marks[r] \/ "granted" \in marks[r]
        /\ {"rejected", "granted"} \subseteq marks[r] => "leftover" \in marks[r]

(* A number in the chat means the request it stood beside in the list the   *)
(* administrator was sent last.                                             *)
NumbersMeanLastShown ==
    [][\A a \in Admins : todo'[a].picks \ todo[a].picks \subseteq shown[a]]_vars

(* A machine is claimed once, and without a decision only as its user's     *)
(* first, whatever two commands, approvals and restarts come in between     *)
(* (machinereg Register, Approve).                                          *)
MachinesClaimedOnce == TypeOK /\ OneOwnerPerMachine /\ FirstMachineOnly
=============================================================================
