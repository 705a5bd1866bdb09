---------------------- MODULE ConnectionLifecycleProofs ----------------------
(***************************************************************************)
(* Proofs about ConnectionLifecycle, for any number of connections,        *)
(* credentials, addresses and concurrent management calls.                 *)
(*                                                                         *)
(* The routing table and the directory are changed under two locks.  They  *)
(* agree because a connection holds the machine from its reservation to    *)
(* its removal (HandshakeHolds, RoutedStages) and because what the         *)
(* management plane took out has left its handshake for good               *)
(* (WithdrawnStages).  Revocation is covered if it is covered already      *)
(* during the handshake (RevokedCovered).                                  *)
(***************************************************************************)
EXTENDS ConnectionLifecycle, TLAPS

Installed == {"installed", "ready", "closing"}
Past == Installed \cup {"removed", "closed"}

Withdrawn(c) == c \in cancelled \/ \E a \in Callers : c \in calls[a].conns
Pending(i) == \E a \in Callers : i \in calls[a].drop

HandshakeHolds == \A c \in Conns : stage[c] \in {"reserved", "upgraded"} => attached = c
RoutedStages == \A c \in Conns : client = c => stage[c] \in Installed
WithdrawnStages == \A c \in Conns : Withdrawn(c) => stage[c] \in Past
CallShape == \A a \in Callers : calls[a].to = "cancel" => calls[a].drop = {}

RevokedCovered ==
    \A c \in Conns :
        /\ stage[c] \in Handshake \/ client = c
        /\ ~Usable(identity[c].credential, identity[c].source)
        => c \in missed \/ Pending(identity[c])

Agreement ==
    /\ HandshakeHolds /\ RoutedStages /\ OneRoutePerKey
    /\ WithdrawnStages /\ WithdrawnUnroutable

IInv == TypeOK /\ Agreement /\ CallShape /\ RevokedCovered

(* The operations that persist a change of a credential. *)
Change(a) ==
    \/ \E cr \in Credentials : Enable(a, cr) \/ Disable(a, cr) \/ Delete(a, cr)
    \/ \E cr \in Credentials, rules \in SUBSET Sources \ {{}} :
           Issue(a, cr, rules) \/ AddSources(a, cr, rules) \/ SetSources(a, cr, rules)

-----------------------------------------------------------------------------
(* Type correctness.                                                       *)

LEMMA InitType == Init => TypeOK
BY LifecycleAssumption
   DEF Init, TypeOK, Record, RecordStates, Stages, Handshake, Identities, Idle,
       CallStates, Callers

LEMMA CallTypes ==
    /\ Idle \in CallStates
    /\ \A ids \in SUBSET Identities : Withdrawal(ids) \in CallStates
    /\ \A cs \in SUBSET Conns : Cancelling(cs) \in CallStates
BY DEF Idle, Withdrawal, Cancelling, CallStates

(* What every change of a credential has in common. *)
LEMMA ChangeFrame ==
    ASSUME TypeOK, NEW a \in Admins, Change(a)
    PROVE  /\ UNCHANGED <<hubVars, shutdown, missed>>
           /\ calls[a] = Idle
           /\ \E ids \in SUBSET Identities :
                 calls' = [calls EXCEPT ![a] = IF ids = {} THEN Idle ELSE Withdrawal(ids)]
           /\ records' \in [Credentials -> RecordStates]
           /\ ops' \in 0..MaxOps
           /\ calls' \in [Callers -> CallStates]
<1>1. \A ids : Begin(a, ids) => ops' \in 0..MaxOps
    BY LifecycleAssumption DEF TypeOK, Begin
<1>2. \A cr \in Credentials : \A rules \in SUBSET Sources :
        \A st \in {"absent", "enabled", "disabled", "deleted"} :
          Store(cr, st, rules) => records' \in [Credentials -> RecordStates]
    BY DEF Store, Record, RecordStates, TypeOK
<1>3. \A cr \in Credentials :
        /\ records[cr].status \in {"absent", "enabled", "disabled", "deleted"}
        /\ records[cr].sources \in SUBSET Sources
    BY DEF TypeOK, RecordStates
<1>4. ASSUME NEW cr \in Credentials, Enable(a, cr) \/ Disable(a, cr) \/ Delete(a, cr)
      PROVE  /\ \E ids \in SUBSET Identities : Begin(a, ids)
             /\ records' \in [Credentials -> RecordStates]
  <2>1. {} \in SUBSET Identities /\ Using(cr) \in SUBSET Identities
    BY DEF Using
  <2>2. Begin(a, {}) \/ Begin(a, Using(cr))
    BY <1>4 DEF Enable, Disable, Delete
  <2>3. records' \in [Credentials -> RecordStates]
    BY <1>2, <1>3, <1>4 DEF Enable, Disable, Delete
  <2> QED
    BY <2>1, <2>2, <2>3
<1>5. ASSUME NEW cr \in Credentials, NEW rules \in SUBSET Sources,
             Issue(a, cr, rules) \/ AddSources(a, cr, rules) \/ SetSources(a, cr, rules)
      PROVE  /\ \E ids \in SUBSET Identities : Begin(a, ids)
             /\ records' \in [Credentials -> RecordStates]
  <2> DEFINE outside == {i \in Using(cr) : i.source \notin rules}
  <2>1. /\ {} \in SUBSET Identities /\ outside \in SUBSET Identities
        /\ records[cr].sources \cup rules \in SUBSET Sources
    BY <1>3 DEF Using
  <2>2. Begin(a, {}) \/ Begin(a, outside)
    BY <1>5 DEF Issue, AddSources, SetSources
  <2>3. records' \in [Credentials -> RecordStates]
    BY <1>2, <1>3, <1>5, <2>1 DEF Issue, AddSources, SetSources
  <2> QED
    BY <2>1, <2>2, <2>3
<1>6. /\ \E ids \in SUBSET Identities : Begin(a, ids)
      /\ records' \in [Credentials -> RecordStates]
    BY <1>4, <1>5 DEF Change
<1>7. PICK ids \in SUBSET Identities : Begin(a, ids)
    BY <1>6
<1>8. calls' \in [Callers -> CallStates]
  <2>1. (IF ids = {} THEN Idle ELSE Withdrawal(ids)) \in CallStates
    BY CallTypes
  <2> QED
    BY <1>7, <2>1 DEF Begin, TypeOK, Callers
<1> QED
    BY <1>1, <1>6, <1>7, <1>8 DEF Begin

LEMMA NextType == TypeOK /\ [Next]_vars => TypeOK'
<1> SUFFICES ASSUME TypeOK, [Next]_vars PROVE TypeOK'
    OBVIOUS
<1>1. ASSUME NEW c \in Conns, Handler(c) PROVE TypeOK'
    BY <1>1
    DEF Handler, Verify, Reserve, Upgrade, FailHandshake, Install, FirstSnapshot, End,
        Remove, Leave, Detach, Move, Stages, Handshake, TypeOK
<1>2. ASSUME NEW a \in Admins, Change(a) PROVE TypeOK'
    BY <1>2, ChangeFrame DEF TypeOK, hubVars
<1>3. ASSUME NEW a \in Admins, NEW c \in Conns, Disconnect(a, c) PROVE TypeOK'
    BY <1>3, CallTypes, LifecycleAssumption DEF Disconnect, TypeOK, Callers
<1>4. ASSUME NEW a \in Callers, Withdraw(a) PROVE TypeOK'
    BY <1>4, CallTypes DEF Withdraw, Take, Matched, PassedBy, TypeOK
<1>5. ASSUME NEW a \in Callers, NEW c \in Conns, CancelOne(a, c) PROVE TypeOK'
    BY <1>5, CallTypes DEF CancelOne, Detach, TypeOK
<1>6. ASSUME BeginShutdown PROVE TypeOK'
    BY <1>6, CallTypes DEF BeginShutdown, hubVars, TypeOK, Callers
<1>7. CASE UNCHANGED vars
    BY <1>7 DEF vars, TypeOK
<1> QED
    BY <1>1, <1>2, <1>3, <1>4, <1>5, <1>6, <1>7 DEF Next, Manage, Change

(* Every variable of a reachable state has its type. *)
THEOREM LifecycleTypeOK == Spec => []TypeOK
<1> QED
    BY InitType, NextType, PTL DEF Spec

-----------------------------------------------------------------------------
(* The routing table and the directory.                                    *)

LEMMA HandlerAgreement ==
    ASSUME TypeOK, Agreement, NEW c \in Conns, Handler(c)
    PROVE  Agreement'
<1> USE LifecycleAssumption DEF Agreement, TypeOK, HandshakeHolds, RoutedStages,
        OneRoutePerKey, WithdrawnStages, WithdrawnUnroutable, Withdrawn, Installed, Past,
        Move, Detach, Handshake
<1>1. CASE Verify(c)
    BY <1>1 DEF Verify
<1>2. CASE Reserve(c)
    BY <1>2 DEF Reserve
<1>3. CASE Upgrade(c)
    BY <1>3 DEF Upgrade
<1>4. CASE FailHandshake(c)
    BY <1>4 DEF FailHandshake
<1>5. CASE Install(c)
    BY <1>5 DEF Install
<1>6. CASE FirstSnapshot(c)
    BY <1>6 DEF FirstSnapshot
<1>7. CASE End(c)
    BY <1>7 DEF End
<1>8. CASE Remove(c)
    BY <1>8 DEF Remove
<1>9. CASE Leave(c)
    BY <1>9 DEF Leave
<1> QED
    BY <1>1, <1>2, <1>3, <1>4, <1>5, <1>6, <1>7, <1>8, <1>9 DEF Handler

(* A change of a credential and the start of the shutdown touch neither     *)
(* table and take no connection.                                            *)
LEMMA CallsAgreement ==
    ASSUME TypeOK, Agreement, UNCHANGED hubVars,
           NEW a \in Callers, NEW call \in CallStates, call.conns = {},
           calls' = [calls EXCEPT ![a] = call]
    PROVE  Agreement'
<1>1. \A b \in Callers : calls'[b].conns \subseteq calls[b].conns
    BY DEF TypeOK, CallStates
<1> QED
    BY <1>1 DEF hubVars, Agreement, HandshakeHolds, RoutedStages, OneRoutePerKey,
                WithdrawnStages, WithdrawnUnroutable, Withdrawn

LEMMA ChangeAgreement ==
    ASSUME TypeOK, Agreement, NEW a \in Admins, Change(a)
    PROVE  Agreement'
<1>1. PICK ids \in SUBSET Identities :
        calls' = [calls EXCEPT ![a] = IF ids = {} THEN Idle ELSE Withdrawal(ids)]
    BY ChangeFrame
<1> DEFINE call == IF ids = {} THEN Idle ELSE Withdrawal(ids)
<1>2. call \in CallStates /\ call.conns = {}
    BY CallTypes DEF Idle, Withdrawal
<1>3. a \in Callers /\ UNCHANGED hubVars
    BY ChangeFrame DEF Callers
<1> HIDE DEF call
<1>4. calls' = [calls EXCEPT ![a] = call]
    BY <1>1 DEF call
<1> QED
    BY <1>2, <1>3, <1>4, CallsAgreement

LEMMA WithdrawAgreement ==
    ASSUME TypeOK, Agreement, NEW a \in Callers, Withdraw(a)
    PROVE  Agreement'
<1> DEFINE taken == Matched(calls[a].drop)
<1>1. \A c \in Conns : c \in taken => client = c
    BY DEF Matched
<1>2. \A b \in Callers : \A c \in calls'[b].conns : c \in calls[b].conns \/ c \in taken
    BY DEF Withdraw, Take, Idle, Cancelling, TypeOK
<1>3. /\ UNCHANGED <<stage, attached, cancelled>>
      /\ client' = IF taken = {} THEN client ELSE NoConn
    BY DEF Withdraw, Take
<1>4. taken \subseteq Conns
    BY DEF Matched
<1> HIDE DEF taken
<1>5. \A c \in Conns : Withdrawn(c)' => Withdrawn(c) \/ c \in taken
    BY <1>2, <1>3 DEF Withdrawn
<1>6. \A c \in Conns : c \in taken => stage[c] \in Past
    BY <1>1 DEF Agreement, RoutedStages, Past
<1>7. \A c \in Conns : client' = c => client = c /\ taken = {}
    BY <1>3, LifecycleAssumption
<1>8. WithdrawnStages'
    BY <1>3, <1>5, <1>6 DEF Agreement, WithdrawnStages
<1>9. WithdrawnUnroutable'
  <2>1. \A c \in Conns : Withdrawn(c)' => client' # c
    BY <1>5, <1>7 DEF Agreement, WithdrawnUnroutable, Withdrawn
  <2> QED
    BY <2>1 DEF WithdrawnUnroutable, Withdrawn
<1> QED
    BY <1>3, <1>7, <1>8, <1>9, LifecycleAssumption
    DEF Agreement, HandshakeHolds, RoutedStages, OneRoutePerKey

LEMMA CancelAgreement ==
    ASSUME TypeOK, Agreement, NEW a \in Callers, NEW c \in Conns, CancelOne(a, c)
    PROVE  Agreement'
<1>1. Withdrawn(c) /\ client # c /\ stage[c] \in Past
    BY DEF CancelOne, Withdrawn, Agreement, WithdrawnStages, WithdrawnUnroutable
<1>2. \A b \in Callers : calls'[b].conns \subseteq calls[b].conns
    BY DEF CancelOne, Idle, TypeOK
<1>3. \A d \in Conns : Withdrawn(d)' => Withdrawn(d)
    BY <1>1, <1>2 DEF CancelOne, Withdrawn
<1>4. /\ UNCHANGED <<stage, client>>
      /\ attached' = IF attached = c THEN NoConn ELSE attached
    BY DEF CancelOne, Detach
<1>5. WithdrawnStages'
    BY <1>3, <1>4 DEF Agreement, WithdrawnStages
<1>6. WithdrawnUnroutable'
  <2>1. \A d \in Conns : Withdrawn(d)' => client' # d
    BY <1>3, <1>4 DEF Agreement, WithdrawnUnroutable, Withdrawn
  <2> QED
    BY <2>1 DEF WithdrawnUnroutable, Withdrawn
<1>7. HandshakeHolds'
    BY <1>1, <1>4 DEF Agreement, HandshakeHolds, Past, Installed
<1> QED
    BY <1>1, <1>4, <1>5, <1>6, <1>7 DEF Agreement, RoutedStages, OneRoutePerKey

LEMMA DisconnectAgreement ==
    ASSUME TypeOK, Agreement, NEW a \in Admins, NEW c \in Conns, Disconnect(a, c)
    PROVE  Agreement'
<1>1. client = c /\ client' = NoConn /\ UNCHANGED <<stage, attached, cancelled>>
    BY DEF Disconnect
<1>2. \A b \in Callers : \A d \in calls'[b].conns : d \in calls[b].conns \/ d = c
    BY DEF Disconnect, Cancelling, TypeOK
<1>3. \A d \in Conns : Withdrawn(d)' => Withdrawn(d) \/ d = c
    BY <1>1, <1>2 DEF Withdrawn
<1>4. WithdrawnStages'
    BY <1>1, <1>3 DEF Agreement, WithdrawnStages, RoutedStages, Past
<1> QED
    BY <1>1, <1>4, LifecycleAssumption
    DEF Agreement, HandshakeHolds, RoutedStages, OneRoutePerKey, WithdrawnUnroutable

LEMMA NextAgreement == TypeOK /\ Agreement /\ [Next]_vars => Agreement'
<1> SUFFICES ASSUME TypeOK, Agreement, [Next]_vars PROVE Agreement'
    OBVIOUS
<1>1. ASSUME NEW c \in Conns, Handler(c) PROVE Agreement'
    BY <1>1, HandlerAgreement
<1>2. ASSUME NEW a \in Admins, Change(a) PROVE Agreement'
    BY <1>2, ChangeAgreement
<1>3. ASSUME NEW a \in Admins, NEW c \in Conns, Disconnect(a, c) PROVE Agreement'
    BY <1>3, DisconnectAgreement
<1>4. ASSUME NEW a \in Callers, Withdraw(a) PROVE Agreement'
    BY <1>4, WithdrawAgreement
<1>5. ASSUME NEW a \in Callers, NEW c \in Conns, CancelOne(a, c) PROVE Agreement'
    BY <1>5, CancelAgreement
<1>6. ASSUME BeginShutdown PROVE Agreement'
  <2>1. Withdrawal(Identities) \in CallStates /\ Withdrawal(Identities).conns = {}
    BY CallTypes DEF Withdrawal
  <2>2. Server \in Callers /\ UNCHANGED hubVars
    BY <1>6 DEF BeginShutdown, Callers
  <2>3. calls' = [calls EXCEPT ![Server] = Withdrawal(Identities)]
    BY <1>6 DEF BeginShutdown
  <2> QED
    BY <2>1, <2>2, <2>3, CallsAgreement
<1>7. CASE UNCHANGED vars
    BY <1>7
    DEF vars, Agreement, HandshakeHolds, RoutedStages, OneRoutePerKey, WithdrawnStages,
        WithdrawnUnroutable, Withdrawn
<1> QED
    BY <1>1, <1>2, <1>3, <1>4, <1>5, <1>6, <1>7 DEF Next, Manage, Change

LEMMA InitAgreement == Init => Agreement
BY LifecycleAssumption
   DEF Init, Agreement, HandshakeHolds, RoutedStages, OneRoutePerKey, WithdrawnStages,
       WithdrawnUnroutable, Withdrawn, Installed, Past, Idle

LEMMA SpecAgreement == Spec => []Agreement
<1> QED
    BY InitType, NextType, InitAgreement, NextAgreement, PTL DEF Spec

(* The connection that commands are routed to holds the machine in the      *)
(* directory, in every interleaving of handlers and management calls.       *)
THEOREM LifecycleOneRoutePerKey == Spec => []OneRoutePerKey
<1>1. Agreement => OneRoutePerKey
    BY DEF Agreement
<1> QED
    BY <1>1, SpecAgreement, PTL

(* What the management plane took out of the table is never routed again.   *)
THEOREM LifecycleWithdrawnUnroutable == Spec => []WithdrawnUnroutable
<1>1. Agreement => WithdrawnUnroutable
    BY DEF Agreement
<1> QED
    BY <1>1, SpecAgreement, PTL

-----------------------------------------------------------------------------
(* Revocation.                                                             *)

Exposed(c) ==
    /\ stage[c] \in Handshake \/ client = c
    /\ ~Usable(identity[c].credential, identity[c].source)

Covered(c) == c \in missed \/ Pending(identity[c])

LEMMA IdentityType ==
    ASSUME TypeOK, NEW c \in Conns
    PROVE  /\ identity[c] \in Identities
           /\ identity[c].credential \in Credentials
           /\ identity[c].source \in Sources
BY DEF TypeOK, Identities

(* A handler that goes on exposes no connection that was not exposed: the   *)
(* credential is verified on entry, and installation follows a handshake.   *)
LEMMA HandlerCovered ==
    ASSUME TypeOK, RevokedCovered, NEW d \in Conns, Handler(d)
    PROVE  RevokedCovered'
<1>1. UNCHANGED <<records, identity, calls, missed>>
    BY DEF Handler, Verify, Reserve, Upgrade, FailHandshake, Install, FirstSnapshot, End,
           Remove, Leave
<1> SUFFICES ASSUME NEW c \in Conns, Exposed(c)' PROVE Exposed(c)
    BY <1>1 DEF RevokedCovered, Exposed, Pending
<1>2. ~Usable(identity[c].credential, identity[c].source)
    BY <1>1 DEF Exposed, Usable
<1>3. stage[c] \in Handshake \/ client = c
  <2> USE DEF Exposed, Move, Detach, Handshake, TypeOK
  <2>1. CASE Verify(d)
    <3>1. c # d
      BY <1>2, <2>1 DEF Verify
    <3> QED
      BY <2>1, <3>1 DEF Verify
  <2>2. CASE Install(d)
      BY <2>2 DEF Install
  <2>3. CASE Remove(d)
      BY <2>3, LifecycleAssumption DEF Remove
  <2>4. CASE Reserve(d) \/ Upgrade(d) \/ FailHandshake(d)
      BY <2>4 DEF Reserve, Upgrade, FailHandshake
  <2>5. CASE FirstSnapshot(d) \/ End(d) \/ Leave(d)
      BY <2>5 DEF FirstSnapshot, End, Leave
  <2> QED
      BY <2>1, <2>2, <2>3, <2>4, <2>5 DEF Handler
<1> QED
    BY <1>2, <1>3 DEF Exposed

(* A change that makes an identity unusable has that identity in the set of *)
(* connections its call is going to drop.                                   *)
LEMMA ChangeDrops ==
    ASSUME TypeOK, NEW a \in Admins, Change(a), NEW i \in Identities,
           Usable(i.credential, i.source), ~Usable(i.credential, i.source)'
    PROVE  i \in calls'[a].drop
<1>1. \A cr \in Credentials : i.credential = cr => i \in Using(cr)
    BY DEF Using
<1>2. a \in Callers
    BY DEF Callers
<1>3. \A ids \in SUBSET Identities : Begin(a, ids) /\ i \in ids => i \in calls'[a].drop
    BY <1>2 DEF Begin, Withdrawal, TypeOK
<1>4. i.credential \in Credentials /\ i.source \in Sources
    BY DEF Identities
<1>5. \A cr \in Credentials : \A st : \A rules :
        Store(cr, st, rules) =>
            /\ records'[cr].status = st /\ records'[cr].sources = rules
            /\ \A e \in Credentials : e # cr => records'[e] = records[e]
    BY DEF Store, Record, TypeOK
<1>6. ASSUME NEW cr \in Credentials, Enable(a, cr) \/ Disable(a, cr) \/ Delete(a, cr)
      PROVE  i \in calls'[a].drop
  <2>1. i.credential = cr
    BY <1>4, <1>5, <1>6 DEF Enable, Disable, Delete, Usable
  <2>2. ~Enable(a, cr)
    BY <1>4, <1>5, <2>1 DEF Enable, Usable
  <2>3. Begin(a, Using(cr))
    BY <1>6, <2>2 DEF Disable, Delete
  <2> QED
    BY <1>1, <1>3, <2>1, <2>3 DEF Using
<1>7. ASSUME NEW cr \in Credentials, NEW rules \in SUBSET Sources,
             Issue(a, cr, rules) \/ AddSources(a, cr, rules) \/ SetSources(a, cr, rules)
      PROVE  i \in calls'[a].drop
  <2> DEFINE outside == {j \in Using(cr) : j.source \notin rules}
  <2>1. i.credential = cr
    BY <1>4, <1>5, <1>7 DEF Issue, AddSources, SetSources, Usable
  <2>2. records[cr].status = "enabled" /\ i.source \in records[cr].sources
    BY <2>1 DEF Usable
  <2>3. ~Issue(a, cr, rules) /\ ~AddSources(a, cr, rules)
    BY <1>4, <1>5, <2>1, <2>2 DEF Issue, AddSources, Usable
  <2>4. SetSources(a, cr, rules)
    BY <1>7, <2>3
  <2>5. i.source \notin rules
    BY <1>4, <1>5, <2>1, <2>2, <2>4 DEF SetSources, Usable
  <2>6. Begin(a, outside) /\ i \in outside
    BY <1>1, <2>1, <2>4, <2>5 DEF SetSources
  <2>7. outside \in SUBSET Identities
    BY DEF Using
  <2> QED
    BY <1>3, <2>6, <2>7
<1> QED
    BY <1>6, <1>7 DEF Change

LEMMA ChangeCovered ==
    ASSUME TypeOK, RevokedCovered, NEW a \in Admins, Change(a)
    PROVE  RevokedCovered'
<1>1. /\ UNCHANGED <<stage, identity, client, missed>>
      /\ calls[a] = Idle /\ a \in Callers
    BY ChangeFrame DEF hubVars, Callers
<1>2. \A b \in Callers : b # a => calls'[b] = calls[b]
    BY ChangeFrame DEF TypeOK
<1>3. \A i : Pending(i) => Pending(i)'
    BY <1>1, <1>2 DEF Pending, Idle
<1> SUFFICES ASSUME NEW c \in Conns, Exposed(c)' PROVE Covered(c)'
    BY DEF RevokedCovered, Exposed, Covered
<1>4. CASE Usable(identity[c].credential, identity[c].source)
  <2>1. identity[c] \in calls'[a].drop
    BY <1>1, <1>4, ChangeDrops, IdentityType DEF Exposed, Usable
  <2> QED
    BY <1>1, <2>1 DEF Covered, Pending
<1>5. CASE ~Usable(identity[c].credential, identity[c].source)
    BY <1>1, <1>3, <1>5 DEF RevokedCovered, Exposed, Covered
<1> QED
    BY <1>4, <1>5

(* The withdrawal itself: an exposed connection of its identities is either *)
(* in the table, and leaves it, or in its handshake, and is passed by.      *)
LEMMA WithdrawCovered ==
    ASSUME TypeOK, RevokedCovered, NEW a \in Callers, Withdraw(a)
    PROVE  RevokedCovered'
<1> DEFINE ids == calls[a].drop
<1>1. /\ UNCHANGED <<records, stage, identity>>
      /\ missed' = missed \cup PassedBy(ids)
      /\ client' = IF Matched(ids) = {} THEN client ELSE NoConn
      /\ \A b \in Callers : b # a => calls'[b] = calls[b]
    BY DEF Withdraw, Take, TypeOK
<1> SUFFICES ASSUME NEW c \in Conns, Exposed(c)' PROVE Covered(c)'
    BY DEF RevokedCovered, Exposed, Covered
<1>2. Exposed(c)
    BY <1>1, LifecycleAssumption DEF Exposed, Usable
<1>3. CASE c \in missed
    BY <1>1, <1>3 DEF Covered
<1>4. CASE identity[c] \in ids
  <2>1. client' # c
    BY <1>1, <1>4, LifecycleAssumption DEF Matched
  <2>2. c \in PassedBy(ids)
    BY <1>1, <1>4, <2>1 DEF Exposed, PassedBy
  <2> QED
    BY <1>1, <2>2 DEF Covered
<1>5. CASE Pending(identity[c]) /\ identity[c] \notin ids
    BY <1>1, <1>5 DEF Covered, Pending
<1> QED
    BY <1>2, <1>3, <1>4, <1>5 DEF RevokedCovered, Exposed

LEMMA CancelCovered ==
    ASSUME TypeOK, CallShape, RevokedCovered, NEW a \in Callers,
           NEW d \in Conns, CancelOne(a, d)
    PROVE  RevokedCovered'
<1>1. UNCHANGED <<records, stage, identity, client, missed>> /\ calls[a].drop = {}
    BY DEF CancelOne, CallShape
<1>2. \A b \in Callers : b # a => calls'[b] = calls[b]
    BY DEF CancelOne, TypeOK
<1>3. \A i : Pending(i) => Pending(i)'
    BY <1>1, <1>2 DEF Pending
<1> QED
    BY <1>1, <1>3 DEF RevokedCovered, Usable

LEMMA DisconnectCovered ==
    ASSUME TypeOK, RevokedCovered, NEW a \in Admins, NEW d \in Conns, Disconnect(a, d)
    PROVE  RevokedCovered'
<1>1. /\ UNCHANGED <<records, stage, identity, missed>>
      /\ client' = NoConn /\ calls[a].drop = {} /\ a \in Callers
    BY DEF Disconnect, Idle, Callers
<1>2. \A b \in Callers : b # a => calls'[b] = calls[b]
    BY DEF Disconnect, TypeOK
<1>3. \A i : Pending(i) => Pending(i)'
    BY <1>1, <1>2 DEF Pending
<1> QED
    BY <1>1, <1>3, LifecycleAssumption DEF RevokedCovered, Usable

LEMMA ShutdownCovered ==
    ASSUME TypeOK, RevokedCovered, BeginShutdown
    PROVE  RevokedCovered'
<1>1. UNCHANGED <<records, stage, identity, client, missed>>
    BY DEF BeginShutdown, hubVars
<1>2. Server \in Callers /\ calls'[Server].drop = Identities
    BY DEF BeginShutdown, Withdrawal, Callers, TypeOK
<1>3. \A c \in Conns : Pending(identity[c])'
    BY <1>1, <1>2, IdentityType DEF Pending
<1> QED
    BY <1>1, <1>3 DEF RevokedCovered

LEMMA NextShape == TypeOK /\ CallShape /\ [Next]_vars => CallShape'
<1> SUFFICES ASSUME TypeOK, CallShape, [Next]_vars,
                    NEW b \in Callers, calls'[b].to = "cancel"
             PROVE  calls'[b].drop = {}
    BY DEF CallShape
<1> USE DEF CallShape, TypeOK, Idle, Withdrawal, Cancelling
<1>1. ASSUME NEW c \in Conns, Handler(c) PROVE calls'[b].drop = {}
    BY <1>1
    DEF Handler, Verify, Reserve, Upgrade, FailHandshake, Install, FirstSnapshot, End,
        Remove, Leave
<1>2. ASSUME NEW a \in Admins, Change(a) PROVE calls'[b].drop = {}
  <2>1. PICK ids \in SUBSET Identities :
          calls' = [calls EXCEPT ![a] = IF ids = {} THEN Idle ELSE Withdrawal(ids)]
    BY <1>2, ChangeFrame
  <2> QED
    BY <2>1
<1>3. ASSUME NEW a \in Admins, NEW c \in Conns, Disconnect(a, c)
      PROVE  calls'[b].drop = {}
    BY <1>3 DEF Disconnect
<1>4. ASSUME NEW a \in Callers, Withdraw(a) PROVE calls'[b].drop = {}
    BY <1>4 DEF Withdraw, Take
<1>5. ASSUME NEW a \in Callers, NEW c \in Conns, CancelOne(a, c)
      PROVE  calls'[b].drop = {}
    BY <1>5 DEF CancelOne
<1>6. ASSUME BeginShutdown PROVE calls'[b].drop = {}
    BY <1>6 DEF BeginShutdown
<1>7. CASE UNCHANGED vars
    BY <1>7 DEF vars
<1> QED
    BY <1>1, <1>2, <1>3, <1>4, <1>5, <1>6, <1>7 DEF Next, Manage, Change

LEMMA NextCovered ==
    TypeOK /\ CallShape /\ RevokedCovered /\ [Next]_vars => RevokedCovered'
<1> SUFFICES ASSUME TypeOK, CallShape, RevokedCovered, [Next]_vars PROVE RevokedCovered'
    OBVIOUS
<1>1. CASE UNCHANGED vars
    BY <1>1 DEF vars, RevokedCovered, Usable, Pending
<1> QED
    BY <1>1, HandlerCovered, ChangeCovered, WithdrawCovered, CancelCovered,
       DisconnectCovered, ShutdownCovered
    DEF Next, Manage, Change

LEMMA InitRevoked == Init => CallShape /\ RevokedCovered
BY LifecycleAssumption DEF Init, CallShape, RevokedCovered, Idle, Handshake

LEMMA LifecycleInv == Spec => []IInv
<1>1. Init => IInv
    BY InitType, InitAgreement, InitRevoked DEF IInv
<1>2. IInv /\ [Next]_vars => IInv'
    BY NextType, NextAgreement, NextShape, NextCovered DEF IInv
<1> QED
    BY <1>1, <1>2, PTL DEF Spec

(* A routed connection whose credential no longer admits it is about to be  *)
(* withdrawn, or was in its handshake when the withdrawal looked: the one   *)
(* gap of the revocation is the handshake.                                  *)
THEOREM LifecycleRevokedStaysOut == Spec => []RevokedStaysOut
<1>1. IInv => RevokedStaysOut
    BY DEF IInv, RevokedCovered, RevokedStaysOut, Pending
<1> QED
    BY <1>1, LifecycleInv, PTL

(* Commands are routed to the connection that holds the machine and is not  *)
(* being withdrawn, for any number of keys and connections (RoutesHold).    *)
THEOREM LifecycleRoutesHold == Spec => []RoutesHold
<1> QED
    BY LifecycleTypeOK, LifecycleOneRoutePerKey, LifecycleWithdrawnUnroutable, PTL DEF RoutesHold
=============================================================================
