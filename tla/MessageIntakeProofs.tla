------------------------ MODULE MessageIntakeProofs ------------------------
(***************************************************************************)
(* Proofs about MessageIntake and the WeComClient below it, for any        *)
(* workers, messages, sessions and capacities, and about ServerStartup,    *)
(* for any servers, addresses, sockets and key pairs.                      *)
(***************************************************************************)
EXTENDS ServerStartup, MessageIntake, SequenceTheorems, FiniteSetTheorems, TLAPS

(* What a session may still queue: nothing once its reader has stopped     *)
(* and what it left is handed over, nor after it became ready.             *)
SessionShape ==
    /\ phase \in {"dial", "flush", "stopped"} => queued = <<>> /\ ~reading
    /\ phase # "flush" => flushing = <<>>
    /\ ready /\ reading => queued = <<>>
    /\ reading => Len(queued) <= EventCap

(* A request that is pending has no result, nor has one that was not       *)
(* registered or whose write failed.                                       *)
CallShape ==
    \A c \in Callers :
        /\ call[c].pending => call[c].step \in {"registered", "sent", "cancelling"}
        /\ call[c].pending \/ call[c].step \in {"idle", "start", "captured", "finishing"}
              => call[c].result = "none"

(* One worker at most, with the task in hand and those of the channel      *)
(* pending, and one task above the capacity while a notice is.             *)
QueueShape ==
    /\ \A v, w \in Workers : worker[v].step # "none" /\ worker[w].step # "none" => v = w
    /\ \A w \in Workers : /\ worker[w].step = "take" => pendingTasks = Len(tasks)
                          /\ worker[w].step \in {"reply", "end"} => pendingTasks = Len(tasks) + 1
    /\ (\E w \in Workers : worker[w].step # "none") <=> pendingTasks # 0
    /\ pendingTasks = 0 => tasks = <<>>
    /\ pendingTasks <= QueueCap + 1
    /\ ~overflowPending => pendingTasks <= QueueCap

(* Every verdict of a message, given or waiting in the channel, is that of *)
(* an identifier the Deduper has or had.                                   *)
PlacesOf(m, queue) == {i \in 1..Len(queue) : queue[i].kind = "message" /\ queue[i].id = m}
Known(m) == IF \E i \in 1..Len(keys) : keys[i] = m THEN 1 ELSE 0
Verdicts ==
    \A m \in Messages :
        handled[m] + refused[m] + Cardinality(PlacesOf(m, tasks)) <= forgotten[m] + Known(m)

IInv == TypeOK /\ SessionShape /\ CallShape /\ AnswerKept /\ QueueShape /\ EventsInOrder /\ Verdicts

-----------------------------------------------------------------------------
(* Messages on their way.                                                  *)
Items == [n : Nat, id : Messages]
InOrder(q, d) == \A i \in 1..Len(q) : q[i].n = d + i

LEMMA AppendedLast ==
    ASSUME NEW e \in Seq(Items), NEW f \in Seq(Items), NEW q \in Seq(Items), NEW x \in Items
    PROVE  /\ e \o f \o q \in Seq(Items)
           /\ e \o f \o Append(q, x) = Append(e \o f \o q, x)
           /\ e \o <<>> \o <<>> = e
           /\ e \o f \o <<>> = e \o f
           /\ e \o <<>> \o q = e \o q
  OBVIOUS

LEMMA HandedOver ==
    ASSUME NEW e \in Seq(Items), NEW f \in Seq(Items), f # <<>>
    PROVE  Append(e, Head(f)) \o Tail(f) = e \o f
  <1> DEFINE a == Append(e, Head(f)) \o Tail(f)
             b == e \o f
  <1>1. Head(f) \in Items /\ Tail(f) \in Seq(Items) /\ Len(f) >= 1
    BY HeadTailProperties
  <1>2. a \in Seq(Items) /\ b \in Seq(Items)
    BY <1>1
  <1>3. Len(a) = Len(b)
    BY <1>1
  <1>4. ASSUME NEW i \in 1..Len(a) PROVE a[i] = b[i]
    <2>1. CASE i <= Len(e)
      BY <2>1, <1>1, <1>4
    <2>2. CASE i > Len(e)
      <3>1. b[i] = f[i - Len(e)]
        BY <2>2, <1>3, <1>4
      <3>2. CASE i = Len(e) + 1
        BY <3>1, <3>2, <1>1
      <3>3. CASE i > Len(e) + 1
        <4>1. a[i] = Tail(f)[i - (Len(e) + 1)]
          BY <3>3, <1>1, <1>4
        <4>2. i - (Len(e) + 1) \in 1..Len(Tail(f))
          BY <3>3, <1>1, <1>4
        <4>3. Tail(f)[i - (Len(e) + 1)] = f[i - Len(e)]
          BY <4>2, <1>1, HeadTailProperties
        <4> QED
          BY <4>1, <4>3, <3>1
      <3> QED
        BY <2>2, <3>2, <3>3
    <2> QED
      BY <2>1, <2>2
  <1> HIDE DEF a, b
  <1>5. a = b
    BY <1>2, <1>3, <1>4, SeqEqual
  <1> QED
    BY <1>5 DEF a, b

Ordered(w, d, r) == r = d + Len(w) /\ InOrder(w, d)

LEMMA OrderedAppend ==
    ASSUME NEW w \in Seq(Items), NEW d \in Nat, NEW r \in Nat, Ordered(w, d, r),
           NEW x \in Items, x.n = r + 1
    PROVE  Ordered(Append(w, x), d, r + 1)
  BY DEF Ordered, InOrder

LEMMA OrderedTail ==
    ASSUME NEW e \in Seq(Items), NEW f \in Seq(Items), NEW q \in Seq(Items), e # <<>>,
           NEW d \in Nat, NEW r \in Nat, Ordered(e \o f \o q, d, r)
    PROVE  Head(e).n = d + 1 /\ Ordered(Tail(e) \o f \o q, Head(e).n, r)
  <1> DEFINE w == e \o f \o q
             v == Tail(e) \o f \o q
  <1>1. Head(e) = e[1] /\ Tail(e) \in Seq(Items) /\ Len(Tail(e)) = Len(e) - 1 /\ Len(e) \in Nat \ {0}
        /\ \A i \in 1..Len(Tail(e)) : Tail(e)[i] = e[i + 1]
    BY HeadTailProperties
  <1>2. w \in Seq(Items) /\ v \in Seq(Items) /\ Len(w) = Len(e) + Len(f) + Len(q)
        /\ Len(v) = Len(e) - 1 + Len(f) + Len(q) /\ Len(f) \in Nat /\ Len(q) \in Nat
    BY <1>1
  <1>3. w[1] = e[1]
    BY <1>1, <1>2
  <1>4. ASSUME NEW i \in 1..Len(v) PROVE v[i] = w[i + 1]
    <2>1. CASE i <= Len(e) - 1
      <3>1. v[i] = Tail(e)[i]
        BY <2>1, <1>1, <1>2, <1>4
      <3>2. w[i + 1] = e[i + 1]
        BY <2>1, <1>1, <1>2, <1>4
      <3> QED
        BY <3>1, <3>2, <1>1, <2>1, <1>4
    <2>2. CASE i > Len(e) - 1
      <3>1. v[i] = (f \o q)[i - (Len(e) - 1)]
        BY <2>2, <1>1, <1>2, <1>4
      <3>2. w[i + 1] = (f \o q)[i + 1 - Len(e)]
        BY <2>2, <1>1, <1>2, <1>4
      <3>3. i - (Len(e) - 1) = i + 1 - Len(e)
        BY <1>1, <1>2, <1>4
      <3> QED
        BY <3>1, <3>2, <3>3
    <2> QED
      BY <2>1, <2>2, <1>1, <1>2, <1>4
  <1> HIDE DEF w, v
  <1>5. r = d + Len(w) /\ \A i \in 1..Len(w) : w[i].n = d + i
    BY DEF Ordered, InOrder, w
  <1>6. Head(e).n = d + 1
    BY <1>1, <1>2, <1>3, <1>5
  <1>7. r = d + 1 + Len(v)
    BY <1>1, <1>2, <1>5
  <1>8. \A i \in 1..Len(v) : v[i].n = (d + 1) + i
    BY <1>1, <1>2, <1>4, <1>5
  <1> QED
    BY <1>6, <1>7, <1>8 DEF Ordered, InOrder, v

LEMMA OrderedDrop ==
    ASSUME NEW e \in Seq(Items), NEW q \in Seq(Items),
           NEW d \in Nat, NEW r \in Nat, Ordered(e \o q, d, r)
    PROVE  r - Len(q) \in Nat /\ Ordered(e, d, r - Len(q))
  <1>1. Len(e \o q) = Len(e) + Len(q) /\ Len(e) \in Nat /\ Len(q) \in Nat
    OBVIOUS
  <1>2. \A i \in 1..Len(e) : (e \o q)[i] = e[i] /\ i \in 1..Len(e \o q)
    BY <1>1
  <1> QED
    BY <1>1, <1>2 DEF Ordered, InOrder

-----------------------------------------------------------------------------
(* Sessions: their types, their shape, and the order of their messages.    *)
SessionTypes ==
    /\ phase \in Phases /\ session \in 0..MaxSessions
    /\ installed \in BOOLEAN /\ reading \in BOOLEAN /\ ready \in BOOLEAN
    /\ link \in {"open", "closing", "closed"} /\ reason \in Reasons
    /\ subscription \in {"none", "waiting", "accepted", "rejected"} \cup Reasons
    /\ received \in Nat /\ dispatched \in Nat
    /\ events \in Seq(Items) /\ queued \in Seq(Items) /\ flushing \in Seq(Items)
    /\ Len(events) <= EventCap
    /\ Len(queued) <= EventCap + 1 /\ Len(flushing) <= EventCap + 1
CallTypes ==
    /\ call \in [Callers -> Calls]
    /\ \A c \in Callers : call[c].session <= session /\ call[c].owed <= session
Flow == SessionTypes /\ SessionShape /\ EventsInOrder
CallInv == CallTypes /\ CallShape /\ AnswerKept

LEMMA ClientParts == ClientTypeOK /\ dispatched \in Nat
                     /\ {events, queued, flushing} \subseteq Seq(Items) <=> SessionTypes /\ CallTypes
  <1> USE DEF ClientTypeOK, SessionTypes, CallTypes, Phases
  <1>1. ASSUME SessionTypes, CallTypes PROVE ClientTypeOK
    BY <1>1
  <1>2. ASSUME ClientTypeOK PROVE CallTypes
    BY <1>2
  <1>3. ASSUME ClientTypeOK, dispatched \in Nat, {events, queued, flushing} \subseteq Seq(Items)
        PROVE  SessionTypes
    BY <1>3
  <1> QED
    BY <1>1, <1>2, <1>3

LEMMA InOrderIs == EventsInOrder <=> Ordered(events \o flushing \o queued, dispatched, received)
  BY DEF EventsInOrder, Ordered, InOrder

(* No message moves.                                                       *)
LEMMA NothingMoves ==
    ASSUME Flow, UNCHANGED <<events, queued, flushing, received, dispatched, ready>>,
           session' \in 0..MaxSessions, installed' \in BOOLEAN,
           phase' = phase \/ (phase' \in Phases \ {"dial", "flush", "stopped"} /\ phase # "flush"),
           reading' \in {FALSE, reading},
           link' \in {"open", "closing", "closed"}, reason' \in Reasons,
           subscription' \in {"none", "waiting", "accepted", "rejected"} \cup Reasons
    PROVE  Flow'
  <1>1. SessionTypes'
    BY DEF Flow, SessionTypes, Phases
  <1>2. SessionShape'
    <2>1. SessionShape /\ reading \in BOOLEAN
      BY DEF Flow, SessionTypes
    <2>2. reading' => reading
      BY <2>1
    <2>3. CASE phase' = phase
      BY <2>1, <2>2, <2>3 DEF SessionShape
    <2>4. CASE phase' # phase
      BY <2>1, <2>2, <2>4 DEF SessionShape
    <2> QED
      BY <2>3, <2>4
  <1>3. EventsInOrder'
    BY DEF Flow, EventsInOrder
  <1> QED
    BY <1>1, <1>2, <1>3 DEF Flow

LEMMA FinishTypes ==
    ASSUME SessionTypes, NEW r \in Reasons, Finish(r)
    PROVE  /\ link' \in {"open", "closing", "closed"} /\ reason' \in Reasons
           /\ subscription' \in {"none", "waiting", "accepted", "rejected"} \cup Reasons
  <1>1. CASE link = "open"
    BY <1>1 DEF SessionTypes, Finish, CancelAll
  <1>2. CASE link # "open"
    BY <1>2 DEF SessionTypes, Finish
  <1> QED
    BY <1>1, <1>2

(* A message from WeCom goes behind all others.                            *)
LEMMA ReceiveFlows ==
    ASSUME Flow, NEW id \in Messages, Receive(id), dispatched' = dispatched
    PROVE  Flow'
  <1> DEFINE x == [n |-> received + 1, id |-> id]
             w == events \o flushing \o queued
  <1>0. SessionTypes /\ SessionShape
    BY DEF Flow
  <1>1. x \in Items /\ x.n = received + 1
    BY <1>0 DEF SessionTypes, Items
  <1>2. /\ reading = TRUE /\ phase # "activating" /\ received' = received + 1
        /\ UNCHANGED <<phase, session, installed, flushing, ready>>
        /\ IF QueueFull THEN Refuse(x) ELSE Accept(x)
    BY <1>0 DEF Receive, runVars, SessionTypes
  <1>3. flushing = <<>> /\ phase \notin {"dial", "flush", "stopped"} /\ Len(queued) <= EventCap
        /\ (ready => queued = <<>>)
    BY <1>0, <1>2 DEF SessionShape, SessionTypes
  <1>4. /\ w \in Seq(Items)
        /\ events \o flushing \o Append(queued, x) = Append(w, x)
        /\ queued = <<>> => w = events
        /\ Append(events, x) \o <<>> \o <<>> = Append(events, x)
    <2>1. Append(events, x) \in Seq(Items)
      BY <1>0, <1>1 DEF SessionTypes
    <2>2. events \in Seq(Items) /\ flushing \in Seq(Items) /\ queued \in Seq(Items)
      BY <1>0 DEF SessionTypes
    <2> HIDE DEF x
    <2>3. /\ events \o flushing \o queued \in Seq(Items)
          /\ events \o flushing \o Append(queued, x) = Append(events \o flushing \o queued, x)
          /\ events \o <<>> \o <<>> = events
      BY <1>1, <2>2, AppendedLast
    <2>4. Append(events, x) \o <<>> \o <<>> = Append(events, x)
      BY <2>1, <2>2, <1>1, AppendedLast
    <2> QED
      BY <2>3, <2>4, <1>3
  <1>5. Ordered(Append(w, x), dispatched, received + 1)
    <2> HIDE DEF x
    <2>1. Ordered(w, dispatched, received)
      BY InOrderIs DEF Flow
    <2> QED
      BY <2>1, <1>1, <1>4, <1>0, OrderedAppend DEF SessionTypes
  <1>6. Len(queued) \in Nat /\ Len(events) \in Nat /\ EventCap \in Nat
    BY <1>0, ClientBounds DEF SessionTypes
  <1> HIDE DEF x
  <1>7. CASE QueueFull
    <2>1. queued' = Append(queued, x) /\ reading' = FALSE /\ Finish("full") /\ events' = events
      BY <1>2, <1>7 DEF Refuse
    <2>2. queued' \in Seq(Items) /\ Len(queued') <= EventCap + 1
      BY <2>1, <1>0, <1>1, <1>3, <1>6 DEF SessionTypes
    <2>3. SessionTypes'
      <3>1. /\ link' \in {"open", "closing", "closed"} /\ reason' \in Reasons
            /\ subscription' \in {"none", "waiting", "accepted", "rejected"} \cup Reasons
        <4>1. "full" \in Reasons
          BY DEF Reasons
        <4> QED
          BY <4>1, <2>1, <1>0, FinishTypes
      <3>2. received' \in Nat /\ dispatched' \in Nat /\ reading' \in BOOLEAN /\ ready' \in BOOLEAN
        <4>1. received' \in Nat
          BY <1>0, <1>2 DEF SessionTypes
        <4>2. dispatched' \in Nat
          BY <1>0 DEF SessionTypes
        <4>3. reading' \in BOOLEAN /\ ready' \in BOOLEAN
          BY <2>1, <1>0, <1>2 DEF SessionTypes
        <4> QED
          BY <4>1, <4>2, <4>3
      <3>3. phase' \in Phases /\ session' \in 0..MaxSessions /\ installed' \in BOOLEAN
        BY <1>0, <1>2 DEF SessionTypes
      <3>4. /\ events' \in Seq(Items) /\ flushing' \in Seq(Items)
            /\ Len(events') <= EventCap /\ Len(flushing') <= EventCap + 1
        BY <2>1, <1>0, <1>2 DEF SessionTypes
      <3> QED
        BY <3>1, <3>2, <3>3, <3>4, <2>2 DEF SessionTypes
    <2>4. SessionShape'
      BY <2>1, <1>2, <1>3, <1>0 DEF SessionShape
    <2>5. EventsInOrder'
      BY <2>1, <1>2, <1>4, <1>5, InOrderIs DEF EventsInOrder, Ordered, InOrder
    <2> QED
      BY <2>3, <2>4, <2>5 DEF Flow
  <1>8. CASE ~QueueFull
    <2>1. UNCHANGED <<reading, link, reason, subscription>>
      BY <1>2, <1>8 DEF Accept
    <2>2. CASE ready
      <3>1. events' = Append(events, x) /\ queued' = queued /\ Len(events) < EventCap /\ queued = <<>>
        BY <1>2, <1>3, <1>6, <1>8, <2>2 DEF Accept, QueueFull
      <3>2. SessionTypes'
        BY <3>1, <2>1, <1>0, <1>1, <1>2, <1>6 DEF SessionTypes
      <3>3. SessionShape'
        BY <3>1, <2>1, <1>0, <1>2 DEF SessionShape
      <3>4. events' \o flushing' \o queued' = Append(w, x)
        BY <3>1, <1>2, <1>3, <1>4
      <3>5. EventsInOrder'
        BY <3>4, <1>2, <1>5 DEF EventsInOrder, Ordered, InOrder
      <3> QED
        BY <3>2, <3>3, <3>5 DEF Flow
    <2>3. CASE ~ready
      <3>1. queued' = Append(queued, x) /\ events' = events /\ Len(queued) < EventCap
        BY <1>2, <1>6, <1>8, <2>3 DEF Accept, QueueFull
      <3>2. queued' \in Seq(Items) /\ Len(queued') <= EventCap
        BY <3>1, <1>0, <1>1, <1>6 DEF SessionTypes
      <3>3. SessionTypes'
        BY <3>1, <3>2, <2>1, <1>0, <1>2, <1>6 DEF SessionTypes
      <3>4. SessionShape'
        BY <3>2, <2>1, <2>3, <1>0, <1>2, <1>3 DEF SessionShape
      <3>5. events' \o flushing' \o queued' = Append(w, x)
        BY <3>1, <1>2, <1>4
      <3>6. EventsInOrder'
        BY <3>5, <1>2, <1>5 DEF EventsInOrder, Ordered, InOrder
      <3> QED
        BY <3>3, <3>4, <3>6 DEF Flow
    <2> QED
      BY <2>2, <2>3, <1>0 DEF SessionTypes
  <1> QED
    BY <1>7, <1>8

(* Steps of Run that hand messages on keep them in their order.            *)
LEMMA SameOrder ==
    ASSUME SessionTypes, EventsInOrder, events' \o flushing' \o queued' = events \o flushing \o queued,
           dispatched' = dispatched, received' = received
    PROVE  EventsInOrder'
  BY DEF EventsInOrder

LEMMA MoveQueuedFlows == ASSUME Flow, MoveQueued, dispatched' = dispatched PROVE Flow'
  <1>0. SessionTypes /\ SessionShape /\ EventsInOrder
    BY DEF Flow
  <1>1. /\ phase = "activating" /\ queued # <<>> /\ Len(events) < EventCap
        /\ events' = Append(events, Head(queued)) /\ queued' = Tail(queued)
        /\ UNCHANGED <<phase, session, installed, flushing, reading, ready, received, link, reason, subscription>>
    BY DEF MoveQueued, runVars
  <1>2. /\ Head(queued) \in Items /\ Tail(queued) \in Seq(Items) /\ Len(Tail(queued)) = Len(queued) - 1
        /\ Len(queued) \in Nat /\ Len(events) \in Nat /\ EventCap \in Nat
    BY <1>0, <1>1, HeadTailProperties, ClientBounds DEF SessionTypes
  <1>3. Append(events, Head(queued)) \in Seq(Items) /\ Len(Append(events, Head(queued))) = Len(events) + 1
    BY <1>0, <1>2, AppendProperties DEF SessionTypes
  <1>4. SessionTypes'
    <2>1. Len(events') <= EventCap /\ Len(queued') <= EventCap + 1
      BY <1>0, <1>1, <1>2, <1>3 DEF SessionTypes
    <2> QED
      BY <2>1, <1>0, <1>1, <1>2, <1>3 DEF SessionTypes
  <1>5. SessionShape'
    <2>1. reading => Len(queued') <= EventCap
      BY <1>0, <1>1, <1>2 DEF SessionShape
    <2>2. ~(ready /\ reading)
      BY <1>0, <1>1 DEF SessionShape
    <2> QED
      BY <2>1, <2>2, <1>0, <1>1 DEF SessionShape
  <1>6. events' \o flushing' \o queued' = events \o flushing \o queued
    <2>1. flushing = <<>>
      BY <1>0, <1>1 DEF SessionShape
    <2>2. Append(events, Head(queued)) \o Tail(queued) = events \o queued
      BY <1>0, <1>1, HandedOver DEF SessionTypes
    <2>3. events' \o <<>> = events' /\ events \o <<>> = events
      BY <1>0, <1>1, <1>3, ConcatEmptySeq DEF SessionTypes
    <2> QED
      BY <2>1, <2>2, <2>3, <1>1
  <1>7. EventsInOrder'
    BY <1>0, <1>1, <1>6, SameOrder
  <1> QED
    BY <1>4, <1>5, <1>7 DEF Flow

LEMMA FlushOneFlows == ASSUME Flow, FlushOne, dispatched' = dispatched PROVE Flow'
  <1>0. SessionTypes /\ SessionShape /\ EventsInOrder
    BY DEF Flow
  <1>1. /\ phase = "flush" /\ flushing # <<>> /\ Len(events) < EventCap
        /\ events' = Append(events, Head(flushing)) /\ flushing' = Tail(flushing)
        /\ UNCHANGED <<phase, session, installed, reading, ready, queued, received, link, reason, subscription>>
    BY DEF FlushOne, readVars
  <1>2. /\ Head(flushing) \in Items /\ Tail(flushing) \in Seq(Items) /\ Len(Tail(flushing)) = Len(flushing) - 1
        /\ Len(flushing) \in Nat /\ Len(events) \in Nat /\ EventCap \in Nat
    BY <1>0, <1>1, HeadTailProperties, ClientBounds DEF SessionTypes
  <1>3. Append(events, Head(flushing)) \in Seq(Items) /\ Len(Append(events, Head(flushing))) = Len(events) + 1
    BY <1>0, <1>2, AppendProperties DEF SessionTypes
  <1>4. SessionTypes'
    <2>1. Len(events') <= EventCap /\ Len(flushing') <= EventCap + 1
      BY <1>0, <1>1, <1>2, <1>3 DEF SessionTypes
    <2> QED
      BY <2>1, <1>0, <1>1, <1>2, <1>3 DEF SessionTypes
  <1>5. SessionShape'
    BY <1>0, <1>1 DEF SessionShape
  <1>6. events' \o flushing' \o queued' = events \o flushing \o queued
    <2>1. Append(events, Head(flushing)) \o Tail(flushing) = events \o flushing
      BY <1>0, <1>1, HandedOver DEF SessionTypes
    <2> QED
      BY <2>1, <1>1
  <1>7. EventsInOrder'
    BY <1>0, <1>1, <1>6, SameOrder
  <1> QED
    BY <1>4, <1>5, <1>7 DEF Flow

(* Only the messages of a session that is forgotten are dropped, and they  *)
(* are the last ones.                                                      *)
LEMMA DropFlows ==
    ASSUME Flow, Drop, phase # "flush", phase' \in {"dial", "stopped"}, ~reading,
           UNCHANGED <<session, flushing, reading, ready, link, reason, subscription, events, dispatched>>,
           installed' \in BOOLEAN
    PROVE  Flow'
  <1>0. SessionTypes /\ SessionShape
    BY DEF Flow
  <1>1. queued' = <<>> /\ received' = received - Len(queued) /\ flushing = <<>>
    BY <1>0 DEF Drop, SessionShape
  <1>2. events \o <<>> \o <<>> = events /\ events \o flushing \o queued = events \o queued
    BY <1>0, <1>1, AppendedLast DEF SessionTypes
  <1>3. received - Len(queued) \in Nat /\ Ordered(events, dispatched, received - Len(queued))
    <2>1. Ordered(events \o queued, dispatched, received)
      BY <1>2, InOrderIs DEF Flow
    <2> QED
      BY <2>1, <1>0, OrderedDrop DEF SessionTypes
  <1>4. SessionTypes'
    <2>1. /\ queued' \in Seq(Items) /\ Len(queued') <= EventCap + 1
          /\ received' \in Nat /\ phase' \in Phases
      BY <1>1, <1>3, ClientBounds DEF Phases
    <2> QED
      BY <2>1, <1>0 DEF SessionTypes
  <1>5. SessionShape'
    BY <1>0, <1>1 DEF SessionShape
  <1>6. EventsInOrder'
    <2>1. events' \o flushing' \o queued' = events
      BY <1>1, <1>2
    <2> QED
      BY <2>1, <1>1, <1>3 DEF EventsInOrder, Ordered, InOrder
  <1> QED
    BY <1>4, <1>5, <1>6 DEF Flow

LEMMA BuryFlows == ASSUME Flow, Bury, dispatched' = dispatched PROVE Flow'
  <1>0. SessionTypes /\ SessionShape /\ EventsInOrder
    BY DEF Flow
  <1>1. /\ phase \in {"live", "settle"} /\ ~reading /\ installed' = FALSE
        /\ UNCHANGED <<session, reading, ready, link, reason, subscription, events>>
        /\ \/ phase' = "stopped" /\ Drop /\ UNCHANGED flushing
           \/ phase' = "flush" /\ Flush
    BY DEF Bury, Ended
  <1>2. CASE phase' = "stopped" /\ Drop /\ UNCHANGED flushing
    BY <1>1, <1>2, DropFlows
  <1>3. CASE phase' = "flush" /\ Flush
    <2>1. flushing' = queued /\ queued' = <<>> /\ received' = received /\ flushing = <<>>
      BY <1>0, <1>1, <1>3 DEF Flush, SessionShape
    <2>2. SessionTypes'
      <3>1. <<>> \in Seq(Items) /\ Len(<<>>) <= EventCap + 1
        BY ClientBounds
      <3> QED
        BY <3>1, <2>1, <1>0, <1>1, <1>3 DEF SessionTypes, Phases
    <2>3. SessionShape'
      BY <2>1, <1>0, <1>1, <1>3 DEF SessionShape
    <2>4. events' \o flushing' \o queued' = events \o flushing \o queued
      <3>1. events \o queued \in Seq(Items)
        BY <1>0 DEF SessionTypes
      <3>2. events \o <<>> = events /\ (events \o queued) \o <<>> = events \o queued
        BY <3>1, <1>0, ConcatEmptySeq DEF SessionTypes
      <3> QED
        BY <3>2, <2>1, <1>1
    <2>5. EventsInOrder'
      BY <1>0, <2>1, <2>4, SameOrder
    <2> QED
      BY <2>2, <2>3, <2>5 DEF Flow
  <1> QED
    BY <1>1, <1>2, <1>3

LEMMA RunFlows == ASSUME Flow, Run, dispatched' = dispatched PROVE Flow'
  <1> USE DEF runVars, readVars
  <1>0. SessionTypes /\ SessionShape /\ EventsInOrder
    BY DEF Flow
  <1>1. CASE DialSession
    <2>1. /\ phase = "dial" /\ session < MaxSessions /\ session' = session + 1 /\ phase' = "subscribe"
          /\ link' = "open" /\ reading' = TRUE /\ ready' = FALSE /\ subscription' = "waiting"
          /\ UNCHANGED <<installed, flushing, reason, queued, received, events>>
      BY <1>1 DEF DialSession
    <2>2. session' \in 0..MaxSessions
      BY <2>1, <1>0, ClientBounds DEF SessionTypes
    <2>3. SessionTypes'
      BY <2>1, <2>2, <1>0 DEF SessionTypes, Phases
    <2>4. SessionShape'
      <3>1. queued = <<>> /\ flushing = <<>>
        BY <2>1, <1>0 DEF SessionShape
      <3>2. Len(queued') <= EventCap
        BY <3>1, <2>1, ClientBounds
      <3> QED
        BY <3>1, <3>2, <2>1 DEF SessionShape
    <2>5. EventsInOrder'
      BY <2>1, <1>0, SameOrder
    <2> QED
      BY <2>3, <2>4, <2>5 DEF Flow
  <1>2. CASE Subscribed
    BY <1>2, <1>0, NothingMoves DEF Subscribed, SessionTypes, Phases
  <1>3. CASE SubscribeFails
    <2>1. link' \in {"open", "closing", "closed"} /\ reason' \in Reasons
      BY <1>3, <1>0 DEF SubscribeFails, SessionTypes, Reasons
    <2> QED
      BY <2>1, <1>3, <1>0, NothingMoves DEF SubscribeFails, SessionTypes, Phases
  <1>4. CASE Abandon
    BY <1>4, <1>0, DropFlows DEF Abandon, Ended, SessionTypes
  <1>5. CASE StartActivation
    BY <1>5, <1>0, NothingMoves DEF StartActivation, SessionTypes, Phases
  <1>6. CASE MoveQueued
    BY <1>6, MoveQueuedFlows
  <1>7. CASE ActivationFull
    <2>1. "unavailable" \in Reasons
      BY DEF Reasons
    <2>2. Finish("unavailable")
      BY <1>7 DEF ActivationFull
    <2> QED
      BY <2>1, <2>2, <1>7, <1>0, FinishTypes, NothingMoves DEF ActivationFull, SessionTypes, Phases
  <1>8. CASE Activated
    <2>1. /\ phase = "activating" /\ queued = <<>> /\ phase' = "live" /\ ready' = TRUE
          /\ UNCHANGED <<session, installed, flushing, reading, queued, received, link, reason,
                         subscription, events>>
      BY <1>8 DEF Activated
    <2>2. SessionTypes'
      BY <2>1, <1>0 DEF SessionTypes, Phases
    <2>3. SessionShape'
      BY <2>1, <1>0 DEF SessionShape
    <2>4. EventsInOrder'
      BY <2>1, <1>0, SameOrder
    <2> QED
      BY <2>2, <2>3, <2>4 DEF Flow
  <1>9. CASE Bury
    BY <1>9, BuryFlows
  <1>10. CASE FlushOne
    BY <1>10, FlushOneFlows
  <1>11. CASE Flushed
    <2>1. /\ phase = "flush" /\ flushing = <<>> /\ phase' = "dial"
          /\ UNCHANGED <<session, installed, flushing, reading, ready, queued, received, link, reason,
                         subscription, events>>
      BY <1>11 DEF Flushed
    <2>2. SessionTypes'
      BY <2>1, <1>0 DEF SessionTypes, Phases
    <2>3. SessionShape'
      BY <2>1, <1>0 DEF SessionShape
    <2>4. EventsInOrder'
      BY <2>1, <1>0, SameOrder
    <2> QED
      BY <2>2, <2>3, <2>4 DEF Flow
  <1> QED
    BY <1>1, <1>2, <1>3, <1>4, <1>5, <1>6, <1>7, <1>8, <1>9, <1>10, <1>11 DEF Run

(* The event loop takes the first.                                         *)
LEMMA TakeEventFlows ==
    ASSUME Flow, TakeEvent
    PROVE  Flow' /\ Head(events) \in Items
  <1>0. SessionTypes /\ SessionShape
    BY DEF Flow
  <1>1. /\ events # <<>> /\ events' = Tail(events) /\ dispatched' = Head(events).n
        /\ UNCHANGED <<phase, session, installed, flushing, reading, ready, queued, received, link, reason,
                       subscription>>
    BY DEF TakeEvent, runVars, readVars
  <1>2. /\ Head(events) \in Items /\ Tail(events) \in Seq(Items) /\ Len(Tail(events)) = Len(events) - 1
        /\ Len(events) \in Nat /\ EventCap \in Nat
    BY <1>0, <1>1, HeadTailProperties, ClientBounds DEF SessionTypes
  <1>3. SessionTypes'
    <2>1. Len(events') <= EventCap /\ dispatched' \in Nat
      BY <1>0, <1>1, <1>2 DEF SessionTypes, Items
    <2> QED
      BY <2>1, <1>0, <1>1, <1>2 DEF SessionTypes
  <1>4. SessionShape'
    BY <1>0, <1>1 DEF SessionShape
  <1>5. EventsInOrder'
    <2>1. Ordered(events \o flushing \o queued, dispatched, received)
      BY InOrderIs DEF Flow
    <2>2. Ordered(Tail(events) \o flushing \o queued, Head(events).n, received)
      BY <2>1, <1>0, <1>1, OrderedTail DEF SessionTypes
    <2> QED
      BY <2>2, <1>1 DEF EventsInOrder, Ordered, InOrder
  <1> QED
    BY <1>2, <1>3, <1>4, <1>5 DEF Flow

LEMMA FinishFlows ==
    ASSUME Flow, NEW r \in Reasons, Finish(r), reading' \in {FALSE, reading},
           UNCHANGED <<phase, session, installed, flushing, ready, queued, received, events, dispatched>>
    PROVE  Flow'
  <1>1. SessionTypes
    BY DEF Flow
  <1> QED
    BY <1>1, FinishTypes, NothingMoves DEF SessionTypes

(* A caller's write that fails may end the session.                        *)
LEMMA RequestFlows ==
    ASSUME Flow, NEW c \in Callers, Request(c), dispatched' = dispatched
    PROVE  Flow'
  <1>0. SessionTypes
    BY DEF Flow
  <1>1. /\ UNCHANGED <<phase, session, installed, flushing, reading, ready, queued, received, events, subscription>>
        /\ link' \in {link, "closing"} /\ reason' \in {reason, "unavailable"}
    <2> USE DEF runVars, readVars
    <2>1. CASE Capture(c)
      BY <2>1 DEF Capture
    <2>2. CASE Register(c)
      BY <2>2 DEF Register
    <2>3. CASE Write(c)
      BY <2>3 DEF Write
    <2>4. CASE WriteTimesOut(c)
      BY <2>4 DEF WriteTimesOut
    <2>5. CASE WriteFails(c)
      BY <2>5 DEF WriteFails
    <2>6. CASE Finished(c)
      BY <2>6 DEF Finished
    <2>7. CASE TakeResult(c)
      BY <2>7 DEF TakeResult
    <2>8. CASE StopWaiting(c)
      BY <2>8 DEF StopWaiting
    <2>9. CASE Cancel(c)
      BY <2>9 DEF Cancel
    <2> QED
      BY <2>1, <2>2, <2>3, <2>4, <2>5, <2>6, <2>7, <2>8, <2>9 DEF Request
  <1>2. link' \in {"open", "closing", "closed"} /\ reason' \in Reasons
    BY <1>0, <1>1 DEF SessionTypes, Reasons
  <1> QED
    BY <1>0, <1>1, <1>2, NothingMoves DEF SessionTypes

-----------------------------------------------------------------------------
(* Requests.                                                               *)

(* A call that stays, or whose pending request is failed.                  *)
CallEnds(c) ==
    \/ call'[c] = call[c]
    \/ call[c].pending /\ call'[c] = [call[c] EXCEPT !.pending = FALSE, !.result = "failed"]

CallOK(r, s) ==
    /\ r \in Calls /\ r.session <= s /\ r.owed <= s
    /\ r.pending => r.step \in {"registered", "sent", "cancelling"}
    /\ r.pending \/ r.step \in {"idle", "start", "captured", "finishing"} => r.result = "none"
    /\ r.step = "returned" /\ r.result \in {"ok", "rejected"} => r.outcome = r.result

LEMMA CallByCall == CallInv <=> call \in [Callers -> Calls] /\ \A c \in Callers : CallOK(call[c], session)
  BY DEF CallInv, CallTypes, CallShape, AnswerKept, CallOK

LEMMA CallsEnd ==
    ASSUME CallInv, SessionTypes, session' \in Nat, session' >= session,
           call' \in [Callers -> Calls],
           \A c \in Callers : CallEnds(c) \/ CallOK(call'[c], session')
    PROVE  CallInv'
  <1>1. ASSUME NEW c \in Callers PROVE CallOK(call'[c], session')
    <2>1. CallOK(call[c], session) /\ session \in Nat
      BY CallByCall DEF SessionTypes
    <2>2. CASE call'[c] = call[c]
      BY <2>1, <2>2 DEF CallOK, Calls
    <2>3. CASE call[c].pending /\ call'[c] = [call[c] EXCEPT !.pending = FALSE, !.result = "failed"]
      <3>1. call'[c] \in Calls
        OBVIOUS
      <3>2. /\ call'[c].session = call[c].session /\ call'[c].owed = call[c].owed
            /\ call'[c].pending = FALSE /\ call'[c].result = "failed" /\ call'[c].step = call[c].step
        BY <2>1, <2>3 DEF CallOK, Calls
      <3> QED
        BY <2>1, <2>3, <3>1, <3>2 DEF CallOK, Calls
    <2> QED
      BY <1>1, <2>2, <2>3 DEF CallEnds
  <1> QED
    BY <1>1 DEF CallInv, CallTypes, CallShape, AnswerKept, CallOK

LEMMA EndedIsCall ==
    ASSUME NEW r \in Calls PROVE [r EXCEPT !.pending = FALSE, !.result = "failed"] \in Calls
  BY DEF Calls, Results

LEMMA FinishCalls ==
    ASSUME CallInv, SessionTypes, NEW r, Finish(r), session' = session PROVE CallInv'
  <1>0. call \in [Callers -> Calls]
    BY DEF CallInv, CallTypes
  <1>1. call' \in [Callers -> Calls] /\ \A c \in Callers : CallEnds(c)
    <2>1. CASE link = "open"
      BY <1>0, <2>1, EndedIsCall DEF Finish, CancelAll, CallEnds
    <2>2. CASE link # "open"
      BY <1>0, <2>2 DEF Finish, CallEnds
    <2> QED
      BY <2>1, <2>2
  <1> QED
    BY <1>1, CallsEnd DEF SessionTypes

LEMMA OneCall ==
    ASSUME CallInv, SessionTypes, session' = session, NEW c \in Callers, NEW r,
           call' = [call EXCEPT ![c] = r], CallOK(r, session)
    PROVE  CallInv'
  <1>1. call' \in [Callers -> Calls]
    BY DEF CallInv, CallTypes, CallOK
  <1>2. ASSUME NEW d \in Callers PROVE CallEnds(d) \/ CallOK(call'[d], session')
    BY DEF CallInv, CallTypes, CallEnds
  <1> QED
    BY <1>1, <1>2, CallsEnd DEF SessionTypes

LEMMA RequestCalls ==
    ASSUME CallInv, SessionTypes, NEW c \in Callers, Request(c)
    PROVE  CallInv'
  <1> USE DEF runVars
  <1> DEFINE r == call[c]
  <1>0. CallOK(r, session) /\ session \in Nat /\ session \in 0..MaxSessions /\ call \in [Callers -> Calls]
    BY CallByCall DEF SessionTypes
  <1>1. CASE Capture(c)
    <2>1. session' = session /\ r.step = "start"
      BY <1>1 DEF Capture
    <2>2. CASE installed
      <3>1. call' = [call EXCEPT ![c] = [r EXCEPT !.step = "captured", !.session = session]]
        BY <1>1, <2>2 DEF Capture
      <3>2. CallOK([r EXCEPT !.step = "captured", !.session = session], session)
        <4> DEFINE t == [r EXCEPT !.step = "captured", !.session = session]
        <4>1. t \in Calls
          BY <2>1, <1>0 DEF CallOK, Calls, Steps, Results
        <4>2. /\ t.step = "captured" /\ t.session = session /\ t.owed = r.owed
              /\ t.pending = r.pending /\ t.result = r.result
          BY <1>0 DEF CallOK, Calls
        <4> QED
          BY <2>1, <1>0, <4>1, <4>2 DEF CallOK
      <3> QED
        BY <2>1, <3>1, <3>2, OneCall
    <2>3. CASE ~installed
      <3>1. call' = [call EXCEPT ![c] = [r EXCEPT !.step = "returned", !.pending = FALSE, !.outcome = "failed"]]
        BY <1>1, <2>3 DEF Capture, Return
      <3>2. CallOK([r EXCEPT !.step = "returned", !.pending = FALSE, !.outcome = "failed"], session)
        BY <2>1, <1>0 DEF CallOK, Calls, Steps, Results
      <3> QED
        BY <2>1, <3>1, <3>2, OneCall
    <2> QED
      BY <2>2, <2>3
  <1>2. CASE Register(c)
    <2>1. /\ session' = session /\ r.step = "captured"
          /\ call' = [call EXCEPT ![c] = [r EXCEPT !.step = "registered", !.pending = TRUE]]
      BY <1>2 DEF Register
    <2>2. CallOK([r EXCEPT !.step = "registered", !.pending = TRUE], session)
      BY <2>1, <1>0 DEF CallOK, Calls, Steps
    <2> QED
      BY <2>1, <2>2, OneCall
  <1>3. ASSUME NEW to \in {"sent", "cancelling"}, r.step = "registered", session' = session,
               call' = [call EXCEPT ![c].step = to, ![c].owed = session]
        PROVE  CallInv'
    <2>1. call' = [call EXCEPT ![c] = [r EXCEPT !.step = to, !.owed = session]]
      BY <1>3
    <2>2. CallOK([r EXCEPT !.step = to, !.owed = session], session)
      <3> DEFINE t == [r EXCEPT !.step = to, !.owed = session]
      <3>1. t \in Calls
        BY <1>3, <1>0 DEF CallOK, Calls, Steps, Results
      <3>2. /\ t.step = to /\ t.session = r.session /\ t.owed = session
            /\ t.pending = r.pending /\ t.result = r.result
        BY <1>0 DEF CallOK, Calls
      <3> QED
        BY <1>3, <1>0, <3>1, <3>2 DEF CallOK
    <2> QED
      BY <1>3, <2>1, <2>2, OneCall
  <1>4. CASE Write(c)
    BY <1>3, <1>4 DEF Write
  <1>5. CASE WriteTimesOut(c)
    BY <1>3, <1>5 DEF WriteTimesOut
  <1>6. ASSUME session' = session, call' = [call EXCEPT ![c].step = "cancelling"],
               r.step \in {"registered", "sent"}
        PROVE  CallInv'
    <2>1. call' = [call EXCEPT ![c] = [r EXCEPT !.step = "cancelling"]]
      BY <1>6
    <2>2. CallOK([r EXCEPT !.step = "cancelling"], session)
      BY <1>6, <1>0 DEF CallOK, Calls, Steps
    <2> QED
      BY <1>6, <2>1, <2>2, OneCall
  <1>7. ASSUME NEW outcome \in Results, session' = session, Return(c, outcome),
               r.result \in {"ok", "rejected"} => outcome = r.result
        PROVE  CallInv'
    <2>1. call' = [call EXCEPT ![c] = [r EXCEPT !.step = "returned", !.pending = FALSE, !.outcome = outcome]]
      BY <1>7 DEF Return
    <2>2. CallOK([r EXCEPT !.step = "returned", !.pending = FALSE, !.outcome = outcome], session)
      BY <1>7, <1>0 DEF CallOK, Calls, Steps
    <2> QED
      BY <1>7, <2>1, <2>2, OneCall
  <1>8. CASE WriteFails(c)
    <2>1. r.step = "registered" /\ session' = session
      BY <1>8 DEF WriteFails
    <2>2. CASE ~r.pending
      BY <1>6, <1>8, <2>1, <2>2 DEF WriteFails
    <2>3. CASE r.pending /\ Closed(c)
      <3>1. r.result = "none" /\ "failed" \in Results
        BY <1>0, <2>3 DEF CallOK, Results
      <3> QED
        BY <1>7, <1>8, <2>1, <2>3, <3>1 DEF WriteFails
    <2>4. CASE r.pending /\ ~Closed(c)
      <3> DEFINE ended(d) == [call[d] EXCEPT !.pending = FALSE, !.result = "failed"]
      <3>1. call' = [d \in Callers |->
                 IF d = c THEN [call[d] EXCEPT !.step = "finishing", !.pending = FALSE]
                 ELSE IF call[d].pending /\ call[d].session = session /\ link = "open" THEN ended(d)
                 ELSE call[d]]
        BY <1>8, <2>4 DEF WriteFails
      <3>2. CallOK([r EXCEPT !.step = "finishing", !.pending = FALSE], session)
        BY <2>1, <2>4, <1>0 DEF CallOK, Calls, Steps
      <3>3. ASSUME NEW d \in Callers PROVE call'[d] \in Calls /\ (CallEnds(d) \/ CallOK(call'[d], session'))
        <4>1. CASE d = c
          BY <3>1, <3>2, <4>1, <2>1 DEF CallOK
        <4>2. CASE d # c /\ call[d].pending /\ call[d].session = session /\ link = "open"
          <5>1. call'[d] = ended(d)
            BY <3>1, <4>2
          <5>2. ended(d) \in Calls
            BY <1>0, EndedIsCall
          <5> QED
            BY <5>1, <5>2, <4>2 DEF CallEnds
        <4>3. CASE d # c /\ ~(call[d].pending /\ call[d].session = session /\ link = "open")
          <5>1. call'[d] = call[d]
            BY <3>1, <4>3
          <5> QED
            BY <5>1, <1>0 DEF CallEnds
        <4> QED
          BY <4>1, <4>2, <4>3
      <3>4. call' \in [Callers -> Calls]
        BY <3>1, <3>3
      <3> QED
        BY <3>3, <3>4, <2>1, <1>0, CallsEnd
    <2> QED
      BY <2>2, <2>3, <2>4
  <1>9. CASE Finished(c)
    <2>1. r.result = "none" /\ "failed" \in Results
      BY <1>0, <1>9 DEF CallOK, Results, Finished
    <2> QED
      BY <1>7, <1>9, <2>1 DEF Finished
  <1>10. CASE TakeResult(c)
    <2>1. r.result \in Results
      BY <1>0 DEF CallOK, Calls
    <2> QED
      BY <1>7, <1>10, <2>1 DEF TakeResult
  <1>11. CASE StopWaiting(c)
    BY <1>6, <1>11 DEF StopWaiting
  <1>12. CASE Cancel(c)
    <2>1. Outcome(c) \in Results /\ (r.result \in {"ok", "rejected"} => Outcome(c) = r.result)
      BY <1>0 DEF CallOK, Calls, Outcome, Results
    <2>2. Return(c, Outcome(c)) /\ session' = session
      BY <1>12 DEF Cancel
    <2> QED
      BY <1>7, <2>1, <2>2
  <1> QED
    BY <1>1, <1>2, <1>4, <1>5, <1>8, <1>9, <1>10, <1>11, <1>12 DEF Request

LEMMA AnswerCalls ==
    ASSUME CallInv, SessionTypes, NEW c \in Callers, NEW result \in {"ok", "rejected"}, Answer(c, result)
    PROVE  CallInv'
  <1> DEFINE r == call[c]
             t == [r EXCEPT !.pending = FALSE, !.owed = 0, !.result = result]
  <1>0. CallOK(r, session) /\ session \in Nat /\ session \in 0..MaxSessions
    BY CallByCall DEF SessionTypes
  <1>1. call' = [call EXCEPT ![c] = t] /\ r.pending /\ session' = session
    BY DEF Answer, runVars
  <1>2. CallOK(t, session)
    <2>1. t \in Calls
      <3>1. r \in Calls /\ 0 \in 0..MaxSessions
        BY <1>0, ClientBounds DEF CallOK
      <3>2. result \in Results
        BY DEF Results
      <3> QED
        BY <3>1, <3>2 DEF Calls
    <2>2. /\ t.step = r.step /\ t.session = r.session /\ t.owed = 0
          /\ t.pending = FALSE /\ t.result = result
      BY <1>0 DEF CallOK, Calls
    <2>3. r.step \in {"registered", "sent", "cancelling"}
      BY <1>0, <1>1 DEF CallOK
    <2> HIDE DEF t
    <2> QED
      BY <1>0, <2>1, <2>2, <2>3 DEF CallOK
  <1> QED
    BY <1>1, <1>2, OneCall

-----------------------------------------------------------------------------
(* The user's queue.                                                       *)
WorkerStates == [step : {"none", "take", "reply", "end"}, task : Tasks \cup {NoTask}, attempt : 0..2]
QueueTypes ==
    /\ tasks \in Seq(Tasks) /\ pendingTasks \in Nat /\ overflowPending \in BOOLEAN
    /\ worker \in [Workers -> WorkerStates]
QueueInv == QueueTypes /\ QueueShape

LEMMA QueueCounts == ASSUME QueueInv PROVE QueueOK
  <1> DEFINE W == {w \in Workers : worker[w].step # "none"}
  <1>0. QueueTypes /\ QueueShape
    BY DEF QueueInv
  <1>1. CASE pendingTasks = 0
    <2>1. tasks = <<>> /\ W = {}
      BY <1>0, <1>1 DEF QueueShape
    <2>2. Cardinality(W) = 0
      BY <2>1, FS_EmptySet
    <2>3. Len(tasks) <= QueueCap + 1
      BY <2>1, IntakeBounds
    <2> QED
      BY <2>2, <2>3, <1>1 DEF QueueOK
  <1>2. CASE pendingTasks # 0
    <2>1. PICK w \in Workers : worker[w].step # "none"
      BY <1>0, <1>2 DEF QueueShape
    <2>2. W = {w}
      BY <2>1, <1>0 DEF QueueShape
    <2>3. Cardinality(W) = 1
      BY <2>2, FS_Singleton
    <2>4. Len(tasks) <= pendingTasks
      <3>1. worker[w].step \in {"take", "reply", "end"}
        BY <2>1, <1>0 DEF QueueTypes, WorkerStates
      <3> QED
        BY <3>1, <1>0 DEF QueueShape, QueueTypes
    <2>5. Len(tasks) <= QueueCap + 1
      BY <2>4, <1>0, IntakeBounds DEF QueueShape, QueueTypes
    <2> QED
      BY <2>3, <2>5, <1>2 DEF QueueOK
  <1> QED
    BY <1>1, <1>2

LEMMA EnqueueQueues ==
    ASSUME QueueInv, NEW task \in Tasks, Enqueue(task),
           task.kind = "overflow" => ~overflowPending,
           task.kind # "overflow" => pendingTasks < QueueCap
    PROVE  QueueInv'
  <1>0. QueueTypes /\ QueueShape
    BY DEF QueueInv
  <1>1. /\ tasks' = Append(tasks, task) /\ pendingTasks' = pendingTasks + 1
        /\ overflowPending' = (overflowPending \/ task.kind = "overflow")
        /\ IF pendingTasks = 0 THEN Spawn ELSE UNCHANGED worker
    BY DEF Enqueue
  <1>2. tasks' \in Seq(Tasks) /\ Len(tasks') = Len(tasks) + 1 /\ Len(tasks) \in Nat
    BY <1>0, <1>1, AppendProperties DEF QueueTypes
  <1>3. overflowPending' \in BOOLEAN
    BY <1>1
  <1>4. pendingTasks <= QueueCap
    BY <1>0, IntakeBounds DEF QueueShape, QueueTypes
  <1>5. pendingTasks' \in Nat /\ pendingTasks' <= QueueCap + 1 /\ pendingTasks' # 0
    BY <1>0, <1>1, <1>4, IntakeBounds DEF QueueTypes
  <1>6. ~overflowPending' => pendingTasks' <= QueueCap
    <2>1. CASE task.kind = "overflow"
      BY <1>1, <2>1
    <2>2. CASE task.kind # "overflow"
      BY <1>1, <1>0, <2>2, IntakeBounds DEF QueueTypes
    <2> QED
      BY <2>1, <2>2
  <1>7. CASE pendingTasks = 0
    <2>1. \A w \in Workers : worker[w].step = "none"
      BY <1>0, <1>7 DEF QueueShape
    <2>2. PICK w \in Workers : worker' = [worker EXCEPT ![w].step = "take"]
      BY <2>1, <1>1, <1>7, IntakeBounds DEF Spawn
    <2>3. worker' \in [Workers -> WorkerStates]
      BY <2>2, <1>0 DEF QueueTypes, WorkerStates
    <2>4. \A v \in Workers : worker'[v].step = IF v = w THEN "take" ELSE "none"
      BY <2>1, <2>2, <1>0 DEF QueueTypes, WorkerStates
    <2>5. pendingTasks' = Len(tasks')
      BY <1>0, <1>1, <1>2, <1>7 DEF QueueShape
    <2>6. QueueTypes'
      BY <2>3, <1>2, <1>3, <1>5 DEF QueueTypes
    <2>7. QueueShape'
      BY <2>4, <2>5, <1>5, <1>6 DEF QueueShape
    <2> QED
      BY <2>6, <2>7 DEF QueueInv
  <1>8. CASE pendingTasks # 0
    <2>1. worker' = worker
      BY <1>1, <1>8
    <2>2. QueueTypes'
      BY <2>1, <1>0, <1>2, <1>3, <1>5 DEF QueueTypes
    <2>3. \A w \in Workers : /\ worker'[w].step = "take" => pendingTasks' = Len(tasks')
                             /\ worker'[w].step \in {"reply", "end"} => pendingTasks' = Len(tasks') + 1
      BY <2>1, <1>0, <1>1, <1>2 DEF QueueShape, QueueTypes
    <2>4. QueueShape'
      BY <2>1, <2>3, <1>0, <1>5, <1>6, <1>8 DEF QueueShape
    <2> QED
      BY <2>2, <2>4 DEF QueueInv
  <1> QED
    BY <1>7, <1>8

(* A worker that goes on, with a task less in the channel when it takes    *)
(* one.                                                                    *)
LEMMA WorkerGoesOn ==
    ASSUME QueueInv, NEW w \in Workers, NEW r \in WorkerStates, worker' = [worker EXCEPT ![w] = r],
           worker[w].step # "none", r.step # "none",
           UNCHANGED <<pendingTasks, overflowPending>>, tasks' \in Seq(Tasks),
           r.step = "take" => pendingTasks = Len(tasks'),
           r.step # "take" => pendingTasks = Len(tasks') + 1
    PROVE  QueueInv'
  <1>0. QueueTypes /\ QueueShape
    BY DEF QueueInv
  <1>1. \A v \in Workers : worker'[v] = IF v = w THEN r ELSE worker[v]
    BY <1>0 DEF QueueTypes
  <1>2. \A v \in Workers : v # w => worker[v].step = "none"
    BY <1>0 DEF QueueShape
  <1>3. pendingTasks # 0
    BY <1>0 DEF QueueShape
  <1>4. QueueTypes'
    BY <1>0 DEF QueueTypes
  <1>5. QueueShape'
    BY <1>0, <1>1, <1>2, <1>3 DEF QueueShape
  <1> QED
    BY <1>4, <1>5 DEF QueueInv

LEMMA TakesHead ==
    ASSUME QueueInv, tasks # <<>>, NEW w \in Workers, worker[w].step = "take"
    PROVE  /\ Head(tasks) \in Tasks /\ Tail(tasks) \in Seq(Tasks)
           /\ pendingTasks = Len(Tail(tasks)) + 1
  <1>1. tasks \in Seq(Tasks) /\ pendingTasks = Len(tasks)
    BY DEF QueueInv, QueueTypes, QueueShape
  <1> QED
    BY <1>1, HeadTailProperties

LEMMA WorkerQueues ==
    ASSUME QueueInv, NEW w \in Workers, WorkerStep(w) PROVE QueueInv'
  <1> USE DEF OnlyWorker
  <1>0. QueueTypes /\ QueueShape /\ worker[w] \in WorkerStates
    BY DEF QueueInv, QueueTypes
  <1>1. CASE Take(w)
    <2> DEFINE r == [step |-> "reply", task |-> Head(tasks), attempt |-> 1]
    <2>1. /\ worker[w].step = "take" /\ tasks # <<>> /\ tasks' = Tail(tasks)
          /\ worker' = [worker EXCEPT ![w] = r] /\ UNCHANGED <<pendingTasks, overflowPending>>
      BY <1>1 DEF Take
    <2>2. r \in WorkerStates
      BY <2>1, TakesHead DEF WorkerStates
    <2> QED
      BY <2>1, <2>2, TakesHead, WorkerGoesOn
  <1>2. CASE Skip(w)
    <2> DEFINE r == [worker[w] EXCEPT !.step = "end", !.task = Head(tasks)]
    <2>1. /\ worker[w].step = "take" /\ tasks # <<>> /\ tasks' = Tail(tasks)
          /\ worker' = [worker EXCEPT ![w] = r] /\ UNCHANGED <<pendingTasks, overflowPending>>
      BY <1>2 DEF Skip
    <2>2. r \in WorkerStates /\ r.step = "end"
      BY <2>1, <1>0, TakesHead DEF WorkerStates
    <2> QED
      BY <2>1, <2>2, TakesHead, WorkerGoesOn
  <1>3. ASSUME worker[w].step = "reply", UNCHANGED queueVars,
               NEW r \in WorkerStates, r.step \in {"reply", "end"}, worker' = [worker EXCEPT ![w] = r]
        PROVE  QueueInv'
    <2>1. pendingTasks = Len(tasks) + 1 /\ tasks' = tasks /\ tasks \in Seq(Tasks)
          /\ UNCHANGED <<pendingTasks, overflowPending>>
      BY <1>0, <1>3 DEF QueueShape, QueueTypes, queueVars
    <2> QED
      BY <2>1, <1>3, WorkerGoesOn
  <1>4. CASE SecondAttempt(w)
    <2> DEFINE r == [worker[w] EXCEPT !.attempt = 2]
    <2>1. /\ worker[w].step = "reply" /\ UNCHANGED queueVars /\ worker' = [worker EXCEPT ![w] = r]
      BY <1>4 DEF SecondAttempt
    <2>2. r \in WorkerStates /\ r.step = "reply"
      BY <2>1, <1>0 DEF WorkerStates
    <2> QED
      BY <2>1, <2>2, <1>3
  <1>5. CASE Replied(w)
    <2> DEFINE r == [worker[w] EXCEPT !.step = "end"]
    <2>1. /\ worker[w].step = "reply" /\ UNCHANGED queueVars /\ worker' = [worker EXCEPT ![w] = r]
      BY <1>5 DEF Replied
    <2>2. r \in WorkerStates /\ r.step = "end"
      BY <2>1, <1>0 DEF WorkerStates
    <2> QED
      BY <2>1, <2>2, <1>3
  <1>6. CASE End(w)
    <2>1. /\ worker[w].step = "end" /\ pendingTasks' = pendingTasks - 1 /\ tasks' = tasks
          /\ overflowPending' = (overflowPending /\ worker[w].task.kind # "overflow")
          /\ worker' = [worker EXCEPT ![w] =
                IF pendingTasks = 1 THEN IdleWorker ELSE [IdleWorker EXCEPT !.step = "take"]]
      BY <1>6 DEF End
    <2>2. /\ pendingTasks = Len(tasks) + 1 /\ Len(tasks) \in Nat
          /\ \A v \in Workers : v # w => worker[v].step = "none"
      BY <2>1, <1>0 DEF QueueShape, QueueTypes
    <2>3. IdleWorker \in WorkerStates /\ [IdleWorker EXCEPT !.step = "take"] \in WorkerStates
      BY DEF IdleWorker, WorkerStates
    <2>4. QueueTypes'
      <3>1. pendingTasks' \in Nat
        BY <2>1, <2>2
      <3>2. overflowPending' \in BOOLEAN
        BY <2>1
      <3>3. worker' \in [Workers -> WorkerStates]
        BY <2>1, <2>3, <1>0 DEF QueueTypes
      <3> QED
        BY <3>1, <3>2, <3>3, <2>1, <1>0 DEF QueueTypes
    <2>5. pendingTasks' <= QueueCap
      BY <2>1, <2>2, <1>0, IntakeBounds DEF QueueShape, QueueTypes
    <2>6. CASE pendingTasks = 1
      <3>1. \A v \in Workers : worker'[v].step = "none"
        BY <2>1, <2>2, <2>6, <1>0 DEF QueueTypes, IdleWorker
      <3>2. tasks' = <<>> /\ pendingTasks' = 0
        BY <2>1, <2>2, <2>6, <1>0 DEF QueueTypes
      <3>3. QueueShape'
        BY <3>1, <3>2, <2>5, IntakeBounds DEF QueueShape
      <3> QED
        BY <2>4, <3>3 DEF QueueInv
    <2>7. CASE pendingTasks # 1
      <3>1. \A v \in Workers : worker'[v].step = IF v = w THEN "take" ELSE "none"
        BY <2>1, <2>2, <2>7, <1>0 DEF QueueTypes, IdleWorker
      <3>2. pendingTasks' = Len(tasks') /\ pendingTasks' # 0
        BY <2>1, <2>2, <2>7, <1>0 DEF QueueTypes
      <3>3. pendingTasks' <= QueueCap + 1
        BY <2>5, <2>1, <2>2, IntakeBounds
      <3>4. QueueShape'
        BY <3>1, <3>2, <3>3, <2>5 DEF QueueShape
      <3> QED
        BY <2>4, <3>4 DEF QueueInv
    <2> QED
      BY <2>6, <2>7
  <1> QED
    BY <1>1, <1>2, <1>4, <1>5, <1>6 DEF WorkerStep

-----------------------------------------------------------------------------
(* Verdicts.                                                               *)
IsMessage(t, m) == t.kind = "message" /\ t.id = m
One(condition) == IF condition THEN 1 ELSE 0
VerdictTypes ==
    /\ keys \in Seq(Messages) /\ Len(keys) <= DedupeCap
    /\ handled \in [Messages -> Nat] /\ refused \in [Messages -> Nat] /\ forgotten \in [Messages -> Nat]
VerdictInv == VerdictTypes /\ Verdicts
Waiting(m) == Cardinality(PlacesOf(m, tasks))

LEMMA PlacesCounted ==
    ASSUME NEW q \in Seq(Tasks), NEW m
    PROVE  IsFiniteSet(PlacesOf(m, q)) /\ Cardinality(PlacesOf(m, q)) \in Nat
  <1>1. IsFiniteSet(1..Len(q))
    BY FS_Interval
  <1>2. PlacesOf(m, q) \in SUBSET (1..Len(q))
    BY DEF PlacesOf
  <1> QED
    BY <1>1, <1>2, FS_Subset, FS_CardinalityType

LEMMA PlacesAppend ==
    ASSUME NEW q \in Seq(Tasks), NEW t \in Tasks, NEW m
    PROVE  Cardinality(PlacesOf(m, Append(q, t))) = Cardinality(PlacesOf(m, q)) + One(IsMessage(t, m))
  <1> DEFINE p == Append(q, t)
  <1>1. /\ Len(p) = Len(q) + 1 /\ Len(q) \in Nat /\ p[Len(q) + 1] = t
        /\ \A i \in 1..Len(q) : p[i] = q[i]
    BY AppendProperties
  <1>2. IsFiniteSet(PlacesOf(m, q)) /\ Cardinality(PlacesOf(m, q)) \in Nat
    BY PlacesCounted
  <1> HIDE DEF p
  <1>3. CASE IsMessage(t, m)
    <2>1. PlacesOf(m, p) = PlacesOf(m, q) \cup {Len(q) + 1}
      BY <1>1, <1>3 DEF PlacesOf, IsMessage
    <2>2. Len(q) + 1 \notin PlacesOf(m, q)
      BY <1>1 DEF PlacesOf
    <2>3. Cardinality(PlacesOf(m, p)) = Cardinality(PlacesOf(m, q)) + 1
      BY <2>1, <2>2, <1>2, FS_AddElement
    <2> QED
      BY <2>3, <1>3 DEF One, p
  <1>4. CASE ~IsMessage(t, m)
    <2>1. PlacesOf(m, p) = PlacesOf(m, q)
      BY <1>1, <1>4 DEF PlacesOf, IsMessage
    <2> QED
      BY <2>1, <1>2, <1>4 DEF One, p
  <1> QED
    BY <1>3, <1>4

LEMMA PlacesTail ==
    ASSUME NEW q \in Seq(Tasks), q # <<>>, NEW m
    PROVE  Cardinality(PlacesOf(m, Tail(q))) + One(IsMessage(Head(q), m)) <= Cardinality(PlacesOf(m, q))
  <1> DEFINE t == Tail(q)
             S == PlacesOf(m, t)
             T == PlacesOf(m, q)
             f == [i \in S |-> i + 1]
  <1>1. /\ Head(q) = q[1] /\ Tail(q) \in Seq(Tasks) /\ Len(Tail(q)) = Len(q) - 1 /\ Len(q) \in Nat \ {0}
        /\ \A i \in 1..Len(Tail(q)) : Tail(q)[i] = q[i + 1]
    BY HeadTailProperties
  <1>2. /\ IsFiniteSet(S) /\ Cardinality(S) \in Nat /\ IsFiniteSet(T) /\ Cardinality(T) \in Nat
    BY <1>1, PlacesCounted
  <1>3. IsFiniteSet(T \ {1}) /\ Cardinality(T \ {1}) = IF 1 \in T THEN Cardinality(T) - 1 ELSE Cardinality(T)
    BY <1>2, FS_RemoveElement
  <1>4. \A i \in S : i \in Nat \ {0} /\ i + 1 \in T \ {1}
    BY <1>1 DEF PlacesOf
  <1>5. f \in Injection(S, T \ {1})
    BY <1>4 DEF Injection, IsInjective
  <1>6. Cardinality(S) <= Cardinality(T \ {1})
    BY <1>3, <1>5, FS_Injection
  <1>7. 1 \in T <=> IsMessage(Head(q), m)
    BY <1>1 DEF PlacesOf, IsMessage
  <1> HIDE DEF S, T, t
  <1>8. CASE 1 \in T
    <2>1. Cardinality(S) + 1 <= Cardinality(T)
      BY <1>2, <1>3, <1>6, <1>8
    <2> QED
      BY <2>1, <1>7, <1>8 DEF One, S, T, t
  <1>9. CASE 1 \notin T
    <2>1. Cardinality(S) + 0 <= Cardinality(T)
      BY <1>2, <1>3, <1>6, <1>9
    <2> QED
      BY <2>1, <1>7, <1>9 DEF One, S, T, t
  <1> QED
    BY <1>8, <1>9

(* What the Deduper forgets when it looks for id, and that it keeps id.    *)
LEMMA ReserveKeeps ==
    ASSUME VerdictTypes, NEW id \in Messages, NEW expired \in 0..Len(keys), NEW k, k = Leaving(id, expired),
           Forget(k), Remember(id, k)
    PROVE  /\ keys' \in Seq(Messages) /\ Len(keys') <= DedupeCap
           /\ forgotten' \in [Messages -> Nat]
           /\ \A m \in Messages : forgotten'[m] + Known(m)'
                                     >= forgotten[m] + Known(m) + One(m = id /\ IsNew(id, k))
  <1> DEFINE live == SubSeq(keys, expired + 1, Len(keys))
             rest == SubSeq(keys, k + 1, Len(keys))
             added == IF IsNew(id, k) THEN <<id>> ELSE <<>>
             Gone(m) == {i \in 1..k : keys[i] = m}
  <1>1. keys \in Seq(Messages) /\ Len(keys) \in Nat /\ DedupeCap \in Nat \ {0} /\ expired \in Nat
    BY IntakeBounds DEF VerdictTypes
  <1>2. /\ live \in Seq(Messages) /\ Len(live) = Len(keys) - expired
        /\ \A i \in 1..Len(live) : live[i] = keys[expired + i]
    BY <1>1, SubSeqProperties
  <1>3. /\ k \in 0..Len(keys) /\ (k = expired \/ k = expired + 1)
        /\ Len(live) = DedupeCap /\ (\A i \in 1..Len(live) : live[i] # id) => k = expired + 1
    <2> HIDE DEF live
    <2>1. k = IF Len(live) = DedupeCap /\ \A i \in 1..Len(live) : live[i] # id THEN expired + 1 ELSE expired
      BY DEF Leaving, live
    <2>2. CASE Len(live) = DedupeCap /\ \A i \in 1..Len(live) : live[i] # id
      BY <2>1, <2>2, <1>1, <1>2
    <2>3. CASE ~(Len(live) = DedupeCap /\ \A i \in 1..Len(live) : live[i] # id)
      BY <2>1, <2>3, <1>1
    <2> QED
      BY <2>2, <2>3
  <1>4. /\ rest \in Seq(Messages) /\ Len(rest) = Len(keys) - k
        /\ \A i \in 1..Len(rest) : rest[i] = keys[k + i]
    <2>1. k \in Nat /\ k <= Len(keys) /\ \A i \in (k + 1)..Len(keys) : keys[i] \in Messages
      BY <1>1, <1>3, ElementOfSeq
    <2>2. /\ rest \in Seq(Messages) /\ Len(rest) = IF k + 1 <= Len(keys) THEN Len(keys) - (k + 1) + 1 ELSE 0
          /\ \A i \in 1..(Len(keys) - (k + 1) + 1) : rest[i] = keys[(k + 1) + i - 1]
      BY <2>1, <1>1, SubSeqProperties
    <2> HIDE DEF rest
    <2>3. Len(rest) = Len(keys) - k
      BY <2>1, <2>2, <1>1
    <2>4. ASSUME NEW i \in 1..Len(rest) PROVE rest[i] = keys[k + i]
      <3>1. i \in 1..(Len(keys) - (k + 1) + 1) /\ (k + 1) + i - 1 = k + i
        BY <2>1, <2>3, <2>4, <1>1
      <3> QED
        BY <3>1, <2>2
    <2> QED
      BY <2>2, <2>3, <2>4
  <1>5. added \in Seq(Messages) /\ Len(added) = One(IsNew(id, k))
    BY DEF One
  <1>6. keys' = rest \o added
    BY DEF Remember
  <1>7. Len(keys) <= DedupeCap
    BY DEF VerdictTypes
  <1> HIDE DEF live, rest, added
  <1>8. keys' \in Seq(Messages) /\ Len(keys') = Len(rest) + Len(added)
    BY <1>4, <1>5, <1>6, ConcatProperties
  <1>9. Len(keys') <= DedupeCap
    <2>1. CASE IsNew(id, k)
      <3>1. Len(rest) < DedupeCap
        <4>1. CASE k = expired + 1
          BY <4>1, <1>1, <1>4, <1>7
        <4>2. CASE k = expired
          <5>1. \A i \in 1..Len(live) : live[i] # id
            BY <4>2, <2>1, <1>1, <1>2 DEF IsNew
          <5>2. Len(live) # DedupeCap
            BY <5>1, <1>1, <1>3, <4>2
          <5> QED
            BY <5>2, <4>2, <1>1, <1>2, <1>4, <1>7
        <4> QED
          BY <4>1, <4>2, <1>3
      <3>2. Len(added) = 1
        BY <2>1, <1>5 DEF One
      <3> QED
        BY <3>1, <3>2, <1>1, <1>4, <1>8
    <2>2. CASE ~IsNew(id, k)
      <3>1. Len(added) = 0
        BY <2>2, <1>5 DEF One
      <3> QED
        BY <3>1, <1>1, <1>3, <1>4, <1>7, <1>8
    <2> QED
      BY <2>1, <2>2
  <1>10. \A m : IsFiniteSet(Gone(m)) /\ Cardinality(Gone(m)) \in Nat
    <2>1. IsFiniteSet(1..k)
      BY <1>3, FS_Interval
    <2> QED
      BY <2>1, FS_Subset, FS_CardinalityType
  <1>11. \A m : (\E i \in 1..k : keys[i] = m) => Cardinality(Gone(m)) >= 1
    <2> SUFFICES ASSUME NEW m, NEW i \in 1..k, keys[i] = m PROVE Cardinality(Gone(m)) >= 1
      OBVIOUS
    <2>1. Gone(m) # {}
      OBVIOUS
    <2> HIDE DEF Gone
    <2>2. Cardinality(Gone(m)) # 0
      BY <2>1, <1>10, FS_EmptySet
    <2> QED
      BY <2>2, <1>10
  <1>12. forgotten' = [m \in Messages |-> forgotten[m] + Cardinality(Gone(m))]
    BY DEF Forget
  <1>13. forgotten \in [Messages -> Nat]
    BY DEF VerdictTypes
  <1>14. \A m \in Messages : (\E i \in (k + 1)..Len(keys) : keys[i] = m) => \E i \in 1..Len(keys') : keys'[i] = m
    <2> SUFFICES ASSUME NEW m \in Messages, NEW i \in (k + 1)..Len(keys), keys[i] = m
                 PROVE  i - k \in 1..Len(keys') /\ keys'[i - k] = m
      OBVIOUS
    <2>1. i - k \in 1..Len(rest) /\ k + (i - k) = i
      BY <1>1, <1>3, <1>4
    <2>2. rest[i - k] = m
      BY <2>1, <1>4
    <2>3. Len(added) \in Nat /\ Len(rest) \in Nat
      BY <1>4, <1>5
    <2>4. keys'[i - k] = rest[i - k]
      BY <2>1, <2>3, <1>4, <1>5, <1>6, ConcatProperties
    <2> QED
      BY <2>1, <2>2, <2>3, <2>4, <1>8
  <1>15. IsNew(id, k) => \E i \in 1..Len(keys') : keys'[i] = id
    <2> SUFFICES ASSUME IsNew(id, k) PROVE \E i \in 1..Len(keys') : keys'[i] = id
      OBVIOUS
    <2>1. added = <<id>> /\ Len(added) = 1 /\ Len(rest) \in Nat
      BY <1>4 DEF added
    <2>2. Len(rest) + 1 \in 1..Len(keys') /\ keys'[Len(rest) + 1] = added[1]
      BY <2>1, <1>4, <1>5, <1>6, <1>8, ConcatProperties
    <2> QED
      BY <2>1, <2>2
  <1> HIDE DEF Gone
  <1>16. ASSUME NEW m \in Messages
         PROVE  forgotten'[m] + Known(m)' >= forgotten[m] + Known(m) + One(m = id /\ IsNew(id, k))
    <2>1. /\ forgotten'[m] = forgotten[m] + Cardinality(Gone(m))
          /\ forgotten[m] \in Nat /\ Cardinality(Gone(m)) \in Nat
      BY <1>10, <1>12, <1>13
    <2>2. Known(m)' = One(\E i \in 1..Len(keys') : keys'[i] = m)
          /\ Known(m) = One(\E i \in 1..Len(keys) : keys[i] = m)
      BY DEF Known, One
    <2>3. CASE \E i \in (k + 1)..Len(keys) : keys[i] = m
      <3>1. Known(m)' = 1 /\ Known(m) = 1
        <4>1. \E i \in 1..Len(keys) : keys[i] = m
          BY <2>3, <1>1, <1>3
        <4> QED
          BY <4>1, <2>2, <2>3, <1>14 DEF One
      <3>2. ~(m = id /\ IsNew(id, k))
        BY <2>3 DEF IsNew
      <3> QED
        BY <3>1, <3>2, <2>1 DEF One
    <2>4. CASE ~(\E i \in (k + 1)..Len(keys) : keys[i] = m)
      <3>1. One(m = id /\ IsNew(id, k)) <= Known(m)' /\ Known(m)' \in {0, 1} /\ One(m = id /\ IsNew(id, k)) \in {0, 1}
        BY <2>2, <1>15 DEF One
      <3>2. CASE \E i \in 1..k : keys[i] = m
        <4>1. Cardinality(Gone(m)) >= 1 /\ Known(m) \in {0, 1}
          BY <3>2, <1>11, <2>2 DEF One
        <4> QED
          BY <4>1, <3>1, <2>1
      <3>3. CASE ~(\E i \in 1..k : keys[i] = m)
        <4>1. ~(\E i \in 1..Len(keys) : keys[i] = m)
          <5> SUFFICES ASSUME NEW i \in 1..Len(keys), keys[i] = m PROVE FALSE
            OBVIOUS
          <5>1. i \in 1..k \/ i \in (k + 1)..Len(keys)
            BY <1>1, <1>3
          <5> QED
            BY <5>1, <2>4, <3>3
        <4>2. Known(m) = 0
          BY <4>1, <2>2 DEF One
        <4> QED
          BY <4>2, <3>1, <2>1
      <3> QED
        BY <3>2, <3>3
    <2> QED
      BY <2>3, <2>4
  <1>17. forgotten' \in [Messages -> Nat]
    BY <1>10, <1>12, <1>13
  <1> QED
    BY <1>8, <1>9, <1>16, <1>17

LEMMA VerdictsAt ==
    ASSUME VerdictInv, QueueTypes, NEW m \in Messages
    PROVE  /\ handled[m] \in Nat /\ refused[m] \in Nat /\ forgotten[m] \in Nat
           /\ Waiting(m) \in Nat /\ Known(m) \in {0, 1}
           /\ handled[m] + refused[m] + Waiting(m) <= forgotten[m] + Known(m)
  <1>1. Waiting(m) \in Nat
    BY PlacesCounted DEF QueueTypes, Waiting
  <1>2. Known(m) \in {0, 1}
    BY DEF Known
  <1> QED
    BY <1>1, <1>2 DEF VerdictInv, VerdictTypes, Verdicts, Waiting

LEMMA SameVerdicts ==
    ASSUME VerdictInv, UNCHANGED <<messageVars, tasks>> PROVE VerdictInv'
  BY DEF VerdictInv, VerdictTypes, Verdicts, messageVars, PlacesOf, Known

(* A task that is not a message is queued.                                 *)
LEMMA EnqueueVerdicts ==
    ASSUME VerdictInv, QueueTypes, NEW task \in Tasks, task.kind # "message", Enqueue(task),
           UNCHANGED messageVars
    PROVE  VerdictInv'
  <1>1. tasks' = Append(tasks, task) /\ tasks \in Seq(Tasks)
    BY DEF Enqueue, QueueTypes
  <1>2. ASSUME NEW m \in Messages PROVE Waiting(m)' = Waiting(m)
    <2>1. Cardinality(PlacesOf(m, Append(tasks, task))) = Cardinality(PlacesOf(m, tasks)) + One(IsMessage(task, m))
      BY <1>1, PlacesAppend
    <2>2. One(IsMessage(task, m)) = 0 /\ Waiting(m) \in Nat
      BY VerdictsAt DEF One, IsMessage
    <2> QED
      BY <2>1, <2>2, <1>1 DEF Waiting
  <1>3. VerdictTypes'
    BY DEF VerdictInv, VerdictTypes, messageVars
  <1>4. Verdicts'
    BY <1>2 DEF VerdictInv, Verdicts, Waiting, messageVars, Known
  <1> QED
    BY <1>3, <1>4 DEF VerdictInv

LEMMA VerdictSum ==
    ASSUME NEW h \in Nat, NEW r \in Nat, NEW w \in Nat, NEW f \in Nat, NEW n \in Nat, NEW o \in Nat,
           NEW r1 \in Nat, NEW w1 \in Nat, NEW f1 \in Nat, NEW n1 \in Nat,
           h + r + w <= f + n, f1 + n1 >= f + n + o, r1 + w1 <= r + w + o
    PROVE  h + r1 + w1 <= f1 + n1
  OBVIOUS

LEMMA Taken ==
    ASSUME NEW h \in Nat, NEW r \in Nat, NEW w \in Nat, NEW n \in Nat, NEW f \in Nat, NEW o \in Nat,
           NEW left \in Nat, h + r + w <= f + n, left + o <= w
    PROVE  h + o + r + left <= f + n
  OBVIOUS

(* A message is looked up: a duplicate, a refused one, or a queued one.    *)
LEMMA LookedUp ==
    ASSUME VerdictInv, QueueTypes, NEW id \in Messages, NEW expired \in 0..Len(keys), Reserve(id, expired),
           handled' = handled, refused' \in [Messages -> Nat], tasks' \in Seq(Tasks),
           \A m \in Messages : refused'[m] + Waiting(m)'
               <= refused[m] + Waiting(m) + One(m = id /\ IsNew(id, Leaving(id, expired)))
    PROVE  VerdictInv'
  <1>1. PICK k : k = Leaving(id, expired)
    OBVIOUS
  <1>2. Forget(k) /\ Remember(id, k) /\ VerdictTypes
    BY <1>1 DEF Reserve, VerdictInv
  <1>3. /\ keys' \in Seq(Messages) /\ Len(keys') <= DedupeCap
        /\ forgotten' \in [Messages -> Nat]
        /\ \A m \in Messages : forgotten'[m] + Known(m)'
                                  >= forgotten[m] + Known(m) + One(m = id /\ IsNew(id, k))
    BY <1>1, <1>2, ReserveKeeps
  <1>4. VerdictTypes'
    BY <1>2, <1>3 DEF VerdictTypes
  <1>5. ASSUME NEW m \in Messages
        PROVE  handled'[m] + refused'[m] + Cardinality(PlacesOf(m, tasks')) <= forgotten'[m] + Known(m)'
    <2>1. /\ handled[m] \in Nat /\ refused[m] \in Nat /\ forgotten[m] \in Nat
          /\ Waiting(m) \in Nat /\ Known(m) \in {0, 1}
          /\ handled[m] + refused[m] + Waiting(m) <= forgotten[m] + Known(m)
      BY VerdictsAt
    <2>2. /\ refused'[m] \in Nat /\ forgotten'[m] \in Nat /\ Known(m)' \in {0, 1} /\ Waiting(m)' \in Nat
      BY <1>3, PlacesCounted DEF Known, Waiting
    <2>3. PICK o \in {0, 1} : o = One(m = id /\ IsNew(id, k))
      BY DEF One
    <2>4. /\ forgotten'[m] + Known(m)' >= forgotten[m] + Known(m) + o
          /\ refused'[m] + Waiting(m)' <= refused[m] + Waiting(m) + o
      BY <1>1, <1>3, <2>3
    <2>5. handled'[m] + refused'[m] + Waiting(m)' <= forgotten'[m] + Known(m)'
      <3>1. handled'[m] = handled[m]
        OBVIOUS
      <3>2. PICK h \in Nat, r \in Nat, w \in Nat, f \in Nat, n \in Nat :
               h = handled[m] /\ r = refused[m] /\ w = Waiting(m) /\ f = forgotten[m] /\ n = Known(m)
        BY <2>1
      <3>3. PICK r1 \in Nat, w1 \in Nat, f1 \in Nat, n1 \in Nat :
               r1 = refused'[m] /\ w1 = Waiting(m)' /\ f1 = forgotten'[m] /\ n1 = Known(m)'
        BY <2>2
      <3>4. h + r + w <= f + n /\ f1 + n1 >= f + n + o /\ r1 + w1 <= r + w + o
        BY <2>1, <2>4, <3>2, <3>3
      <3>5. h + r1 + w1 <= f1 + n1
        BY <3>4, o \in Nat, VerdictSum
      <3> QED
        BY <3>1, <3>2, <3>3, <3>5
    <2> QED
      BY <2>5 DEF Waiting
  <1> QED
    BY <1>4, <1>5 DEF VerdictInv, Verdicts

LEMMA DuplicateVerdicts ==
    ASSUME VerdictInv, QueueTypes, NEW expired \in 0..Len(keys), Duplicate(expired), Head(events) \in Items
    PROVE  VerdictInv'
  <1>1. PICK id \in Messages : id = Head(events).id
    BY DEF Items
  <1>2. Reserve(id, expired) /\ UNCHANGED <<tasks, handled, refused>>
    BY <1>1 DEF Duplicate, queueVars
  <1>3. ASSUME NEW m \in Messages
        PROVE  refused'[m] + Waiting(m)' <= refused[m] + Waiting(m) + One(m = id /\ IsNew(id, Leaving(id, expired)))
    <2>1. Waiting(m)' = Waiting(m) /\ refused'[m] = refused[m] /\ Waiting(m) \in Nat /\ refused[m] \in Nat
      BY <1>2, VerdictsAt DEF Waiting
    <2>2. One(m = id /\ IsNew(id, Leaving(id, expired))) \in {0, 1}
      BY DEF One
    <2> QED
      BY <2>1, <2>2
  <1>4. refused' \in [Messages -> Nat] /\ tasks' \in Seq(Tasks)
    BY <1>2 DEF VerdictInv, VerdictTypes, QueueTypes
  <1> QED
    BY <1>2, <1>3, <1>4, LookedUp

LEMMA QueueVerdicts ==
    ASSUME VerdictInv, QueueTypes, NEW expired \in 0..Len(keys), Queue(expired), Head(events) \in Items
    PROVE  VerdictInv'
  <1>1. PICK id \in Messages : id = Head(events).id
    BY DEF Items
  <1>2. /\ Reserve(id, expired) /\ handled' = handled /\ IsNew(id, Leaving(id, expired))
        /\ IF Full(FALSE) THEN refused' = [refused EXCEPT ![id] = @ + 1] /\ tasks' = tasks
           ELSE Enqueue([kind |-> "message", id |-> id]) /\ refused' = refused
    BY <1>1 DEF Queue, queueVars
  <1>3. refused \in [Messages -> Nat] /\ tasks \in Seq(Tasks)
    BY DEF VerdictInv, VerdictTypes, QueueTypes
  <1>4. \A m \in Messages : One(m = id /\ IsNew(id, Leaving(id, expired))) = One(m = id)
    BY <1>2 DEF One
  <1>5. CASE Full(FALSE)
    <2>1. refused' \in [Messages -> Nat] /\ tasks' \in Seq(Tasks)
      BY <1>2, <1>3, <1>5
    <2>2. ASSUME NEW m \in Messages
          PROVE  refused'[m] + Waiting(m)' <= refused[m] + Waiting(m) + One(m = id)
      <3>1. Waiting(m)' = Waiting(m) /\ Waiting(m) \in Nat /\ refused[m] \in Nat
        BY <1>2, <1>5, VerdictsAt DEF Waiting
      <3>2. refused'[m] = refused[m] + One(m = id)
        BY <1>2, <1>3, <1>5, <3>1 DEF One
      <3>3. One(m = id) \in Nat
        BY DEF One
      <3> QED
        BY <3>1, <3>2, <3>3
    <2> QED
      BY <1>2, <1>4, <2>1, <2>2, LookedUp
  <1>6. CASE ~Full(FALSE)
    <2> DEFINE task == [kind |-> "message", id |-> id]
    <2>1. task \in Tasks
      BY IntakeBounds DEF Tasks, Messages
    <2>2. tasks' = Append(tasks, task) /\ refused' = refused
      BY <1>2, <1>6 DEF Enqueue
    <2>3. refused' \in [Messages -> Nat] /\ tasks' \in Seq(Tasks)
      BY <1>3, <2>1, <2>2, AppendProperties
    <2>4. ASSUME NEW m \in Messages
          PROVE  refused'[m] + Waiting(m)' <= refused[m] + Waiting(m) + One(m = id)
      <3>1. Waiting(m) \in Nat /\ refused[m] \in Nat
        BY VerdictsAt
      <3>2. Cardinality(PlacesOf(m, Append(tasks, task))) = Cardinality(PlacesOf(m, tasks)) + One(IsMessage(task, m))
        BY <1>3, <2>1, PlacesAppend
      <3>3. One(IsMessage(task, m)) = One(m = id)
        BY DEF One, IsMessage
      <3>4. Waiting(m)' = Waiting(m) + One(m = id)
        BY <2>2, <3>2, <3>3 DEF Waiting
      <3>5. One(m = id) \in Nat
        BY DEF One
      <3> QED
        BY <2>2, <3>1, <3>4, <3>5
    <2> QED
      BY <1>2, <1>4, <2>3, <2>4, LookedUp
  <1> QED
    BY <1>5, <1>6

(* A task is taken out of the channel: a message that is not run when it   *)
(* is taken is none.                                                       *)
RunsTaken ==
    IF Head(tasks).kind = "message"
    THEN handled' = [handled EXCEPT ![Head(tasks).id] = @ + 1] ELSE handled' = handled

LEMMA TakenVerdicts ==
    ASSUME VerdictInv, QueueTypes, tasks # <<>>, tasks' = Tail(tasks), RunsTaken,
           refused' = refused, forgotten' = forgotten, keys' = keys
    PROVE  VerdictInv'
  <1>0. VerdictTypes /\ tasks \in Seq(Tasks)
    BY DEF VerdictInv, QueueTypes
  <1>1. Tail(tasks) \in Seq(Tasks)
    BY <1>0, HeadTailProperties
  <1>2. handled' \in [Messages -> Nat]
    BY <1>0 DEF VerdictTypes, RunsTaken
  <1>3. VerdictTypes'
    BY <1>0, <1>2 DEF VerdictTypes
  <1>4. ASSUME NEW m \in Messages
        PROVE  handled'[m] + refused'[m] + Cardinality(PlacesOf(m, tasks')) <= forgotten'[m] + Known(m)'
    <2>1. /\ handled[m] \in Nat /\ refused[m] \in Nat /\ forgotten[m] \in Nat
          /\ Waiting(m) \in Nat /\ Known(m) \in {0, 1}
          /\ handled[m] + refused[m] + Waiting(m) <= forgotten[m] + Known(m)
      BY VerdictsAt
    <2>2. PICK q \in Seq(Tasks) : q = tasks /\ q # <<>>
      BY <1>0
    <2>3. PICK left \in Nat, o \in {0, 1} :
            left = Cardinality(PlacesOf(m, Tail(q))) /\ o = One(IsMessage(Head(q), m))
      BY <1>1, <2>2, PlacesCounted DEF One
    <2>4. left + o <= Cardinality(PlacesOf(m, q))
      BY <2>2, <2>3, PlacesTail
    <2>5. left + o <= Waiting(m)
      BY <2>2, <2>4 DEF Waiting
    <2>6. handled'[m] = handled[m] + o
      <3>1. CASE IsMessage(Head(tasks), m)
        <4>1. o = 1 /\ Head(tasks).kind = "message" /\ Head(tasks).id = m
          BY <3>1, <2>2, <2>3 DEF One, IsMessage
        <4> QED
          BY <4>1, <1>0 DEF VerdictTypes, RunsTaken
      <3>2. CASE ~IsMessage(Head(tasks), m)
        <4>1. o = 0 /\ ~(Head(tasks).kind = "message" /\ Head(tasks).id = m)
          BY <3>2, <2>2, <2>3 DEF One, IsMessage
        <4>2. handled'[m] = handled[m]
          BY <4>1, <1>0 DEF VerdictTypes, RunsTaken
        <4> QED
          BY <4>1, <4>2, <2>1
      <3> QED
        BY <3>1, <3>2
    <2>7. PICK h \in Nat, r \in Nat, w \in Nat, f \in Nat, n \in {0, 1} :
            /\ h = handled[m] /\ r = refused[m] /\ w = Waiting(m) /\ f = forgotten[m] /\ n = Known(m)
            /\ h + r + w <= f + n
      BY <2>1
    <2>8. handled'[m] + refused[m] + left <= forgotten[m] + Known(m)
      <3>1. left + o <= w
        BY <2>5, <2>7
      <3>2. h + r + w <= f + n /\ o \in Nat /\ n \in Nat
        BY <2>7
      <3>3. h + o + r + left <= f + n
        BY <3>1, <3>2, Taken
      <3> QED
        BY <3>3, <2>6, <2>7
    <2>9. refused' = refused /\ forgotten' = forgotten /\ Known(m)' = Known(m)
      BY DEF Known
    <2>10. Cardinality(PlacesOf(m, tasks')) = left
      BY <2>2, <2>3
    <2> QED
      BY <2>8, <2>9, <2>10
  <1> QED
    BY <1>3, <1>4 DEF VerdictInv, Verdicts

LEMMA WorkerVerdicts ==
    ASSUME VerdictInv, QueueTypes, NEW w \in Workers, WorkerStep(w)
    PROVE  VerdictInv'
  <1> USE DEF OnlyWorker
  <1>1. CASE Take(w)
    BY <1>1, TakenVerdicts DEF Take, RunsTaken
  <1>2. CASE Skip(w)
    <2>1. /\ tasks # <<>> /\ Head(tasks).kind = "push" /\ tasks' = Tail(tasks)
          /\ UNCHANGED <<keys, refused, forgotten, handled>>
      BY <1>2 DEF Skip
    <2> QED
      BY <2>1, TakenVerdicts DEF RunsTaken
  <1>3. CASE SecondAttempt(w)
    BY <1>3, SameVerdicts DEF SecondAttempt, queueVars, messageVars
  <1>4. CASE Replied(w)
    BY <1>4, SameVerdicts DEF Replied, queueVars, messageVars
  <1>5. CASE End(w)
    BY <1>5, SameVerdicts DEF End, messageVars
  <1> QED
    BY <1>1, <1>2, <1>3, <1>4, <1>5 DEF WorkerStep

-----------------------------------------------------------------------------
(* The whole.                                                              *)
ArrivalTypes ==
    /\ load \in Loads /\ sent \in 0..load.messages /\ repeats \in Nat /\ pushes \in Nat
    /\ refusing \in 0..MaxMessages
Parts == Flow /\ CallInv /\ QueueInv /\ VerdictInv /\ ArrivalTypes

LEMMA PartsAreAll == IInv <=> Parts
  <1>1. ASSUME IInv PROVE Parts
    <2>1. TypeOK /\ SessionShape /\ CallShape /\ AnswerKept /\ QueueShape /\ EventsInOrder /\ Verdicts
      BY <1>1 DEF IInv
    <2>2. SessionTypes /\ CallTypes
      BY <2>1, ClientParts DEF TypeOK, Items
    <2>3. QueueTypes /\ VerdictTypes /\ ArrivalTypes
      BY <2>1 DEF TypeOK, QueueTypes, VerdictTypes, ArrivalTypes, WorkerStates
    <2> QED
      BY <2>1, <2>2, <2>3 DEF Parts, Flow, CallInv, QueueInv, VerdictInv
  <1>2. ASSUME Parts PROVE IInv
    <2>1. Flow /\ CallInv /\ QueueInv /\ VerdictInv /\ ArrivalTypes
      BY <1>2 DEF Parts
    <2>2. ClientTypeOK /\ dispatched \in Nat /\ {events, queued, flushing} \subseteq Seq(Items)
      BY <2>1, ClientParts DEF Flow, CallInv
    <2>3. QueueOK
      BY <2>1, QueueCounts
    <2>4. TypeOK
      BY <2>1, <2>2, <2>3 DEF TypeOK, QueueInv, QueueTypes, VerdictInv, VerdictTypes, ArrivalTypes, WorkerStates, Items
    <2> QED
      BY <2>1, <2>4 DEF IInv, Flow, CallInv, QueueInv, VerdictInv
  <1> QED
    BY <1>1, <1>2

LEMMA InitParts == Init => Parts
  <1> SUFFICES ASSUME Init PROVE Parts
    OBVIOUS
  <1>1. ClientInit /\ EventCap \in Nat \ {0} /\ MaxSessions \in Nat
    BY ClientBounds DEF Init
  <1>2. <<>> \in Seq(Items) /\ Len(<<>>) = 0
    OBVIOUS
  <1>3. Flow
    <2>1. SessionTypes
      <3>1. /\ phase = "dial" /\ session = 0 /\ installed = FALSE /\ link = "closed" /\ reason = "unavailable"
            /\ reading = FALSE /\ ready = FALSE /\ subscription = "none" /\ received = 0 /\ dispatched = 0
            /\ events = <<>> /\ queued = <<>> /\ flushing = <<>>
        BY <1>1 DEF ClientInit, Init
      <3>2. phase \in Phases /\ installed \in BOOLEAN /\ reading \in BOOLEAN /\ ready \in BOOLEAN
        BY <3>1 DEF Phases
      <3>3. /\ session \in 0..MaxSessions /\ received \in Nat /\ dispatched \in Nat
            /\ Len(events) <= EventCap /\ Len(queued) <= EventCap + 1 /\ Len(flushing) <= EventCap + 1
        BY <3>1, <1>1, <1>2
      <3>4. link \in {"open", "closing", "closed"} /\ reason \in Reasons
            /\ subscription \in {"none", "waiting", "accepted", "rejected"} \cup Reasons
        BY <3>1 DEF Reasons
      <3> QED
        BY <3>1, <3>2, <3>3, <3>4, <1>2 DEF SessionTypes
    <2>2. SessionShape
      BY <1>1, <1>2 DEF ClientInit, SessionShape
    <2>3. EventsInOrder
      <3>1. <<>> \o <<>> \o <<>> = <<>>
        BY <1>2, ConcatEmptySeq
      <3>2. Ordered(<<>>, 0, 0)
        BY DEF Ordered, InOrder
      <3> QED
        BY <3>1, <3>2, <1>1, InOrderIs DEF ClientInit, Init
    <2> QED
      BY <2>1, <2>2, <2>3 DEF Flow
  <1>4. CallInv
    <2>1. CallOK(NoCall, 0)
      BY <1>1 DEF CallOK, NoCall, Calls, Steps, Results
    <2> QED
      BY <2>1, <1>1, CallByCall DEF ClientInit, CallOK
  <1>5. QueueInv
    <2>1. IdleWorker \in WorkerStates
      BY DEF IdleWorker, WorkerStates
    <2>2. QueueTypes
      <3>1. tasks = <<>> /\ pendingTasks = 0 /\ overflowPending = FALSE
            /\ worker = [w \in Workers |-> IdleWorker]
        BY DEF Init
      <3>2. tasks \in Seq(Tasks) /\ pendingTasks \in Nat
        BY <3>1
      <3>3. overflowPending \in BOOLEAN
        BY <3>1
      <3> QED
        BY <2>1, <3>1, <3>2, <3>3 DEF QueueTypes
    <2>3. QueueShape
      BY IntakeBounds DEF Init, QueueShape, IdleWorker
    <2> QED
      BY <2>2, <2>3 DEF QueueInv
  <1>6. VerdictInv
    <2>1. VerdictTypes
      BY IntakeBounds DEF Init, VerdictTypes, Zero
    <2>2. ASSUME NEW m \in Messages
          PROVE  handled[m] + refused[m] + Cardinality(PlacesOf(m, tasks)) <= forgotten[m] + Known(m)
      <3>1. PlacesOf(m, tasks) = {} /\ Known(m) = 0
        BY DEF Init, PlacesOf, Known
      <3>2. Cardinality(PlacesOf(m, tasks)) = 0
        BY <3>1, FS_EmptySet
      <3> QED
        BY <3>1, <3>2 DEF Init, Zero
    <2> QED
      BY <2>1, <2>2 DEF VerdictInv, Verdicts
  <1>7. ArrivalTypes
    BY IntakeBounds DEF Init, ArrivalTypes, NoMessage
  <1> QED
    BY <1>3, <1>4, <1>5, <1>6, <1>7 DEF Parts

LEMMA CallsStay ==
    ASSUME CallInv, SessionTypes, call' = call, session' \in Nat, session' >= session PROVE CallInv'
  BY CallsEnd DEF CallEnds, CallInv, CallTypes

(* A message arrives, new or repeated.                                     *)
LEMMA ReceiveParts ==
    ASSUME Parts, NEW id \in Messages, Receive(id),
           UNCHANGED <<load, pushes, dispatched, refusing, queueVars, worker, messageVars>>,
           sent' \in 0..load.messages, repeats' \in Nat
    PROVE  Parts'
  <1>0. Flow /\ CallInv /\ QueueInv /\ VerdictInv /\ ArrivalTypes /\ SessionTypes
    BY DEF Parts, Flow
  <1>1. Flow'
    BY <1>0, ReceiveFlows
  <1>2. session' = session
    BY DEF Receive, runVars
  <1>3. PICK x : IF QueueFull THEN Refuse(x) ELSE Accept(x)
    BY DEF Receive
  <1>4. CallInv'
    <2>1. CASE QueueFull
      <3>1. Finish("full")
        BY <1>3, <2>1 DEF Refuse
      <3> QED
        BY <3>1, <1>0, <1>2, FinishCalls
    <2>2. CASE ~QueueFull
      <3>1. call' = call
        BY <1>3, <2>2 DEF Accept
      <3> QED
        BY <3>1, <1>0, <1>2, CallsStay DEF SessionTypes
    <2> QED
      BY <2>1, <2>2
  <1>5. QueueInv'
    BY <1>0 DEF QueueInv, QueueTypes, QueueShape, queueVars
  <1>6. VerdictInv'
    BY <1>0, SameVerdicts DEF queueVars
  <1>7. ArrivalTypes'
    BY <1>0 DEF ArrivalTypes
  <1> QED
    BY <1>1, <1>4, <1>5, <1>6, <1>7 DEF Parts

(* A step of the client alone.                                             *)
LEMMA ClientStepParts ==
    ASSUME Parts, OnlyClient, Flow', CallInv' PROVE Parts'
  <1>0. QueueInv /\ VerdictInv /\ ArrivalTypes
    BY DEF Parts
  <1>1. UNCHANGED <<load, sent, repeats, pushes, refusing, tasks, pendingTasks, overflowPending, worker, messageVars>>
    BY DEF OnlyClient, boundVars, queueVars
  <1>2. QueueInv'
    BY <1>0, <1>1 DEF QueueInv, QueueTypes, QueueShape
  <1>3. VerdictInv'
    BY <1>0, <1>1, SameVerdicts
  <1>4. ArrivalTypes'
    BY <1>0, <1>1 DEF ArrivalTypes
  <1> QED
    BY <1>2, <1>3, <1>4 DEF Parts

LEMMA ClientSteps ==
    ASSUME Parts, EndOfSession \/ RunStep \/ ReaderStep \/ \E w \in Workers : CallStep(w) \/ AnswerStep(w)
    PROVE  Parts'
  <1> USE DEF runVars, readVars
  <1>0. Flow /\ CallInv /\ SessionTypes /\ session \in Nat /\ session' \in Nat
    <2>1. Flow /\ CallInv /\ SessionTypes
      BY DEF Parts, Flow
    <2>2. session \in Nat
      BY <2>1 DEF SessionTypes
    <2>3. session' = session \/ session' = session + 1
      <3>1. CASE EndOfSession
        BY <3>1 DEF EndOfSession, CloseDone, HeartbeatFails
      <3>2. CASE RunStep
        BY <3>2 DEF RunStep, Run, DialSession, Subscribed, SubscribeFails, Abandon, StartActivation, MoveQueued,
                    ActivationFull, Activated, Bury, FlushOne, Flushed
      <3>3. CASE ReaderStep
        BY <3>3 DEF ReaderStep, Reader, ReadFails, AnswerSubscription
      <3>4. CASE \E w \in Workers : CallStep(w) \/ AnswerStep(w)
        BY <3>4 DEF CallStep, AnswerStep, Answer, Request, Capture, Register, Write, WriteTimesOut, WriteFails,
                    Finished, TakeResult, StopWaiting, Cancel
      <3> QED
        BY <3>1, <3>2, <3>3, <3>4
    <2> QED
      BY <2>1, <2>2, <2>3
  <1>r. "unavailable" \in Reasons /\ "protocol" \in Reasons
    BY DEF Reasons
  <1>1. CASE EndOfSession
    <2>1. OnlyClient /\ dispatched' = dispatched
      BY <1>1 DEF EndOfSession, OnlyClient
    <2>2. CASE CloseDone
      <3>1. Flow'
        BY <1>0, <2>1, <2>2, NothingMoves DEF CloseDone, SessionTypes
      <3>2. CallInv'
        BY <1>0, <2>2, CallsStay DEF CloseDone
      <3> QED
        BY <3>1, <3>2, <2>1, ClientStepParts
    <2>3. CASE HeartbeatFails
      <3>1. Finish("unavailable") /\ UNCHANGED <<phase, session, installed, flushing, reading, ready, queued, received, events>>
        BY <2>3 DEF HeartbeatFails
      <3>2. Flow'
        BY <1>0, <1>r, <2>1, <3>1, FinishFlows
      <3>3. CallInv'
        BY <1>0, <3>1, FinishCalls
      <3> QED
        BY <3>2, <3>3, <2>1, ClientStepParts
    <2> QED
      BY <1>1, <2>2, <2>3 DEF EndOfSession
  <1>2. CASE RunStep
    <2>1. OnlyClient /\ dispatched' = dispatched /\ Run
      BY <1>2 DEF RunStep, OnlyClient
    <2>2. Flow'
      BY <1>0, <2>1, RunFlows
    <2>3. CallInv'
      <3>1. CASE ActivationFull
        <4>1. Finish("unavailable") /\ session' = session
          BY <3>1 DEF ActivationFull
        <4> QED
          BY <4>1, <1>0, FinishCalls
      <3>2. CASE ~ActivationFull
        <4>1. call' = call /\ session' >= session
          BY <3>2, <2>1, <1>0 DEF Run, DialSession, Subscribed, SubscribeFails, Abandon, StartActivation, MoveQueued,
                                  Activated, Bury, FlushOne, Flushed
        <4> QED
          BY <4>1, <1>0, CallsStay
      <3> QED
        BY <3>1, <3>2
    <2> QED
      BY <2>1, <2>2, <2>3, ClientStepParts
  <1>3. CASE ReaderStep
    <2>1. OnlyClient /\ dispatched' = dispatched /\ Reader
      BY <1>3 DEF ReaderStep, OnlyClient
    <2>2. ASSUME NEW r \in {"unavailable", "protocol"}, ReadFails(r) PROVE Flow' /\ CallInv'
      <3>1. /\ Finish(r) /\ reading' = FALSE /\ r \in Reasons
            /\ UNCHANGED <<phase, session, installed, flushing, ready, queued, received, events>>
        BY <2>2, <1>r DEF ReadFails
      <3>2. Flow'
        BY <1>0, <2>1, <3>1, FinishFlows
      <3>3. CallInv'
        BY <1>0, <3>1, FinishCalls
      <3> QED
        BY <3>2, <3>3
    <2>3. ASSUME NEW result \in {"accepted", "rejected"}, AnswerSubscription(result) PROVE Flow' /\ CallInv'
      <3>1. /\ subscription' = result /\ call' = call
            /\ UNCHANGED <<phase, session, installed, flushing, reading, ready, queued, received, events, link, reason>>
        BY <2>3 DEF AnswerSubscription
      <3>2. Flow'
        BY <1>0, <2>1, <3>1, NothingMoves DEF SessionTypes
      <3>3. CallInv'
        BY <1>0, <3>1, CallsStay
      <3> QED
        BY <3>2, <3>3
    <2> QED
      BY <2>1, <2>2, <2>3, ClientStepParts DEF Reader
  <1>4. ASSUME NEW w \in Workers, CallStep(w) PROVE Parts'
    <2>1. OnlyClient /\ dispatched' = dispatched /\ Request(w) /\ w \in Callers
      BY <1>4 DEF CallStep, OnlyClient, Workers
    <2> QED
      BY <1>0, <2>1, RequestFlows, RequestCalls, ClientStepParts
  <1>5. ASSUME NEW w \in Workers, AnswerStep(w) PROVE Parts'
    <2>1. PICK result \in {"ok", "rejected"} : Answer(w, result)
      BY <1>5 DEF AnswerStep
    <2>2. OnlyClient /\ dispatched' = dispatched /\ w \in Callers
      BY <1>5 DEF AnswerStep, OnlyClient, Workers
    <2>3. UNCHANGED <<phase, session, installed, flushing, reading, ready, queued, received, events, link, reason, subscription>>
      BY <2>1 DEF Answer
    <2>4. Flow'
      BY <1>0, <2>2, <2>3, NothingMoves DEF SessionTypes
    <2>5. CallInv'
      BY <1>0, <2>1, <2>2, AnswerCalls
    <2> QED
      BY <2>2, <2>4, <2>5, ClientStepParts
  <1> QED
    BY <1>1, <1>2, <1>3, <1>4, <1>5

(* The event loop and the notifications of others.                         *)
LEMMA FullCounts ==
    ASSUME QueueInv
    PROVE  (~Full(FALSE) => pendingTasks < QueueCap) /\ (~Full(TRUE) => ~overflowPending)
  BY IntakeBounds DEF QueueInv, QueueTypes, Full

LEMMA TakenParts ==
    ASSUME Parts, TakeEvent, QueueInv', VerdictInv', refusing' \in 0..MaxMessages PROVE Parts'
  <1>0. Flow /\ CallInv /\ SessionTypes /\ ArrivalTypes
    BY DEF Parts, Flow
  <1>1. Flow'
    BY <1>0, TakeEventFlows
  <1>2. call' = call /\ session' = session /\ UNCHANGED boundVars
    BY DEF TakeEvent, runVars
  <1>3. CallInv'
    BY <1>0, <1>2, CallsStay DEF SessionTypes
  <1>4. ArrivalTypes'
    BY <1>0, <1>2 DEF ArrivalTypes, boundVars
  <1> QED
    BY <1>1, <1>3, <1>4 DEF Parts

LEMMA EnqueuedParts ==
    ASSUME Parts, UNCHANGED <<clientVars, load, sent, repeats, dispatched, messageVars>>,
           pushes' \in Nat, refusing' \in 0..MaxMessages, QueueInv', VerdictInv'
    PROVE  Parts'
  <1> USE DEF clientVars, runVars, readVars
  <1>0. Flow /\ CallInv /\ SessionTypes /\ ArrivalTypes
    BY DEF Parts, Flow
  <1>1. Flow'
    BY <1>0, NothingMoves DEF SessionTypes
  <1>2. CallInv'
    BY <1>0, CallsStay DEF SessionTypes
  <1>3. ArrivalTypes'
    BY <1>0 DEF ArrivalTypes
  <1> QED
    BY <1>1, <1>2, <1>3 DEF Parts

LEMMA EventLoopParts == ASSUME Parts, EventLoop PROVE Parts'
  <1>0. Flow /\ QueueInv /\ VerdictInv /\ ArrivalTypes /\ QueueTypes
    BY DEF Parts, QueueInv
  <1>1. CASE Notify
    <2>1. /\ refusing' = NoMessage /\ UNCHANGED <<clientVars, boundVars, dispatched, messageVars>>
          /\ IF Full(TRUE) THEN UNCHANGED <<queueVars, worker>>
             ELSE Enqueue([kind |-> "overflow", id |-> refusing])
      BY <1>1 DEF Notify
    <2>2. refusing' \in 0..MaxMessages /\ pushes' \in Nat
      BY <2>1, <1>0, IntakeBounds DEF NoMessage, boundVars, ArrivalTypes
    <2>3. QueueInv' /\ VerdictInv'
      <3>1. CASE Full(TRUE)
        BY <2>1, <3>1, <1>0, SameVerdicts DEF QueueInv, QueueTypes, QueueShape, queueVars
      <3>2. CASE ~Full(TRUE)
        <4> DEFINE task == [kind |-> "overflow", id |-> refusing]
        <4>1. task \in Tasks /\ task.kind = "overflow"
          BY <1>0 DEF Tasks, ArrivalTypes
        <4>2. Enqueue(task) /\ ~overflowPending /\ UNCHANGED messageVars
          BY <2>1, <3>2, <1>0, FullCounts
        <4> HIDE DEF task
        <4>3. QueueInv'
          BY <4>1, <4>2, <1>0, EnqueueQueues
        <4>4. VerdictInv'
          BY <4>1, <4>2, <1>0, EnqueueVerdicts
        <4> QED
          BY <4>3, <4>4
      <3> QED
        BY <3>1, <3>2
    <2> QED
      BY <2>1, <2>2, <2>3, EnqueuedParts DEF boundVars
  <1>2. ASSUME NEW expired \in 0..Len(keys), Duplicate(expired) PROVE Parts'
    <2>1. TakeEvent /\ UNCHANGED <<refusing, queueVars, worker>>
      BY <1>2 DEF Duplicate
    <2>2. Head(events) \in Items
      BY <2>1, <1>0, TakeEventFlows
    <2>3. QueueInv'
      BY <2>1, <1>0 DEF QueueInv, QueueTypes, QueueShape, queueVars
    <2>4. VerdictInv'
      BY <1>0, <1>2, <2>2, DuplicateVerdicts
    <2>5. refusing' \in 0..MaxMessages
      BY <2>1, <1>0 DEF ArrivalTypes
    <2> QED
      BY <2>1, <2>3, <2>4, <2>5, TakenParts
  <1>3. ASSUME NEW expired \in 0..Len(keys), Queue(expired) PROVE Parts'
    <2>1. TakeEvent /\ IF Full(FALSE) THEN refusing' = Head(events).id /\ UNCHANGED <<queueVars, worker>>
                       ELSE Enqueue([kind |-> "message", id |-> Head(events).id]) /\ refusing' = refusing
      BY <1>3 DEF Queue
    <2>2. Head(events) \in Items
      BY <2>1, <1>0, TakeEventFlows
    <2>3. Head(events).id \in Messages /\ Head(events).id \in 0..MaxMessages
      BY <2>2, IntakeBounds DEF Items, Messages
    <2>4. VerdictInv'
      BY <1>0, <1>3, <2>2, QueueVerdicts
    <2>5. CASE Full(FALSE)
      <3>1. QueueInv'
        BY <2>1, <2>5, <1>0 DEF QueueInv, QueueTypes, QueueShape, queueVars
      <3> QED
        BY <2>1, <2>3, <2>4, <2>5, <3>1, TakenParts
    <2>6. CASE ~Full(FALSE)
      <3> DEFINE task == [kind |-> "message", id |-> Head(events).id]
      <3>1. task \in Tasks /\ task.kind = "message"
        BY <2>3 DEF Tasks
      <3>2. Enqueue(task) /\ pendingTasks < QueueCap
        BY <2>1, <2>6, <1>0, FullCounts
      <3> HIDE DEF task
      <3>3. QueueInv'
        BY <3>1, <3>2, <1>0, EnqueueQueues
      <3>4. refusing' \in 0..MaxMessages
        BY <2>1, <2>6, <1>0 DEF ArrivalTypes
      <3> QED
        BY <2>1, <2>4, <3>3, <3>4, TakenParts
    <2> QED
      BY <2>5, <2>6
  <1> QED
    BY <1>1, <1>2, <1>3 DEF EventLoop

LEMMA PushParts == ASSUME Parts, Push PROVE Parts'
  <1>0. QueueInv /\ VerdictInv /\ ArrivalTypes /\ QueueTypes
    BY DEF Parts, QueueInv
  <1> DEFINE task == [kind |-> "push", id |-> NoMessage]
  <1>1. task \in Tasks /\ task.kind = "push"
    BY IntakeBounds DEF Tasks, NoMessage
  <1>2. /\ Enqueue(task) /\ ~Full(FALSE) /\ pushes' = pushes + 1
        /\ UNCHANGED <<clientVars, load, sent, repeats, dispatched, refusing, messageVars>>
    BY DEF Push
  <1> HIDE DEF task
  <1>3. QueueInv'
    BY <1>0, <1>1, <1>2, FullCounts, EnqueueQueues
  <1>4. VerdictInv'
    BY <1>0, <1>1, <1>2, EnqueueVerdicts
  <1>5. pushes' \in Nat /\ refusing' \in 0..MaxMessages
    BY <1>0, <1>2 DEF ArrivalTypes
  <1> QED
    BY <1>2, <1>3, <1>4, <1>5, EnqueuedParts

LEMMA WorkerParts == ASSUME Parts, NEW w \in Workers, WorkerStep(w) PROVE Parts'
  <1>0. Flow /\ CallInv /\ QueueInv /\ VerdictInv /\ ArrivalTypes /\ SessionTypes /\ QueueTypes /\ w \in Callers
    BY DEF Parts, Flow, QueueInv, Workers
  <1>1. OnlyWorker
    BY DEF WorkerStep, Take, Skip, SecondAttempt, Replied, End
  <1>2. /\ UNCHANGED <<phase, session, installed, flushing, reading, ready, queued, received, link, reason,
                       subscription, events, load, sent, repeats, pushes, dispatched, refusing>>
    BY <1>1 DEF OnlyWorker, runVars, readVars, boundVars
  <1>3. Flow'
    BY <1>0, <1>2, NothingMoves DEF SessionTypes
  <1>4. ArrivalTypes'
    BY <1>0, <1>2 DEF ArrivalTypes
  <1>5. QueueInv' /\ VerdictInv'
    BY <1>0, WorkerQueues, WorkerVerdicts
  <1>6. CallOK(call[w], session) /\ session \in Nat /\ MaxSessions \in Nat /\ session <= MaxSessions
    BY <1>0, CallByCall, ClientBounds DEF SessionTypes
  <1>7. ASSUME NEW owed \in 0..session, StartCall(w, owed) PROVE CallInv'
    <2> DEFINE r == [NoCall EXCEPT !.step = "start", !.owed = owed]
    <2>1. /\ r.step = "start" /\ r.session = 0 /\ r.pending = FALSE /\ r.result = "none"
          /\ r.outcome = "none" /\ r.owed = owed /\ r \in Calls
      <3>1. NoCall \in Calls
        BY <1>6 DEF NoCall, Calls, Steps, Results
      <3>2. owed \in 0..MaxSessions /\ "start" \in Steps
        BY <1>6 DEF Steps
      <3>3. r \in Calls
        BY <3>1, <3>2 DEF Calls
      <3> QED
        BY <3>3 DEF NoCall
    <2>2. CallOK(r, session)
      BY <2>1, <1>6 DEF CallOK
    <2>3. call' = [call EXCEPT ![w] = r]
      BY <1>7 DEF StartCall
    <2> QED
      BY <2>2, <2>3, <1>0, <1>2, OneCall
  <1>8. CallInv'
    <2>1. CASE Take(w)
      BY <1>6, <1>7, <2>1 DEF Take
    <2>2. CASE Skip(w) \/ End(w)
      BY <1>0, <1>2, <1>6, <2>2, CallsStay DEF Skip, End
    <2>3. CASE SecondAttempt(w)
      <3>1. PICK owed \in 0..session : StartCall(w, owed)
        <4>1. call[w].owed \in 0..session /\ 0 \in 0..session
          BY <1>6 DEF CallOK, Calls
        <4> QED
          BY <4>1, <2>3 DEF SecondAttempt
      <3> QED
        BY <3>1, <1>7
    <2>4. CASE Replied(w)
      <3>1. CallOK(NoCall, session)
        BY <1>6 DEF CallOK, NoCall, Calls, Steps, Results
      <3>2. call' = [call EXCEPT ![w] = NoCall]
        BY <2>4 DEF Replied
      <3> QED
        BY <3>1, <3>2, <1>0, <1>2, OneCall
    <2> QED
      BY <2>1, <2>2, <2>3, <2>4 DEF WorkerStep
  <1> QED
    BY <1>3, <1>4, <1>5, <1>8 DEF Parts

LEMMA NextParts == ASSUME Parts, [Next]_vars PROVE Parts'
  <1>0. ArrivalTypes /\ load.messages \in 0..MaxMessages /\ MaxMessages \in Nat
    BY IntakeBounds DEF Parts, ArrivalTypes
  <1>1. CASE NewMessage
    <2>1. sent < load.messages /\ sent' = sent + 1 /\ Receive(sent + 1)
          /\ UNCHANGED <<load, repeats, pushes, dispatched, refusing, queueVars, worker, messageVars>>
      BY <1>1 DEF NewMessage
    <2>2. sent + 1 \in Messages /\ sent' \in 0..load.messages /\ repeats' \in Nat
      BY <2>1, <1>0 DEF ArrivalTypes, Messages
    <2> QED
      BY <2>1, <2>2, ReceiveParts
  <1>2. CASE \E m \in Messages : RepeatMessage(m)
    <2>1. PICK m \in Messages : RepeatMessage(m)
      BY <1>2
    <2>2. /\ Receive(m) /\ repeats' = repeats + 1 /\ sent' = sent
          /\ UNCHANGED <<load, pushes, dispatched, refusing, queueVars, worker, messageVars>>
      BY <2>1 DEF RepeatMessage
    <2>3. sent' \in 0..load.messages /\ repeats' \in Nat
      BY <2>2, <1>0 DEF ArrivalTypes
    <2> QED
      BY <2>2, <2>3, ReceiveParts
  <1>3. CASE Push
    BY <1>3, PushParts
  <1>4. CASE EventLoop
    BY <1>4, EventLoopParts
  <1>5. CASE EndOfSession \/ RunStep \/ ReaderStep \/ \E w \in Workers : CallStep(w) \/ AnswerStep(w)
    BY <1>5, ClientSteps
  <1>6. CASE \E w \in Workers : WorkerStep(w)
    BY <1>6, WorkerParts
  <1>7. CASE UNCHANGED vars
    <2>1. UNCHANGED <<clientVars, load, sent, repeats, pushes, dispatched, refusing, messageVars, tasks,
                      pendingTasks, overflowPending, worker>>
      BY <1>7 DEF vars, boundVars, queueVars
    <2>2. QueueInv'
      BY <2>1 DEF Parts, QueueInv, QueueTypes, QueueShape
    <2>3. VerdictInv'
      BY <2>1, SameVerdicts DEF Parts
    <2>4. pushes' \in Nat /\ refusing' \in 0..MaxMessages
      BY <2>1, <1>0 DEF ArrivalTypes
    <2> QED
      BY <2>1, <2>2, <2>3, <2>4, EnqueuedParts
  <1> QED
    BY <1>1, <1>2, <1>3, <1>4, <1>5, <1>6, <1>7 DEF Next

LEMMA Invariant == Spec => []IInv
  <1>1. Init => IInv
    BY InitParts, PartsAreAll
  <1>2. IInv /\ [Next]_vars => IInv'
    <2> SUFFICES ASSUME IInv, [Next]_vars PROVE IInv'
      OBVIOUS
    <2>1. Parts'
      BY PartsAreAll, NextParts
    <2>2. IInv' <=> Parts'
      BY PartsAreAll, PTL
    <2> QED
      BY <2>1, <2>2
  <1> QED
    BY <1>1, <1>2, PTL DEF Spec

LEMMA OneVerdictEach == ASSUME IInv PROVE OneVerdict
  <1>1. VerdictInv /\ QueueTypes
    BY PartsAreAll DEF Parts, QueueInv
  <1> SUFFICES ASSUME NEW m \in Messages PROVE handled[m] + refused[m] <= 1 + forgotten[m]
    BY DEF OneVerdict
  <1>2. PICK h \in Nat, r \in Nat, f \in Nat, w \in Nat, n \in {0, 1} :
           /\ h = handled[m] /\ r = refused[m] /\ f = forgotten[m]
           /\ h + r + w <= f + n
    BY <1>1, VerdictsAt
  <1>3. h + r <= 1 + f
    BY <1>2
  <1> QED
    BY <1>2, <1>3

(* Messages are told to the router in the order WeCom sent them, across    *)
(* full queues and reconnections; the user's queue never blocks who adds   *)
(* to it; and a message runs or is refused once for each time that its     *)
(* identifier was not remembered.                                          *)
THEOREM MessagesHandledOnce == Spec => []HandledOnce
  <1>1. IInv => HandledOnce
    BY OneVerdictEach DEF IInv, HandledOnce
  <1> QED
    BY <1>1, Invariant, PTL

(* A caller is told the answer that was matched to its request, whatever   *)
(* timeout, failed write or end of its session came in between.            *)
THEOREM AnswersKept == Spec => []AnswerKept
  <1>1. IInv => AnswerKept
    BY DEF IInv
  <1> QED
    BY <1>1, Invariant, PTL

----------------------------------------------------------------------------
(* ServerStartup.                                                          *)

(* Where a start stands: at its files, with the ports it has bound by then,*)
(* or giving back what it took.                                            *)
Files == {"help", "help written", "auth", "publish", "publish written", "print", "tls", "tls key",
          "tls cert", "load", "services", "relay"}
RelayServed == {"look", "probe", "recheck", "remove", "bind", "secure", "web", "assemble", "serving"}
WebServed == {"assemble", "serving"}
Closes == {"closing", "compare", "unlink", "ports"}
SocketHeld == {"secure", "web", "assemble", "serving"}
StartSteps == Files \cup RelayServed \cup Closes \cup {"unlock", "down"}

StartupTypes ==
    /\ where \in [Servers -> StartSteps] /\ address \in [Servers -> Addresses]
    /\ ports \in [PortNames -> [Addresses -> Servers \cup {NoServer}]]
    /\ socketPath \in Inodes \cup {NoInode} /\ listening \in [Inodes -> Servers \cup {NoServer}]
    /\ seen \in [Servers -> Inodes \cup {NoInode}]
    /\ key \in Pairs \cup {NoPair} /\ cert \in Pairs \cup {NoPair}
    /\ made \in [Servers -> Pairs \cup {NoPair}]
    /\ DOMAIN blocked = Servers

(* The process that is up has the lock, so that there is one.              *)
OneUp == \A s \in Servers : where[s] # "down" <=> lockHolder = s

(* Ports and sockets are those of a process at a step that has them.       *)
PortsOwned ==
    \A p \in PortNames, a \in Addresses : ports[p][a] # NoServer =>
        where[ports[p][a]] \in (IF p = "relay" THEN RelayServed ELSE WebServed) \cup Closes
PortsServed ==
    \A s \in Servers :
        /\ where[s] \in RelayServed => ports["relay"][address[s]] = s
        /\ where[s] \in WebServed => ports["web"][address[s]] = s
SocketsOwned ==
    \A i \in Inodes : listening[i] # NoServer => where[listening[i]] \in SocketHeld \cup {"closing"}

(* What a start has found at the path, or made there, is still there.      *)
PathKept ==
    \A s \in Servers :
        /\ where[s] \in {"probe", "recheck"} => seen[s] = socketPath
        /\ where[s] = "bind" => socketPath = NoInode
        /\ where[s] \in SocketHeld => socketPath \in Inodes /\ listening[socketPath] = s
        /\ where[s] \in SocketHeld \ {"secure"} => socketPath \in private

(* The certificate is written last: when there is one, the key is its own. *)
PairsKept ==
    /\ cert # NoPair => key = cert
    /\ \A s \in Servers :
          /\ where[s] \in {"tls key", "tls cert"} => cert = NoPair /\ made[s] \in Pairs
          /\ where[s] = "tls cert" => key = made[s]
          /\ where[s] = "load" => cert # NoPair

StartupInv ==
    /\ StartupTypes /\ OneUp /\ PortsOwned /\ PortsServed /\ SocketsOwned /\ PathKept /\ PairsKept
    /\ NothingLeftBlocks

(* A process goes on, the lock with it, and there is no other.             *)
Goes(s, to) ==
    /\ where[s] # "down" /\ to \in StartSteps \ {"down"}
    /\ where' = [where EXCEPT ![s] = to] /\ lockHolder' = lockHolder /\ address' = address

LEMMA Alone ==
    ASSUME StartupInv, NEW s \in Servers, NEW to, Goes(s, to)
    PROVE  /\ where' \in [Servers -> StartSteps] /\ address' \in [Servers -> Addresses] /\ OneUp'
           /\ where'[s] = to /\ \A t \in Servers \ {s} : where[t] = "down" /\ where'[t] = "down"
  <1>1. where \in [Servers -> StartSteps] /\ address \in [Servers -> Addresses] /\ lockHolder = s
    BY DEF StartupInv, StartupTypes, OneUp, Goes
  <1>2. \A t \in Servers \ {s} : where[t] = "down"
    BY <1>1 DEF StartupInv, OneUp
  <1> QED
    BY <1>1, <1>2 DEF Goes, OneUp

LEMMA PortsStay ==
    ASSUME StartupInv, NEW s \in Servers, NEW to, Goes(s, to), ports' = ports,
           where[s] \in RelayServed \cup Closes => to \in RelayServed \cup Closes,
           where[s] \in WebServed \cup Closes => to \in WebServed \cup Closes,
           to \in RelayServed => where[s] \in RelayServed, to \in WebServed => where[s] \in WebServed
    PROVE  PortsOwned' /\ PortsServed'
  <1>1. /\ where'[s] = to /\ \A t \in Servers \ {s} : where[t] = "down" /\ where'[t] = "down"
        /\ address' = address
    BY Alone DEF Goes
  <1>2. PortsServed'
    BY <1>1 DEF StartupInv, PortsServed, RelayServed, WebServed
  <1>3. ASSUME NEW p \in PortNames, NEW a \in Addresses, ports[p][a] # NoServer
        PROVE  where'[ports[p][a]] \in (IF p = "relay" THEN RelayServed ELSE WebServed) \cup Closes
    <2>1. PICK t \in Servers : t = ports[p][a]
      BY <1>3 DEF StartupInv, StartupTypes
    <2>2. where[t] \in (IF p = "relay" THEN RelayServed ELSE WebServed) \cup Closes
      BY <1>3, <2>1 DEF StartupInv, PortsOwned
    <2>3. t = s
      BY <1>1, <2>2 DEF RelayServed, WebServed, Closes
    <2>4. to \in (IF p = "relay" THEN RelayServed ELSE WebServed) \cup Closes
      BY <2>2, <2>3
    <2> QED
      BY <1>1, <2>1, <2>3, <2>4
  <1>4. PortsOwned'
    BY <1>3 DEF PortsOwned
  <1> QED
    BY <1>2, <1>4

LEMMA SocketsStay ==
    ASSUME StartupInv, NEW s \in Servers, NEW to, Goes(s, to), UNCHANGED PathParts,
           to \notin {"probe", "recheck", "bind"} \/ where[s] = to,
           to \in SocketHeld \ {"secure"} => where[s] \in SocketHeld \ {"secure"}, to # "secure",
           where[s] \in SocketHeld \cup {"closing"} => to \in SocketHeld \cup {"closing"}
    PROVE  SocketsOwned' /\ PathKept'
  <1>1. /\ where'[s] = to /\ \A t \in Servers \ {s} : where[t] = "down" /\ where'[t] = "down"
        /\ UNCHANGED <<socketPath, listening, private, seen>>
    BY Alone DEF PathParts
  <1>2. PathKept'
    BY <1>1 DEF StartupInv, PathKept, SocketHeld
  <1>3. ASSUME NEW i \in Inodes, listening[i] # NoServer
        PROVE  where'[listening[i]] \in SocketHeld \cup {"closing"}
    <2>1. PICK t \in Servers : t = listening[i]
      BY <1>3 DEF StartupInv, StartupTypes
    <2>2. where[t] \in SocketHeld \cup {"closing"}
      BY <1>3, <2>1 DEF StartupInv, SocketsOwned
    <2>3. t = s
      BY <1>1, <2>2 DEF SocketHeld
    <2> QED
      BY <1>1, <2>1, <2>2, <2>3
  <1>4. SocketsOwned'
    BY <1>1, <1>3 DEF SocketsOwned
  <1> QED
    BY <1>2, <1>4

LEMMA PairsStay ==
    ASSUME StartupInv, NEW s \in Servers, NEW to, Goes(s, to), UNCHANGED <<key, cert>>,
           to \notin {"tls key", "tls cert", "load"}
    PROVE  PairsKept'
  <1>1. where'[s] = to /\ \A t \in Servers \ {s} : where'[t] = "down"
    BY Alone
  <1> QED
    BY <1>1 DEF StartupInv, PairsKept

(* Nothing but the place of a start changes.                               *)
Quiet == UNCHANGED <<ports, blocked, key, cert, made>> /\ UNCHANGED PathParts

LEMMA QuietStep ==
    ASSUME StartupInv, NEW s \in Servers, NEW to, Goes(s, to), Quiet,
           to \notin {"probe", "recheck", "bind", "secure", "tls key", "tls cert", "load"},
           where[s] \in RelayServed \cup Closes => to \in RelayServed \cup Closes,
           where[s] \in WebServed \cup Closes => to \in WebServed \cup Closes,
           to \in RelayServed => where[s] \in RelayServed, to \in WebServed => where[s] \in WebServed,
           to \in SocketHeld => where[s] \in SocketHeld \ {"secure"},
           where[s] \in SocketHeld \cup {"closing"} => to \in SocketHeld \cup {"closing"}
    PROVE  StartupInv'
  <1>1. PortsOwned' /\ PortsServed'
    BY PortsStay DEF Quiet
  <1>2. SocketsOwned' /\ PathKept'
    BY SocketsStay DEF Quiet
  <1>3. PairsKept'
    BY PairsStay DEF Quiet
  <1>4. StartupTypes' /\ NothingLeftBlocks'
    BY Alone DEF StartupInv, StartupTypes, NothingLeftBlocks, Quiet, PathParts
  <1> QED
    BY <1>1, <1>2, <1>3, <1>4, Alone DEF StartupInv

LEMMA StartupFiles ==
    ASSUME StartupInv, NEW s \in Servers, address' = address,
           \/ EnsureDefaultHelpFile(s) \/ LoadAdministrators(s) \/ PublishAdminBootstrap(s) \/ CreateServices(s)
           \/ AssembleServer(s) \/ Ends(s) \/ CompareSocket(s)
    PROVE  StartupInv'
  <1>1. where[s] \in StartSteps
    BY DEF StartupInv, StartupTypes
  <1>2. CASE EnsureDefaultHelpFile(s) \/ LoadAdministrators(s) \/ PublishAdminBootstrap(s) \/ CreateServices(s)
    <2>1. Quiet /\ lockHolder' = lockHolder
      BY <1>2 DEF EnsureDefaultHelpFile, LoadAdministrators, PublishAdminBootstrap, CreateServices, OnlyAt, Quiet,
                  PairParts
    <2>2. \E to \in {"help written", "auth", "publish", "publish written", "print", "tls", "relay", "closing"} :
             where' = [where EXCEPT ![s] = to]
      BY <1>2 DEF EnsureDefaultHelpFile, LoadAdministrators, PublishAdminBootstrap, CreateServices, Moves
    <2>3. where[s] \in Files
      BY <1>2 DEF EnsureDefaultHelpFile, LoadAdministrators, PublishAdminBootstrap, CreateServices, Moves, Files
    <2>4. PICK to \in StartSteps \ {"down"} : where' = [where EXCEPT ![s] = to]
              /\ to \in {"help written", "auth", "publish", "publish written", "print", "tls", "relay", "closing"}
      BY <2>2 DEF StartSteps, Files, Closes
    <2>5. Goes(s, to)
      BY <2>1, <2>3, <2>4 DEF Goes, Files
    <2> QED
      BY <2>1, <2>3, <2>4, <2>5, QuietStep DEF Files, RelayServed, WebServed, SocketHeld, Closes
  <1>3. CASE AssembleServer(s)
    <2>1. Quiet /\ lockHolder' = lockHolder /\ where[s] = "assemble" /\ where' = [where EXCEPT ![s] = "serving"]
      BY <1>3 DEF AssembleServer, Moves, FilesKept, Quiet, PairParts
    <2>2. Goes(s, "serving")
      BY <2>1 DEF Goes, StartSteps, RelayServed
    <2> QED
      BY <2>1, <2>2, QuietStep DEF RelayServed, WebServed, SocketHeld, Closes
  <1>4. CASE Ends(s)
    <2>1. Quiet /\ lockHolder' = lockHolder /\ where[s] # "down" /\ where' = [where EXCEPT ![s] = "closing"]
      BY <1>4 DEF Ends, FilesKept, Quiet, PairParts, Stopping
    <2>2. Goes(s, "closing")
      BY <2>1 DEF Goes, StartSteps, Closes
    <2> QED
      BY <2>1, <2>2, QuietStep DEF RelayServed, WebServed, SocketHeld, Closes
  <1>5. CASE CompareSocket(s)
    <2>1. Quiet /\ lockHolder' = lockHolder /\ where[s] = "compare"
      BY <1>5 DEF CompareSocket, GiveBack, GivesLock, Moves, Quiet
    <2>2. PICK to \in {"unlink", "ports"} : where' = [where EXCEPT ![s] = to]
      BY <1>5 DEF CompareSocket, GiveBack, Moves
    <2>3. Goes(s, to)
      BY <2>1, <2>2 DEF Goes, StartSteps, Closes
    <2> QED
      BY <2>1, <2>2, <2>3, QuietStep DEF RelayServed, WebServed, SocketHeld, Closes
  <1> QED
    BY <1>2, <1>3, <1>4, <1>5

LEMMA StartupCertificate ==
    ASSUME StartupInv, NEW s \in Servers, address' = address,
           GenerateCertificate(s) \/ WriteKey(s) \/ WriteCert(s) \/ LoadTLSCertificate(s)
    PROVE  StartupInv'
  <1>1. /\ lockHolder' = lockHolder /\ ports' = ports /\ UNCHANGED PathParts
        /\ where[s] \in {"tls", "tls key", "tls cert", "load"}
    BY DEF GenerateCertificate, WriteKey, WriteCert, LoadTLSCertificate, OnlyAt, Moves
  <1>2. /\ key \in Pairs \cup {NoPair} /\ cert \in Pairs \cup {NoPair} /\ made \in [Servers -> Pairs \cup {NoPair}]
        /\ cert # NoPair => key = cert
        /\ where[s] \in {"tls key", "tls cert"} => cert = NoPair /\ made[s] \in Pairs
        /\ where[s] = "tls cert" => key = made[s]
    BY DEF StartupInv, StartupTypes, PairsKept
  <1>3. ASSUME NEW to \in {"tls key", "tls cert", "load", "services"}, where' = [where EXCEPT ![s] = to],
               key' \in Pairs \cup {NoPair}, cert' \in Pairs \cup {NoPair},
               made' \in [Servers -> Pairs \cup {NoPair}], blocked' = blocked,
               cert' # NoPair => key' = cert',
               to \in {"tls key", "tls cert"} => cert' = NoPair /\ made'[s] \in Pairs,
               to = "tls cert" => key' = made'[s],
               to = "load" => cert' # NoPair
        PROVE  StartupInv'
    <2>1. Goes(s, to)
      BY <1>1, <1>3 DEF Goes, StartSteps, Files
    <2>2. PortsOwned' /\ PortsServed'
      BY <1>1, <1>3, <2>1, PortsStay DEF RelayServed, WebServed, Closes
    <2>3. SocketsOwned' /\ PathKept'
      BY <1>1, <1>3, <2>1, SocketsStay DEF SocketHeld
    <2>4. PairsKept'
      BY <1>3, <2>1, Alone DEF PairsKept
    <2>5. StartupTypes' /\ NothingLeftBlocks' /\ OneUp'
      BY <1>1, <1>3, <2>1, Alone DEF StartupInv, StartupTypes, NothingLeftBlocks, PathParts
    <2> QED
      BY <2>2, <2>3, <2>4, <2>5 DEF StartupInv
  <1>4. CASE GenerateCertificate(s)
    <2>1. PICK pair \in Pairs : made' = [made EXCEPT ![s] = pair]
      BY <1>4 DEF GenerateCertificate
    <2>2. key' = key /\ cert' = cert /\ blocked' = blocked /\ where' = [where EXCEPT ![s] = "tls key"]
      BY <1>4 DEF GenerateCertificate, OnlyAt, Moves
    <2>3. cert = NoPair
      BY <1>2, <1>4, StartupAssumption DEF GenerateCertificate
    <2>4. made' \in [Servers -> Pairs \cup {NoPair}] /\ made'[s] \in Pairs
      BY <1>2, <2>1
    <2> QED
      BY <1>2, <1>3, <2>2, <2>3, <2>4
  <1>5. CASE WriteKey(s)
    <2>1. key' = made[s] /\ cert' = cert /\ made' = made /\ blocked' = blocked /\ where[s] = "tls key"
      BY <1>5 DEF WriteKey, WritePrivateFileAtomic, OnlyAt, Moves
    <2>2. key' \in Pairs /\ key' # Unwhole
      BY <1>2, <2>1, StartupAssumption
    <2>3. where' = [where EXCEPT ![s] = "tls cert"]
      BY <1>5, <2>2 DEF WriteKey, Moves
    <2> QED
      BY <1>2, <1>3, <2>1, <2>2, <2>3
  <1>6. CASE WriteCert(s)
    <2>1. cert' = made[s] /\ key' = key /\ made' = made /\ blocked' = blocked /\ where[s] = "tls cert"
      BY <1>6 DEF WriteCert, WritePrivateFileAtomic, OnlyAt, Moves
    <2>2. cert' \in Pairs /\ cert' # Unwhole /\ cert' # NoPair
      BY <1>2, <2>1, StartupAssumption
    <2>3. where' = [where EXCEPT ![s] = "load"]
      BY <1>6, <2>2 DEF WriteCert, Moves
    <2> QED
      BY <1>2, <1>3, <2>1, <2>2, <2>3
  <1>7. CASE LoadTLSCertificate(s)
    <2>1. key = cert /\ key # Unwhole
      BY <1>2, <1>7, StartupAssumption DEF LoadTLSCertificate
    <2>2. /\ where' = [where EXCEPT ![s] = "services"] /\ blocked' = blocked
          /\ key' = key /\ cert' = cert /\ made' = made
      BY <1>7, <2>1 DEF LoadTLSCertificate, PairParts
    <2> QED
      BY <1>2, <1>3, <2>2
  <1> QED
    BY <1>4, <1>5, <1>6, <1>7

LEMMA StartupListen ==
    ASSUME StartupInv, NEW s \in Servers, address' = address,
           ListenAt(s, "relay", "look") \/ ListenAt(s, "web", "assemble")
    PROVE  StartupInv'
  <1>1. PICK port \in PortNames, to \in {"look", "assemble"} :
           ListenAt(s, port, to) /\ (port = "relay" <=> to = "look")
    BY DEF PortNames
  <1>2. where[s] = port /\ where[s] # "down" /\ lockHolder' = lockHolder /\ UNCHANGED PathParts
        /\ UNCHANGED <<key, cert, made>>
    BY <1>1 DEF ListenAt, Moves, StartRefused, FilesKept, PairParts, PortNames
  <1>3. lockHolder = s /\ address[s] \in Addresses /\ ports \in [PortNames -> [Addresses -> Servers \cup {NoServer}]]
    BY <1>2 DEF StartupInv, OneUp, StartupTypes
  <1>4. ports[port][address[s]] = NoServer
    <2>1. SUFFICES ASSUME ports[port][address[s]] # NoServer PROVE FALSE
      OBVIOUS
    <2>2. PICK t \in Servers : t = ports[port][address[s]]
      BY <1>3, <2>1
    <2>3. where[t] \in (IF port = "relay" THEN RelayServed ELSE WebServed) \cup Closes
      BY <1>3, <2>1, <2>2 DEF StartupInv, PortsOwned
    <2>4. t = s
      BY <1>3, <2>3 DEF StartupInv, OneUp, RelayServed, WebServed, Closes
    <2> QED
      BY <1>2, <2>3, <2>4 DEF RelayServed, WebServed, Closes, PortNames
  <1>5. /\ where' = [where EXCEPT ![s] = to] /\ blocked' = blocked
        /\ ports' = [ports EXCEPT ![port][address[s]] = s]
    BY <1>1, <1>4 DEF ListenAt, Moves
  <1>6. Goes(s, to)
    BY <1>2, <1>5 DEF Goes, StartSteps, RelayServed
  <1>7. /\ where'[s] = to /\ \A t \in Servers \ {s} : where[t] = "down" /\ where'[t] = "down"
    BY <1>6, Alone
  <1>8. /\ ports' \in [PortNames -> [Addresses -> Servers \cup {NoServer}]] /\ ports'[port][address[s]] = s
        /\ \A p \in PortNames, a \in Addresses : ports'[p][a] = ports[p][a] \/ (p = port /\ ports'[p][a] = s)
    BY <1>3, <1>5
  <1>9. PortsOwned'
    <2>1. ASSUME NEW p \in PortNames, NEW a \in Addresses, ports'[p][a] # NoServer
          PROVE  where'[ports'[p][a]] \in (IF p = "relay" THEN RelayServed ELSE WebServed) \cup Closes
      <3>1. CASE p = port /\ ports'[p][a] = s
        BY <1>1, <1>7, <3>1 DEF RelayServed, WebServed, PortNames
      <3>2. CASE ports'[p][a] = ports[p][a]
        <4>1. PICK t \in Servers : t = ports[p][a]
          BY <1>3, <2>1, <3>2
        <4>2. where[t] \in (IF p = "relay" THEN RelayServed ELSE WebServed) \cup Closes
          BY <2>1, <3>2, <4>1 DEF StartupInv, PortsOwned
        <4>3. t = s
          BY <1>7, <4>2 DEF RelayServed, WebServed, Closes
        <4>4. where'[s] \in (IF p = "relay" THEN RelayServed ELSE WebServed) \cup Closes
          BY <1>1, <1>2, <1>7, <4>2, <4>3 DEF RelayServed, WebServed, Closes, PortNames
        <4> QED
          BY <3>2, <4>1, <4>3, <4>4
      <3> QED
        BY <1>8, <3>1, <3>2
    <2> QED
      BY <2>1 DEF PortsOwned
  <1>10. PortsServed'
    <2>1. to \in WebServed => ports'["web"][address[s]] = s /\ ports["relay"][address[s]] = s
      BY <1>1, <1>2, <1>8 DEF StartupInv, PortsServed, WebServed, RelayServed, PortNames
    <2>2. to = "look" => ports'["relay"][address[s]] = s
      BY <1>1, <1>8 DEF PortNames
    <2>3. "relay" \in PortNames /\ "web" \in PortNames
      BY DEF PortNames
    <2>4. ports'["relay"][address[s]] = s
      BY <1>3, <1>8, <2>1, <2>2, <2>3 DEF WebServed
    <2> QED
      BY <1>6, <1>7, <2>1, <2>4 DEF PortsServed, RelayServed, WebServed, Goes
  <1>11. SocketsOwned' /\ PathKept'
    BY <1>1, <1>2, <1>6, SocketsStay DEF SocketHeld, PortNames
  <1>12. PairsKept'
    BY <1>2, <1>6, PairsStay
  <1>13. StartupTypes' /\ NothingLeftBlocks' /\ OneUp'
    BY <1>2, <1>5, <1>6, <1>8, Alone DEF StartupInv, StartupTypes, NothingLeftBlocks, PathParts
  <1> QED
    BY <1>9, <1>10, <1>11, <1>12, <1>13 DEF StartupInv

(* Where the process that is up has no socket, nobody listens.             *)
LEMMA Silent ==
    ASSUME StartupInv, NEW s \in Servers, where[s] # "down", where[s] \notin SocketHeld \cup {"closing"}
    PROVE  \A i \in Inodes : listening[i] = NoServer
  <1>1. SUFFICES ASSUME NEW i \in Inodes, listening[i] # NoServer PROVE FALSE
    OBVIOUS
  <1>2. PICK t \in Servers : t = listening[i] /\ where[t] \in SocketHeld \cup {"closing"}
    BY <1>1 DEF StartupInv, StartupTypes, SocketsOwned
  <1>3. t = s
    BY <1>2 DEF StartupInv, OneUp, SocketHeld
  <1> QED
    BY <1>2, <1>3

LEMMA PathStep ==
    ASSUME StartupInv, NEW s \in Servers, NEW to, Goes(s, to), UNCHANGED <<ports, blocked, key, cert, made>>,
           socketPath' \in Inodes \cup {NoInode}, listening' \in [Inodes -> Servers \cup {NoServer}],
           seen' \in [Servers -> Inodes \cup {NoInode}],
           \A i \in Inodes : listening'[i] = NoServer \/ (listening'[i] = s /\ to \in SocketHeld \cup {"closing"}),
           to \in {"probe", "recheck"} => seen'[s] = socketPath',
           to = "bind" => socketPath' = NoInode,
           to \in SocketHeld => socketPath' \in Inodes /\ listening'[socketPath'] = s,
           to \in SocketHeld \ {"secure"} => socketPath' \in private',
           where[s] \in RelayServed \cup Closes, to \in RelayServed \cup Closes,
           where[s] \in WebServed \cup Closes => to \in WebServed \cup Closes,
           to \in RelayServed => where[s] \in RelayServed, to \in WebServed => where[s] \in WebServed
    PROVE  StartupInv'
  <1>1. where'[s] = to /\ \A t \in Servers \ {s} : where'[t] = "down"
    BY Alone
  <1>2. PortsOwned' /\ PortsServed'
    BY PortsStay
  <1>3. PairsKept'
    BY PairsStay DEF RelayServed, Closes
  <1>4. SocketsOwned'
    <2>1. ASSUME NEW i \in Inodes, listening'[i] # NoServer PROVE where'[listening'[i]] \in SocketHeld \cup {"closing"}
      <3>1. listening'[i] = s /\ to \in SocketHeld \cup {"closing"}
        BY <2>1
      <3> QED
        BY <1>1, <3>1
    <2> QED
      BY <2>1 DEF SocketsOwned
  <1>5. PathKept'
    BY <1>1 DEF PathKept, SocketHeld
  <1>6. StartupTypes' /\ NothingLeftBlocks' /\ OneUp'
    BY Alone DEF StartupInv, StartupTypes, NothingLeftBlocks
  <1> QED
    BY <1>2, <1>3, <1>4, <1>5, <1>6 DEF StartupInv

LEMMA StartupPath ==
    ASSUME StartupInv, NEW s \in Servers, address' = address,
           LookAtPath(s) \/ ProbeSocket(s) \/ RecheckPath(s) \/ RemoveStale(s) \/ BindSocket(s)
    PROVE  StartupInv'
  <1>1. where[s] \in {"look", "probe", "recheck", "remove", "bind"}
    BY DEF LookAtPath, ProbeSocket, RecheckPath, RemoveStale, BindSocket, Moves, StartRefused
  <1>2. \A i \in Inodes : listening[i] = NoServer
    BY <1>1, Silent DEF SocketHeld
  <1>3. /\ socketPath \in Inodes \cup {NoInode} /\ listening \in [Inodes -> Servers \cup {NoServer}]
        /\ seen \in [Servers -> Inodes \cup {NoInode}]
        /\ where[s] \in {"probe", "recheck"} => seen[s] = socketPath
        /\ where[s] = "bind" => socketPath = NoInode
    BY DEF StartupInv, StartupTypes, PathKept
  <1>4. UNCHANGED <<ports, key, cert, made>> /\ lockHolder' = lockHolder
    BY DEF LookAtPath, ProbeSocket, RecheckPath, RemoveStale, BindSocket, FilesKept, PairParts
  <1>5. ASSUME NEW to \in {"bind", "probe", "recheck", "remove"}, where' = [where EXCEPT ![s] = to], blocked' = blocked,
               socketPath' \in Inodes \cup {NoInode}, listening' = listening,
               seen' \in [Servers -> Inodes \cup {NoInode}],
               to \in {"probe", "recheck"} => seen'[s] = socketPath', to = "bind" => socketPath' = NoInode
        PROVE  StartupInv'
    <2>1. Goes(s, to)
      BY <1>1, <1>4, <1>5 DEF Goes, StartSteps, RelayServed
    <2> QED
      BY <1>1, <1>2, <1>3, <1>4, <1>5, <2>1, PathStep DEF SocketHeld, RelayServed, WebServed, Closes
  <1>6. CASE LookAtPath(s)
    <2>1. PICK to \in {"bind", "probe"} : where' = [where EXCEPT ![s] = to] /\ (to = "bind" => socketPath = NoInode)
      BY <1>6 DEF LookAtPath, Moves
    <2>2. seen' = [seen EXCEPT ![s] = socketPath] /\ UNCHANGED <<blocked, socketPath, listening>>
      BY <1>6 DEF LookAtPath
    <2> QED
      BY <1>3, <1>5, <2>1, <2>2
  <1>7. CASE ProbeSocket(s)
    <2>1. ~Live(socketPath)
      BY <1>2, <1>3 DEF Live
    <2>2. Moves(s, "probe", "recheck") /\ UNCHANGED blocked /\ UNCHANGED <<socketPath, listening, seen>>
      BY <1>7, <2>1 DEF ProbeSocket, PathParts
    <2> QED
      BY <1>3, <1>5, <2>2 DEF Moves
  <1>8. CASE RecheckPath(s)
    <2>1. socketPath = seen[s]
      BY <1>3, <1>8 DEF RecheckPath, Moves, StartRefused
    <2>2. UNCHANGED blocked /\ UNCHANGED <<socketPath, listening, seen>>
      BY <1>8, <2>1 DEF RecheckPath, PathParts
    <2>3. PICK to \in {"bind", "remove"} : where' = [where EXCEPT ![s] = to] /\ (to = "bind" => socketPath = NoInode)
      BY <1>8, <2>1 DEF RecheckPath, Moves
    <2> QED
      BY <1>3, <1>5, <2>2, <2>3
  <1>9. CASE RemoveStale(s)
    <2>1. /\ where' = [where EXCEPT ![s] = "bind"] /\ socketPath' = NoInode
          /\ UNCHANGED <<blocked, listening, seen>>
      BY <1>9 DEF RemoveStale, Moves
    <2> QED
      BY <1>3, <1>5, <2>1
  <1>10. CASE BindSocket(s)
    <2>1. where[s] = "bind" /\ socketPath = NoInode
      BY <1>3, <1>10 DEF BindSocket, Moves, StartRefused
    <2>2. /\ where' = [where EXCEPT ![s] = "secure"] /\ UNCHANGED <<seen, blocked>>
      BY <1>10, <2>1 DEF BindSocket, Moves
    <2>3. PICK i \in Inodes : socketPath' = i /\ listening' = [listening EXCEPT ![i] = s]
      BY <1>10, <2>1 DEF BindSocket
    <2>4. Goes(s, "secure")
      BY <1>4, <2>1, <2>2 DEF Goes, StartSteps, RelayServed
    <2>5. /\ listening' \in [Inodes -> Servers \cup {NoServer}] /\ listening'[i] = s
          /\ \A j \in Inodes : listening'[j] = NoServer \/ listening'[j] = s
      BY <1>2, <1>3, <2>3
    <2> QED
      BY <1>3, <1>4, <2>1, <2>2, <2>3, <2>4, <2>5, PathStep DEF SocketHeld, RelayServed, WebServed, Closes
  <1> QED
    BY <1>6, <1>7, <1>8, <1>9, <1>10

LEMMA StartupSocket ==
    ASSUME StartupInv, NEW s \in Servers, address' = address,
           SecureSocket(s) \/ CloseListener(s) \/ UnlinkSocket(s)
    PROVE  StartupInv'
  <1>1. /\ socketPath \in Inodes \cup {NoInode} /\ listening \in [Inodes -> Servers \cup {NoServer}]
        /\ seen \in [Servers -> Inodes \cup {NoInode}]
        /\ where[s] = "secure" => socketPath \in Inodes /\ listening[socketPath] = s
    BY DEF StartupInv, StartupTypes, PathKept, SocketHeld
  <1>2. ASSUME NEW i \in Inodes, where[s] # "down" PROVE listening[i] \in {NoServer, s}
    <2>1. SUFFICES ASSUME listening[i] # NoServer PROVE listening[i] = s
      OBVIOUS
    <2>2. PICK t \in Servers : t = listening[i] /\ where[t] \in SocketHeld \cup {"closing"}
      BY <2>1 DEF StartupInv, StartupTypes, SocketsOwned
    <2> QED
      BY <1>2, <2>2 DEF StartupInv, OneUp, SocketHeld
  <1>3. CASE SecureSocket(s)
    <2>1. where[s] = "secure"
      BY <1>3 DEF SecureSocket, Moves, StartRefused
    <2>2. socketPath \in Own(s)
      BY <1>1, <2>1 DEF Own
    <2>3. /\ where' = [where EXCEPT ![s] = "web"] /\ UNCHANGED blocked
          /\ private' = private \cup ({socketPath} \ {NoInode})
          /\ UNCHANGED <<ports, socketPath, listening>> /\ UNCHANGED <<key, cert, made>> /\ lockHolder' = lockHolder
          /\ \E i \in Own(s) : seen' = [seen EXCEPT ![s] = i]
      BY <1>3, <2>2 DEF SecureSocket, Moves, FilesKept, PairParts
    <2>4. seen' \in [Servers -> Inodes \cup {NoInode}]
      BY <1>1, <2>3 DEF Own
    <2>5. socketPath' \in Inodes /\ listening'[socketPath'] = s /\ socketPath' \in private'
      BY <1>1, <2>1, <2>3, StartupAssumption
    <2>6. Goes(s, "web")
      BY <2>1, <2>3 DEF Goes, StartSteps, RelayServed
    <2> QED
      BY <1>1, <1>2, <2>1, <2>3, <2>4, <2>5, <2>6, PathStep DEF SocketHeld, RelayServed, WebServed, Closes
  <1>4. CASE CloseListener(s)
    <2>1. /\ where[s] = "closing" /\ lockHolder' = lockHolder /\ UNCHANGED <<blocked, key, cert>>
          /\ listening' = Silenced(s) /\ UNCHANGED <<ports, socketPath, private, seen, made>>
      BY <1>4 DEF CloseListener, GiveBack, GivesLock, Moves
    <2>2. PICK to \in {"ports", "compare"} : where' = [where EXCEPT ![s] = to]
      BY <1>4 DEF CloseListener, GiveBack, Moves
    <2>3. Goes(s, to)
      BY <2>1, <2>2 DEF Goes, StartSteps, Closes
    <2>4. \A i \in Inodes : listening'[i] = NoServer
      BY <1>2, <2>1 DEF Silenced
    <2>5. listening' \in [Inodes -> Servers \cup {NoServer}]
      BY <1>1, <2>1 DEF Silenced
    <2> QED
      BY <1>1, <2>1, <2>2, <2>3, <2>4, <2>5, PathStep DEF SocketHeld, RelayServed, WebServed, Closes
  <1>5. CASE UnlinkSocket(s)
    <2>1. /\ where[s] = "unlink" /\ lockHolder' = lockHolder /\ UNCHANGED <<blocked, key, cert>>
          /\ socketPath' = NoInode /\ UNCHANGED <<ports, listening, private, seen, made>>
          /\ where' = [where EXCEPT ![s] = "ports"]
      BY <1>5 DEF UnlinkSocket, GiveBack, GivesLock, Moves
    <2>2. Goes(s, "ports")
      BY <2>1 DEF Goes, StartSteps, Closes
    <2>3. \A i \in Inodes : listening[i] = NoServer
      BY <2>1, Silent DEF SocketHeld
    <2> QED
      BY <1>1, <2>1, <2>2, <2>3, PathStep DEF SocketHeld, RelayServed, WebServed, Closes
  <1> QED
    BY <1>3, <1>4, <1>5

(* Nobody is up, or the one that is holds no port.                         *)
LEMMA Idle ==
    ASSUME StartupInv, NEW s \in Servers, lockHolder \in {s, NoServer}, where[s] \notin RelayServed \cup Closes
    PROVE  /\ \A i \in Inodes : listening[i] = NoServer
           /\ \A p \in PortNames, a \in Addresses : ports[p][a] = NoServer
           /\ \A t \in Servers \ {s} : where[t] = "down"
  <1>1. \A t \in Servers : where[t] \notin RelayServed \cup Closes
    BY StartupAssumption DEF StartupInv, OneUp, RelayServed, Closes
  <1>2. \A i \in Inodes : listening[i] = NoServer
    BY <1>1 DEF StartupInv, StartupTypes, SocketsOwned, SocketHeld, RelayServed, Closes
  <1>3. \A p \in PortNames, a \in Addresses : ports[p][a] = NoServer
    <2>1. SUFFICES ASSUME NEW p \in PortNames, NEW a \in Addresses, ports[p][a] # NoServer PROVE FALSE
      OBVIOUS
    <2>2. PICK t \in Servers : t = ports[p][a] /\ where[t] \in RelayServed \cup WebServed \cup Closes
      BY <2>1 DEF StartupInv, StartupTypes, PortsOwned
    <2> QED
      BY <1>1, <2>2 DEF RelayServed, WebServed
  <1>4. \A t \in Servers \ {s} : where[t] = "down"
    BY StartupAssumption DEF StartupInv, OneUp
  <1> QED
    BY <1>2, <1>3, <1>4

(* Nothing is held, and at most one process is at its first or last steps. *)
LEMMA Unheld ==
    ASSUME StartupInv, NEW s \in Servers, NEW to \in {"down", "help", "unlock"}, where' = [where EXCEPT ![s] = to],
           address' = address, lockHolder' = IF to = "down" THEN NoServer ELSE s,
           \A t \in Servers \ {s} : where[t] = "down",
           ports' \in [PortNames -> [Addresses -> Servers \cup {NoServer}]],
           \A p \in PortNames, a \in Addresses : ports'[p][a] = NoServer,
           listening' \in [Inodes -> Servers \cup {NoServer}], \A i \in Inodes : listening'[i] = NoServer,
           UNCHANGED <<socketPath, key, cert>>,
           seen' \in [Servers -> Inodes \cup {NoInode}], made' \in [Servers -> Pairs \cup {NoPair}],
           DOMAIN blocked' = Servers, \A t \in Servers : blocked'[t] = "no"
    PROVE  StartupInv'
  <1>1. /\ where' \in [Servers -> StartSteps] /\ where'[s] = to
        /\ \A t \in Servers \ {s} : where'[t] = "down"
    BY DEF StartupInv, StartupTypes, StartSteps, Files
  <1>2. StartupTypes' /\ NothingLeftBlocks'
    BY <1>1 DEF StartupInv, StartupTypes, NothingLeftBlocks
  <1>3. OneUp'
    BY <1>1, StartupAssumption DEF OneUp
  <1>4. PortsOwned' /\ SocketsOwned'
    BY DEF PortsOwned, SocketsOwned
  <1>5. PortsServed' /\ PathKept'
    BY <1>1 DEF PortsServed, PathKept, RelayServed, WebServed, SocketHeld
  <1>6. PairsKept'
    BY <1>1 DEF StartupInv, PairsKept
  <1> QED
    BY <1>2, <1>3, <1>4, <1>5, <1>6 DEF StartupInv

LEMMA StartupHeld ==
    ASSUME StartupInv, NEW s \in Servers, address' = address,
           Acquire(s) \/ ClosePorts(s) \/ ReleaseLock(s) \/ ServerKilled(s)
    PROVE  StartupInv'
  <1>1. StartupTypes /\ OneUp /\ \A t \in Servers : blocked[t] = "no"
    BY DEF StartupInv, NothingLeftBlocks
  <1>2. /\ ports \in [PortNames -> [Addresses -> Servers \cup {NoServer}]] /\ DOMAIN blocked = Servers
        /\ listening \in [Inodes -> Servers \cup {NoServer}]
        /\ seen \in [Servers -> Inodes \cup {NoInode}] /\ made \in [Servers -> Pairs \cup {NoPair}]
    BY <1>1 DEF StartupTypes
  <1>3. CASE Acquire(s)
    <2>1. /\ where[s] = "down" /\ lockHolder = NoServer /\ where' = [where EXCEPT ![s] = "help"] /\ lockHolder' = s
          /\ blocked' = [blocked EXCEPT ![s] = "no"] /\ ports' = ports
          /\ UNCHANGED <<socketPath, listening, seen, key, cert, made>>
      BY <1>3 DEF Acquire, Moves, PathParts, PairParts
    <2>2. DOMAIN blocked' = Servers /\ \A t \in Servers : blocked'[t] = "no"
      BY <1>1, <1>2, <2>1
    <2>3. /\ \A i \in Inodes : listening[i] = NoServer
          /\ \A p \in PortNames, a \in Addresses : ports[p][a] = NoServer
          /\ \A t \in Servers \ {s} : where[t] = "down"
      BY <2>1, Idle DEF RelayServed, Closes
    <2> QED
      BY <1>2, <2>1, <2>2, <2>3, Unheld
  <1>4. ASSUME where[s] # "down"
        PROVE  /\ lockHolder = s /\ \A t \in Servers \ {s} : where[t] = "down"
               /\ Unbound(s) \in [PortNames -> [Addresses -> Servers \cup {NoServer}]]
               /\ \A p \in PortNames, a \in Addresses : Unbound(s)[p][a] = NoServer
               /\ Silenced(s) \in [Inodes -> Servers \cup {NoServer}]
               /\ \A i \in Inodes : Silenced(s)[i] = NoServer
    <2>1. lockHolder = s /\ \A t \in Servers \ {s} : where[t] = "down"
      BY <1>1, <1>4 DEF OneUp
    <2>2. ASSUME NEW p \in PortNames, NEW a \in Addresses PROVE ports[p][a] \in {NoServer, s}
      <3>1. SUFFICES ASSUME ports[p][a] # NoServer PROVE ports[p][a] = s
        OBVIOUS
      <3>2. PICK t \in Servers : t = ports[p][a] /\ where[t] \in RelayServed \cup WebServed \cup Closes
        BY <1>2, <3>1 DEF StartupInv, PortsOwned
      <3> QED
        BY <2>1, <3>2 DEF RelayServed, WebServed, Closes
    <2>3. ASSUME NEW i \in Inodes PROVE listening[i] \in {NoServer, s}
      <3>1. SUFFICES ASSUME listening[i] # NoServer PROVE listening[i] = s
        OBVIOUS
      <3>2. PICK t \in Servers : t = listening[i] /\ where[t] \in SocketHeld \cup {"closing"}
        BY <1>2, <3>1 DEF StartupInv, SocketsOwned
      <3> QED
        BY <2>1, <3>2 DEF SocketHeld
    <2> QED
      BY <1>2, <2>1, <2>2, <2>3 DEF Unbound, Silenced
  <1>5. CASE ClosePorts(s)
    <2>1. /\ where[s] = "ports" /\ where' = [where EXCEPT ![s] = "unlock"] /\ lockHolder' = lockHolder
          /\ ports' = Unbound(s) /\ UNCHANGED <<socketPath, listening, seen, key, cert, made, blocked>>
      BY <1>5 DEF ClosePorts, GiveBack, GivesLock, Moves, PathParts
    <2>2. \A i \in Inodes : listening[i] = NoServer
      BY <2>1, Silent DEF SocketHeld
    <2> QED
      BY <1>1, <1>2, <1>4, <2>1, <2>2, Unheld
  <1>6. ASSUME Forgets(s)
        PROVE  seen' \in [Servers -> Inodes \cup {NoInode}] /\ made' \in [Servers -> Pairs \cup {NoPair}]
    BY <1>2, <1>6 DEF Forgets
  <1>7. CASE ReleaseLock(s)
    <2>1. /\ where[s] = "unlock" /\ where' = [where EXCEPT ![s] = "down"]
          /\ lockHolder' = IF lockHolder = s THEN NoServer ELSE lockHolder
          /\ Forgets(s) /\ UNCHANGED <<ports, socketPath, listening, key, cert, blocked>>
      BY <1>7 DEF ReleaseLock, GiveBack, GivesLock, Moves
    <2>2. lockHolder = s
      BY <1>1, <2>1 DEF OneUp
    <2>3. /\ \A i \in Inodes : listening[i] = NoServer
          /\ \A p \in PortNames, a \in Addresses : ports[p][a] = NoServer
          /\ \A t \in Servers \ {s} : where[t] = "down"
      BY <2>1, <2>2, Idle DEF RelayServed, Closes
    <2> QED
      BY <1>1, <1>2, <1>6, <2>1, <2>2, <2>3, Unheld
  <1>8. CASE ServerKilled(s)
    <2>1. /\ where[s] # "down" /\ where' = [where EXCEPT ![s] = "down"]
          /\ lockHolder' = IF lockHolder = s THEN NoServer ELSE lockHolder
          /\ Forgets(s) /\ ports' = Unbound(s) /\ listening' = Silenced(s)
          /\ UNCHANGED <<socketPath, key, cert, blocked>>
      BY <1>8 DEF ServerKilled
    <2> QED
      BY <1>1, <1>2, <1>4, <1>6, <2>1, Unheld
  <1> QED
    BY <1>3, <1>5, <1>7, <1>8

LEMMA StartupStep == ASSUME StartupInv, [StartupNext]_startupVars PROVE StartupInv'
  <1>1. CASE UNCHANGED startupVars
    <2>1. StartupTypes' /\ OneUp' /\ NothingLeftBlocks'
      BY <1>1 DEF startupVars, StartupInv, StartupTypes, OneUp, NothingLeftBlocks
    <2>2. PortsOwned' /\ PortsServed'
      BY <1>1 DEF startupVars, StartupInv, PortsOwned, PortsServed
    <2>3. SocketsOwned' /\ PathKept' /\ PairsKept'
      BY <1>1 DEF startupVars, StartupInv, SocketsOwned, PathKept, PairsKept
    <2> QED
      BY <2>1, <2>2, <2>3 DEF StartupInv
  <1>2. CASE StartupNext
    BY <1>2, StartupFiles, StartupCertificate, StartupListen, StartupPath, StartupSocket, StartupHeld
       DEF StartupNext
  <1> QED
    BY <1>1, <1>2

LEMMA StartupStart == StartupInit => StartupInv
  <1> SUFFICES ASSUME StartupInit PROVE StartupInv
    OBVIOUS
  <1>1. /\ \A s \in Servers : where[s] = "down" /\ blocked[s] = "no"
        /\ \A p \in PortNames, a \in Addresses : ports[p][a] = NoServer
        /\ \A i \in Inodes : listening[i] = NoServer
        /\ lockHolder = NoServer /\ cert = NoPair
    BY DEF StartupInit, Down, Free
  <1>2. StartupTypes
    BY DEF StartupInit, StartupTypes, Down, Free, StartSteps
  <1>3. OneUp
    BY <1>1, StartupAssumption DEF OneUp
  <1> QED
    BY <1>1, <1>2, <1>3 DEF StartupInv, PortsOwned, PortsServed, SocketsOwned, PathKept, PairsKept, NothingLeftBlocks,
                            RelayServed, WebServed, SocketHeld

LEMMA ServingIsReached == StartupInv => ServerReachable
  <1> SUFFICES ASSUME StartupInv, NEW s \in Servers, where[s] = "serving"
               PROVE  /\ socketPath # NoInode /\ listening[socketPath] = s /\ socketPath \in private
                      /\ \A p \in PortNames : ports[p][address[s]] = s
    BY DEF ServerReachable
  <1>1. socketPath \in Inodes /\ listening[socketPath] = s /\ socketPath \in private
    BY DEF StartupInv, PathKept, SocketHeld
  <1>2. ports["relay"][address[s]] = s /\ ports["web"][address[s]] = s
    BY DEF StartupInv, PortsServed, RelayServed, WebServed
  <1> QED
    BY <1>1, <1>2, StartupAssumption DEF PortNames

(* However many servers of a bot start, fail and are killed, and whatever  *)
(* numbers the sockets had before, one that serves is reached at its own   *)
(* private socket and its own ports.                                       *)
THEOREM ServingServerReached == StartupSpec => []ServerReachable
  <1>1. StartupInv /\ [StartupNext]_startupVars => StartupInv'
    BY StartupStep
  <1> QED
    BY <1>1, StartupStart, ServingIsReached, PTL DEF StartupSpec

(* No start that has the lock ends because of what an earlier one left: a  *)
(* socket, a port, or one half of a certificate.                           *)
THEOREM LaterServerStarts == StartupSpec => []NothingLeftBlocks
  <1>1. StartupInv /\ [StartupNext]_startupVars => StartupInv'
    BY StartupStep
  <1>2. StartupInv => NothingLeftBlocks
    BY DEF StartupInv
  <1> QED
    BY <1>1, <1>2, StartupStart, PTL DEF StartupSpec
=============================================================================
