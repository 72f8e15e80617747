------------------------- MODULE NwkCounterProofs -------------------------
(***************************************************************************)
(* Proofs about NwkCounter: type correctness, that a reservation in flight *)
(* is always queued, and that until a key switch restarts the counter no   *)
(* pair (key, value) is used twice, however handlers, storage failures and *)
(* power losses interleave.                                                *)
(***************************************************************************)
EXTENDS NwkCounter, FrameCounterProofs

-----------------------------------------------------------------------------
(* The inductive invariant, by parts                                       *)

\* What a queue q of actions says about the counter c that filled it: at
\* most one reservation is queued, it is the one in flight, and it does not
\* lower the bound.
QueueMatches(q, c) ==
    /\ \A i \in 1 .. Len(q) : q[i].kind = "reserve" =>
          /\ q[i].bound = c.inFlight
          /\ c.inFlight # NoReservation
          /\ c.inFlight >= c.reserved
    /\ \A i, j \in 1 .. Len(q) :
          q[i].kind = "reserve" /\ q[j].kind = "reserve" => i = j

\* A reservation in flight is in the queue q.
Queued(q, c) ==
    c.inFlight # NoReservation =>
        \E i \in 1 .. Len(q) : q[i] = Reserve(c.inFlight)

\* Used values, the counter and the durable bound, in this order.
BoundsOrdered ==
    /\ \A s \in Seqs : used[s] < counter.next
    /\ counter.next <= counter.reserved
    /\ counter.reserved = DurableBound

NonceInv == ~wasReset => BoundsOrdered /\ QueueMatches(actions, counter)

-----------------------------------------------------------------------------
(* The counter                                                             *)

\* maybe_reserve_counter touches nothing but the reservation in flight.
LEMMA MaybeReserveFields ==
    ASSUME NEW c \in Counter
    PROVE  /\ MaybeReserve(c) \in Counter
           /\ MaybeReserve(c).next = c.next
           /\ MaybeReserve(c).reserved = c.reserved
<1>1. StartReservation(c) \in Counter
  BY CounterType
<1> QED
  BY <1>1 DEF MaybeReserve, StartReservation, Counter

-----------------------------------------------------------------------------
(* The queue and the counter that fills it                                 *)

\* Queueing a Persist changes nothing about reservations.
LEMMA PushPersist ==
    ASSUME NEW c \in Counter, NEW q \in Seq(ActionType)
    PROVE  /\ q \o <<Persist>> \in Seq(ActionType)
           /\ QueueMatches(q, c) => QueueMatches(q \o <<Persist>>, c)
           /\ Queued(q, c) => Queued(q \o <<Persist>>, c)
<1>1. Persist \in ActionType /\ Persist.kind # "reserve"
  BY DEF Persist, ActionType
<1>2. /\ q \o <<Persist>> \in Seq(ActionType)
      /\ Len(q \o <<Persist>>) = Len(q) + 1
      /\ \A i \in 1 .. Len(q) : (q \o <<Persist>>)[i] = q[i]
      /\ (q \o <<Persist>>)[Len(q) + 1] = Persist
  BY <1>1, PushFacts
<1>3. Len(q) \in Nat
  OBVIOUS
<1>4. QueueMatches(q, c) => QueueMatches(q \o <<Persist>>, c)
  BY <1>1, <1>2, <1>3 DEF QueueMatches
<1>5. Queued(q, c) => Queued(q \o <<Persist>>, c)
  BY <1>2, <1>3 DEF Queued
<1> QED
  BY <1>2, <1>4, <1>5

\* maybe_reserve_counter queues the reservation it puts in flight.
LEMMA PushReservation ==
    ASSUME NEW c \in Counter, NEW q \in Seq(ActionType)
    PROVE  /\ q \o ReservationAction(c) \in Seq(ActionType)
           /\ QueueMatches(q, c)
                 => QueueMatches(q \o ReservationAction(c), MaybeReserve(c))
           /\ Queued(q, c) => Queued(q \o ReservationAction(c), MaybeReserve(c))
<1>1. CASE ~NeedsReservation(c)
  <2>1. ReservationAction(c) = <<>> /\ MaybeReserve(c) = c
    BY <1>1 DEF ReservationAction, MaybeReserve
  <2> QED
    BY <2>1, PushNothing
<1>2. CASE NeedsReservation(c)
  <2> DEFINE t == ReservationTarget(c)
             e == Reserve(t)
             p == q \o <<e>>
             d == StartReservation(c)
  <2>1. t \in 0 .. MaxCounter /\ t >= c.reserved
    BY CounterType
  <2>2. ReservationAction(c) = <<e>> /\ MaybeReserve(c) = d
    BY <1>2 DEF ReservationAction, MaybeReserve
  <2>3. e \in ActionType /\ e.kind = "reserve" /\ e.bound = t
    BY <2>1 DEF Reserve, ActionType
  <2>4. d.inFlight = t /\ d.reserved = c.reserved
    BY DEF StartReservation, Counter
  <2>5. t # NoReservation /\ c.inFlight = NoReservation
    BY <1>2, <2>1, CounterAssumption DEF NeedsReservation, NoReservation
  <2> HIDE DEF t, d
  <2>6. /\ p \in Seq(ActionType)
        /\ Len(p) = Len(q) + 1
        /\ \A i \in 1 .. Len(q) : p[i] = q[i]
        /\ p[Len(q) + 1] = e
    BY <2>3, PushFacts
  <2>7. Len(q) \in Nat
    OBVIOUS
  <2> HIDE DEF e, p
  <2>8. QueueMatches(q, c) => QueueMatches(p, d)
    <3> SUFFICES ASSUME QueueMatches(q, c)
                 PROVE  QueueMatches(p, d)
      OBVIOUS
    <3>1. \A i \in 1 .. Len(q) : q[i].kind # "reserve"
      BY <2>5 DEF QueueMatches
    <3>2. \A i \in 1 .. Len(p) : p[i].kind = "reserve" => i = Len(q) + 1
      BY <3>1, <2>6, <2>7
    <3>3. p[Len(q) + 1].bound = t
      BY <2>3, <2>6
    <3> QED
      BY <2>1, <2>4, <2>5, <3>2, <3>3 DEF QueueMatches
  <2>9. Queued(p, d)
    BY <2>4, <2>6, <2>7 DEF Queued, e
  <2> QED
    BY <2>2, <2>6, <2>8, <2>9 DEF p
<1> QED
  BY <1>1, <1>2

\* Taking a Persist from the queue leaves the reservations in it.
LEMMA PopPersist ==
    ASSUME NEW c \in Counter, NEW q \in Seq(ActionType), q # <<>>,
           Head(q).kind # "reserve"
    PROVE  /\ Tail(q) \in Seq(ActionType)
           /\ QueueMatches(q, c) => QueueMatches(Tail(q), c)
           /\ Queued(q, c) => Queued(Tail(q), c)
<1>1. /\ Head(q) = q[1]
      /\ 1 \in 1 .. Len(q)
      /\ Tail(q) \in Seq(ActionType)
      /\ Len(Tail(q)) = Len(q) - 1
      /\ \A i \in 1 .. Len(Tail(q)) : Tail(q)[i] = q[i + 1]
  BY PopFacts
<1>2. Len(q) \in Nat
  OBVIOUS
<1>3. QueueMatches(q, c) => QueueMatches(Tail(q), c)
  BY <1>1, <1>2 DEF QueueMatches
<1>4. Queued(q, c) => Queued(Tail(q), c)
  <2> SUFFICES ASSUME Queued(q, c), c.inFlight # NoReservation
               PROVE  \E i \in 1 .. Len(Tail(q)) : Tail(q)[i] = Reserve(c.inFlight)
    BY DEF Queued
  <2>1. PICK j \in 1 .. Len(q) : q[j] = Reserve(c.inFlight)
    BY DEF Queued
  <2>2. j # 1
    BY <1>1, <2>1 DEF Reserve
  <2>3. j - 1 \in 1 .. Len(Tail(q)) /\ Tail(q)[j - 1] = q[j]
    BY <1>1, <1>2, <2>2
  <2> QED
    BY <2>1, <2>3
<1> QED
  BY <1>1, <1>3, <1>4

\* Taking a reservation from the queue, whether it is committed or aborted:
\* d is the counter afterwards.
LEMMA PopReservation ==
    ASSUME NEW c \in Counter, NEW d \in Counter, NEW q \in Seq(ActionType),
           q # <<>>, Head(q).kind = "reserve",
           d.inFlight \in {c.inFlight, NoReservation},
           c.inFlight = Head(q).bound => d.inFlight = NoReservation
    PROVE  /\ Tail(q) \in Seq(ActionType)
           /\ QueueMatches(q, c) => QueueMatches(Tail(q), d)
           /\ Queued(q, c) => Queued(Tail(q), d)
<1>1. /\ Head(q) = q[1]
      /\ 1 \in 1 .. Len(q)
      /\ Tail(q) \in Seq(ActionType)
      /\ Len(Tail(q)) = Len(q) - 1
      /\ \A i \in 1 .. Len(Tail(q)) : Tail(q)[i] = q[i + 1]
  BY PopFacts
<1>2. Len(q) \in Nat
  OBVIOUS
<1>3. QueueMatches(q, c) => QueueMatches(Tail(q), d)
  <2> SUFFICES ASSUME QueueMatches(q, c)
               PROVE  QueueMatches(Tail(q), d)
    OBVIOUS
  <2>1. \A i \in 1 .. Len(q) : q[i].kind = "reserve" => i = 1
    BY <1>1 DEF QueueMatches
  <2>2. \A i \in 1 .. Len(Tail(q)) : Tail(q)[i].kind # "reserve"
    BY <1>1, <1>2, <2>1
  <2> QED
    BY <2>2 DEF QueueMatches
<1>4. Queued(q, c) => Queued(Tail(q), d)
  <2> SUFFICES ASSUME Queued(q, c), d.inFlight # NoReservation
               PROVE  \E i \in 1 .. Len(Tail(q)) : Tail(q)[i] = Reserve(d.inFlight)
    BY DEF Queued
  <2>1. d.inFlight = c.inFlight /\ c.inFlight # Head(q).bound
    OBVIOUS
  <2>2. PICK j \in 1 .. Len(q) : q[j] = Reserve(c.inFlight)
    BY <2>1 DEF Queued
  <2>3. j # 1
    BY <1>1, <2>1, <2>2 DEF Reserve
  <2>4. j - 1 \in 1 .. Len(Tail(q)) /\ Tail(q)[j - 1] = q[j]
    BY <1>1, <1>2, <2>3
  <2> QED
    BY <2>1, <2>2, <2>4
<1> QED
  BY <1>1, <1>3, <1>4

-----------------------------------------------------------------------------
(* Type correctness                                                        *)

\* Installing a key keeps the active one.
LEMMA InstalledType ==
    ASSUME NEW seq \in Seqs, slots \subseteq Seqs, active \in {NoSeq} \cup slots,
           NEW new \in Installed(seq)
    PROVE  new \subseteq Seqs /\ seq \in new /\ active \in {NoSeq} \cup new
  BY DEF Installed

\* A handler that secures a frame, or finds no value for it, keeps the types.
LEMMA FinalizeType ==
    ASSUME TypeInvariant, active # NoSeq, Secured \/ Unsecured
    PROVE  /\ counter' \in Counter
           /\ actions' \in Seq(ActionType)
           /\ used' \in [Seqs -> {NoValue} \cup (0 .. MaxCounter)]
<1>1. CASE Secured
  <2>1. counter \in Counter /\ CanAllocate(counter) /\ Allocate(counter) \in Counter
    BY <1>1, CounterType DEF Secured, TypeInvariant
  <2>2. counter' \in Counter /\ actions' \in Seq(ActionType)
    BY <1>1, <2>1, MaybeReserveFields, PushReservation DEF Secured, TypeInvariant
  <2>3. counter.next \in 0 .. MaxCounter /\ active \in Seqs
    BY <2>1 DEF Counter, TypeInvariant
  <2>4. used' \in [Seqs -> {NoValue} \cup (0 .. MaxCounter)]
    BY <1>1, <2>3 DEF Secured, TypeInvariant
  <2> QED
    BY <2>2, <2>4
<1>2. CASE Unsecured
  BY <1>2, MaybeReserveFields, PushReservation DEF Unsecured, TypeInvariant
<1> QED
  BY <1>1, <1>2

\* Every step keeps the types.
LEMMA TypeStep == TypeInvariant /\ [Next]_vars => TypeInvariant'
<1> SUFFICES ASSUME TypeInvariant, [Next]_vars
             PROVE  TypeInvariant'
  OBVIOUS
<1> USE CounterAssumption, NwkAssumption
<1>1. ASSUME NEW seq \in Seqs, SetActiveKey(seq)
      PROVE  TypeInvariant'
  <2>1. slots' \subseteq Seqs /\ seq \in slots'
    BY <1>1, InstalledType DEF SetActiveKey, TypeInvariant
  <2>2. counter' \in Counter /\ actions' \in Seq(ActionType)
    BY <1>1, MaybeReserveFields, PushReservation, PushPersist DEF SetActiveKey, TypeInvariant
  <2> QED
    BY <1>1, <2>1, <2>2 DEF SetActiveKey, TypeInvariant
<1>2. ASSUME NEW seq \in Seqs, SetAlternateKey(seq)
      PROVE  TypeInvariant'
  <2>1. slots' \subseteq Seqs /\ active \in {NoSeq} \cup slots'
    BY <1>2, InstalledType DEF SetAlternateKey, TypeInvariant
  <2>2. counter' \in Counter /\ actions' \in Seq(ActionType)
    BY <1>2, MaybeReserveFields, PushReservation, PushPersist DEF SetAlternateKey, TypeInvariant
  <2> QED
    BY <1>2, <2>1, <2>2 DEF SetAlternateKey, TypeInvariant
<1>3. ASSUME NEW seq \in Seqs, SwitchNetworkKey(seq)
      PROVE  TypeInvariant'
  <2> DEFINE c == IF seq # active THEN OnKeySwitch(counter) ELSE counter
  <2>1. c \in Counter
    BY CounterType DEF TypeInvariant
  <2>2. counter' = MaybeReserve(c) /\ actions' = actions \o ReservationAction(c) \o <<Persist>>
    BY <1>3 DEF SwitchNetworkKey
  <2> HIDE DEF c
  <2>3. counter' \in Counter /\ actions' \in Seq(ActionType)
    BY <2>1, <2>2, MaybeReserveFields, PushReservation, PushPersist DEF TypeInvariant
  <2> QED
    BY <1>3, <2>3 DEF SwitchNetworkKey, TypeInvariant
<1>4. ASSUME NEW rejoin \in BOOLEAN, Leave(rejoin)
      PROVE  TypeInvariant'
  <2>1. Persist \in ActionType
    BY DEF Persist, ActionType
  <2>2. actions' \in Seq(ActionType)
    BY <1>4, <2>1 DEF Leave, TypeInvariant
  <2> QED
    BY <1>4, <2>2 DEF Leave, TypeInvariant
<1>5. CASE SendFrame
  <2>1. /\ counter' \in Counter /\ actions' \in Seq(ActionType)
        /\ used' \in [Seqs -> {NoValue} \cup (0 .. MaxCounter)]
    BY <1>5, FinalizeType DEF SendFrame
  <2>2. waiting' \in 0 .. MaxWaiting
    BY <1>5 DEF SendFrame, TypeInvariant
  <2> QED
    BY <1>5, <2>1, <2>2 DEF SendFrame, TypeInvariant
<1>6. CASE RetryFrame
  <2>1. /\ counter' \in Counter /\ actions' \in Seq(ActionType)
        /\ used' \in [Seqs -> {NoValue} \cup (0 .. MaxCounter)]
    BY <1>6, FinalizeType DEF RetryFrame
  <2>2. waiting' \in 0 .. MaxWaiting
    BY <1>6 DEF RetryFrame, TypeInvariant
  <2> QED
    BY <1>6, <2>1, <2>2 DEF RetryFrame, TypeInvariant
<1>7. CASE PumpReserveOk
  <2>1. Head(actions) \in ActionType /\ Tail(actions) \in Seq(ActionType)
    BY <1>7, PopFacts DEF PumpReserveOk, TypeInvariant
  <2>2. Head(actions).bound \in {NoReservation} \cup (0 .. MaxCounter)
    BY <2>1 DEF ActionType
  <2>3. counter' \in Counter
    BY <1>7, <2>2, CommitFields DEF PumpReserveOk, TypeInvariant
  <2>4. nv' \in Records /\ nv'.active \in {NoSeq} \cup nv'.slots
    BY <1>7, <2>2 DEF PumpReserveOk, TypeInvariant, Records, NoRecord, NoReservation
  <2> QED
    BY <1>7, <2>1, <2>3, <2>4 DEF PumpReserveOk, TypeInvariant
<1>8. CASE PumpReserveFails
  BY <1>8, PopFacts, CounterType DEF PumpReserveFails, TypeInvariant
<1>9. ASSUME NEW n \in BOOLEAN, NEW k \in BOOLEAN, PumpPersist(n, k)
      PROVE  TypeInvariant'
  <2>1. actions' \in Seq(ActionType)
    BY <1>9, PopFacts DEF PumpPersist, TypeInvariant
  <2>2. nv' \in Records /\ nv'.active \in {NoSeq} \cup nv'.slots
    BY <1>9 DEF PumpPersist, TypeInvariant, Records
  <2> QED
    BY <1>9, <2>1, <2>2 DEF PumpPersist, TypeInvariant
<1>10. ASSUME NEW k \in BOOLEAN, FactoryReset(k)
       PROVE  TypeInvariant'
  <2>1. nv' \in Records /\ nv'.active \in {NoSeq} \cup nv'.slots
    BY <1>10 DEF FactoryReset, TypeInvariant, Records
  <2> QED
    BY <1>10, <2>1 DEF FactoryReset, TypeInvariant
<1>11. CASE Restart
  <2>1. DurableBound \in 0 .. MaxCounter
    BY DEF DurableBound, TypeInvariant, Records, NoRecord
  <2>2. counter' \in Counter
    BY <1>11, <2>1 DEF Restart, Restore, Counter
  <2>3. slots' \subseteq Seqs /\ active' \in {NoSeq} \cup slots'
    BY <1>11 DEF Restart, TypeInvariant, Records
  <2> QED
    BY <1>11, <2>2, <2>3 DEF Restart, TypeInvariant
<1>12. CASE UNCHANGED vars
  BY <1>12 DEF vars, TypeInvariant
<1> QED
  BY <1>1, <1>2, <1>3, <1>4, <1>5, <1>6, <1>7, <1>8, <1>9, <1>10, <1>11, <1>12 DEF Next

\* The initial state has its types.
LEMMA TypeInit == Init => TypeInvariant
<1> SUFFICES ASSUME Init
             PROVE  TypeInvariant
  OBVIOUS
<1> USE CounterAssumption, NwkAssumption
<1>1. counter \in Counter
  BY DEF Init, NewCounter, Restore, Counter, NoReservation
<1>2. nv \in Records /\ nv.active \in {NoSeq} \cup nv.slots
  BY DEF Init, Records, NoRecord, NoSeq
<1>3. used \in [Seqs -> {NoValue} \cup (0 .. MaxCounter)]
  BY DEF Init
<1>4. actions \in Seq(ActionType) /\ waiting \in 0 .. MaxWaiting
  BY DEF Init
<1> QED
  BY <1>1, <1>2, <1>3, <1>4 DEF Init, TypeInvariant

\* Every reachable state of the NWK layer and its records is well typed, and
\* the active key is installed, in memory and in storage.
THEOREM TypeCorrect == Spec => []TypeInvariant
  BY TypeInit, TypeStep, PTL DEF Spec

-----------------------------------------------------------------------------
(* A reservation in flight is queued                                       *)

\* finalize_frame keeps the queue and the counter in step.
LEMMA FinalizeQueue ==
    ASSUME TypeInvariant, Secured \/ Unsecured
    PROVE  /\ Queued(actions, counter) => Queued(actions', counter')
           /\ QueueMatches(actions, counter) => QueueMatches(actions', counter')
<1>1. CASE Secured
  <2> DEFINE c == Allocate(counter)
  <2>1. c \in Counter /\ c.inFlight = counter.inFlight /\ c.reserved = counter.reserved
    BY <1>1, CounterType DEF Secured, TypeInvariant, Allocate, Counter
  <2>2. counter' = MaybeReserve(c) /\ actions' = actions \o ReservationAction(c)
    BY <1>1 DEF Secured
  <2> HIDE DEF c
  <2>3. /\ Queued(actions, counter) => Queued(actions, c)
        /\ QueueMatches(actions, counter) => QueueMatches(actions, c)
    BY <2>1 DEF Queued, QueueMatches
  <2> QED
    BY <2>1, <2>2, <2>3, PushReservation DEF TypeInvariant
<1>2. CASE Unsecured
  BY <1>2, PushReservation DEF Unsecured, TypeInvariant
<1> QED
  BY <1>1, <1>2

\* Every step keeps a reservation in flight in the queue.
LEMMA QueuedStep ==
    TypeInvariant /\ InFlightIsQueued /\ [Next]_vars => InFlightIsQueued'
<1> SUFFICES ASSUME TypeInvariant, Queued(actions, counter), [Next]_vars
             PROVE  Queued(actions', counter')
  BY DEF InFlightIsQueued, Queued
<1>0. counter \in Counter /\ actions \in Seq(ActionType)
  BY DEF TypeInvariant
<1>1. ASSUME NEW seq \in Seqs, SetActiveKey(seq)
      PROVE  Queued(actions', counter')
  BY <1>0, <1>1, MaybeReserveFields, PushReservation, PushPersist DEF SetActiveKey
<1>2. ASSUME NEW seq \in Seqs, SetAlternateKey(seq)
      PROVE  Queued(actions', counter')
  BY <1>0, <1>2, MaybeReserveFields, PushReservation, PushPersist DEF SetAlternateKey
<1>3. ASSUME NEW seq \in Seqs, SwitchNetworkKey(seq)
      PROVE  Queued(actions', counter')
  <2> DEFINE c == IF seq # active THEN OnKeySwitch(counter) ELSE counter
  <2>1. c \in Counter
    BY <1>0, CounterType
  <2>2. Queued(actions, c)
    BY DEF OnKeySwitch, NewCounter, Restore, Queued
  <2>3. counter' = MaybeReserve(c) /\ actions' = actions \o ReservationAction(c) \o <<Persist>>
    BY <1>3 DEF SwitchNetworkKey
  <2> HIDE DEF c
  <2> QED
    BY <1>0, <2>1, <2>2, <2>3, MaybeReserveFields, PushReservation, PushPersist
<1>4. ASSUME NEW rejoin \in BOOLEAN, Leave(rejoin)
      PROVE  Queued(actions', counter')
  <2>1. actions' = actions \o <<Persist>> /\ counter' = counter
    BY <1>0, <1>4 DEF Leave, Persist, ActionType
  <2> QED
    BY <1>0, <2>1, PushPersist
<1>5. CASE SendFrame \/ RetryFrame
  BY <1>5, FinalizeQueue DEF SendFrame, RetryFrame
<1>6. CASE PumpReserveOk
  <2>1. Head(actions) \in ActionType
    BY <1>0, <1>6, PopFacts DEF PumpReserveOk
  <2>2. Head(actions).bound \in {NoReservation} \cup (0 .. MaxCounter)
    BY <2>1 DEF ActionType
  <2> QED
    BY <1>0, <1>6, <2>2, CommitFields, PopReservation DEF PumpReserveOk
<1>7. CASE PumpReserveFails
  <2>1. counter' \in Counter /\ counter'.inFlight = NoReservation
    BY <1>0, <1>7, CounterType DEF PumpReserveFails, AbortReservation, Counter
  <2> QED
    BY <2>1 DEF Queued
<1>8. ASSUME NEW n \in BOOLEAN, NEW k \in BOOLEAN, PumpPersist(n, k)
      PROVE  Queued(actions', counter')
  BY <1>0, <1>8, PopPersist DEF PumpPersist
<1>9. ASSUME NEW k \in BOOLEAN, FactoryReset(k)
      PROVE  Queued(actions', counter')
  BY <1>9 DEF FactoryReset
<1>10. CASE Restart
  BY <1>10 DEF Restart, Restore, Queued
<1>11. CASE UNCHANGED vars
  BY <1>11 DEF vars
<1> QED
  BY <1>1, <1>2, <1>3, <1>4, <1>5, <1>6, <1>7, <1>8, <1>9, <1>10, <1>11 DEF Next

\* A reservation that is in flight is on its way to storage, so the counter
\* can always ask for the next one: no interleaving of sends, key switches,
\* failed writes and restarts leaves it waiting for an answer that nobody
\* will give.
THEOREM ReservationNeverLost == Spec => []InFlightIsQueued
<1>1. Init => InFlightIsQueued
  BY DEF Init, NewCounter, Restore, InFlightIsQueued
<1> QED
  BY <1>1, TypeCorrect, QueuedStep, PTL DEF Spec

-----------------------------------------------------------------------------
(* No value is used twice                                                  *)

\* finalize_frame hands out a value above every used one and below the
\* durable bound.
LEMMA FinalizeBounds ==
    ASSUME TypeInvariant, active # NoSeq, BoundsOrdered, Secured \/ Unsecured,
           UNCHANGED nv
    PROVE  BoundsOrdered'
<1>0. counter \in Counter /\ active \in Seqs
  BY DEF TypeInvariant
<1>1. CASE Secured
  <2>1. /\ Allocate(counter) \in Counter
        /\ Allocate(counter).next = counter.next + 1
        /\ Allocate(counter).reserved = counter.reserved
        /\ counter.next < counter.reserved
    BY <1>0, <1>1, CounterType DEF Secured, Allocate, CanAllocate, Counter
  <2>2. counter'.next = counter.next + 1 /\ counter'.reserved = counter.reserved
    BY <1>1, <2>1, MaybeReserveFields DEF Secured
  <2>3. counter.next \in Nat /\ counter.reserved \in Nat
    BY <1>0, CounterAssumption DEF Counter
  <2>4. \A s \in Seqs : used[s] \in Int
    BY CounterAssumption DEF TypeInvariant, NoValue
  <2>5. \A s \in Seqs : used'[s] \in {used[s], counter.next}
    BY <1>0, <1>1 DEF Secured, TypeInvariant
  <2>6. \A s \in Seqs : used'[s] < counter.next + 1
    BY <2>3, <2>4, <2>5 DEF BoundsOrdered
  <2> QED
    BY <2>1, <2>2, <2>3, <2>6 DEF BoundsOrdered, DurableBound
<1>2. CASE Unsecured
  BY <1>0, <1>2, MaybeReserveFields DEF Unsecured, BoundsOrdered, DurableBound
<1> QED
  BY <1>1, <1>2

\* The counter fields a step leaves alone keep the order of the bounds.
LEMMA SameBounds ==
    ASSUME BoundsOrdered, used' = used, nv'.bound = nv.bound,
           counter'.next = counter.next, counter'.reserved = counter.reserved
    PROVE  BoundsOrdered'
  BY DEF BoundsOrdered, DurableBound

\* Every step keeps NonceInv; a step that resets the counter ends it.
LEMMA NonceStep ==
    TypeInvariant /\ NonceInv /\ [Next]_vars => NonceInv'
<1> SUFFICES ASSUME TypeInvariant, NonceInv, [Next]_vars, ~wasReset'
             PROVE  BoundsOrdered' /\ QueueMatches(actions', counter')
  BY DEF NonceInv, QueueMatches
<1> USE DEF NonceInv
<1>0. counter \in Counter /\ actions \in Seq(ActionType)
  BY DEF TypeInvariant
<1>1. ASSUME NEW seq \in Seqs, SetActiveKey(seq)
      PROVE  BoundsOrdered' /\ QueueMatches(actions', counter')
  <2>1. BoundsOrdered'
    BY <1>0, <1>1, MaybeReserveFields, SameBounds DEF SetActiveKey
  <2>2. QueueMatches(actions', counter')
    BY <1>0, <1>1, MaybeReserveFields, PushReservation, PushPersist DEF SetActiveKey
  <2> QED
    BY <2>1, <2>2
<1>2. ASSUME NEW seq \in Seqs, SetAlternateKey(seq)
      PROVE  BoundsOrdered' /\ QueueMatches(actions', counter')
  <2>1. BoundsOrdered'
    BY <1>0, <1>2, MaybeReserveFields, SameBounds DEF SetAlternateKey
  <2>2. QueueMatches(actions', counter')
    BY <1>0, <1>2, MaybeReserveFields, PushReservation, PushPersist DEF SetAlternateKey
  <2> QED
    BY <2>1, <2>2
<1>3. ASSUME NEW seq \in Seqs, SwitchNetworkKey(seq)
      PROVE  BoundsOrdered' /\ QueueMatches(actions', counter')
  <2>1. ~wasReset /\ (seq # active => ~SwitchResets(counter))
    BY <1>3 DEF SwitchNetworkKey, TypeInvariant
  <2>2. /\ counter' = MaybeReserve(counter)
        /\ actions' = actions \o ReservationAction(counter) \o <<Persist>>
    BY <1>3, <2>1 DEF SwitchNetworkKey, OnKeySwitch
  <2>3. BoundsOrdered'
    BY <1>0, <1>3, <2>1, <2>2, MaybeReserveFields, SameBounds DEF SwitchNetworkKey
  <2>4. QueueMatches(actions', counter')
    BY <1>0, <2>1, <2>2, MaybeReserveFields, PushReservation, PushPersist
  <2> QED
    BY <2>3, <2>4
<1>4. ASSUME NEW rejoin \in BOOLEAN, Leave(rejoin)
      PROVE  BoundsOrdered' /\ QueueMatches(actions', counter')
  <2>1. actions' = actions \o <<Persist>> /\ counter' = counter
    BY <1>0, <1>4 DEF Leave, Persist, ActionType
  <2>2. BoundsOrdered'
    BY <1>4, <2>1, SameBounds DEF Leave
  <2>3. QueueMatches(actions', counter')
    BY <1>0, <1>4, <2>1, PushPersist DEF Leave
  <2> QED
    BY <2>2, <2>3
<1>5. CASE SendFrame \/ RetryFrame
  BY <1>5, FinalizeBounds, FinalizeQueue DEF SendFrame, RetryFrame
<1>6. CASE PumpReserveOk
  <2> DEFINE b == Head(actions).bound
  <2>1. /\ Head(actions) = actions[1] /\ 1 \in 1 .. Len(actions)
        /\ Head(actions) \in ActionType
    BY <1>0, <1>6, PopFacts DEF PumpReserveOk
  <2>2. b \in {NoReservation} \cup (0 .. MaxCounter)
    BY <2>1 DEF ActionType
  <2>3. b = counter.inFlight /\ b # NoReservation /\ b >= counter.reserved
    BY <1>6, <2>1 DEF PumpReserveOk, QueueMatches
  <2>4. /\ counter' \in Counter
        /\ counter'.next = counter.next
        /\ counter'.reserved = IF b > counter.reserved THEN b ELSE counter.reserved
        /\ counter'.inFlight = NoReservation
    BY <1>0, <1>6, <2>2, <2>3, CommitFields DEF PumpReserveOk
  <2>5. b \in Nat /\ counter.reserved \in Nat /\ counter.next \in Nat
    BY <1>0, <2>2, <2>3, CounterAssumption DEF Counter
  <2>6. counter'.reserved = b
    BY <2>3, <2>4, <2>5
  <2>7. DurableBound' = b
    BY <1>6, <2>3 DEF PumpReserveOk, DurableBound, NoRecord, NoReservation,
                      TypeInvariant, Records
  <2>8. BoundsOrdered'
    BY <1>6, <2>3, <2>4, <2>5, <2>6, <2>7 DEF BoundsOrdered, PumpReserveOk
  <2>9. QueueMatches(actions', counter')
    BY <1>0, <1>6, <2>3, <2>4, PopReservation DEF PumpReserveOk
  <2> QED
    BY <2>8, <2>9
<1>7. CASE PumpReserveFails
  <2>1. /\ counter' \in Counter /\ counter'.inFlight = NoReservation
        /\ counter'.next = counter.next /\ counter'.reserved = counter.reserved
    BY <1>0, <1>7, CounterType DEF PumpReserveFails, AbortReservation, Counter
  <2>2. BoundsOrdered'
    BY <1>7, <2>1, SameBounds DEF PumpReserveFails
  <2>3. QueueMatches(actions', counter')
    BY <1>0, <1>7, <2>1, PopReservation DEF PumpReserveFails
  <2> QED
    BY <2>2, <2>3
<1>8. ASSUME NEW n \in BOOLEAN, NEW k \in BOOLEAN, PumpPersist(n, k)
      PROVE  BoundsOrdered' /\ QueueMatches(actions', counter')
  <2>1. nv'.bound = nv.bound
    BY <1>8 DEF PumpPersist, TypeInvariant, Records
  <2>2. BoundsOrdered'
    BY <1>8, <2>1, SameBounds DEF PumpPersist
  <2>3. QueueMatches(actions', counter')
    BY <1>0, <1>8, PopPersist DEF PumpPersist
  <2> QED
    BY <2>2, <2>3
<1>9. ASSUME NEW k \in BOOLEAN, FactoryReset(k)
      PROVE  BoundsOrdered' /\ QueueMatches(actions', counter')
  <2>1. nv'.bound = nv.bound
    BY <1>9 DEF FactoryReset, TypeInvariant, Records
  <2> QED
    BY <1>9, <2>1, SameBounds DEF FactoryReset
<1>10. CASE Restart
  <2>1. counter'.next = DurableBound /\ counter'.reserved = DurableBound
    BY <1>10 DEF Restart, Restore
  <2>2. DurableBound \in Nat
    BY CounterAssumption DEF DurableBound, TypeInvariant, Records, NoRecord
  <2>3. \A s \in Seqs : used[s] \in Int /\ used[s] < DurableBound
    <3>1. \A s \in Seqs : used[s] \in Int
      BY CounterAssumption DEF TypeInvariant, NoValue
    <3>2. counter.next \in Nat /\ counter.reserved \in Nat
      BY <1>0, CounterAssumption DEF Counter
    <3> QED
      BY <1>10, <2>2, <3>1, <3>2 DEF Restart, BoundsOrdered
  <2>4. BoundsOrdered'
    BY <1>10, <2>1, <2>2, <2>3 DEF Restart, BoundsOrdered, DurableBound
  <2>5. QueueMatches(actions', counter')
    BY <1>10 DEF Restart, QueueMatches
  <2> QED
    BY <2>4, <2>5
<1>11. CASE UNCHANGED vars
  BY <1>11, SameBounds DEF vars
<1> QED
  BY <1>1, <1>2, <1>3, <1>4, <1>5, <1>6, <1>7, <1>8, <1>9, <1>10, <1>11 DEF Next

\* The order of used values, counter and durable bound holds in every
\* reachable state before a reset.
LEMMA NonceInvariant == Spec => []NonceInv
<1>1. Init => NonceInv
  BY CounterAssumption
     DEF Init, NonceInv, BoundsOrdered, QueueMatches, DurableBound, NewCounter,
         Restore, NoValue, NoRecord
<1> QED
  BY <1>1, TypeCorrect, NonceStep, PTL DEF Spec

\* Until a key switch restarts the counter, no pair of key and counter value
\* is used for two frames, for every window, margin, counter width and number
\* of keys, across any number of power losses and failed writes.
THEOREM NoNonceReuse == Spec => []FreshUntilReset
<1>1. TypeInvariant /\ NonceInv => FreshUntilReset
  BY DEF TypeInvariant, NonceInv, BoundsOrdered, FreshUntilReset, FreshNonce
<1> QED
  BY <1>1, TypeCorrect, NonceInvariant, PTL

\* Until a key switch restarts the counter, the bound below which frames are
\* secured is the one in storage.
THEOREM TrustedBoundDurable == Spec => []DurableUntilReset
<1>1. TypeInvariant /\ NonceInv => DurableUntilReset
  BY CounterAssumption DEF TypeInvariant, NonceInv, BoundsOrdered, DurableUntilReset,
                           TrustedBoundIsDurable, Counter
<1> QED
  BY <1>1, TypeCorrect, NonceInvariant, PTL

\* The stored bound never moves back before a counter reset.
THEOREM StoredBoundMonotone == Spec => BoundMonotone
<1>1. ASSUME TypeInvariant, NonceInv, [Next]_vars, ~wasReset'
      PROVE  nv.bound <= nv'.bound
  <2>0. nv.bound \in Int
    BY <1>1, CounterAssumption DEF TypeInvariant, Records, NoRecord
  <2>1. CASE PumpReserveOk
    <3>1. ~wasReset
      BY <1>1, <2>1 DEF PumpReserveOk
    <3>2. Head(actions) = actions[1] /\ 1 \in 1 .. Len(actions)
      BY <1>1, <2>1, PopFacts DEF PumpReserveOk, TypeInvariant
    <3>3. nv'.bound = counter.inFlight /\ counter.inFlight >= DurableBound
      BY <1>1, <2>1, <3>1, <3>2
         DEF PumpReserveOk, NonceInv, BoundsOrdered, QueueMatches, TypeInvariant, Records
    <3>4. counter.inFlight \in Int
      BY <1>1, CounterAssumption DEF TypeInvariant, Counter, NoReservation
    <3> QED
      BY <2>0, <3>3, <3>4, CounterAssumption DEF DurableBound, NoRecord
  <2>2. CASE nv'.bound = nv.bound
    BY <2>0, <2>2
  <2>3. PumpReserveOk \/ nv'.bound = nv.bound
    BY <1>1 DEF Next, vars, SetActiveKey, SetAlternateKey, SwitchNetworkKey, Leave,
                SendFrame, RetryFrame, PumpReserveFails, PumpPersist, FactoryReset,
                Restart, TypeInvariant, Records
  <2> QED
    BY <2>1, <2>2, <2>3
<1>2. TypeInvariant /\ NonceInv /\ [Next]_vars => [~wasReset' => nv.bound <= nv'.bound]_vars
  BY <1>1
<1> QED
  BY <1>2, TypeCorrect, NonceInvariant, PTL DEF Spec, BoundMonotone
=============================================================================
