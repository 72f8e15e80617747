-------------------------- MODULE LinkKeysProofs --------------------------
(***************************************************************************)
(* Proofs about LinkKeys: type correctness and, as long as nothing that    *)
(* disturbed records happened, that a value is never used twice with a     *)
(* link key, that a restart resumes above every value used, and that a     *)
(* reservation in flight is on its way to storage.                         *)
(***************************************************************************)
EXTENDS LinkKeys, FrameCounterProofs

-----------------------------------------------------------------------------
(* The inductive invariant, by parts                                       *)

IsReserve(q, i) == q[i].kind = "reserve"
HasPersist(q) == \E i \in 1 .. Len(q) : q[i].kind = "persist"

\* The reservations queued in q are those of the counter c: none lowers the
\* bound it trusts or exceeds the one it would ask for now, and the queue
\* carries them in ascending order. There may be several: an entry that is
\* installed and replaced by one answer asks twice, and a failed write ends
\* every reservation in flight.
Ascending(q) ==
    \A i, j \in 1 .. Len(q) : i <= j /\ IsReserve(q, i) /\ IsReserve(q, j)
                                 => q[i].bound <= q[j].bound
Within(q, c) ==
    \A i \in 1 .. Len(q) : IsReserve(q, i) =>
        c.reserved <= q[i].bound /\ q[i].bound <= ReservationTarget(c)

\* A reservation in flight is in the queue q.
Queued(q, c) ==
    c.inFlight # NoReservation =>
        \E i \in 1 .. Len(q) : q[i] = Reserve(c.inFlight)

\* The keys made so far, and nothing else, are in use; a key under
\* negotiation secures nothing before it is verified, so that deriving it a
\* second time may start its counter again.
KeysInv ==
    /\ \A k \in KeyIds : k > lastKey => used[k] = NoValue
    /\ nv.key <= lastKey
    /\ entry.key <= lastKey
    /\ session.phase = "verifying" =>
          /\ session.key <= lastKey
          /\ used[session.key] = NoValue
          /\ entry # NoEntry /\ entry.key = session.key => ~entry.usable

\* The entry's counter: used values, next value, trusted bound, durable
\* bound, in this order, the queue included.
EntryInv ==
    entry # NoEntry =>
        /\ used[entry.key] < entry.outgoing.next
        /\ entry.outgoing.next <= entry.outgoing.reserved
        /\ nv.counter # NoRecord => entry.outgoing.reserved <= nv.counter
        /\ nv.key = entry.key => entry.outgoing.reserved <= RestoredBound
        /\ Within(actions, entry.outgoing)
        /\ Queued(actions, entry.outgoing)

\* The record of another key is overwritten before a reservation of this
\* entry reaches storage: a reservation queued in q has a Persist ahead of
\* it, or is above every value in u used with the key that is stored.
Covered(q, key, u) ==
    \A i \in 1 .. Len(q) : IsReserve(q, i) =>
        \/ \E j \in 1 .. i : q[j].kind = "persist"
        \/ key = NoKey
        \/ u[key] < q[i].bound
RecordsInv ==
    /\ nv.key # NoKey => used[nv.key] < RestoredBound
    /\ entry # NoEntry /\ nv.key \notin {NoKey, entry.key} => HasPersist(actions)
    /\ Covered(actions, nv.key, used)

LinkInv == ~disturbed => KeysInv /\ EntryInv /\ Ascending(actions) /\ RecordsInv

-----------------------------------------------------------------------------
(* Entries and requests                                                    *)

\* request_counter_reservations keeps the entry and changes nothing of it
\* but the reservation in flight, which it queues.
LEMMA RequestFacts ==
    ASSUME NEW e \in Entry
    PROVE  /\ Requested(e) \in Entry
           /\ Requested(e).key = e.key /\ Requested(e).usable = e.usable
           /\ Requested(e).outgoing.next = e.outgoing.next
           /\ Requested(e).outgoing.reserved = e.outgoing.reserved
           /\ \/ Requested(e) = e /\ Request(e) = <<>>
              \/ /\ Request(e) = <<Reserve(ReservationTarget(e.outgoing))>>
                 /\ Requested(e).outgoing.inFlight = ReservationTarget(e.outgoing)
                 /\ ReservationTarget(e.outgoing) \in 0 .. MaxCounter
                 /\ ReservationTarget(e.outgoing) >= e.outgoing.reserved
<1>1. e # NoEntry
  BY DEF Entry, NoEntry, KeyIds, NoKey
<1>2. e.outgoing \in Counter
  BY DEF Entry
<1>3. CASE ~NeedsReservation(e.outgoing)
  BY <1>1, <1>3 DEF Requested, Request
<1>4. CASE NeedsReservation(e.outgoing)
  <2> DEFINE c == StartReservation(e.outgoing)
  <2>1. Requested(e) = [e EXCEPT !.outgoing = c]
    BY <1>1, <1>4 DEF Requested
  <2>2. Request(e) = <<Reserve(ReservationTarget(e.outgoing))>>
    BY <1>1, <1>4 DEF Request
  <2>3. /\ c \in Counter
        /\ ReservationTarget(e.outgoing) \in 0 .. MaxCounter
        /\ ReservationTarget(e.outgoing) >= e.outgoing.reserved
    BY <1>2, CounterType
  <2>4. /\ c.next = e.outgoing.next /\ c.reserved = e.outgoing.reserved
        /\ c.inFlight = ReservationTarget(e.outgoing)
    BY <1>2 DEF StartReservation, Counter
  <2> HIDE DEF c
  <2>5. /\ Requested(e) \in Entry /\ Requested(e).outgoing = c
        /\ Requested(e).key = e.key /\ Requested(e).usable = e.usable
    BY <2>1, <2>3 DEF Entry
  <2> QED
    BY <2>2, <2>3, <2>4, <2>5
<1> QED
  BY <1>3, <1>4

\* A fresh entry has a counter that starts at zero with nothing reserved.
LEMMA FreshFacts ==
    ASSUME NEW key \in KeyIds, NEW usable \in BOOLEAN
    PROVE  /\ Fresh(key, usable) \in Entry
           /\ Fresh(key, usable).key = key
           /\ Fresh(key, usable).usable = usable
           /\ Fresh(key, usable).outgoing.next = 0
           /\ Fresh(key, usable).outgoing.reserved = 0
           /\ Fresh(key, usable).outgoing.inFlight = NoReservation
<1>1. NewCounter \in Counter
  BY CounterAssumption DEF NewCounter, Restore, Counter, NoReservation
<1> QED
  BY <1>1 DEF Fresh, Entry, NewCounter, Restore

\* What a request appends to the queue has its type.
LEMMA RequestType ==
    ASSUME NEW e \in Entry, NEW q \in Seq(ActionType)
    PROVE  q \o Request(e) \in Seq(ActionType)
<1>1. CASE Request(e) = <<>>
  BY <1>1, PushNothing
<1>2. CASE /\ Request(e) = <<Reserve(ReservationTarget(e.outgoing))>>
           /\ ReservationTarget(e.outgoing) \in 0 .. MaxCounter
  <2>1. Reserve(ReservationTarget(e.outgoing)) \in ActionType
    BY <1>2 DEF Reserve, ActionType
  <2> QED
    BY <1>2, <2>1, PushFacts
<1> QED
  BY <1>1, <1>2, RequestFacts

\* A Persist appended to the queue keeps its type.
LEMMA PersistType ==
    ASSUME NEW q \in Seq(ActionType)
    PROVE  q \o <<Persist>> \in Seq(ActionType) /\ Append(q, Persist) = q \o <<Persist>>
<1>1. Persist \in ActionType
  BY DEF Persist, ActionType
<1> QED
  BY <1>1, PushFacts

-----------------------------------------------------------------------------
(* The queue                                                               *)

\* A queued Persist changes nothing about the reservations.
LEMMA PushPersist ==
    ASSUME NEW q \in Seq(ActionType), NEW c \in Counter, NEW key, NEW u
    PROVE  LET p == q \o <<Persist>>
           IN  /\ p \in Seq(ActionType)
               /\ HasPersist(p)
               /\ Ascending(q) => Ascending(p)
               /\ Within(q, c) => Within(p, c)
               /\ Queued(q, c) => Queued(p, c)
               /\ Covered(q, key, u) => Covered(p, key, u)
<1> DEFINE p == q \o <<Persist>>
<1>1. Persist \in ActionType /\ Persist.kind = "persist"
  BY DEF Persist, ActionType
<1>2. /\ p \in Seq(ActionType)
      /\ Len(p) = Len(q) + 1
      /\ \A i \in 1 .. Len(q) : p[i] = q[i]
      /\ p[Len(q) + 1] = Persist
  BY <1>1, PushFacts
<1>3. Len(q) \in Nat
  OBVIOUS
<1> HIDE DEF p
<1>4. HasPersist(p)
  BY <1>1, <1>2, <1>3 DEF HasPersist
<1>5. \A i \in 1 .. Len(p) : IsReserve(p, i) => i \in 1 .. Len(q) /\ p[i] = q[i]
  BY <1>1, <1>2, <1>3 DEF IsReserve
<1>6. Ascending(q) => Ascending(p)
  BY <1>5 DEF Ascending, IsReserve
<1>7. Within(q, c) => Within(p, c)
  BY <1>5 DEF Within, IsReserve
<1>8. Queued(q, c) => Queued(p, c)
  BY <1>2, <1>3 DEF Queued
<1>9. Covered(q, key, u) => Covered(p, key, u)
  <2> SUFFICES ASSUME Covered(q, key, u), NEW i \in 1 .. Len(p), IsReserve(p, i)
               PROVE  \/ \E j \in 1 .. i : p[j].kind = "persist"
                      \/ key = NoKey
                      \/ u[key] < p[i].bound
    BY DEF Covered
  <2>1. i \in 1 .. Len(q) /\ p[i] = q[i] /\ IsReserve(q, i)
    BY <1>5 DEF IsReserve
  <2>2. \A j \in 1 .. i : p[j] = q[j]
    BY <1>2, <1>3, <2>1
  <2> QED
    BY <2>1, <2>2 DEF Covered
<1> QED
  BY <1>2, <1>4, <1>6, <1>7, <1>8, <1>9 DEF p

\* A reservation of c up to t queued behind those of q.
LEMMA PushReserve ==
    ASSUME NEW q \in Seq(ActionType), NEW c \in Counter, NEW key, NEW u,
           NEW t \in 0 .. MaxCounter
    PROVE  LET p == q \o <<Reserve(t)>>
           IN  /\ p \in Seq(ActionType)
               /\ HasPersist(q) => HasPersist(p)
               /\ /\ Ascending(q)
                  /\ \A i \in 1 .. Len(q) : IsReserve(q, i) => q[i].bound <= t
                  => Ascending(p)
               /\ Within(q, c) /\ c.reserved <= t /\ t <= ReservationTarget(c)
                  => Within(p, c)
               /\ c.inFlight = t => Queued(p, c)
               /\ /\ Covered(q, key, u)
                  /\ HasPersist(q) \/ key = NoKey \/ u[key] < t
                  => Covered(p, key, u)
<1> DEFINE e == Reserve(t)
           p == q \o <<e>>
<1>1. e \in ActionType /\ e.kind = "reserve" /\ e.bound = t
  BY DEF Reserve, ActionType
<1>2. e = Reserve(t)
  OBVIOUS
<1> HIDE DEF e
<1>3. /\ p \in Seq(ActionType)
      /\ Len(p) = Len(q) + 1
      /\ \A i \in 1 .. Len(q) : p[i] = q[i]
      /\ p[Len(q) + 1] = e
  BY <1>1, PushFacts
<1>4. Len(q) \in Nat
  OBVIOUS
<1>p. p = q \o <<Reserve(t)>>
  BY <1>2
<1> HIDE DEF p
<1>5. \A i \in 1 .. Len(p) : (i \in 1 .. Len(q) /\ p[i] = q[i]) \/ (i = Len(q) + 1 /\ p[i] = e)
  BY <1>3, <1>4
<1>6. HasPersist(q) => HasPersist(p)
  BY <1>3, <1>4 DEF HasPersist
<1>7. /\ Ascending(q)
      /\ \A i \in 1 .. Len(q) : IsReserve(q, i) => q[i].bound <= t
      => Ascending(p)
  BY <1>1, <1>4, <1>5 DEF Ascending, IsReserve
<1>8. Within(q, c) /\ c.reserved <= t /\ t <= ReservationTarget(c) => Within(p, c)
  BY <1>1, <1>5 DEF Within, IsReserve
<1>9. c.inFlight = t => Queued(p, c)
  BY <1>2, <1>3, <1>4 DEF Queued
<1>10. /\ Covered(q, key, u)
       /\ HasPersist(q) \/ key = NoKey \/ u[key] < t
       => Covered(p, key, u)
  <2> SUFFICES ASSUME Covered(q, key, u), HasPersist(q) \/ key = NoKey \/ u[key] < t,
                      NEW i \in 1 .. Len(p), IsReserve(p, i)
               PROVE  \/ \E j \in 1 .. i : p[j].kind = "persist"
                      \/ key = NoKey
                      \/ u[key] < p[i].bound
    BY DEF Covered
  <2>1. CASE i \in 1 .. Len(q) /\ p[i] = q[i]
    <3>1. \A j \in 1 .. i : p[j] = q[j]
      BY <1>3, <1>4, <2>1
    <3> QED
      BY <2>1, <3>1 DEF Covered, IsReserve
  <2>2. CASE i = Len(q) + 1 /\ p[i] = e
    BY <1>1, <1>3, <1>4, <2>2 DEF HasPersist
  <2> QED
    BY <1>5, <2>1, <2>2
<1> QED
  BY <1>3, <1>6, <1>7, <1>8, <1>9, <1>10, <1>p

\* Taking the head of the queue keeps the order of what follows it.
LEMMA PopAny ==
    ASSUME NEW q \in Seq(ActionType), q # <<>>
    PROVE  /\ Tail(q) \in Seq(ActionType)
           /\ Ascending(q) => Ascending(Tail(q))
<1>1. /\ Tail(q) \in Seq(ActionType)
      /\ Len(Tail(q)) = Len(q) - 1
      /\ \A i \in 1 .. Len(Tail(q)) : Tail(q)[i] = q[i + 1]
  BY PopFacts
<1>2. Len(q) \in Nat
  OBVIOUS
<1> QED
  BY <1>1, <1>2 DEF Ascending, IsReserve

\* Taking the head of the queue leaves the other reservations of c in it.
LEMMA PopOwn ==
    ASSUME NEW q \in Seq(ActionType), q # <<>>, NEW c \in Counter
    PROVE  /\ Within(q, c) => Within(Tail(q), c)
           /\ Queued(q, c) /\ Head(q) # Reserve(c.inFlight) => Queued(Tail(q), c)
<1>1. /\ Head(q) = q[1]
      /\ Len(Tail(q)) = Len(q) - 1
      /\ \A i \in 1 .. Len(Tail(q)) : Tail(q)[i] = q[i + 1]
  BY PopFacts
<1>2. Len(q) \in Nat
  OBVIOUS
<1>3. Within(q, c) => Within(Tail(q), c)
  BY <1>1, <1>2 DEF Within, IsReserve
<1>4. Queued(q, c) /\ Head(q) # Reserve(c.inFlight) => Queued(Tail(q), c)
  <2> SUFFICES ASSUME Queued(q, c), Head(q) # Reserve(c.inFlight),
                      c.inFlight # NoReservation
               PROVE  \E i \in 1 .. Len(Tail(q)) : Tail(q)[i] = Reserve(c.inFlight)
    BY DEF Queued
  <2>1. PICK j \in 1 .. Len(q) : q[j] = Reserve(c.inFlight)
    BY DEF Queued
  <2>2. j - 1 \in 1 .. Len(Tail(q)) /\ Tail(q)[j - 1] = q[j]
    BY <1>1, <1>2, <2>1
  <2> QED
    BY <2>1, <2>2
<1> QED
  BY <1>3, <1>4

\* Taking a reservation leaves every Persist where it is; what is left is
\* not below what was taken.
LEMMA PopReserve ==
    ASSUME NEW q \in Seq(ActionType), q # <<>>, Head(q).kind = "reserve",
           NEW key, NEW u
    PROVE  /\ HasPersist(q) => HasPersist(Tail(q))
           /\ Covered(q, key, u) => Covered(Tail(q), key, u)
           /\ Covered(q, key, u) => key = NoKey \/ u[key] < Head(q).bound
           /\ Ascending(q) => \A i \in 1 .. Len(Tail(q)) :
                 IsReserve(Tail(q), i) => Head(q).bound <= Tail(q)[i].bound
<1>1. /\ Head(q) = q[1]
      /\ 1 \in 1 .. Len(q)
      /\ Len(Tail(q)) = Len(q) - 1
      /\ \A i \in 1 .. Len(Tail(q)) : Tail(q)[i] = q[i + 1]
  BY PopFacts
<1>2. Len(q) \in Nat
  OBVIOUS
<1>3. \A j \in 1 .. Len(q) : q[j].kind = "persist" =>
         j - 1 \in 1 .. Len(Tail(q)) /\ Tail(q)[j - 1] = q[j]
  BY <1>1, <1>2
<1>4. HasPersist(q) => HasPersist(Tail(q))
  BY <1>3 DEF HasPersist
<1>5. Covered(q, key, u) => Covered(Tail(q), key, u)
  <2> SUFFICES ASSUME Covered(q, key, u), NEW i \in 1 .. Len(Tail(q)), IsReserve(Tail(q), i)
               PROVE  \/ \E j \in 1 .. i : Tail(q)[j].kind = "persist"
                      \/ key = NoKey
                      \/ u[key] < Tail(q)[i].bound
    BY DEF Covered
  <2>1. i + 1 \in 1 .. Len(q) /\ Tail(q)[i] = q[i + 1] /\ IsReserve(q, i + 1)
    BY <1>1, <1>2 DEF IsReserve
  <2>2. ASSUME NEW j \in 1 .. (i + 1), q[j].kind = "persist"
        PROVE  \E k \in 1 .. i : Tail(q)[k].kind = "persist"
    <3>1. j - 1 \in 1 .. i /\ Tail(q)[j - 1] = q[j]
      BY <1>1, <1>2, <1>3, <2>1, <2>2
    <3> QED
      BY <2>2, <3>1
  <2> QED
    BY <2>1, <2>2 DEF Covered
<1>6. Covered(q, key, u) => key = NoKey \/ u[key] < Head(q).bound
  BY <1>1 DEF Covered, IsReserve
<1>7. Ascending(q) => \A i \in 1 .. Len(Tail(q)) :
         IsReserve(Tail(q), i) => Head(q).bound <= Tail(q)[i].bound
  BY <1>1, <1>2 DEF Ascending, IsReserve
<1> QED
  BY <1>4, <1>5, <1>6, <1>7

-----------------------------------------------------------------------------
(* The records                                                             *)

\* What is left of the records when the LinkKey one is gone.
LEMMA WithoutKeyFacts ==
    ASSUME NEW records \in Records
    PROVE  /\ WithoutKey(records) \in Records
           /\ WithoutKey(records).key = NoKey
           /\ WithoutKey(records).counter = records.counter
<1> DEFINE r == [records EXCEPT !.key = NoKey]
           s == [r EXCEPT !.usable = FALSE]
           t == [s EXCEPT !.bound = 0]
<1>1. r \in Records /\ r.key = NoKey /\ r.counter = records.counter
  BY DEF Records
<1>2. s \in Records /\ s.key = r.key /\ s.counter = r.counter
  <2> HIDE DEF r
  <2> QED
    BY <1>1 DEF Records
<1>3. t \in Records /\ t.key = s.key /\ t.counter = s.counter
  <2> HIDE DEF s
  <2> QED
    BY <1>2, CounterAssumption DEF Records
<1>4. WithoutKey(records) = t
  BY DEF WithoutKey
<1> HIDE DEF t
<1> QED
  BY <1>1, <1>2, <1>3, <1>4

\* What persist_link_keys leaves after its first n writes: it never touches
\* the ApsFrameCounter record, and past the first write the LinkKey record
\* is gone or the entry's.
LEMMA SavedFacts ==
    ASSUME NEW n \in 0 .. 3, nv \in Records, entry # NoEntry => entry \in Entry
    PROVE  /\ Saved(n) \in Records
           /\ Saved(n).counter = nv.counter
           /\ n >= 1 => \/ Saved(n).key = NoKey
                        \/ /\ entry # NoEntry
                           /\ Saved(n).key = entry.key
                           /\ Saved(n).bound = entry.outgoing.reserved
<1> DEFINE erased == IF n >= 1 THEN WithoutKey(nv) ELSE nv
           stored == IF n >= 2 /\ entry # NoEntry
                     THEN [erased EXCEPT !.key = entry.key,
                                         !.usable = entry.usable,
                                         !.bound = entry.outgoing.reserved]
                     ELSE erased
<1>1. /\ erased \in Records /\ erased.counter = nv.counter
      /\ n >= 1 => erased.key = NoKey
  BY WithoutKeyFacts
<1>2. Saved(n) = IF n >= 3 THEN [stored EXCEPT !.listed = (entry # NoEntry)] ELSE stored
  BY DEF Saved
<1> HIDE DEF erased
<1>3. /\ stored \in Records /\ stored.counter = nv.counter
      /\ n >= 1 => \/ stored.key = NoKey
                   \/ /\ entry # NoEntry
                      /\ stored.key = entry.key
                      /\ stored.bound = entry.outgoing.reserved
  BY <1>1 DEF Records, Entry, Counter
<1> HIDE DEF stored
<1> QED
  BY <1>2, <1>3 DEF Records

\* erase_persisted always removes the LinkKey record.
LEMMA ResetFacts ==
    ASSUME NEW n \in 1 .. 3, nv \in Records, FactoryReset(n)
    PROVE  /\ nv' \in Records
           /\ nv'.key = NoKey
           /\ nv'.counter \in {nv.counter, NoRecord}
<1> DEFINE w == WithoutKey(nv)
<1>1. w \in Records /\ w.key = NoKey /\ w.counter = nv.counter
  BY WithoutKeyFacts
<1>2. nv' = [w EXCEPT !.counter = IF n >= 2 THEN NoRecord ELSE @,
                      !.listed = IF n >= 3 THEN FALSE ELSE @]
  BY DEF FactoryReset
<1> HIDE DEF w
<1> QED
  BY <1>1, <1>2 DEF Records

-----------------------------------------------------------------------------
(* Type correctness                                                        *)

\* Every step keeps the types.
LEMMA TypeStep == TypeInvariant /\ [Next]_vars => TypeInvariant'
<1> SUFFICES ASSUME TypeInvariant, [Next]_vars
             PROVE  TypeInvariant'
  OBVIOUS
<1> USE CounterAssumption, LinkKeysAssumption
<1>0. /\ actions \in Seq(ActionType)
      /\ MakesKey => lastKey + 1 \in KeyIds
      /\ \A k \in KeyIds : k \in 0 .. MaxKeys
      /\ entry # NoEntry => entry \in Entry
      /\ session # NoSession => session \in Session
  BY DEF TypeInvariant, MakesKey, KeyIds
<1>1. CASE InstallLinkKey
  <2> DEFINE new == Fresh(lastKey + 1, TRUE)
  <2>1. new \in Entry
    BY <1>0, <1>1, FreshFacts DEF InstallLinkKey
  <2>2. entry' = Requested(new) /\ actions' = actions \o <<Persist>> \o Request(new)
    BY <1>1 DEF InstallLinkKey
  <2> HIDE DEF new
  <2>3. entry' \in Entry /\ actions' \in Seq(ActionType)
    BY <1>0, <2>1, <2>2, RequestFacts, RequestType, PersistType
  <2> QED
    BY <1>0, <1>1, <2>3 DEF InstallLinkKey, TypeInvariant
<1>2. ASSUME NEW usable \in BOOLEAN, TransportKey(usable)
      PROVE  TypeInvariant'
  <2>1. entry' \in Entry /\ actions' \in Seq(ActionType)
    BY <1>0, <1>2, FreshFacts, PersistType DEF TransportKey
  <2> QED
    BY <1>0, <1>2, <2>1 DEF TransportKey, TypeInvariant
<1>3. CASE SetNegotiatedKey
  <2> DEFINE new == Fresh(lastKey + 1, FALSE)
  <2>1. new \in Entry
    BY <1>0, <1>3, FreshFacts DEF SetNegotiatedKey
  <2>2. entry' = Requested(new) /\ actions' = actions \o <<Persist>> \o Request(new)
    BY <1>3 DEF SetNegotiatedKey
  <2> HIDE DEF new
  <2>3. entry' \in Entry /\ actions' \in Seq(ActionType)
    BY <1>0, <2>1, <2>2, RequestFacts, RequestType, PersistType
  <2> QED
    BY <1>0, <1>3, <2>3 DEF SetNegotiatedKey, TypeInvariant
<1>4. CASE VerifyKey
  <2>1. entry' \in Entry
    BY <1>0, <1>4 DEF VerifyKey, Entry
  <2>2. actions' \in Seq(ActionType)
    BY <1>0, <1>4, PersistType DEF VerifyKey
  <2>3. session' \in Session \cup {NoSession}
    BY <1>4 DEF VerifyKey, TypeInvariant
  <2> QED
    BY <1>4, <2>1, <2>2, <2>3 DEF VerifyKey, TypeInvariant
<1>5. CASE RemoveKey
  BY <1>0, <1>5, PersistType DEF RemoveKey, TypeInvariant
<1>6. CASE DlkStart
  <2>1. session' \in Session
    BY <1>6 DEF DlkStart, TypeInvariant, Session
  <2> QED
    BY <1>6, <2>1 DEF DlkStart, TypeInvariant
<1>7. CASE DlkResponse
  <2> DEFINE key == IF session.phase = "started" THEN lastKey + 1 ELSE session.key
             new == Fresh(key, FALSE)
             queue == IF entry = NoEntry THEN actions \o (<<Persist>> \o Request(new))
                                         ELSE actions \o <<>>
  <2>1. session \in Session /\ (session.phase = "started" => MakesKey)
    BY <1>0, <1>7 DEF DlkResponse
  <2>2. key \in KeyIds
    BY <1>0, <2>1 DEF Session
  <2>3. /\ session' = [session EXCEPT !.phase = "verifying", !.key = key]
        /\ lastKey' = IF session.phase = "started" THEN key ELSE lastKey
        /\ entry' = Requested(new)
        /\ actions' = queue \o <<Persist>> \o Request(new)
    BY <1>7 DEF DlkResponse
  <2>4. new \in Entry
    BY <2>2, FreshFacts
  <2> HIDE DEF new, key
  <2>5. queue \in Seq(ActionType)
    <3>1. actions \o <<Persist>> \o Request(new) \in Seq(ActionType)
      BY <1>0, <2>4, RequestType, PersistType
    <3> QED
      BY <1>0, <3>1
  <2>6. entry' \in Entry /\ actions' \in Seq(ActionType)
    BY <2>3, <2>4, <2>5, RequestFacts, RequestType, PersistType
  <2>7. session' \in Session
    BY <2>1, <2>2, <2>3 DEF Session
  <2>8. lastKey' \in 0 .. MaxKeys
    BY <1>0, <2>2, <2>3 DEF TypeInvariant
  <2> QED
    BY <1>7, <2>6, <2>7, <2>8 DEF DlkResponse, TypeInvariant
<1>8. CASE DlkAbort
  <2>1. session.backup \in Entry \cup {NoEntry}
    BY <1>0, <1>8 DEF DlkAbort, Session
  <2>2. CASE session.backup = NoEntry
    BY <1>8, <2>2 DEF DlkAbort, TypeInvariant
  <2>3. CASE session.backup \in Entry
    <3>1. session.backup # NoEntry
      BY <2>3 DEF Entry, NoEntry, KeyIds, NoKey
    <3>2. /\ entry' = Requested(session.backup)
          /\ actions' = actions \o <<Persist>> \o Request(session.backup)
      BY <1>8, <3>1 DEF DlkAbort
    <3>3. entry' \in Entry /\ actions' \in Seq(ActionType)
      BY <1>0, <2>3, <3>2, RequestFacts, RequestType, PersistType
    <3> QED
      BY <1>8, <3>1, <3>3 DEF DlkAbort, TypeInvariant
  <2> QED
    BY <2>1, <2>2, <2>3
<1>9. CASE SecureFrame
  <2>1. entry \in Entry /\ entry.outgoing \in Counter /\ entry.key \in KeyIds
    BY <1>0, <1>9 DEF SecureFrame, Entry
  <2>2. Allocate(entry.outgoing) \in Counter
    BY <1>9, <2>1, CounterType DEF SecureFrame
  <2>3. entry' \in Entry
    BY <1>9, <2>1, <2>2 DEF SecureFrame, Entry
  <2>4. entry.outgoing.next \in 0 .. MaxCounter
    BY <2>1 DEF Counter
  <2>5. used' \in [KeyIds -> {NoValue} \cup (0 .. MaxCounter)]
    BY <1>9, <2>1, <2>4 DEF SecureFrame, TypeInvariant
  <2> QED
    BY <1>9, <2>3, <2>5 DEF SecureFrame, TypeInvariant
<1>10. CASE RequestReservations
  <2>1. entry \in Entry
    BY <1>0, <1>10 DEF RequestReservations, Request
  <2>2. entry' \in Entry /\ actions' \in Seq(ActionType)
    BY <1>0, <1>10, <2>1, RequestFacts, RequestType DEF RequestReservations
  <2> QED
    BY <1>10, <2>2 DEF RequestReservations, TypeInvariant
<1>11. CASE PumpReserveOk
  <2>1. Head(actions) \in ActionType /\ Tail(actions) \in Seq(ActionType)
    BY <1>0, <1>11, PopFacts DEF PumpReserveOk
  <2>2. Head(actions).bound \in {NoReservation} \cup (0 .. MaxCounter)
    BY <2>1 DEF ActionType
  <2>3. nv' \in Records
    BY <1>11, <2>2 DEF PumpReserveOk, TypeInvariant, Records, NoReservation, NoRecord
  <2>4. entry' \in Entry \cup {NoEntry}
    <3>1. CASE entry = NoEntry
      BY <1>11, <3>1 DEF PumpReserveOk
    <3>2. CASE entry \in Entry
      <4>1. entry # NoEntry
        BY <3>2 DEF Entry, NoEntry, KeyIds, NoKey
      <4>2. CommitReservation(entry.outgoing, Head(actions).bound) \in Counter
        BY <2>2, <3>2, CommitFields DEF Entry
      <4> QED
        BY <1>11, <3>2, <4>1, <4>2 DEF PumpReserveOk, Entry
    <3> QED
      BY <1>0, <3>1, <3>2
  <2> QED
    BY <1>11, <2>1, <2>3, <2>4 DEF PumpReserveOk, TypeInvariant
<1>12. CASE PumpReserveFails
  <2>1. Tail(actions) \in Seq(ActionType)
    BY <1>0, <1>12, PopFacts DEF PumpReserveFails
  <2>2. entry' \in Entry \cup {NoEntry}
    <3>1. CASE entry = NoEntry
      BY <1>12, <3>1 DEF PumpReserveFails
    <3>2. CASE entry \in Entry
      <4>1. entry # NoEntry
        BY <3>2 DEF Entry, NoEntry, KeyIds, NoKey
      <4>2. AbortReservation(entry.outgoing) \in Counter
        BY <3>2, CounterType DEF Entry
      <4> QED
        BY <1>12, <3>2, <4>1, <4>2 DEF PumpReserveFails, Entry
    <3> QED
      BY <1>0, <3>1, <3>2
  <2> QED
    BY <1>12, <2>1, <2>2 DEF PumpReserveFails, TypeInvariant
<1>13. ASSUME NEW n \in 0 .. 3, PumpPersist(n)
       PROVE  TypeInvariant'
  <2>1. Tail(actions) \in Seq(ActionType)
    BY <1>0, <1>13, PopFacts DEF PumpPersist
  <2>2. Saved(n) \in Records
    BY <1>0, SavedFacts DEF TypeInvariant
  <2> QED
    BY <1>13, <2>1, <2>2 DEF PumpPersist, TypeInvariant
<1>14. ASSUME NEW n \in 1 .. 3, FactoryReset(n)
       PROVE  TypeInvariant'
  <2>1. nv' \in Records
    BY <1>14, ResetFacts DEF TypeInvariant
  <2> QED
    BY <1>14, <2>1 DEF FactoryReset, TypeInvariant
<1>15. CASE Restart
  <2>1. RestoredBound \in 0 .. MaxCounter
    BY DEF RestoredBound, TypeInvariant, Records, NoRecord
  <2>2. Restore(RestoredBound) \in Counter
    BY <2>1 DEF Restore, Counter
  <2>3. entry' \in Entry \cup {NoEntry}
    BY <1>15, <2>2 DEF Restart, TypeInvariant, Records, Entry, NoKey
  <2> QED
    BY <1>15, <2>3 DEF Restart, TypeInvariant
<1>16. CASE UNCHANGED vars
  BY <1>16 DEF vars, TypeInvariant
<1> QED
  BY <1>1, <1>2, <1>3, <1>4, <1>5, <1>6, <1>7, <1>8, <1>9, <1>10, <1>11, <1>12,
     <1>13, <1>14, <1>15, <1>16 DEF Next

\* The initial state has its types.
LEMMA TypeInit == Init => TypeInvariant
<1> SUFFICES ASSUME Init
             PROVE  TypeInvariant
  OBVIOUS
<1> USE CounterAssumption, LinkKeysAssumption
<1>1. nv \in Records
  BY DEF Init, Records, NoRecord
<1>2. actions \in Seq(ActionType) /\ lastKey \in 0 .. MaxKeys
  BY DEF Init
<1>3. used \in [KeyIds -> {NoValue} \cup (0 .. MaxCounter)]
  BY DEF Init
<1> QED
  BY <1>1, <1>2, <1>3 DEF Init, TypeInvariant

\* Every reachable state of the key-pair entry, of the negotiation and of
\* the records is well typed: no bound leaves the range of a u32, and only a
\* negotiation that has derived a key waits for its confirmation.
THEOREM TypeCorrect == Spec => []TypeInvariant
  BY TypeInit, TypeStep, PTL DEF Spec

-----------------------------------------------------------------------------
(* Values, bounds and records                                              *)

\* A Persist and the request of an entry without a reservation in flight,
\* queued one after the other.
LEMMA NewQueue ==
    ASSUME NEW q \in Seq(ActionType), NEW e \in Entry, NEW key, NEW u,
           e.outgoing.inFlight = NoReservation,
           Ascending(q), Within(q, e.outgoing), Covered(q, key, u)
    PROVE  LET p == q \o <<Persist>>
               r == p \o Request(e)
           IN  /\ \A x \in {p, r} : /\ x \in Seq(ActionType)
                                    /\ HasPersist(x)
                                    /\ Ascending(x)
                                    /\ Within(x, e.outgoing)
                                    /\ Covered(x, key, u)
               /\ Queued(p, e.outgoing)
               /\ Within(r, Requested(e).outgoing) /\ Queued(r, Requested(e).outgoing)
<1> DEFINE p == q \o <<Persist>>
           r == p \o Request(e)
           c == e.outgoing
           d == Requested(e).outgoing
           t == ReservationTarget(c)
<1>1. c \in Counter /\ d \in Counter
  BY RequestFacts DEF Entry
<1>2. Queued(q, c)
  BY DEF Queued
<1>3. /\ p \in Seq(ActionType) /\ HasPersist(p) /\ Ascending(p) /\ Covered(p, key, u)
      /\ Within(p, c) /\ Queued(p, c)
  BY <1>1, <1>2, PushPersist
<1> HIDE DEF p
<1>5. CASE Requested(e) = e /\ Request(e) = <<>>
  BY <1>3, <1>5, PushNothing DEF p
<1>6. CASE /\ Request(e) = <<Reserve(t)>> /\ d.inFlight = t
           /\ d.next = c.next /\ d.reserved = c.reserved
           /\ t \in 0 .. MaxCounter /\ t >= c.reserved
  <2>1. ReservationTarget(d) = t
    BY <1>6 DEF ReservationTarget
  <2>2. Within(p, d)
    BY <1>3, <1>6, <2>1 DEF Within
  <2> HIDE DEF c, d
  <2>3. c.reserved \in Int /\ t \in Int
    BY <1>1, <1>6, CounterAssumption DEF Counter
  <2>4. d.reserved <= t /\ t <= ReservationTarget(d)
    BY <1>6, <2>1, <2>3
  <2>5. \A i \in 1 .. Len(p) : IsReserve(p, i) => p[i].bound <= t
    BY <1>3 DEF Within
  <2> HIDE DEF t
  <2>6. /\ r \in Seq(ActionType) /\ HasPersist(r) /\ Ascending(r)
        /\ Covered(r, key, u) /\ Within(r, d) /\ Queued(r, d)
    BY <1>1, <1>3, <1>6, <2>2, <2>4, <2>5, PushReserve
  <2>7. Within(r, c)
    BY <1>6, <2>1, <2>6 DEF Within, t
  <2> QED
    BY <1>3, <2>6, <2>7 DEF p, c, d
<1> QED
  BY <1>5, <1>6, RequestFacts

\* A counter that has moved on asks for no less.
LEMMA TargetGrows ==
    ASSUME NEW c \in Counter, NEW d \in Counter,
           c.next <= d.next, c.reserved <= d.reserved
    PROVE  ReservationTarget(c) <= ReservationTarget(d)
  BY CounterAssumption DEF ReservationTarget, SatAdd, Counter

\* A step that makes a key starts its counter below everything: EntryInv and
\* RecordsInv hold again, as the key that is stored keeps its record and is
\* overwritten before the first reservation of the new one.
LEMMA NewEntry ==
    ASSUME TypeInvariant, RecordsInv,
           entry' \in Entry, entry'.outgoing.next = 0, entry'.outgoing.reserved = 0,
           used[entry'.key] = NoValue,
           UNCHANGED <<nv, used>>,
           HasPersist(actions'), Covered(actions', nv.key, used),
           Within(actions', entry'.outgoing), Queued(actions', entry'.outgoing)
    PROVE  EntryInv' /\ RecordsInv'
<1>1. RestoredBound' = RestoredBound /\ RestoredBound \in Nat
  BY CounterAssumption DEF RestoredBound, TypeInvariant, Records, NoRecord
<1>2. nv.counter # NoRecord => nv.counter \in Nat
  BY CounterAssumption DEF TypeInvariant, Records
<1>3. EntryInv'
  BY <1>1, <1>2 DEF EntryInv, NoValue
<1>4. RecordsInv'
  BY <1>1 DEF RecordsInv
<1> QED
  BY <1>3, <1>4

\* A key that was just made is not the stored one and not one that is under
\* negotiation.
LEMMA NewKey ==
    ASSUME TypeInvariant, KeysInv, MakesKey, entry' \in Entry,
           entry'.key = lastKey + 1, lastKey' = lastKey + 1,
           UNCHANGED <<session, nv, used>>
    PROVE  KeysInv'
<1>1. /\ lastKey \in Nat /\ KeyIds \subseteq Nat
      /\ nv.key \in Nat
  BY LinkKeysAssumption DEF TypeInvariant, Records, KeyIds, NoKey
<1>2. session.phase = "verifying" => session.key \in KeyIds
  BY DEF TypeInvariant, Session, NoSession
<1>3. \A k \in KeyIds : k > lastKey' => used'[k] = NoValue
  BY <1>1 DEF KeysInv
<1>4. nv'.key <= lastKey' /\ entry'.key <= lastKey'
  BY <1>1 DEF KeysInv
<1>5. ASSUME session'.phase = "verifying"
      PROVE  /\ session'.key <= lastKey'
             /\ used'[session'.key] = NoValue
             /\ entry'.key # session'.key
  <2>1. session.key \in Nat /\ session.key <= lastKey /\ used[session.key] = NoValue
    BY <1>1, <1>2, <1>5 DEF KeysInv
  <2> QED
    BY <1>1, <2>1
<1> QED
  BY <1>3, <1>4, <1>5 DEF KeysInv

\* A step that changes of the entry at most whether it is usable, and leaves
\* the records, keeps EntryInv and RecordsInv as the queue grows by a Persist.
LEMMA SameEntry ==
    ASSUME TypeInvariant, EntryInv, RecordsInv, Ascending(actions),
           entry # NoEntry, entry' \in Entry,
           entry'.key = entry.key, entry'.outgoing = entry.outgoing,
           actions' = actions \o <<Persist>>,
           UNCHANGED <<nv, used>>
    PROVE  EntryInv' /\ RecordsInv' /\ Ascending(actions')
<1>1. entry.outgoing \in Counter /\ actions \in Seq(ActionType)
  BY DEF TypeInvariant, Entry
<1>2. /\ HasPersist(actions') /\ Ascending(actions')
      /\ Within(actions', entry.outgoing) /\ Queued(actions', entry.outgoing)
      /\ Covered(actions', nv.key, used)
  BY <1>1, PushPersist DEF EntryInv, RecordsInv
<1>3. RestoredBound' = RestoredBound
  BY DEF RestoredBound
<1>4. EntryInv'
  BY <1>2, <1>3 DEF EntryInv
<1>5. RecordsInv'
  BY <1>2, <1>3 DEF RecordsInv
<1> QED
  BY <1>2, <1>4, <1>5

\* Every step that does not disturb keeps LinkInv.
LEMMA LinkStep == TypeInvariant /\ TypeInvariant' /\ LinkInv /\ [Next]_vars => LinkInv'
<1> SUFFICES ASSUME TypeInvariant, TypeInvariant', LinkInv, [Next]_vars, ~disturbed'
             PROVE  KeysInv' /\ EntryInv' /\ Ascending(actions') /\ RecordsInv'
  BY DEF LinkInv
<1> USE CounterAssumption, LinkKeysAssumption
<1>0. /\ actions \in Seq(ActionType) /\ DOMAIN actions = 1 .. Len(actions)
      /\ MakesKey => lastKey + 1 \in KeyIds
      /\ entry # NoEntry => /\ entry \in Entry /\ entry.outgoing \in Counter
                            /\ entry.key \in KeyIds
      /\ session # NoSession => session \in Session
      /\ lastKey \in Nat
      /\ KeyIds \subseteq Nat
      /\ \A k \in KeyIds : used[k] \in Int
      /\ NoKey \notin KeyIds
  BY DEF TypeInvariant, MakesKey, KeyIds, Entry, NoValue, NoKey
<1>a. KeysInv /\ EntryInv /\ Ascending(actions) /\ RecordsInv
  BY DEF LinkInv, Next, vars, InstallLinkKey, TransportKey, SetNegotiatedKey, VerifyKey,
         RemoveKey, DlkStart, DlkResponse, DlkAbort, SecureFrame, RequestReservations,
         PumpReserveOk, PumpReserveFails, PumpPersist, FactoryReset, Restart, TypeInvariant
<1>b. ~Overtakes => \A i \in 1 .. Len(actions) : ~IsReserve(actions, i)
  BY <1>0 DEF Overtakes, IsReserve
<1>c. ASSUME ~Overtakes, NEW c
      PROVE  Ascending(actions) /\ Within(actions, c)
  BY <1>b, <1>c DEF Ascending, Within
<1>d. /\ RestoredBound \in Int /\ RestoredBound' \in Int
      /\ \A i \in 1 .. Len(actions) : actions[i].bound \in Int
      /\ \A i \in 1 .. Len(actions') : actions'[i].bound \in Int
  <2>1. RestoredBound \in Int
    BY DEF RestoredBound, TypeInvariant, Records, NoRecord
  <2>2. RestoredBound' \in Int
    BY DEF RestoredBound, TypeInvariant, Records, NoRecord
  <2>3. \A a \in ActionType : a.bound \in Int
    BY DEF ActionType, NoReservation
  <2>4. /\ \A i \in 1 .. Len(actions) : actions[i] \in ActionType
        /\ \A i \in 1 .. Len(actions') : actions'[i] \in ActionType
    BY DEF TypeInvariant
  <2> QED
    BY <2>1, <2>2, <2>3, <2>4
<1>1. CASE InstallLinkKey
  <2> DEFINE new == Fresh(lastKey + 1, TRUE)
             p == actions \o <<Persist>>
             r == p \o Request(new)
  <2>1. lastKey + 1 \in KeyIds /\ used[lastKey + 1] = NoValue
    BY <1>0, <1>a, <1>1 DEF InstallLinkKey, KeysInv
  <2>2. /\ new \in Entry /\ new.key = lastKey + 1 /\ new.usable = TRUE
        /\ new.outgoing.next = 0 /\ new.outgoing.reserved = 0
        /\ new.outgoing.inFlight = NoReservation
    BY <2>1, FreshFacts
  <2>3. entry' = Requested(new) /\ actions' = r /\ ~Overtakes
    BY <1>1 DEF InstallLinkKey
  <2> HIDE DEF new
  <2>4. /\ HasPersist(r) /\ Ascending(r) /\ Covered(r, nv.key, used)
        /\ Within(r, Requested(new).outgoing) /\ Queued(r, Requested(new).outgoing)
    BY <1>0, <1>a, <1>c, <2>2, <2>3, NewQueue DEF RecordsInv
  <2> HIDE DEF r
  <2>5. /\ entry' \in Entry /\ entry'.key = lastKey + 1 /\ entry'.usable = TRUE
        /\ entry'.outgoing.next = 0 /\ entry'.outgoing.reserved = 0
    BY <2>2, <2>3, RequestFacts
  <2>6. EntryInv' /\ RecordsInv'
    BY <1>a, <1>1, <2>1, <2>3, <2>4, <2>5, NewEntry DEF InstallLinkKey
  <2>7. KeysInv'
    BY <1>a, <1>1, <2>5, NewKey DEF InstallLinkKey
  <2> QED
    BY <2>3, <2>4, <2>6, <2>7
<1>2. ASSUME NEW usable \in BOOLEAN, TransportKey(usable)
      PROVE  KeysInv' /\ EntryInv' /\ Ascending(actions') /\ RecordsInv'
  <2> DEFINE new == Fresh(lastKey + 1, usable)
             p == actions \o <<Persist>>
  <2>1. lastKey + 1 \in KeyIds /\ used[lastKey + 1] = NoValue
    BY <1>0, <1>a, <1>2 DEF TransportKey, KeysInv
  <2>2. /\ new \in Entry /\ new.key = lastKey + 1
        /\ new.outgoing.next = 0 /\ new.outgoing.reserved = 0
        /\ new.outgoing.inFlight = NoReservation
    BY <2>1, FreshFacts
  <2>3. entry' = new /\ actions' = p /\ ~Overtakes
    BY <1>0, <1>2, PersistType DEF TransportKey
  <2> HIDE DEF new
  <2>4. /\ HasPersist(p) /\ Ascending(p) /\ Covered(p, nv.key, used)
        /\ Within(p, new.outgoing) /\ Queued(p, new.outgoing)
    BY <1>0, <1>a, <1>c, <2>2, <2>3, NewQueue DEF RecordsInv
  <2> HIDE DEF p
  <2>5. EntryInv' /\ RecordsInv'
    BY <1>a, <1>2, <2>1, <2>2, <2>3, <2>4, NewEntry DEF TransportKey
  <2>6. KeysInv'
    BY <1>a, <1>2, <2>2, <2>3, NewKey DEF TransportKey
  <2> QED
    BY <2>3, <2>4, <2>5, <2>6
<1>3. CASE SetNegotiatedKey
  <2> DEFINE new == Fresh(lastKey + 1, FALSE)
             p == actions \o <<Persist>>
             r == p \o Request(new)
  <2>1. lastKey + 1 \in KeyIds /\ used[lastKey + 1] = NoValue
    BY <1>0, <1>a, <1>3 DEF SetNegotiatedKey, KeysInv
  <2>2. /\ new \in Entry /\ new.key = lastKey + 1 /\ new.usable = FALSE
        /\ new.outgoing.next = 0 /\ new.outgoing.reserved = 0
        /\ new.outgoing.inFlight = NoReservation
    BY <2>1, FreshFacts
  <2>3. entry' = Requested(new) /\ actions' = r /\ ~Overtakes
    BY <1>3 DEF SetNegotiatedKey
  <2> HIDE DEF new
  <2>4. /\ HasPersist(r) /\ Ascending(r) /\ Covered(r, nv.key, used)
        /\ Within(r, Requested(new).outgoing) /\ Queued(r, Requested(new).outgoing)
    BY <1>0, <1>a, <1>c, <2>2, <2>3, NewQueue DEF RecordsInv
  <2> HIDE DEF r
  <2>5. /\ entry' \in Entry /\ entry'.key = lastKey + 1 /\ entry'.usable = FALSE
        /\ entry'.outgoing.next = 0 /\ entry'.outgoing.reserved = 0
    BY <2>2, <2>3, RequestFacts
  <2>6. EntryInv' /\ RecordsInv'
    BY <1>a, <1>3, <2>1, <2>3, <2>4, <2>5, NewEntry DEF SetNegotiatedKey
  <2>7. KeysInv'
    BY <1>a, <1>3, <2>5, NewKey DEF SetNegotiatedKey
  <2> QED
    BY <2>3, <2>4, <2>6, <2>7
<1>4. CASE VerifyKey
  <2>1. /\ entry \in Entry /\ entry # NoEntry /\ entry' \in Entry
        /\ entry'.key = entry.key /\ entry'.outgoing = entry.outgoing
        /\ actions' = actions \o <<Persist>>
    BY <1>0, <1>4, PersistType DEF VerifyKey, Entry
  <2>2. EntryInv' /\ RecordsInv' /\ Ascending(actions')
    BY <1>a, <1>4, <2>1, SameEntry DEF VerifyKey
  <2>3. session'.phase # "verifying"
    BY <1>4 DEF VerifyKey, NoSession
  <2>4. KeysInv'
    BY <1>a, <1>4, <2>1, <2>3 DEF VerifyKey, KeysInv
  <2> QED
    BY <2>2, <2>4
<1>5. CASE RemoveKey
  <2>1. actions' = actions \o <<Persist>> /\ entry' = NoEntry
    BY <1>0, <1>5, PersistType DEF RemoveKey
  <2>2. Ascending(actions') /\ Covered(actions', nv.key, used)
    BY <1>0, <1>a, <1>5, <2>1, PushPersist DEF RecordsInv, RemoveKey
  <2>3. KeysInv'
    BY <1>0, <1>a, <1>5 DEF RemoveKey, KeysInv, NoEntry, NoKey
  <2>4. EntryInv' /\ RecordsInv'
    BY <1>a, <1>5, <2>1, <2>2 DEF RemoveKey, EntryInv, RecordsInv, RestoredBound
  <2> QED
    BY <2>2, <2>3, <2>4
<1>6. CASE DlkStart
  <2>1. session'.phase # "verifying"
    BY <1>6 DEF DlkStart
  <2> QED
    BY <1>a, <1>6, <2>1 DEF DlkStart, KeysInv, EntryInv, RecordsInv, RestoredBound
<1>7. CASE DlkResponse
  <2> DEFINE key == IF session.phase = "started" THEN lastKey + 1 ELSE session.key
             new == Fresh(key, FALSE)
             p == actions \o <<Persist>>
             r == p \o Request(new)
             start == IF entry = NoEntry THEN r ELSE actions
             queue == start \o <<Persist>> \o Request(new)
  <2>1. /\ session \in Session /\ (session.phase = "started" => MakesKey)
        /\ ~Overtakes /\ UNCHANGED <<nv, used>>
    BY <1>0, <1>7 DEF DlkResponse
  <2>2. key \in KeyIds /\ used[key] = NoValue
    BY <1>0, <1>a, <2>1 DEF Session, KeysInv
  <2>3. /\ session' = [session EXCEPT !.phase = "verifying", !.key = key]
        /\ lastKey' = IF session.phase = "started" THEN key ELSE lastKey
        /\ entry' = Requested(new)
        /\ actions' = (IF entry = NoEntry THEN actions \o (<<Persist>> \o Request(new))
                                          ELSE actions \o <<>>) \o <<Persist>> \o Request(new)
    BY <1>7 DEF DlkResponse
  <2>4. /\ new \in Entry /\ new.key = key /\ new.usable = FALSE
        /\ new.outgoing.next = 0 /\ new.outgoing.reserved = 0
        /\ new.outgoing.inFlight = NoReservation
    BY <2>2, FreshFacts
  <2>5. lastKey <= lastKey' /\ key <= lastKey' /\ lastKey' \in Nat
    BY <1>0, <1>a, <2>1, <2>3 DEF KeysInv, Session
  <2>6. session'.phase = "verifying" /\ session'.key = key
    BY <2>1, <2>3 DEF Session
  <2> HIDE DEF new, key
  <2>7. actions' = queue
    <3>1. actions \o <<>> = actions
      BY <1>0, PushNothing
    <3>2. actions \o (<<Persist>> \o Request(new)) = r
      OBVIOUS
    <3> QED
      BY <2>3, <3>1, <3>2
  <2>8. start \in Seq(ActionType) /\ Ascending(start) /\ Within(start, new.outgoing)
        /\ Covered(start, nv.key, used)
    <3>1. /\ r \in Seq(ActionType) /\ Ascending(r) /\ Within(r, new.outgoing)
          /\ Covered(r, nv.key, used)
      BY <1>0, <1>a, <1>c, <2>1, <2>4, NewQueue DEF RecordsInv
    <3>2. Ascending(actions) /\ Within(actions, new.outgoing)
          /\ Covered(actions, nv.key, used)
      BY <1>a, <1>c, <2>1 DEF RecordsInv
    <3> HIDE DEF r
    <3> QED
      BY <1>0, <3>1, <3>2
  <2> HIDE DEF start
  <2>9. /\ HasPersist(queue) /\ Ascending(queue) /\ Covered(queue, nv.key, used)
        /\ Within(queue, Requested(new).outgoing) /\ Queued(queue, Requested(new).outgoing)
    BY <2>4, <2>8, NewQueue
  <2> HIDE DEF queue
  <2>10. /\ entry' \in Entry /\ entry'.key = key /\ entry'.usable = FALSE
         /\ entry'.outgoing.next = 0 /\ entry'.outgoing.reserved = 0
    BY <2>3, <2>4, RequestFacts
  <2>11. EntryInv' /\ RecordsInv'
    BY <1>a, <2>1, <2>2, <2>3, <2>7, <2>9, <2>10, NewEntry
  <2>12. KeysInv'
    <3>1. nv.key \in Nat /\ nv.key <= lastKey
      <4>1. nv.key \in Nat
        <5>1. nv.key \in KeyIds \cup {NoKey}
          BY DEF TypeInvariant, Records
        <5>2. KeyIds \subseteq Nat /\ NoKey \in Nat
          BY DEF KeyIds, NoKey
        <5> QED
          BY <5>1, <5>2
      <4> QED
        BY <1>a, <4>1 DEF KeysInv
    <3>2. \A k \in KeyIds : k > lastKey' => used'[k] = NoValue
      BY <1>0, <1>a, <2>1, <2>5 DEF KeysInv
    <3>3. nv'.key <= lastKey' /\ entry'.key <= lastKey'
      BY <1>0, <2>1, <2>5, <2>10, <3>1
    <3> QED
      BY <2>1, <2>2, <2>5, <2>6, <2>10, <3>2, <3>3 DEF KeysInv
  <2> QED
    BY <2>7, <2>9, <2>11, <2>12
<1>8. CASE DlkAbort
  <2>1. session.backup = NoEntry /\ entry' = NoEntry /\ UNCHANGED <<actions, nv, lastKey, used>>
    BY <1>8 DEF DlkAbort
  <2>2. session'.phase # "verifying"
    BY <1>8 DEF DlkAbort, NoSession
  <2>3. KeysInv'
    BY <1>0, <1>a, <2>1, <2>2 DEF KeysInv, NoEntry, NoKey
  <2> QED
    BY <1>a, <2>1, <2>3 DEF EntryInv, RecordsInv, RestoredBound
<1>9. CASE SecureFrame
  <2> DEFINE c == entry.outgoing
             d == Allocate(c)
  <2>1. /\ entry \in Entry /\ entry # NoEntry /\ c \in Counter /\ entry.key \in KeyIds
        /\ entry.usable /\ CanAllocate(c)
        /\ entry' = [entry EXCEPT !.outgoing = d]
        /\ UNCHANGED <<session, actions, nv, lastKey>>
    BY <1>0, <1>9 DEF SecureFrame
  <2>2. /\ d \in Counter /\ d.next = c.next + 1 /\ d.reserved = c.reserved
        /\ d.inFlight = c.inFlight /\ c.next < c.reserved
        /\ c.next \in Nat /\ c.reserved \in Nat
    BY <2>1, CounterType DEF Allocate, CanAllocate, Counter
  <2>3. /\ entry' # NoEntry /\ entry'.key = entry.key /\ entry'.usable = entry.usable
        /\ entry'.outgoing = d
    BY <2>1 DEF Entry, NoEntry
  <2>4. /\ used'[entry.key] = c.next
        /\ \A k \in KeyIds : k # entry.key => used'[k] = used[k]
    BY <1>0, <1>9, <1>a, <2>1, <2>2 DEF SecureFrame, TypeInvariant, EntryInv
  <2> HIDE DEF c, d
  <2>5. RestoredBound' = RestoredBound
    BY <2>1 DEF RestoredBound
  <2>6. /\ nv.counter # NoRecord => c.reserved <= nv.counter
        /\ nv.key = entry.key => c.reserved <= RestoredBound
        /\ Within(actions, c) /\ Queued(actions, c)
    BY <1>a, <2>1 DEF EntryInv, c
  <2>7. KeysInv'
    <3>1. \A k \in KeyIds : k > lastKey => k # entry.key
      BY <1>0, <1>a, <2>1 DEF KeysInv
    <3>2. session.phase = "verifying" => session.key # entry.key /\ session.key \in KeyIds
      BY <1>a, <2>1 DEF KeysInv, TypeInvariant, Session, NoSession
    <3> QED
      BY <1>a, <2>1, <2>3, <2>4, <3>1, <3>2 DEF KeysInv
  <2>8. EntryInv'
    <3>1. ReservationTarget(c) <= ReservationTarget(d)
      BY <2>1, <2>2, TargetGrows DEF c
    <3>2. ReservationTarget(c) \in Int /\ ReservationTarget(d) \in Int
      BY <2>1, <2>2, CounterType DEF c
    <3>3. Within(actions, d)
      BY <1>d, <2>2, <2>6, <3>1, <3>2 DEF Within
    <3>4. Queued(actions, d)
      BY <2>2, <2>6 DEF Queued
    <3> QED
      BY <2>1, <2>2, <2>3, <2>4, <2>5, <2>6, <3>3, <3>4 DEF EntryInv
  <2>9. RecordsInv'
    <3>1. CASE nv.key = entry.key
      <4>1. used'[nv.key] < RestoredBound
        BY <1>d, <2>2, <2>4, <2>6, <3>1
      <4>2. \A i \in 1 .. Len(actions) : IsReserve(actions, i) => used'[nv.key] < actions[i].bound
        BY <1>d, <2>2, <2>4, <2>6, <3>1 DEF Within
      <4>3. Covered(actions, nv.key, used')
        BY <4>2 DEF Covered
      <4> QED
        BY <2>1, <2>3, <2>5, <3>1, <4>1, <4>3 DEF RecordsInv
    <3>2. CASE nv.key # entry.key
      <4>1. nv.key # NoKey => used'[nv.key] = used[nv.key]
        BY <2>4, <3>2 DEF TypeInvariant, Records
      <4>2. Covered(actions, nv.key, used')
        BY <1>a, <4>1 DEF RecordsInv, Covered
      <4> QED
        BY <1>a, <2>1, <2>3, <2>5, <4>1, <4>2 DEF RecordsInv
    <3> QED
      BY <3>1, <3>2
  <2> QED
    BY <1>a, <2>1, <2>7, <2>8, <2>9
<1>10. CASE RequestReservations
  <2> DEFINE c == entry.outgoing
             d == Requested(entry).outgoing
             t == ReservationTarget(c)
             p == actions \o <<Reserve(t)>>
  <2>1. /\ Request(entry) # <<>> /\ entry' = Requested(entry)
        /\ actions' = actions \o Request(entry)
        /\ UNCHANGED <<session, nv, lastKey, used>>
    BY <1>10 DEF RequestReservations
  <2>2. entry # NoEntry /\ entry \in Entry /\ c \in Counter /\ entry.key \in KeyIds
    BY <1>0, <2>1 DEF Request
  <2>3. /\ entry' \in Entry /\ entry'.outgoing = d /\ d \in Counter
        /\ entry'.key = entry.key /\ entry'.usable = entry.usable
        /\ d.next = c.next /\ d.reserved = c.reserved /\ d.inFlight = t
        /\ t \in 0 .. MaxCounter /\ t >= c.reserved
        /\ Request(entry) = <<Reserve(t)>>
    BY <2>1, <2>2, RequestFacts DEF Entry
  <2>4. c.reserved \in Int /\ t \in Int /\ c.next \in Int
    BY <2>2, <2>3 DEF Counter
  <2>5. ReservationTarget(d) = t /\ d.reserved <= t
    BY <2>3, <2>4 DEF ReservationTarget
  <2>6. Within(actions, c) /\ Within(actions, d)
    BY <1>a, <2>2, <2>3, <2>5 DEF EntryInv, Within
  <2>7. \A i \in 1 .. Len(actions) : IsReserve(actions, i) => actions[i].bound <= t
    BY <2>6 DEF Within
  <2>8. HasPersist(actions) \/ nv.key = NoKey \/ used[nv.key] < t
    <3>1. nv.key = entry.key => used[nv.key] < t
      BY <1>0, <1>a, <2>2, <2>3, <2>4 DEF EntryInv
    <3> QED
      BY <1>a, <2>2, <3>1 DEF RecordsInv
  <2> HIDE DEF c, d, t
  <2>9. /\ Ascending(p) /\ Within(p, d) /\ Queued(p, d)
        /\ HasPersist(actions) => HasPersist(p)
        /\ Covered(p, nv.key, used)
    <3>1. t <= ReservationTarget(d)
      BY <2>4, <2>5
    <3> QED
      BY <1>0, <1>a, <2>3, <2>5, <2>6, <2>7, <2>8, <3>1, PushReserve DEF RecordsInv
  <2>10. actions' = p
    BY <2>1, <2>3
  <2> HIDE DEF p
  <2>11. RestoredBound' = RestoredBound
    BY <2>1 DEF RestoredBound
  <2>12. KeysInv'
    BY <1>a, <2>1, <2>2, <2>3 DEF KeysInv
  <2>13. EntryInv'
    BY <1>a, <2>1, <2>2, <2>3, <2>9, <2>10, <2>11 DEF EntryInv, c
  <2>14. RecordsInv'
    BY <1>a, <2>1, <2>2, <2>3, <2>9, <2>10, <2>11 DEF RecordsInv
  <2> QED
    BY <2>9, <2>10, <2>12, <2>13, <2>14
<1>11. CASE PumpReserveOk
  <2> DEFINE b == Head(actions).bound
  <2>1. /\ actions # <<>> /\ Head(actions).kind = "reserve" /\ actions' = Tail(actions)
        /\ nv' = [nv EXCEPT !.counter = b]
        /\ UNCHANGED <<session, lastKey, used>>
    BY <1>11 DEF PumpReserveOk
  <2>2. /\ Head(actions) = actions[1] /\ 1 \in 1 .. Len(actions)
        /\ Head(actions) \in ActionType
    BY <1>0, <2>1, PopFacts
  <2>3. b \in {NoReservation} \cup (0 .. MaxCounter) /\ b \in Int
    BY <2>2 DEF ActionType, NoReservation
  <2>4. nv'.key = nv.key /\ nv'.counter = b /\ nv'.bound = nv.bound
    BY <2>1 DEF TypeInvariant, Records
  <2>5. /\ Ascending(actions') /\ Covered(actions', nv.key, used)
        /\ HasPersist(actions) => HasPersist(actions')
        /\ nv.key # NoKey => used[nv.key] < b
    BY <1>0, <1>a, <2>1, PopAny, PopReserve DEF RecordsInv
  <2>6. \A i \in 1 .. Len(actions') : IsReserve(actions', i) => b <= actions'[i].bound
    BY <1>0, <1>a, <2>1, PopReserve
  <2>7. nv.key # NoKey => used[nv.key] < RestoredBound'
    <3>1. nv.key # NoKey => used[nv.key] >= NoValue /\ used[nv.key] \in Int
      BY DEF TypeInvariant, Records, NoValue
    <3>2. b # NoRecord => RestoredBound' = b
      BY <2>4 DEF RestoredBound
    <3> QED
      BY <2>3, <2>5, <3>1, <3>2 DEF NoRecord, NoValue
  <2>8. CASE entry = NoEntry
    <3>1. entry' = NoEntry
      BY <1>11, <2>8 DEF PumpReserveOk
    <3>2. KeysInv'
      BY <1>a, <2>1, <2>4, <2>8, <3>1 DEF KeysInv
    <3> QED
      BY <2>1, <2>4, <2>5, <2>7, <3>1, <3>2 DEF EntryInv, RecordsInv
  <2>9. CASE entry # NoEntry
    <3> DEFINE c == entry.outgoing
               d == CommitReservation(c, b)
    <3>1. /\ entry \in Entry /\ c \in Counter /\ entry.key \in KeyIds
          /\ entry' = [entry EXCEPT !.outgoing = d]
      BY <1>0, <1>11, <2>9 DEF PumpReserveOk
    <3>2. entry' # NoEntry /\ entry'.key = entry.key /\ entry'.usable = entry.usable
          /\ entry'.outgoing = d
      BY <3>1 DEF Entry, NoEntry
    <3>3. /\ d \in Counter /\ d.next = c.next
          /\ d.reserved = IF b > c.reserved THEN b ELSE c.reserved
          /\ d.inFlight = IF c.inFlight = b THEN NoReservation ELSE c.inFlight
      BY <2>3, <3>1, CommitFields
    <3>4. /\ c.next \in Int /\ c.reserved \in Nat
          /\ used[entry.key] < c.next /\ c.next <= c.reserved
          /\ Within(actions, c) /\ Queued(actions, c)
      BY <1>a, <2>9, <3>1 DEF EntryInv, Counter
    <3> HIDE DEF c, d, b
    <3>5. c.reserved <= b
      BY <2>1, <2>2, <3>4 DEF Within, IsReserve, b
    <3>6. d.reserved = b
      BY <2>3, <3>3, <3>4, <3>5
    <3>7. ReservationTarget(c) <= ReservationTarget(d)
      BY <3>1, <3>3, <3>4, <3>5, <3>6, TargetGrows DEF c
    <3>8. ReservationTarget(c) \in Int /\ ReservationTarget(d) \in Int
      BY <3>1, <3>3, CounterType DEF c
    <3>9. Within(actions', c)
      BY <1>0, <2>1, <3>1, <3>4, PopOwn DEF c
    <3>10. Within(actions', d)
      BY <1>d, <2>6, <3>6, <3>7, <3>8, <3>9 DEF Within
    <3>11. Queued(actions', d)
      <4>1. CASE c.inFlight = b
        BY <3>3, <4>1 DEF Queued
      <4>2. CASE c.inFlight # b
        <5>1. Head(actions) # Reserve(c.inFlight)
          BY <4>2 DEF Reserve, b
        <5>2. Queued(actions', c)
          BY <1>0, <2>1, <3>1, <3>4, <5>1, PopOwn DEF c
        <5> QED
          BY <3>3, <4>2, <5>2 DEF Queued
      <4> QED
        BY <4>1, <4>2
    <3>12. nv'.counter # NoRecord => RestoredBound' = b
      BY <2>4 DEF RestoredBound
    <3>13. nv'.counter # NoRecord
      BY <2>4, <3>4, <3>5, <2>3 DEF NoRecord
    <3>14. EntryInv'
      <4>1. used'[entry'.key] < entry'.outgoing.next
        BY <2>1, <3>2, <3>3, <3>4
      <4>2. entry'.outgoing.next <= entry'.outgoing.reserved
        BY <2>3, <3>2, <3>3, <3>4, <3>5, <3>6
      <4>3. entry'.outgoing.reserved <= nv'.counter /\ entry'.outgoing.reserved <= RestoredBound'
        BY <2>3, <2>4, <3>2, <3>6, <3>12, <3>13
      <4> QED
        BY <3>2, <3>10, <3>11, <4>1, <4>2, <4>3 DEF EntryInv
    <3>15. RecordsInv'
      BY <1>a, <2>1, <2>4, <2>5, <2>7, <2>9, <3>2 DEF RecordsInv
    <3>16. KeysInv'
      BY <1>a, <2>1, <2>4, <2>9, <3>2 DEF KeysInv
    <3> QED
      BY <2>5, <3>14, <3>15, <3>16
  <2> QED
    BY <2>8, <2>9
<1>12. CASE PumpReserveFails
  <2>1. /\ actions # <<>> /\ Head(actions).kind = "reserve" /\ actions' = Tail(actions)
        /\ UNCHANGED <<session, nv, lastKey, used>>
        /\ RestoredBound' = RestoredBound
    BY <1>12 DEF PumpReserveFails, RestoredBound
  <2>2. /\ Ascending(actions') /\ Covered(actions', nv.key, used)
        /\ HasPersist(actions) => HasPersist(actions')
    BY <1>0, <1>a, <2>1, PopAny, PopReserve DEF RecordsInv
  <2>3. CASE entry = NoEntry
    <3>1. entry' = NoEntry
      BY <1>12, <2>3 DEF PumpReserveFails
    <3>2. KeysInv'
      BY <1>a, <2>1, <2>3, <3>1 DEF KeysInv
    <3> QED
      BY <1>a, <2>1, <2>2, <3>1, <3>2 DEF EntryInv, RecordsInv
  <2>4. CASE entry # NoEntry
    <3> DEFINE c == entry.outgoing
               d == AbortReservation(c)
    <3>1. /\ entry \in Entry /\ c \in Counter
          /\ entry' = [entry EXCEPT !.outgoing = d]
      BY <1>0, <1>12, <2>4 DEF PumpReserveFails
    <3>2. entry' # NoEntry /\ entry'.key = entry.key /\ entry'.usable = entry.usable
          /\ entry'.outgoing = d
      BY <3>1 DEF Entry, NoEntry
    <3>3. d.next = c.next /\ d.reserved = c.reserved /\ d.inFlight = NoReservation
      BY <3>1 DEF AbortReservation, Counter
    <3>4. Within(actions', c)
      BY <1>0, <1>a, <2>1, <2>4, <3>1, PopOwn DEF EntryInv
    <3> HIDE DEF d
    <3>5. Within(actions', d) /\ Queued(actions', d)
      BY <3>3, <3>4 DEF Within, Queued, ReservationTarget
    <3>6. EntryInv'
      BY <1>a, <2>1, <2>4, <3>2, <3>3, <3>5 DEF EntryInv
    <3>7. RecordsInv'
      BY <1>a, <2>1, <2>2, <2>4, <3>2 DEF RecordsInv
    <3>8. KeysInv'
      BY <1>a, <2>1, <2>4, <3>2 DEF KeysInv
    <3> QED
      BY <2>2, <3>6, <3>7, <3>8
  <2> QED
    BY <2>3, <2>4
<1>13. ASSUME NEW n \in 0 .. 3, PumpPersist(n)
       PROVE  KeysInv' /\ EntryInv' /\ Ascending(actions') /\ RecordsInv'
  <2>0. n # 0
    BY <1>13 DEF PumpPersist
  <2>1. /\ n >= 1 /\ nv' = Saved(n) /\ actions # <<>>
        /\ Head(actions).kind = "persist" /\ actions' = Tail(actions)
        /\ UNCHANGED <<entry, session, lastKey, used>>
    BY <1>13, <2>0 DEF PumpPersist
  <2>2. /\ nv'.counter = nv.counter
        /\ \/ nv'.key = NoKey
           \/ entry # NoEntry /\ nv'.key = entry.key /\ nv'.bound = entry.outgoing.reserved
    BY <1>0, <2>1, SavedFacts DEF TypeInvariant
  <2>3. Ascending(actions')
    BY <1>0, <1>a, <2>1, PopAny
  <2>4. KeysInv'
    BY <1>0, <1>a, <2>1, <2>2 DEF KeysInv, NoKey
  <2>5. entry # NoEntry /\ nv'.key = entry.key => entry.outgoing.reserved <= RestoredBound'
    <3>1. entry # NoEntry => entry.outgoing.reserved \in Int
      BY <1>0 DEF Counter
    <3> QED
      BY <1>0, <1>a, <2>1, <2>2, <3>1 DEF EntryInv, RestoredBound
  <2>6. EntryInv'
    <3> SUFFICES ASSUME entry # NoEntry
                 PROVE  EntryInv'
      BY <2>1 DEF EntryInv
    <3>1. Head(actions) # Reserve(entry.outgoing.inFlight)
      BY <2>1 DEF Reserve
    <3>2. Within(actions', entry.outgoing) /\ Queued(actions', entry.outgoing)
      BY <1>0, <1>a, <2>1, <3>1, PopOwn DEF EntryInv
    <3> QED
      BY <1>a, <2>1, <2>2, <2>5, <3>2 DEF EntryInv
  <2>7. RecordsInv'
    <3>1. CASE nv'.key = NoKey
      BY <3>1 DEF RecordsInv, Covered
    <3>2. CASE entry # NoEntry /\ nv'.key = entry.key
      <4>1. used[entry.key] < entry.outgoing.reserved /\ used[entry.key] \in Int
        <5>1. /\ used[entry.key] \in Int /\ entry.outgoing.next \in Int
              /\ entry.outgoing.reserved \in Int
          BY <1>0, <3>2 DEF Counter
        <5> QED
          BY <1>a, <3>2, <5>1 DEF EntryInv
      <4>2. entry.outgoing.reserved \in Int /\ RestoredBound' \in Int
        BY <1>0, <1>d, <3>2 DEF Counter
      <4>3. used'[nv'.key] < RestoredBound'
        BY <2>1, <2>5, <3>2, <4>1, <4>2
      <4>4. \A i \in 1 .. Len(actions') : IsReserve(actions', i) =>
               entry.outgoing.reserved <= actions'[i].bound
        BY <2>1, <2>6, <3>2 DEF EntryInv, Within
      <4>5. Covered(actions', nv'.key, used')
        BY <1>d, <2>1, <3>2, <4>1, <4>2, <4>4 DEF Covered
      <4> QED
        BY <2>1, <3>2, <4>3, <4>5 DEF RecordsInv
    <3> QED
      BY <2>2, <3>1, <3>2
  <2> QED
    BY <2>3, <2>4, <2>6, <2>7
<1>14. ASSUME NEW n \in 1 .. 3, FactoryReset(n)
       PROVE  KeysInv' /\ EntryInv' /\ Ascending(actions') /\ RecordsInv'
  <2>1. nv'.key = NoKey /\ nv'.counter \in {nv.counter, NoRecord}
    BY <1>14, ResetFacts DEF TypeInvariant
  <2>2. UNCHANGED <<entry, session, actions, lastKey, used>>
    BY <1>14 DEF FactoryReset
  <2>3. KeysInv'
    BY <1>0, <1>a, <2>1, <2>2 DEF KeysInv, NoKey
  <2>4. EntryInv'
    BY <1>0, <1>a, <2>1, <2>2 DEF EntryInv
  <2>5. RecordsInv'
    BY <1>a, <2>1, <2>2 DEF RecordsInv, Covered
  <2> QED
    BY <1>a, <2>2, <2>3, <2>4, <2>5
<1>15. CASE Restart
  <2>1. /\ session'.phase = "none" /\ actions' = <<>>
        /\ UNCHANGED <<nv, lastKey, used>>
        /\ RestoredBound' = RestoredBound
    BY <1>15 DEF Restart, NoSession, RestoredBound
  <2>2. Ascending(actions') /\ Covered(actions', nv.key, used)
    BY <2>1 DEF Ascending, Covered
  <2>3. CASE entry' = NoEntry
    <3>1. KeysInv'
      BY <1>0, <1>a, <2>1, <2>3 DEF KeysInv, NoEntry, NoKey
    <3>2. EntryInv' /\ RecordsInv'
      BY <1>a, <2>1, <2>2, <2>3 DEF EntryInv, RecordsInv
    <3> QED
      BY <2>2, <3>1, <3>2
  <2>4. CASE /\ nv.key # NoKey
             /\ entry' = [key |-> nv.key, usable |-> nv.usable,
                          outgoing |-> Restore(RestoredBound)]
    <3>1. /\ entry'.key = nv.key /\ entry'.outgoing.next = RestoredBound
          /\ entry'.outgoing.reserved = RestoredBound
          /\ entry'.outgoing.inFlight = NoReservation
      BY <2>4 DEF Restore
    <3>2. RestoredBound \in Nat /\ (nv.counter # NoRecord => RestoredBound = nv.counter)
      BY DEF RestoredBound, TypeInvariant, Records, NoRecord
    <3>3. KeysInv'
      BY <1>a, <2>1, <3>1 DEF KeysInv
    <3>4. EntryInv'
      BY <1>a, <2>1, <2>4, <3>1, <3>2 DEF EntryInv, RecordsInv, Within, Queued
    <3>5. RecordsInv'
      BY <1>a, <2>1, <2>2, <3>1 DEF RecordsInv
    <3> QED
      BY <2>2, <3>3, <3>4, <3>5
  <2> QED
    BY <1>15, <2>3, <2>4 DEF Restart
<1>16. CASE UNCHANGED vars
  BY <1>a, <1>16 DEF vars, KeysInv, EntryInv, RecordsInv, RestoredBound
<1> QED
  BY <1>1, <1>2, <1>3, <1>4, <1>5, <1>6, <1>7, <1>8, <1>9, <1>10, <1>11, <1>12,
     <1>13, <1>14, <1>15, <1>16 DEF Next

\* The order of used values, counters and bounds holds in every reachable
\* state that nothing has disturbed.
LEMMA LinkInvariant == Spec => []LinkInv
<1>1. Init => LinkInv
  <2> SUFFICES ASSUME Init
               PROVE  KeysInv /\ EntryInv /\ Ascending(actions) /\ RecordsInv
    BY DEF LinkInv
  <2>1. KeysInv
    BY LinkKeysAssumption DEF Init, KeysInv, NoEntry, NoSession, NoKey
  <2>2. EntryInv /\ RecordsInv
    BY DEF Init, EntryInv, RecordsInv, Covered
  <2>3. Ascending(actions)
    BY DEF Init, Ascending
  <2> QED
    BY <2>1, <2>2, <2>3
<1> QED
  BY <1>1, TypeCorrect, LinkStep, PTL DEF Spec

\* As long as no negotiation restored its backup, no key overtook a
\* reservation and no failed save was followed by more writes, a link key is
\* never used twice with one counter value: for every window, margin, counter
\* width, queue length and number of keys, with power losses, failed writes,
\* saves cut short and answers received twice wherever they may fall.
THEOREM NoLinkNonceReuse == Spec => []FreshUntilDisturbed
<1>1. LinkInv => FreshUntilDisturbed
  BY DEF LinkInv, EntryInv, FreshUntilDisturbed, FreshLinkNonce
<1> QED
  BY <1>1, LinkInvariant, PTL

\* Under the same conditions the records never restore a key below a value
\* it was used with, wherever the power is lost.
THEOREM RestoreIsFresh == Spec => []RestoredUntilDisturbed
<1>1. LinkInv => RestoredUntilDisturbed
  BY DEF LinkInv, RecordsInv, RestoredUntilDisturbed, RestoredLinkIsFresh
<1> QED
  BY <1>1, LinkInvariant, PTL

\* Under the same conditions a reservation in flight is on its way to
\* storage, so that the frames that wait for it are released or ask again.
THEOREM LinkReservationNeverLost == Spec => []InFlightUntilDisturbed
<1>1. TypeInvariant /\ LinkInv => InFlightUntilDisturbed
  <2> SUFFICES ASSUME TypeInvariant, LinkInv, ~disturbed, entry # NoEntry,
                      entry.outgoing.inFlight # NoReservation
               PROVE  \E i \in DOMAIN actions : actions[i] = Reserve(entry.outgoing.inFlight)
    BY DEF InFlightUntilDisturbed
  <2>1. DOMAIN actions = 1 .. Len(actions)
    BY DEF TypeInvariant
  <2> QED
    BY <2>1 DEF LinkInv, EntryInv, Queued
<1> QED
  BY <1>1, TypeCorrect, LinkInvariant, PTL
=============================================================================
