------------------------ MODULE FrameCounterProofs ------------------------
(***************************************************************************)
(* Lemmas about the outgoing frame counter of FrameCounter and about the   *)
(* queues of actions through which its owners reach storage. The proofs    *)
(* about the NWK counter and about the link keys rest on them.             *)
(***************************************************************************)
EXTENDS FrameCounter, Sequences, TLAPS

-----------------------------------------------------------------------------
(* The counter                                                             *)

\* The operations of OutgoingCounter keep the counter a counter.
LEMMA CounterType ==
    ASSUME NEW c \in Counter
    PROVE  /\ ReservationTarget(c) \in 0 .. MaxCounter
           /\ ReservationTarget(c) >= c.reserved
           /\ StartReservation(c) \in Counter
           /\ OnKeySwitch(c) \in Counter
           /\ AbortReservation(c) \in Counter
           /\ CanAllocate(c) => Allocate(c) \in Counter
<1> USE CounterAssumption
<1>1. /\ ReservationTarget(c) \in 0 .. MaxCounter
      /\ ReservationTarget(c) >= c.reserved
  BY DEF ReservationTarget, SatAdd, Counter
<1>2. StartReservation(c) \in Counter
  BY <1>1 DEF StartReservation, Counter
<1>3. OnKeySwitch(c) \in Counter
  BY DEF OnKeySwitch, NewCounter, Restore, Counter, NoReservation
<1>4. AbortReservation(c) \in Counter
  BY DEF AbortReservation, Counter
<1>5. CanAllocate(c) => Allocate(c) \in Counter
  BY DEF CanAllocate, Allocate, Exhausted, Counter
<1> QED
  BY <1>1, <1>2, <1>3, <1>4, <1>5

\* A committed bound keeps the counter a counter; it clears the reservation
\* it answers and raises the trusted bound, and nothing else.
LEMMA CommitFields ==
    ASSUME NEW c \in Counter, NEW b \in {NoReservation} \cup (0 .. MaxCounter)
    PROVE  /\ CommitReservation(c, b) \in Counter
           /\ CommitReservation(c, b).next = c.next
           /\ CommitReservation(c, b).reserved = IF b > c.reserved THEN b ELSE c.reserved
           /\ CommitReservation(c, b).inFlight =
                 IF c.inFlight = b THEN NoReservation ELSE c.inFlight
  BY CounterAssumption DEF CommitReservation, Counter, NoReservation

-----------------------------------------------------------------------------
(* The queue                                                               *)

\* What appending one element does to a sequence.
LEMMA PushFacts ==
    ASSUME NEW S, NEW q \in Seq(S), NEW e \in S
    PROVE  /\ q \o <<e>> \in Seq(S)
           /\ Len(q \o <<e>>) = Len(q) + 1
           /\ \A i \in 1 .. Len(q) : (q \o <<e>>)[i] = q[i]
           /\ (q \o <<e>>)[Len(q) + 1] = e
  OBVIOUS

\* What removing the head does to a sequence.
LEMMA PopFacts ==
    ASSUME NEW S, NEW q \in Seq(S), q # <<>>
    PROVE  /\ Head(q) \in S
           /\ Head(q) = q[1]
           /\ 1 \in 1 .. Len(q)
           /\ Tail(q) \in Seq(S)
           /\ Len(Tail(q)) = Len(q) - 1
           /\ \A i \in 1 .. Len(Tail(q)) : Tail(q)[i] = q[i + 1]
  OBVIOUS

\* Appending nothing.
LEMMA PushNothing ==
    ASSUME NEW S, NEW q \in Seq(S)
    PROVE  q \o <<>> = q
  OBVIOUS
=============================================================================
