--------------------------- MODULE FrameCounter ---------------------------
(***************************************************************************)
(* The store-ahead outgoing frame counter of panweave-security             *)
(* (OutgoingCounter in frame_counter.rs), as operators on its value.       *)
(*                                                                         *)
(* A counter is a record                                                   *)
(*     next      the next value to hand out                                *)
(*     reserved  the bound the owner believes to be durable; a value is    *)
(*               handed out only below it                                  *)
(*     inFlight  the bound handed to storage and not yet answered, or      *)
(*               NoReservation                                             *)
(* The NWK layer owns one of them (module NwkCounter), the APS layer one   *)
(* per link key (module LinkKeys).                                         *)
(***************************************************************************)
EXTENDS Integers

CONSTANTS Window,          \* values reserved by one storage write (DEFAULT_WINDOW)
          Margin,          \* distance at which the next write is asked for
          MaxCounter,      \* u32::MAX
          ResetThreshold   \* SWITCH_RESET_THRESHOLD

\* with_window clamps the window to at least 1 and the margin below the
\* window; the threshold is an ordinary counter value.
ASSUME CounterAssumption ==
    /\ MaxCounter \in Nat \ {0}
    /\ Window \in Nat \ {0}
    /\ Margin \in 0 .. (Window - 1)
    /\ ResetThreshold \in Nat

NoReservation == -1

Counter == [next : 0 .. MaxCounter, reserved : 0 .. MaxCounter,
            inFlight : {NoReservation} \cup (0 .. MaxCounter)]

\* Mutant of SatAdd: the addition is not saturating.
PlainAdd(a, b) == a + b

\* u32::saturating_add
SatAdd(a, b) == IF a + b > MaxCounter THEN MaxCounter ELSE a + b

\* The counter resumes at the durable bound, never below it.
Restore(bound) ==
    [next |-> bound, reserved |-> bound, inFlight |-> NoReservation]

NewCounter == Restore(0)

NeedsReservation(c) ==
    /\ c.inFlight = NoReservation
    /\ SatAdd(c.next, Margin) >= c.reserved
    /\ c.reserved # MaxCounter

ReservationTarget(c) ==
    LET t == SatAdd(c.next, Window)
    IN  IF t > c.reserved THEN t ELSE c.reserved

StartReservation(c) == [c EXCEPT !.inFlight = ReservationTarget(c)]

\* A committed bound only ever raises the durable one.
CommitReservation(c, bound) ==
    [next |-> c.next,
     reserved |-> IF bound > c.reserved THEN bound ELSE c.reserved,
     inFlight |-> IF c.inFlight = bound THEN NoReservation ELSE c.inFlight]

AbortReservation(c) == [c EXCEPT !.inFlight = NoReservation]

Exhausted(c) == c.next = MaxCounter

CanAllocate(c) == ~Exhausted(c) /\ c.next < c.reserved

Allocate(c) == [c EXCEPT !.next = @ + 1]

\* The Switch Key rule: the counter starts again only past the threshold.
SwitchResets(c) == c.next > ResetThreshold

OnKeySwitch(c) == IF SwitchResets(c) THEN NewCounter ELSE c
=============================================================================
