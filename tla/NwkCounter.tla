---------------------------- MODULE NwkCounter ----------------------------
(***************************************************************************)
(* Network keys, the outgoing NWK frame counter and their persistence:     *)
(* the NWK layer (panweave-nwk) asks for counter reservations and for its  *)
(* state to be saved by queueing actions; the runtime (panweave-runtime)   *)
(* takes them from the queue, writes the records and reports back; a power *)
(* loss may come between any two of these steps, and Stack::restore        *)
(* rebuilds the layer from the records that were written.                  *)
(*                                                                         *)
(* A frame is secured with a nonce made of the key and the counter value,  *)
(* so a pair (key, value) must never be used for two frames. A network key *)
(* is named by its sequence number: each stands for one key value.         *)
(***************************************************************************)
EXTENDS FrameCounter, Sequences

CONSTANTS Seqs,            \* key sequence numbers, in the order of key updates
          QueueCapacity,   \* NwkDims::Actions
          MaxWaiting       \* frames that may be parked (PENDING_TX)

ASSUME NwkAssumption ==
    /\ Seqs \subseteq Nat
    /\ QueueCapacity \in Nat
    /\ MaxWaiting \in Nat

VARIABLES counter,   \* the shared outgoing counter
          slots,     \* sequence numbers of the installed keys, at most two
          active,    \* sequence number of the active key, or NoSeq
          actions,   \* NwkActions the runtime has not taken yet
          waiting,   \* frames parked until a reservation is committed
          nv,        \* records in storage
          used,      \* history: the highest counter value used with each key
          wasReset   \* history: a key switch has restarted the counter

vars == <<counter, slots, active, actions, waiting, nv, used, wasReset>>

NoRecord == -1
NoSeq == -1
NoValue == -1

Records == [nib    : BOOLEAN,                            \* Kind::Nib present
            keys   : BOOLEAN,                            \* Kind::NetworkKeys present
            slots  : SUBSET Seqs,                        \* ... and its contents
            active : Seqs \cup {NoSeq},
            bound  : {NoRecord} \cup (0 .. MaxCounter)]  \* Kind::NwkFrameCounter

\* The bound a restart resumes at; without a record the counter is new.
DurableBound == IF nv.bound = NoRecord THEN 0 ELSE nv.bound

-----------------------------------------------------------------------------
(* Queued actions                                                          *)

Persist == [kind |-> "persist", bound |-> NoReservation]
Reserve(bound) == [kind |-> "reserve", bound |-> bound]

ActionType == [kind : {"persist", "reserve"},
               bound : {NoReservation} \cup (0 .. MaxCounter)]

\* maybe_reserve_counter: the counter afterwards and the action it queues.
MaybeReserve(c) == IF NeedsReservation(c) THEN StartReservation(c) ELSE c
ReservationAction(c) ==
    IF NeedsReservation(c) THEN <<Reserve(ReservationTarget(c))>> ELSE <<>>

\* push_action asserts that the queue never overflows; a handler pushes at
\* most two of the actions modelled here.
HasRoom == Len(actions) + 2 <= QueueCapacity

-----------------------------------------------------------------------------
(* Key slots (NetworkKeys)                                                 *)

\* install: a known key is overwritten in place, otherwise a full pair of
\* slots gives up one that is not active.
Installed(seq) ==
    IF seq \in slots \/ \A s, t \in slots : s = t
    THEN {slots \cup {seq}}
    ELSE {(slots \ {victim}) \cup {seq} : victim \in slots \ {active}}

Init ==
    /\ counter = NewCounter
    /\ slots = {}
    /\ active = NoSeq
    /\ actions = <<>>
    /\ waiting = 0
    /\ nv = [nib |-> FALSE, keys |-> FALSE, slots |-> {},
             active |-> NoSeq, bound |-> NoRecord]
    /\ used = [s \in Seqs |-> NoValue]
    /\ wasReset = FALSE

-----------------------------------------------------------------------------
(* Handlers of the NWK layer                                               *)

\* Formation, the key of an authorizing Transport Key, or a provisioned key.
SetActiveKey(seq) ==
    /\ HasRoom
    /\ slots' \in Installed(seq)
    /\ active' = seq
    /\ counter' = MaybeReserve(counter)
    /\ actions' = actions \o ReservationAction(counter) \o <<Persist>>
    /\ UNCHANGED <<waiting, nv, used, wasReset>>

\* A key update that is not switched to yet.
SetAlternateKey(seq) ==
    /\ HasRoom
    /\ slots' \in Installed(seq)
    /\ counter' = MaybeReserve(counter)
    /\ actions' = actions \o <<Persist>> \o ReservationAction(counter)
    /\ UNCHANGED <<active, waiting, nv, used, wasReset>>

\* APSME-SWITCH-KEY, the Trust Center's delayed switch, or a sleepy end
\* device following its parent; each happens on a device that uses a key.
\* The counter rule applies to a real change of key only.
SwitchNetworkKey(seq) ==
    /\ HasRoom
    /\ active # NoSeq
    /\ seq \in slots
    /\ active' = seq
    /\ LET c == IF seq # active THEN OnKeySwitch(counter) ELSE counter
       IN  /\ counter' = MaybeReserve(c)
           /\ actions' = actions \o ReservationAction(c) \o <<Persist>>
    /\ wasReset' = (wasReset \/ (seq # active /\ SwitchResets(counter)))
    /\ UNCHANGED <<slots, waiting, nv, used>>

\* Mutant of Leave: the key slots are cleared, the active key is not.
LeaveKeepsActive(rejoin) ==
    /\ HasRoom
    /\ slots' = IF rejoin THEN slots ELSE {}
    /\ waiting' = 0
    /\ actions' = Append(actions, Persist)
    /\ UNCHANGED <<counter, active, nv, used, wasReset>>

\* local_leave drops the parked frames, and without rejoin the keys; the
\* counter is kept.
Leave(rejoin) ==
    /\ HasRoom
    /\ slots' = IF rejoin THEN slots ELSE {}
    /\ active' = IF rejoin THEN active ELSE NoSeq
    /\ waiting' = 0
    /\ actions' = Append(actions, Persist)
    /\ UNCHANGED <<counter, nv, used, wasReset>>

\* Mutant of Secured: the reserved bound is not looked at.
SecuredUnreserved ==
    /\ ~Exhausted(counter)
    /\ used' = [used EXCEPT ![active] = IF counter.next > @ THEN counter.next ELSE @]
    /\ counter' = MaybeReserve(Allocate(counter))
    /\ actions' = actions \o ReservationAction(Allocate(counter))

\* finalize_frame with the next value: it is taken first, and a reservation
\* is asked for afterwards.
Secured ==
    /\ CanAllocate(counter)
    /\ used' = [used EXCEPT ![active] = IF counter.next > @ THEN counter.next ELSE @]
    /\ counter' = MaybeReserve(Allocate(counter))
    /\ actions' = actions \o ReservationAction(Allocate(counter))

\* Mutant of Unsecured: no reservation is asked for.
UnsecuredSilently ==
    /\ ~CanAllocate(counter)
    /\ UNCHANGED <<counter, actions, used>>

\* finalize_frame without a value: a reservation is asked for.
Unsecured ==
    /\ ~CanAllocate(counter)
    /\ counter' = MaybeReserve(counter)
    /\ actions' = actions \o ReservationAction(counter)
    /\ UNCHANGED used

\* A frame to transmit: secured, parked (CounterPending), or refused when
\* the counter is exhausted.
SendFrame ==
    /\ HasRoom
    /\ active # NoSeq
    /\ \/ Secured /\ UNCHANGED waiting
       \/ /\ Unsecured
          /\ Exhausted(counter) \/ waiting < MaxWaiting
          /\ waiting' = IF Exhausted(counter) THEN waiting ELSE waiting + 1
    /\ UNCHANGED <<slots, active, nv, wasReset>>

\* service_pending: the retry timer of a parked frame. It is secured,
\* parked again, or dropped (counter exhausted).
RetryFrame ==
    /\ HasRoom
    /\ waiting > 0
    /\ active # NoSeq
    /\ \/ Secured /\ waiting' = waiting - 1
       \/ /\ Unsecured
          /\ waiting' = IF Exhausted(counter) THEN waiting - 1 ELSE waiting
    /\ UNCHANGED <<slots, active, nv, wasReset>>

-----------------------------------------------------------------------------
(* The runtime: pump_nwk_actions                                           *)

\* CounterReservation: the record is written and the layer told.
PumpReserveOk ==
    /\ actions # <<>> /\ Head(actions).kind = "reserve"
    /\ nv' = [nv EXCEPT !.bound = Head(actions).bound]
    /\ counter' = CommitReservation(counter, Head(actions).bound)
    /\ actions' = Tail(actions)
    /\ UNCHANGED <<slots, active, waiting, used, wasReset>>

\* Mutants of PumpReserveFails: the error of the write is ignored; the
\* layer is not told that its reservation failed.
PumpReserveIgnoresError ==
    /\ actions # <<>> /\ Head(actions).kind = "reserve"
    /\ counter' = CommitReservation(counter, Head(actions).bound)
    /\ actions' = Tail(actions)
    /\ UNCHANGED <<slots, active, waiting, nv, used, wasReset>>

PumpReserveForgets ==
    /\ actions # <<>> /\ Head(actions).kind = "reserve"
    /\ actions' = Tail(actions)
    /\ UNCHANGED <<counter, slots, active, waiting, nv, used, wasReset>>

\* CounterReservation with a failing write.
PumpReserveFails ==
    /\ actions # <<>> /\ Head(actions).kind = "reserve"
    /\ counter' = AbortReservation(counter)
    /\ actions' = Tail(actions)
    /\ UNCHANGED <<slots, active, waiting, nv, used, wasReset>>

\* Persist: the records are written one by one and errors are ignored, so
\* each may or may not be replaced.
PumpPersist(nibOk, keysOk) ==
    /\ actions # <<>> /\ Head(actions).kind = "persist"
    /\ nv' = [nv EXCEPT !.nib = @ \/ nibOk,
                        !.keys = @ \/ keysOk,
                        !.slots = IF keysOk THEN slots ELSE @,
                        !.active = IF keysOk THEN active ELSE @]
    /\ actions' = Tail(actions)
    /\ UNCHANGED <<counter, slots, active, waiting, used, wasReset>>

\* erase_persisted after the leave of a factory reset: the records go one
\* kind at a time (an error or a power loss stops it), the counter stays.
FactoryReset(keysErased) ==
    /\ active = NoSeq
    /\ nv' = [nv EXCEPT !.nib = FALSE, !.keys = @ /\ ~keysErased]
    /\ UNCHANGED <<counter, slots, active, actions, waiting, used, wasReset>>

\* Mutant of Restart: the counter is restored with the keys only.
RestartForgetsCounter ==
    /\ IF nv.nib /\ nv.keys
       THEN slots' = nv.slots /\ active' = nv.active /\ counter' = Restore(DurableBound)
       ELSE slots' = {} /\ active' = NoSeq /\ counter' = NewCounter
    /\ actions' = <<>>
    /\ waiting' = 0
    /\ UNCHANGED <<nv, used, wasReset>>

\* Power loss, boot and Stack::restore. Keys come back only when both the
\* NIB and the key record are there; the counter comes back on its own.
Restart ==
    /\ counter' = Restore(DurableBound)
    /\ IF nv.nib /\ nv.keys
       THEN slots' = nv.slots /\ active' = nv.active
       ELSE slots' = {} /\ active' = NoSeq
    /\ actions' = <<>>
    /\ waiting' = 0
    /\ UNCHANGED <<nv, used, wasReset>>

Next ==
    \/ \E seq \in Seqs :
          SetActiveKey(seq) \/ SetAlternateKey(seq) \/ SwitchNetworkKey(seq)
    \/ \E rejoin \in BOOLEAN : Leave(rejoin)
    \/ SendFrame
    \/ RetryFrame
    \/ PumpReserveOk
    \/ PumpReserveFails
    \/ \E nibOk, keysOk \in BOOLEAN : PumpPersist(nibOk, keysOk)
    \/ \E keysErased \in BOOLEAN : FactoryReset(keysErased)
    \/ Restart

\* Stack::poll is called again and again: the queue is pumped and due retry
\* timers run. Storage may fail any number of times, but not forever, and a
\* retry timer (COUNTER_RETRY_DELAY, 2 ms) is too short for other frames to
\* use up every window before it.
Pump == PumpReserveFails \/ (\E n, k \in BOOLEAN : PumpPersist(n, k))

Fairness ==
    /\ WF_vars(Pump \/ PumpReserveOk)
    /\ SF_vars(PumpReserveOk)
    /\ WF_vars(RetryFrame)
    /\ SF_vars(RetryFrame /\ (CanAllocate(counter) \/ Exhausted(counter)))

Spec == Init /\ [][Next]_vars

FairSpec == Spec /\ Fairness

\* The order in which a Trust Center updates the network key: a handler
\* never makes a key active again after a later one has been in use.
KeysMoveForward ==
    (active' \notin {active, NoSeq} /\ actions' # <<>>)
        => active < active' /\ \A s \in Seqs : used[s] # NoValue => s <= active'

ForwardSpec == Init /\ [][Next /\ KeysMoveForward]_vars

-----------------------------------------------------------------------------
(* Properties                                                              *)

\* Every variable has its type, and the active key is installed.
TypeInvariant ==
    /\ counter \in Counter
    /\ slots \subseteq Seqs
    /\ active \in {NoSeq} \cup slots
    /\ actions \in Seq(ActionType)
    /\ waiting \in 0 .. MaxWaiting
    /\ nv \in Records
    /\ nv.active \in {NoSeq} \cup nv.slots
    /\ used \in [Seqs -> {NoValue} \cup (0 .. MaxCounter)]
    /\ wasReset \in BOOLEAN

\* No value the counter may still hand out has been used with the active
\* key: OutgoingCounter, its reservations and Stack::restore never lead to
\* a second frame with the same key and value, whatever is interrupted.
FreshNonce ==
    active # NoSeq => used[active] < counter.next

\* FreshNonce holds as long as no key switch has restarted the counter.
FreshUntilReset == ~wasReset => FreshNonce

\* A restart now would be safe: the bound it resumes at is above every value
\* used with the key it restores.
ResumeIsFresh ==
    nv.nib /\ nv.keys /\ nv.active # NoSeq => used[nv.active] < DurableBound

\* The bound the layer trusts is durable: a restart resumes at or above
\* every value it may still hand out before the next commit.
TrustedBoundIsDurable == counter.reserved <= DurableBound

\* TrustedBoundIsDurable until a key switch restarts the counter.
DurableUntilReset == ~wasReset => TrustedBoundIsDurable

\* A reservation that is in flight is on its way to storage. Otherwise
\* needs_reservation would stay false and the layer stop sending for good.
InFlightIsQueued ==
    counter.inFlight # NoReservation =>
        \E i \in 1 .. Len(actions) : actions[i] = Reserve(counter.inFlight)

\* The stored bound never moves back before a counter reset: a late or
\* repeated reservation cannot lower the point a restart resumes at.
BoundMonotone ==
    [][~wasReset' => (nv.bound <= nv'.bound)]_vars

\* A frame parked for a reservation does not wait forever: it is secured,
\* refused because the counter is exhausted, or lost with the keys or the
\* power.
ParkedFramesLeave == (waiting > 0) ~> (waiting = 0 \/ active = NoSeq)
=============================================================================
