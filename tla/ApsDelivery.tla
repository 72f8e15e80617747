---------------------------- MODULE ApsDelivery ----------------------------
(***************************************************************************)
(* APS data transmission between one device and its peers                  *)
(* (panweave-aps/src/layer/tx.rs, rx.rs): requests that fan out to bound   *)
(* destinations, acknowledgements, retries, local deferrals, fragmentation *)
(* with window 1, duplicate rejection and reassembly.                      *)
(*                                                                         *)
(* Time is a countdown in every record that carries a deadline; Tick takes *)
(* one unit off all of them and waits while a deadline of the sender is    *)
(* due, which next_deadline makes the runtime poll. Frames and             *)
(* acknowledgements may be lost and take up to MaxDelay ticks, in any      *)
(* order. The NWK layer below is external: it may send, fail, refuse or    *)
(* hold a frame. The runtime takes every ApsAction in the turn that queued *)
(* it, so the action queue is not modelled.                                *)
(***************************************************************************)
EXTENDS Naturals, Sequences, FiniteSets

CONSTANTS Bindings,        \* bound destinations, pairs <<peer, endpoint>>
          MaxRequests,     \* data_request calls
          CounterModulus,  \* 2^8 in the code
          MaxPending,      \* PENDING_TX
          MaxRetries,      \* MAX_FRAME_RETRIES
          AckWait,         \* ACK_WAIT_DURATION, in ticks
          RetryDelay,      \* LOCAL_RETRY_DELAY, COUNTER_RETRY_DELAY, in ticks
          MaxDeferrals,    \* MAX_LOCAL_DEFERRALS
          BlockCounts,     \* block_count of a transmission; 0: not fragmented
          DuplicateSlots,  \* entries of the duplicate rejection table
          MaxDelay,        \* ticks a message may be under way
          MaxFaults,       \* faults of the environment, see Fault
          Secured          \* frames are secured with the peers' link keys

ASSUME ApsDeliveryAssumption ==
    /\ IsFiniteSet(Bindings)
    /\ {MaxRequests, CounterModulus, MaxPending, AckWait, RetryDelay,
        DuplicateSlots} \subseteq Nat \ {0}
    /\ {MaxRetries, MaxDeferrals, MaxDelay, MaxFaults} \subseteq Nat
    /\ BlockCounts \subseteq Nat
    /\ Secured \in BOOLEAN

VARIABLES joined,     \* the sender's DeviceState is not NotJoined
          calls,      \* data_request calls so far: ids and APS counters
          tx,         \* the sender: pending, requests, and history
          nwk,        \* frames the sender's NWK layer holds
          frames,     \* data frames under way
          acks,       \* APS acknowledgements under way
          dedup,      \* per peer: APS counter -> ticks the record lives
          reassembly, \* per peer: the transaction being reassembled
          faults,     \* faults so far
          sent,       \* history: transmissions queued, their ack and blocks
          indicated,  \* history: indications of each transmission, 2 at most
          forgotten,  \* history: transmissions whose record a full table gave up
          delayed     \* history: requests held, refused or deferred locally

vars == <<joined, calls, tx, nwk, frames, acks, dedup, reassembly, faults,
          sent, indicated, forgotten, delayed>>

callVars == <<joined, calls, sent>>
peerVars == <<dedup, reassembly, indicated, forgotten>>

Ids == 1 .. MaxRequests
Peers == {b[1] : b \in Bindings}
Transmissions == Ids \X Bindings
PeerOf(t) == t[2][1]
CounterOf(t) == (t[1] - 1) % CounterModulus

NoBlock == "none"
NoReassembly == [counter |-> CounterModulus]

\* Mutant of RejectionTimeout: one retry is taken into account.
OneRetryTimeout == AckWait

ReceiveTimeout == AckWait * (1 + MaxRetries)   \* FRAGMENT_RECEIVE_TIMEOUT

RejectionTimeout == ReceiveTimeout      \* DUPLICATE_REJECTION_TIMEOUT

Persistence == AckWait                  \* FRAGMENT_PERSISTENCE

Statuses == {"SUCCESS", "NO_ACK", "NWK_FAILURE", "SECURITY_FAIL",
             "ILLEGAL_REQUEST"}
States == {"Ready", "CounterPending", "AwaitingNwkConfirm", "Deferred",
           "AwaitingAck"}

\* A PendingTx. `timer` is what is left of the deadline of the Deferred and
\* AwaitingAck states.
Pending == [counter : 0 .. CounterModulus - 1, ack : BOOLEAN,
            blocks : BlockCounts, block : Nat, retries : 0 .. MaxRetries,
            deferrals : 0 .. MaxDeferrals, state : States, timer : Nat]

\* What the environment does wrong, MaxFaults times: a message is lost, the
\* NWK layer fails, refuses or holds a frame, a counter reservation is not
\* written, the network is left.
Fault == faults < MaxFaults /\ faults' = faults + 1

----------------------------------------------------------------------------
(***************************************************************************)
(* The sender. Its handlers are operators on s = [pending, requests,       *)
(* confirms, handed]: what the APS layer keeps, the confirms it has        *)
(* reported, and the frames it hands to the NWK layer in this turn.        *)
(***************************************************************************)

\* Mutant of CountDown: the first answer of a fan-out confirms the request.
ConfirmAtFirst(r, n, status) ==
    [remaining |-> 0,
     status |-> IF r.status = "SUCCESS" THEN status ELSE r.status]

\* n transmissions of a request are done: the first failure is kept.
CountDown(r, n, status) ==
    [remaining |-> r.remaining - n,
     status |-> IF r.status = "SUCCESS" THEN status ELSE r.status]

\* The transmissions of a request among ts.
Of(ts, id) == {t \in ts : t[1] = id}

\* complete, called for the transmissions ts one after the other: a request
\* is confirmed when all its transmissions are done.
CompleteAll(s, ts, status) ==
    LET ids == {t[1] : t \in ts}
        left(id) == CountDown(s.requests[id], Cardinality(Of(ts, id)), status)
        done == {id \in ids : left(id).remaining = 0}
    IN  [s EXCEPT !.pending = [t \in DOMAIN @ \ ts |-> @[t]],
                  !.requests = [id \in DOMAIN @ \ done |->
                                   IF id \in ids THEN left(id) ELSE @[id]],
                  !.confirms = [id \in Ids |->
                                   IF id \in done THEN Append(@[id], left(id).status)
                                   ELSE @[id]]]

Complete(s, t, status) == CompleteAll(s, {t}, status)

\* The entry of t becomes p.
With(s, t, p) == [s EXCEPT !.pending[t] = p]

In(s, state) == {t \in DOMAIN s.pending : s.pending[t].state = state}

\* What build_frame may answer for a transmission.
BuildOutcomes ==
    IF Secured THEN {"Ok", "CounterPending", "NoKey"} ELSE {"Ok"}

\* The frame of the current block of transmission t.
FrameOf(p, t) ==
    [t |-> t, counter |-> p.counter, ack |-> p.ack, blocks |-> p.blocks,
     block |-> p.block]

\* service_pending: each ready transmission is handed to the NWK layer,
\* waits for a counter, or fails; built[t] is the answer of build_frame.
Service(s, built) ==
    LET ready == In(s, "Ready")
        of(outcome) == {t \in ready : built[t] = outcome}
        moved == [t \in DOMAIN s.pending |->
                     IF t \in of("Ok")
                     THEN [s.pending[t] EXCEPT !.state = "AwaitingNwkConfirm"]
                     ELSE IF t \in of("CounterPending")
                     THEN [s.pending[t] EXCEPT !.state = "CounterPending"]
                     ELSE s.pending[t]]
    IN  CompleteAll([s EXCEPT !.pending = moved,
                              !.handed = {FrameOf(s.pending[t], t) :
                                             t \in of("Ok")}],
                    of("NoKey"), "SECURITY_FAIL")

Outside(s) == [pending |-> s.pending, requests |-> s.requests,
               confirms |-> s.confirms]
Inside == [pending |-> tx.pending, requests |-> tx.requests,
           confirms |-> tx.confirms, handed |-> {}]

\* The turn ends in s: kept is what the NWK layer still holds.
Settle(s, kept) ==
    /\ tx' = Outside(s)
    /\ nwk' = kept \cup {[frame |-> f, live |-> TRUE] : f \in s.handed}

\* The turn ends with service_pending.
SettleServiced(s, kept) ==
    \E built \in [In(s, "Ready") -> BuildOutcomes] :
        Settle(Service(s, built), kept)

\* queue_tx for the transmissions ts, ready to be sent.
QueueTx(s, ts, counter, ack, blocks) ==
    LET entry == [counter |-> counter, ack |-> ack, blocks |-> blocks,
                  block |-> 0, retries |-> 0, deferrals |-> 0,
                  state |-> "Ready", timer |-> 0]
    IN  [s EXCEPT !.pending = [t \in DOMAIN @ \cup ts |->
                                  IF t \in ts THEN entry ELSE @[t]]]

\* track_request
TrackRequest(s, id, count) ==
    LET request == [remaining |-> count, status |-> "SUCCESS"]
    IN  [s EXCEPT !.requests = [i \in DOMAIN @ \cup {id} |->
                                   IF i = id THEN request ELSE @[i]]]

\* data_request, Bound (all bindings) or Short (one): only the destinations
\* that have a short address and find a free slot are queued, and one queued
\* destination is enough. The counter is taken in any case.
DataRequest(wanted, queued, ack, blocks) ==
    LET id == calls + 1
        ts == {id} \X queued
        s == TrackRequest(QueueTx(Inside, ts, calls % CounterModulus, ack,
                                  blocks),
                          id, Cardinality(queued))
    IN  /\ joined
        /\ calls < MaxRequests
        /\ calls' = calls + 1
        /\ queued \subseteq wanted
        /\ Cardinality(queued) + Cardinality(DOMAIN tx.pending) <= MaxPending
        /\ blocks # 0 => ack
        /\ IF queued = {} THEN UNCHANGED <<tx, nwk>> ELSE SettleServiced(s, nwk)
        /\ sent' = [t \in DOMAIN sent \cup ts |->
                       IF t \in ts THEN [ack |-> ack, blocks |-> blocks]
                       ELSE sent[t]]
        /\ UNCHANGED <<joined, faults, frames, acks, peerVars, delayed>>

\* on_nwk_data_confirm for the frame of t, in the three outcomes the code
\* tells apart.
NwkSuccess(s, t) ==
    LET p == s.pending[t]
    IN  IF p.ack
        THEN With(s, t, [p EXCEPT !.state = "AwaitingAck", !.timer = AckWait])
        ELSE Complete(s, t, "SUCCESS")

NwkFailure(s, t) ==
    LET p == s.pending[t]
    IN  IF p.ack /\ p.retries < MaxRetries
        THEN With(s, t, [p EXCEPT !.retries = @ + 1, !.state = "Ready"])
        ELSE Complete(s, t, "NWK_FAILURE")

NwkRefusal(s, t) ==
    LET p == s.pending[t]
    IN  IF p.deferrals < MaxDeferrals
        THEN With(s, t, [p EXCEPT !.deferrals = @ + 1, !.state = "Deferred",
                                  !.timer = RetryDelay])
        ELSE NwkFailure(s, t)

\* A frame whose confirm nobody waits for.
Orphan(n) == [frame |-> n.frame, live |-> FALSE]

OnAir(f) == frames' = frames \cup {[frame |-> f, ttl |-> MaxDelay]}

\* The NWK layer sends frame n.frame and confirms it.
NwkSends(n) ==
    /\ n \in nwk /\ n.live
    /\ OnAir(n.frame)
    /\ Settle(NwkSuccess(Inside, n.frame.t), nwk \ {n})
    /\ UNCHANGED <<callVars, faults, acks, peerVars, delayed>>

\* It reports a failure; the frame may have been received all the same.
NwkFails(n) ==
    /\ n \in nwk /\ n.live
    /\ Fault
    /\ OnAir(n.frame) \/ UNCHANGED frames
    /\ SettleServiced(NwkFailure(Inside, n.frame.t), nwk \ {n})
    /\ UNCHANGED <<callVars, acks, peerVars, delayed>>

\* It has no buffer (NwkError::Busy), or the runtime has no slot in
\* aps_handles: then the NWK layer sends the frame although the APS layer is
\* told FrameNotBuffered.
NwkRefuses(n, accepted) ==
    /\ n \in nwk /\ n.live
    /\ Fault
    /\ SettleServiced(NwkRefusal(Inside, n.frame.t),
                      (nwk \ {n}) \cup (IF accepted THEN {Orphan(n)} ELSE {}))
    /\ delayed' = delayed \cup {n.frame.t[1]}
    /\ UNCHANGED <<callVars, frames, acks, peerVars>>

\* A frame the APS layer waits for no longer is sent or dropped: the handle
\* of its confirm is unknown.
NwkForgets(n) ==
    /\ n \in nwk /\ ~n.live
    /\ nwk' = nwk \ {n}
    /\ OnAir(n.frame) \/ UNCHANGED frames
    /\ UNCHANGED <<callVars, faults, tx, acks, peerVars, delayed>>

\* commit_counter_reservation for the peer's key: the frames of the peer
\* have counters now, those of others may still have none.
CommitReservation(peer) ==
    LET parked == In(Inside, "CounterPending")
        s == [Inside EXCEPT
                 !.pending = [t \in DOMAIN @ |->
                                 IF t \in parked
                                 THEN [@[t] EXCEPT !.state = "Ready"]
                                 ELSE @[t]]]
    IN  /\ \E t \in parked : PeerOf(t) = peer
        /\ \E built \in [In(s, "Ready") -> {"Ok", "CounterPending"}] :
              /\ \A t \in parked : PeerOf(t) = peer => built[t] = "Ok"
              /\ Settle(Service(s, built), nwk)
        /\ UNCHANGED <<callVars, faults, frames, acks, peerVars, delayed>>

\* abort_counter_reservation: they are offered again a little later.
AbortReservation(peer) ==
    LET parked == {t \in In(Inside, "CounterPending") : PeerOf(t) = peer}
    IN  /\ parked # {}
        /\ Fault
        /\ tx' = [tx EXCEPT
                     !.pending = [t \in DOMAIN @ |->
                                     IF t \in parked
                                     THEN [@[t] EXCEPT !.state = "Deferred",
                                                       !.timer = RetryDelay]
                                     ELSE @[t]]]
        /\ delayed' = delayed \cup {t[1] : t \in parked}
        /\ UNCHANGED <<callVars, nwk, frames, acks, peerVars>>

\* Mutant of AckMatches: the block number is not compared.
AckOfAnyBlock(p, t, a) ==
    /\ t[2] = a.from /\ p.counter = a.counter
    /\ p.state = "AwaitingAck"

\* The test of on_ack: destination, endpoint and counter, and the block of a
\* fragmented transmission.
AckMatches(p, t, a) ==
    /\ t[2] = a.from /\ p.counter = a.counter
    /\ p.state = "AwaitingAck"
    /\ p.blocks # 0 => a.block = p.block

\* on_ack: the next block, or the end. An acknowledgement nobody waits for
\* is ignored.
ReceiveAck(m) ==
    /\ m \in acks
    /\ acks' = acks \ {m}
    /\ LET match == {t \in DOMAIN tx.pending :
                        AckMatches(tx.pending[t], t, m.ack)}
       IN  \/ match = {} /\ UNCHANGED <<tx, nwk>>
           \/ \E t \in match :
                 LET p == tx.pending[t]
                 IN  IF p.blocks # 0 /\ p.block + 1 < p.blocks
                     THEN SettleServiced(
                             With(Inside, t, [p EXCEPT !.block = @ + 1,
                                                       !.retries = 0,
                                                       !.state = "Ready"]),
                             nwk)
                     ELSE Settle(Complete(Inside, t, "SUCCESS"), nwk)
    /\ UNCHANGED <<callVars, faults, frames, peerVars, delayed>>

\* Mutant of Due: the deadline of a deferred transmission is forgotten.
DueForAck(t) == tx.pending[t].state = "AwaitingAck" /\ tx.pending[t].timer = 0

Due(t) == /\ tx.pending[t].state \in {"Deferred", "AwaitingAck"}
          /\ tx.pending[t].timer = 0

\* Mutant of GivesUp: one retry too many.
GivesUpLate(p) == p.state = "AwaitingAck" /\ p.retries > MaxRetries

GivesUp(p) == p.state = "AwaitingAck" /\ p.retries >= MaxRetries

\* What expire_acks makes of a transmission whose deadline is due and that
\* is not given up: a refused frame is offered again, a frame that got no
\* acknowledgement is retried.
Rearm(p) ==
    [p EXCEPT !.state = "Ready",
              !.retries = IF p.state = "AwaitingAck" THEN @ + 1 ELSE @]

\* poll_timers: expire_acks, then service_pending.
PollTimers ==
    LET due == {t \in DOMAIN tx.pending : Due(t)}
        failed == {t \in due : GivesUp(tx.pending[t])}
        s == [Inside EXCEPT
                 !.pending = [t \in DOMAIN @ |->
                                 IF t \in due \ failed THEN Rearm(@[t])
                                 ELSE @[t]]]
    IN  /\ due # {}
        /\ SettleServiced(CompleteAll(s, failed, "NO_ACK"), nwk)
        /\ UNCHANGED <<callVars, faults, frames, acks, peerVars, delayed>>

\* set_network_state(NotJoined): fail_all_pending. The NWK layer may still
\* send what it holds. (The tables of the receiving side are cleared too;
\* the sender receives no data here.)
Leave ==
    /\ joined
    /\ Fault
    /\ joined' = FALSE
    /\ tx' = LET s == CompleteAll(Inside, DOMAIN tx.pending,
                                  "ILLEGAL_REQUEST")
             IN  [Outside(s) EXCEPT !.requests = <<>>]
    /\ nwk' = {Orphan(n) : n \in nwk}
    /\ UNCHANGED <<calls, sent, frames, acks, peerVars, delayed>>

Join ==
    /\ ~joined
    /\ joined' = TRUE
    /\ UNCHANGED <<calls, sent, faults, tx, nwk, frames, acks, peerVars,
                   delayed>>

----------------------------------------------------------------------------
(***************************************************************************)
(* The receivers.                                                          *)
(***************************************************************************)

Indicate(t) ==
    indicated' = [indicated EXCEPT ![t] = IF @ < 2 THEN @ + 1 ELSE 2]

\* send_ack. An acknowledgement that finds no frame counter is lost, like
\* any other.
SendAck(f, block) ==
    acks' = acks \cup {[ack |-> [from |-> f.t[2], counter |-> f.counter,
                                 block |-> block], ttl |-> MaxDelay]}

\* check_and_record: the tables that may result; a full one loses an entry
\* closest to expiry.
Recorded(table, counter) ==
    LET kept(gone) ==
            [c \in (DOMAIN table \ gone) \cup {counter} |->
                IF c = counter THEN RejectionTimeout ELSE table[c]]
        full == Cardinality(DOMAIN table) >= DuplicateSlots
        oldest == {c \in DOMAIN table :
                      \A d \in DOMAIN table : table[c] <= table[d]}
    IN  IF counter \notin DOMAIN table /\ full THEN {kept({c}) : c \in oldest}
        ELSE {kept({})}

\* handle_data for a frame in one block: a duplicate is acknowledged again,
\* not indicated again.
HandleData(f) ==
    LET peer == PeerOf(f.t)
        known == f.counter \in DOMAIN dedup[peer]
    IN  /\ \E table \in Recorded(dedup[peer], f.counter) :
               dedup' = [dedup EXCEPT ![peer] = table]
        /\ forgotten' = forgotten \cup
               {t \in DOMAIN sent : /\ PeerOf(t) = peer
                                   /\ CounterOf(t) \in DOMAIN dedup[peer]
                                                      \ DOMAIN dedup'[peer]}
        /\ IF f.ack THEN SendAck(f, NoBlock) ELSE UNCHANGED acks
        /\ IF known THEN UNCHANGED indicated ELSE Indicate(f.t)
        /\ UNCHANGED reassembly

\* A block the receiver already has.
OldBlock(r, block) == r.complete \/ block < r.next

\* The transaction after the block in turn, complete or not.
Extended(r) ==
    LET complete == r.next + 1 = r.blocks
    IN  [r EXCEPT !.next = @ + 1, !.complete = complete,
                  !.timer = IF complete THEN Persistence ELSE ReceiveTimeout]

\* handle_fragment. Only one transaction is reassembled at a time; a block
\* without a transaction, or out of turn, is not acknowledged.
HandleFragment(f) ==
    LET peer == PeerOf(f.t)
        r == reassembly[peer]
        same == r.counter = f.counter
        busy == r # NoReassembly /\ ~r.complete
        first == Extended([counter |-> f.counter, blocks |-> f.blocks,
                           next |-> 0, complete |-> FALSE, timer |-> 0])
        ignored == IF f.block = 0 THEN ~same /\ busy
                   ELSE ~same \/ (~OldBlock(r, f.block) /\ f.block # r.next)
        repeated == same /\ (f.block = 0 \/ OldBlock(r, f.block))
        next == IF f.block = 0 THEN first ELSE Extended(r)
    IN  /\ UNCHANGED <<dedup, forgotten>>
        /\ IF ignored THEN UNCHANGED acks ELSE SendAck(f, f.block)
        /\ IF ignored \/ repeated THEN UNCHANGED <<reassembly, indicated>>
           ELSE /\ reassembly' = [reassembly EXCEPT ![peer] = next]
                /\ IF next.complete THEN Indicate(f.t)
                   ELSE UNCHANGED indicated

ReceiveFrame(m) ==
    /\ m \in frames
    /\ frames' = frames \ {m}
    /\ IF m.frame.blocks = 0 THEN HandleData(m.frame)
       ELSE HandleFragment(m.frame)
    /\ UNCHANGED <<callVars, faults, tx, nwk, delayed>>

\* The radio and the routers between: a message is lost.
LoseFrame(m) ==
    /\ m \in frames
    /\ Fault
    /\ frames' = frames \ {m}
    /\ UNCHANGED <<callVars, tx, nwk, acks, peerVars, delayed>>

LoseAck(m) ==
    /\ m \in acks
    /\ Fault
    /\ acks' = acks \ {m}
    /\ UNCHANGED <<callVars, tx, nwk, frames, peerVars, delayed>>

----------------------------------------------------------------------------
Down(n) == IF n = 0 THEN 0 ELSE n - 1
Nearer(p) == [p EXCEPT !.timer = Down(@)]
Aged(ms) == {[m EXCEPT !.ttl = @ - 1] : m \in ms}

\* Time passes, unless a message must arrive or the sender must act first. A
\* record at its deadline is as good as gone for check_and_record,
\* handle_fragment and expire_reassembly.
Tick ==
    /\ \A m \in frames \cup acks : m.ttl > 0
    /\ \A t \in DOMAIN tx.pending :
           ~Due(t) /\ tx.pending[t].state # "CounterPending"
    /\ tx' = [tx EXCEPT !.pending = [t \in DOMAIN @ |-> Nearer(@[t])]]
    /\ frames' = Aged(frames)
    /\ acks' = Aged(acks)
    /\ dedup' = [q \in Peers |->
                    [c \in {d \in DOMAIN dedup[q] : dedup[q][d] > 1} |->
                        dedup[q][c] - 1]]
    /\ reassembly' = [q \in Peers |->
                         LET r == reassembly[q]
                         IN  IF r = NoReassembly THEN r
                             ELSE IF r.timer <= 1 THEN NoReassembly
                             ELSE [r EXCEPT !.timer = @ - 1]]
    /\ IF \E n \in nwk : n.live THEN Fault ELSE UNCHANGED faults
    /\ delayed' = delayed \cup {n.frame.t[1] : n \in nwk}
    /\ UNCHANGED <<callVars, nwk, indicated, forgotten>>

Init ==
    /\ joined = TRUE
    /\ calls = 0
    /\ tx = [pending |-> <<>>, requests |-> <<>>,
             confirms |-> [i \in Ids |-> <<>>]]
    /\ nwk = {}
    /\ frames = {}
    /\ acks = {}
    /\ dedup = [q \in Peers |-> <<>>]
    /\ reassembly = [q \in Peers |-> NoReassembly]
    /\ faults = 0
    /\ sent = <<>>
    /\ indicated = [t \in Transmissions |-> 0]
    /\ forgotten = {}
    /\ delayed = {}

Request ==
    \E wanted \in {{b} : b \in Bindings} \cup {Bindings} :
        \E queued \in SUBSET wanted, ack \in BOOLEAN, blocks \in BlockCounts :
            DataRequest(wanted, queued, ack, blocks)

NwkAnswers(n) == NwkSends(n) \/ NwkFails(n)

Next ==
    \/ Request
    \/ \E n \in nwk : \/ NwkAnswers(n)
                      \/ \E accepted \in BOOLEAN : NwkRefuses(n, accepted)
                      \/ NwkForgets(n)
    \/ \E q \in Peers : CommitReservation(q) \/ AbortReservation(q)
    \/ \E m \in acks : ReceiveAck(m) \/ LoseAck(m)
    \/ \E m \in frames : ReceiveFrame(m) \/ LoseFrame(m)
    \/ PollTimers
    \/ Leave
    \/ Join
    \/ Tick

Spec == Init /\ [][Next]_vars

\* Time passes and the runtime keeps up with it (Tick waits for due timers
\* and for messages that must arrive), the NWK layer answers the frames it
\* took, and storage does not fail for good.
Proceed ==
    \/ Tick
    \/ PollTimers
    \/ \E m \in frames : ReceiveFrame(m)
    \/ \E m \in acks : ReceiveAck(m)

Fairness ==
    /\ WF_vars(Proceed)
    /\ WF_vars(\E n \in nwk : NwkAnswers(n))
    /\ SF_vars(\E q \in Peers : CommitReservation(q))

FairSpec == Spec /\ Fairness

----------------------------------------------------------------------------
TypeInvariant ==
    /\ joined \in BOOLEAN
    /\ calls \in 0 .. MaxRequests
    /\ DOMAIN tx.pending \subseteq Transmissions
    /\ \A t \in DOMAIN tx.pending :
           /\ tx.pending[t] \in Pending
           /\ tx.pending[t].state # "Ready"
           /\ tx.pending[t].block <= tx.pending[t].blocks
    /\ Cardinality(DOMAIN tx.pending) <= MaxPending
    /\ \A i \in Ids : tx.confirms[i] \in Seq(Statuses)
    /\ \A q \in Peers : Cardinality(DOMAIN dedup[q]) <= DuplicateSlots
    /\ faults \in 0 .. MaxFaults
    /\ DOMAIN sent \subseteq Transmissions
    /\ delayed \subseteq Ids

WasQueued(id) == \E t \in DOMAIN sent : t[1] = id

\* A request is confirmed once, when none of its transmissions is pending:
\* complete and fail_all_pending keep `remaining` and the table of requests
\* in step with the table of pending transmissions, in whatever order the
\* NWK layer, the acknowledgements, the timers and a leave end them.
ConfirmedOnce ==
    \A id \in Ids :
        LET open == {t \in DOMAIN tx.pending : t[1] = id}
        IN  /\ id \in DOMAIN tx.requests =>
                   /\ tx.requests[id].remaining = Cardinality(open)
                   /\ open # {} /\ tx.confirms[id] = <<>>
            /\ id \notin DOMAIN tx.requests =>
                   /\ open = {}
                   /\ Len(tx.confirms[id]) = IF WasQueued(id) THEN 1 ELSE 0

\* An acknowledged transmission that ends in Success was indicated by its
\* destination: no acknowledgement of another block, another copy or another
\* request is taken for it.
SuccessMeansDelivered ==
    \A id \in Ids :
        tx.confirms[id] = <<"SUCCESS">> =>
            \A t \in DOMAIN sent :
                t[1] = id /\ sent[t].ack => indicated[t] > 0

\* A request that was never held or refused by the layers below is indicated
\* at most once per destination: retransmissions fall into the lifetime of
\* the duplicate rejection record, unless a full table gave the record up.
IndicatedOnce ==
    \A t \in DOMAIN sent :
        t[1] \notin delayed /\ t \notin forgotten /\ sent[t].blocks = 0
            => indicated[t] <= 1

\* Every accepted request is confirmed in the end.
RequestsEnd ==
    \A id \in Ids : WasQueued(id) ~> tx.confirms[id] # <<>>
============================================================================
