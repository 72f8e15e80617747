----------------------------- MODULE Broadcast -----------------------------
(***************************************************************************)
(* NWK broadcasts between routers (panweave-nwk/src/layer/bcast.rs and     *)
(* broadcast.rs): broadcast transaction records, relays after a jitter,    *)
(* retransmission until every router waited for was heard to relay the     *)
(* frame (passive acknowledgement), parked frames that wait for a frame    *)
(* counter, and the expiry of records.                                     *)
(*                                                                         *)
(* Time is a countdown in each record. A transmission reaches each         *)
(* neighbour in the same tick, in any order, or is lost there. Whom a      *)
(* router waits for is what its neighbour table says at the time, not who  *)
(* hears it: the two need have nothing in common. End devices              *)
(* keep no records and relay nothing; they, the copies for them and        *)
(* Trusted Links are left out.                                             *)
(***************************************************************************)
EXTENDS Integers, Sequences, FiniteSets, SequencesExt

CONSTANTS Nodes,          \* routers
          Topologies,     \* sets of pairs {m, n} of routers that hear each other
          NeighborTables, \* per router, the routers its neighbour table may hold
          Broadcasts,     \* broadcasts: (source, sequence) pairs in the code
          Source(_),      \* the router that originates a broadcast
          Radius,         \* radius of a broadcast at its source
          MaxRetries,     \* nwkMaxBroadcastRetries
          Timeout,        \* nwkPassiveAckTimeout, in ticks
          MaxJitter,      \* MAX_BROADCAST_JITTER, in ticks
          RetryDelay,     \* COUNTER_RETRY_DELAY, in ticks
          DeliveryTime,   \* nwkNetworkBroadcastDeliveryTime, in ticks
          TableSize,      \* entries of the broadcast transaction table
          Buffers,        \* frames kept for relay or retransmission
          MaxFaults       \* lost receptions and frames that are not secured

ASSUME BroadcastAssumption ==
    /\ IsFiniteSet(Nodes)
    /\ \A b \in Broadcasts : Source(b) \in Nodes
    /\ \A topology \in Topologies : \A l \in topology :
           l \subseteq Nodes /\ Cardinality(l) = 2
    /\ NeighborTables \subseteq [Nodes -> SUBSET Nodes]
    /\ {Radius, Timeout, RetryDelay, DeliveryTime, TableSize, Buffers}
           \subseteq Nat \ {0}
    /\ {MaxRetries, MaxJitter, MaxFaults} \subseteq Nat

VARIABLES links,      \* the topology, which does not change
          table,      \* per router: broadcast -> BroadcastRecord
          bufs,       \* per router: broadcasts with a buffered frame, in order
          air,        \* receptions to come
          faults,     \* faults so far
          sent,       \* history: transmissions of a broadcast by a router
          delivered,  \* history: deliveries to the layer above, 2 at most
          conflicts,  \* history: routers that took their own frame for another's
          stalled,    \* history: broadcasts that waited for a frame counter
          evicted     \* history: frames dropped for another, <<n, b>>

vars == <<links, table, bufs, air, faults, sent, delivered, conflicts, stalled,
          evicted>>

\* The routers that hear n.
Neighbours(n) == {m \in Nodes : {m, n} \in links}

\* passive_ack_set: the routers of the neighbour table that have an outgoing
\* cost, without the one excluded, as many as there is room for; none when
\* passive acknowledgement is off. Tables change, so every record may find
\* another one: entries are missing, too new to have a cost, or left from a
\* router that no longer hears n.
PassiveAckSets(n, exclude) ==
    {neighbors[n] \ {n, exclude} : neighbors \in NeighborTables}

None == -1   \* no transmission is due

\* first is relay_pending; parked: the buffered frame is not secured yet;
\* next and life are the ticks to next_tx and expires; asked keeps the
\* routers that awaiting began with.
Record(asked, first, parked, next, radius) ==
    [asked |-> asked, awaiting |-> asked, retries |-> 0, first |-> first,
     parked |-> parked, next |-> next, radius |-> radius,
     life |-> DeliveryTime]

----------------------------------------------------------------------------
Has(n, b) == b \in DOMAIN table[n]

\* Mutant of Expired: a record lives for one passive acknowledgement timeout.
ExpiresEarly(r) == r.life + Timeout <= DeliveryTime

Expired(r) == r.life = 0

\* Mutant of Reused: a full table grows.
ReusedNever(t) == {{}}

\* insert: the record that makes room, none while there is room. A full table
\* gives up an expired record, which service_broadcasts has not removed yet.
Reused(t) ==
    IF Cardinality(DOMAIN t) < TableSize THEN {{}}
    ELSE {{b} : b \in {c \in DOMAIN t : Expired(t[c])}}

\* Without room the frame is dropped.
Full(n) == Reused(table[n]) = {}

Replaced(t, gone, b, r) ==
    [c \in (DOMAIN t \ gone) \cup {b} |-> IF c = b THEN r ELSE t[c]]

\* store_broadcast_buf: the oldest frame is dropped when there is no room.
Stored(s, b) ==
    IF Contains(s, b) THEN s
    ELSE Append(IF Len(s) >= Buffers THEN Tail(s) ELSE s, b)

Store(n, b) ==
    /\ bufs' = [bufs EXCEPT ![n] = Stored(@, b)]
    /\ evicted' = evicted \cup {<<n, c>> : c \in Range(bufs[n]) \ Range(bufs'[n])}

\* retain: the buffered frames of the broadcasts bs, in their order.
Place(s, bs, i) == Cardinality({j \in 1 .. i : s[j] \in bs})
Kept(s, bs) ==
    [i \in 1 .. Place(s, bs, Len(s)) |->
        s[CHOOSE j \in 1 .. Len(s) : s[j] \in bs /\ Place(s, bs, j) = i]]

\* The time of the next transmission, set by transmit_broadcast.
Rearmed(r) == IF r.retries < MaxRetries THEN Timeout ELSE None

\* Router n transmits broadcasts bs with the radius of its records t; the
\* receptions in lost do not happen, and pending other faults happen.
Transmissions(n, bs, t, lost, pending) ==
    LET heard == {[to |-> m, from |-> n, b |-> b, radius |-> t[b].radius] :
                     m \in Neighbours(n), b \in bs}
        count == Cardinality(lost) + pending
    IN  /\ lost \subseteq heard
        /\ faults + count <= MaxFaults
        /\ faults' = faults + count
        /\ air' = air \cup (heard \ lost)
        /\ sent' = [sent EXCEPT ![n] = [b \in Broadcasts |->
                                           @[b] + IF b \in bs THEN 1 ELSE 0]]

\* What may be lost of the broadcasts bs.
Losses(n, bs, t) ==
    SUBSET {[to |-> m, from |-> n, b |-> b, radius |-> t[b].radius] :
               m \in Neighbours(n), b \in bs}

----------------------------------------------------------------------------
\* originate_broadcast: the frame is transmitted at once, or parked. The
\* record keeps relay_pending, so that the next transmission counts as the
\* first one again.
Originate(b) ==
    LET n == Source(b)
        fresh(asked) == Record(asked, TRUE, FALSE, None, Radius)
    IN  /\ sent[n][b] = 0 /\ ~Has(n, b) /\ b \notin stalled
        /\ Store(n, b)
        /\ \E gone \in Reused(table[n]), asked \in PassiveAckSets(n, n) :
              LET r == fresh(asked)
                  t == Replaced(table[n], gone, b, [r EXCEPT !.next = Rearmed(r)])
                  p == Replaced(table[n], gone, b, [r EXCEPT !.parked = TRUE,
                                                             !.next = RetryDelay])
              IN  \/ /\ table' = [table EXCEPT ![n] = t]
                     /\ \E lost \in Losses(n, {b}, t) :
                            Transmissions(n, {b}, t, lost, 0)
                     /\ UNCHANGED stalled
                  \/ /\ table' = [table EXCEPT ![n] = p]
                     /\ Transmissions(n, {}, table[n], {}, 1)
                     /\ stalled' = stalled \cup {b}
        /\ UNCHANGED <<links, delivered, conflicts>>

\* Mutant of Heard: one relay acknowledges for every router.
HeardByAll(r, m) == [r EXCEPT !.awaiting = {}]

\* passive_ack
Heard(r, m) == [r EXCEPT !.awaiting = @ \ {m}]

\* on_broadcast_received for the reception m.
Receive(m) ==
    LET n == m.to
        relays == m.radius > 1
        fresh(asked, next) == Record(asked, relays, relays, next, m.radius - 1)
    IN  /\ m \in air
        /\ air' = air \ {m}
        /\ \/ /\ Has(n, m.b)
              /\ table' = [table EXCEPT ![n][m.b] = Heard(@, m.from)]
              /\ UNCHANGED <<bufs, evicted, delivered, conflicts>>
           \/ /\ ~Has(n, m.b) /\ n = Source(m.b)
              /\ conflicts' = conflicts \cup {<<n, m.b>>}
              /\ UNCHANGED <<table, bufs, evicted, delivered>>
           \/ /\ ~Has(n, m.b) /\ n # Source(m.b) /\ Full(n)
              /\ UNCHANGED <<table, bufs, evicted, delivered, conflicts>>
           \/ /\ ~Has(n, m.b) /\ n # Source(m.b) /\ ~Full(n)
              /\ \E next \in IF relays THEN 0 .. MaxJitter ELSE {None},
                    gone \in Reused(table[n]),
                    asked \in PassiveAckSets(n, m.from) :
                     table' = [table EXCEPT ![n] =
                                  Replaced(@, gone, m.b, fresh(asked, next))]
              /\ IF relays THEN Store(n, m.b) ELSE UNCHANGED <<bufs, evicted>>
              /\ delivered' = [delivered EXCEPT
                                  ![n][m.b] = IF @ < 2 THEN @ + 1 ELSE 2]
              /\ UNCHANGED conflicts
        /\ UNCHANGED <<links, faults, sent, stalled>>

----------------------------------------------------------------------------
(***************************************************************************)
(* service_broadcasts at router n.                                         *)
(***************************************************************************)

Due(n) == {b \in DOMAIN table[n] : table[n][b].next = 0}

Finished(r) == ~r.first /\ (r.awaiting = {} \/ r.retries >= MaxRetries)

\* Mutant of Begun: a retransmission is not counted.
BegunUncounted(r) == [r EXCEPT !.first = FALSE]

\* A transmission that is not the first is a retry.
Begun(r) == [r EXCEPT !.first = FALSE,
                      !.retries = IF r.first THEN @ ELSE @ + 1]

\* Mutant of Idle: the deadline stays in the past.
StillDue(r) == r

Idle(r) == [r EXCEPT !.next = None]

\* The record after a transmission.
Transmitted(r) ==
    LET s == Begun(r)
    IN  [s EXCEPT !.parked = FALSE, !.next = Rearmed(s)]

\* Record r is due; outcome is that of finalize_frame for a parked frame,
\* and buffered says whether there is a frame at all.
Serviced(r, outcome, buffered) ==
    CASE Finished(r) -> Idle(r)
      [] ~Finished(r) /\ ~buffered -> Idle(Begun(r))
      [] ~Finished(r) /\ buffered /\ outcome = "Ok" -> Transmitted(r)
      [] ~Finished(r) /\ buffered /\ outcome = "CounterPending" ->
            [r EXCEPT !.first = TRUE, !.next = RetryDelay]
      [] ~Finished(r) /\ buffered /\ outcome = "Error" -> Begun(r)

\* A frame that is not parked is sent as it was.
Outcomes(n) ==
    {f \in [Due(n) -> {"Ok", "CounterPending", "Error"}] :
        \A b \in Due(n) :
            f[b] = "Ok" \/ (table[n][b].parked /\ Contains(bufs[n], b))}

Service(n) ==
    LET due == Due(n)
        live(t) == {b \in DOMAIN t : ~Expired(t[b])}
    IN  /\ due # {} \/ \E b \in DOMAIN table[n] : Expired(table[n][b])
        /\ \E outcome \in Outcomes(n) :
              LET t == [b \in DOMAIN table[n] |->
                           IF b \in due
                           THEN Serviced(table[n][b], outcome[b],
                                         Contains(bufs[n], b))
                           ELSE table[n][b]]
                  out == {b \in due : /\ ~Finished(table[n][b])
                                      /\ Contains(bufs[n], b)
                                      /\ outcome[b] = "Ok"}
                  waits == {b \in due : outcome[b] = "CounterPending"}
                  failed == {b \in due : outcome[b] = "Error"}
                  gone == {b \in due : Finished(table[n][b])} \cup failed
              IN  /\ table' = [table EXCEPT ![n] = [b \in live(t) |-> t[b]]]
                  /\ bufs' = [bufs EXCEPT ![n] = Kept(@, live(t) \ gone)]
                  /\ \E lost \in Losses(n, out, t) :
                         Transmissions(n, out, t, lost,
                                       Cardinality(waits \cup failed))
                  /\ stalled' = stalled \cup waits
        /\ UNCHANGED <<links, delivered, conflicts, evicted>>

Down(next) == IF next \in {None, 0} THEN next ELSE next - 1

\* Time passes when everything was received and every timer was serviced.
Tick ==
    /\ air = {}
    /\ \A n \in Nodes : Due(n) = {}
    /\ \A n \in Nodes : \A b \in DOMAIN table[n] : ~Expired(table[n][b])
    /\ \E n \in Nodes : table[n] # <<>>
    /\ table' = [n \in Nodes |-> [b \in DOMAIN table[n] |->
                    [table[n][b] EXCEPT !.next = Down(@), !.life = @ - 1]]]
    /\ UNCHANGED <<links, bufs, air, faults, sent, delivered, conflicts,
                   stalled, evicted>>

Init ==
    /\ links \in Topologies
    /\ table = [n \in Nodes |-> <<>>]
    /\ bufs = [n \in Nodes |-> <<>>]
    /\ air = {}
    /\ faults = 0
    /\ sent = [n \in Nodes |-> [b \in Broadcasts |-> 0]]
    /\ delivered = [n \in Nodes |-> [b \in Broadcasts |-> 0]]
    /\ conflicts = {}
    /\ stalled = {}
    /\ evicted = {}

Proceed ==
    \/ \E m \in air : Receive(m)
    \/ \E n \in Nodes : Service(n)
    \/ Tick

Next == (\E b \in Broadcasts : Originate(b)) \/ Proceed

Spec == Init /\ [][Next]_vars

\* Time passes, and every router handles receptions and due timers.
FairSpec == Spec /\ WF_vars(Proceed)

----------------------------------------------------------------------------
TypeInvariant ==
    /\ links \in Topologies
    /\ \A n \in Nodes :
          /\ Cardinality(DOMAIN table[n]) <= TableSize
          /\ Len(bufs[n]) <= Buffers
          /\ Range(bufs[n]) \subseteq Broadcasts
          /\ \A b \in DOMAIN table[n] :
                LET r == table[n][b]
                IN  /\ b \in Broadcasts
                    /\ r.asked \subseteq Nodes \ {n}
                    /\ r.awaiting \subseteq r.asked
                    /\ r.retries \in 0 .. MaxRetries
                    /\ r.life \in 0 .. DeliveryTime
                    /\ r.next \in {None} \cup Nat
    /\ faults \in 0 .. MaxFaults

\* The age, in ticks, that a broadcast has at most when a router d hops from
\* its source transmits it: every hop adds a jitter and all the retries, and
\* the source retransmits once more.
Span(d) == (1 + MaxRetries) * Timeout + d * (MaxJitter + MaxRetries * Timeout)

\* Records outlive every relay and retransmission, along as many hops as the
\* radius or the number of routers allows.
RecordsOutlive ==
    \E hops \in 0 .. Radius - 1 :
        /\ hops + 1 = Radius \/ hops + 1 >= Cardinality(Nodes)
        /\ Span(hops) < DeliveryTime

\* A router delivers a broadcast once, and its own broadcast, relayed back to
\* it, is never taken for one of another router with its address: the records
\* outlive every relay and retransmission of the neighbours, unless one of
\* them had to wait for a frame counter.
SeenOnce ==
    \A b \in Broadcasts \ stalled : \A n \in Nodes :
        delivered[n][b] <= 1 /\ <<n, b>> \notin conflicts

\* A router that stops before its retries are used up, having transmitted the
\* broadcast, has not left out anyone it was to wait for: every router of the
\* passive acknowledgement set has received it, whether or not the two hear
\* each other at all. A record that is not parked was transmitted, unless its
\* radius ended here. (A router that has to drop the frame for a newer one
\* stops all the same.)
StopsWhenHeard ==
    \A n \in Nodes : \A b \in DOMAIN table[n] :
        LET r == table[n][b]
        IN  /\ r.next = None /\ r.retries < MaxRetries
            /\ ~r.parked /\ r.radius > 0 /\ <<n, b>> \notin evicted
            => \A m \in r.asked : m = Source(b) \/ delivered[m][b] > 0

\* A router transmits a broadcast 1 + MaxRetries times at most, its source
\* once more.
TransmissionsBounded ==
    \A b \in Broadcasts \ stalled : \A n \in Nodes :
        sent[n][b] <= 1 + MaxRetries + (IF n = Source(b) THEN 1 ELSE 0)

\* The network falls silent after its last broadcast.
FallsSilent == <>[](\A n \in Nodes : table[n] = <<>>)
============================================================================
