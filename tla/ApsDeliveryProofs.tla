------------------------- MODULE ApsDeliveryProofs -------------------------
(***************************************************************************)
(* Proofs about ApsDelivery, for every number of bindings, requests and    *)
(* blocks, every table size and every timing: type correctness, that a     *)
(* request is confirmed once, that success means delivered, and that a     *)
(* transmission is indicated at most once.                                 *)
(***************************************************************************)
EXTENDS ApsDelivery, FiniteSetTheorems, TLAPS

-----------------------------------------------------------------------------
(* The inductive invariant of the sender, by parts                         *)

\* The transmissions queued by the first n calls.
SentInv(S, n) ==
    /\ DOMAIN S \subseteq (1 .. n) \X Bindings
    /\ \A t \in DOMAIN S : S[t] \in [ack : BOOLEAN, blocks : BlockCounts]

\* Entry p of transmission t, of which S tells what was asked for.
Entry(t, p, S) ==
    /\ p \in Pending
    /\ p.counter = CounterOf(t) /\ p.ack = S[t].ack /\ p.blocks = S[t].blocks
    /\ p.block <= p.blocks
    /\ p.blocks # 0 => p.ack /\ p.block < p.blocks

SlotsInv(P, S) ==
    /\ IsFiniteSet(DOMAIN P) /\ Cardinality(DOMAIN P) <= MaxPending
    /\ DOMAIN P \subseteq DOMAIN S
    /\ \A t \in DOMAIN P : Entry(t, P[t], S)

\* Requests R and confirms C, of the queued transmissions Q, agree with the
\* pending ones D. Transmissions that succeeded are in G.
OpenInv(D, R, C, Q, G) ==
    \A id \in DOMAIN R :
        /\ R[id] \in [remaining : Nat, status : Statuses]
        /\ R[id].remaining = Cardinality(Of(D, id))
        /\ Of(D, id) # {}
        /\ C[id] = <<>>
        /\ R[id].status = "SUCCESS" => Of(Q \ D, id) \subseteq G

ClosedInv(D, R, C, Q, G) ==
    \A id \in Ids \ DOMAIN R :
        /\ Of(D, id) = {}
        /\ \/ C[id] = <<>> /\ Of(Q, id) = {}
           \/ \E status \in Statuses :
                 /\ C[id] = <<status>> /\ Of(Q, id) # {}
                 /\ status = "SUCCESS" => Of(Q, id) \subseteq G

RequestsInv(D, R, C, Q, G) ==
    /\ DOMAIN R \subseteq Ids /\ DOMAIN C = Ids
    /\ OpenInv(D, R, C, Q, G)
    /\ ClosedInv(D, R, C, Q, G)

FrameOk(f, S) ==
    /\ f.t \in DOMAIN S
    /\ f.counter = CounterOf(f.t) /\ f.ack = S[f.t].ack /\ f.blocks = S[f.t].blocks
    /\ f.block \in Nat
    /\ f.blocks # 0 => f.ack /\ f.block < f.blocks

\* The frames the NWK layer holds: those whose confirm is awaited belong to
\* pending transmissions, one each.
NwkInv(P, W, S) ==
    /\ \A n \in W : /\ n = [frame |-> n.frame, live |-> n.live]
                    /\ n.live \in BOOLEAN
                    /\ FrameOk(n.frame, S)
                    /\ n.live => /\ n.frame.t \in DOMAIN P
                                 /\ P[n.frame.t].state = "AwaitingNwkConfirm"
    /\ \A m, n \in W : m.live /\ n.live /\ m.frame.t = n.frame.t => m = n

\* During a turn of the sender, in which entries may be ready.
IsSender(s) ==
    s = [pending |-> s.pending, requests |-> s.requests,
         confirms |-> s.confirms, handed |-> s.handed]

\* W is what the NWK layer holds at the start of the turn.
Held(s, W) == W \cup {[frame |-> f, live |-> TRUE] : f \in s.handed}

TurnInv(s, W, S, G) ==
    /\ IsSender(s)
    /\ SlotsInv(s.pending, S)
    /\ RequestsInv(DOMAIN s.pending, s.requests, s.confirms, DOMAIN S, G)
    /\ NwkInv(s.pending, Held(s, W), S)

NoneHanded(s) == s.handed = {}
NoneReady(P) == \A t \in DOMAIN P : P[t].state # "Ready"

\* Between turns.
SenderInv(x, W, S, G) ==
    /\ x = Outside(x)
    /\ SlotsInv(x.pending, S)
    /\ NoneReady(x.pending)
    /\ RequestsInv(DOMAIN x.pending, x.requests, x.confirms, DOMAIN S, G)
    /\ NwkInv(x.pending, W, S)

-----------------------------------------------------------------------------
(* The rest of the state                                                   *)

\* Messages F under way.
FramesInv(F, S) ==
    \A m \in F : m = [frame |-> m.frame, ttl |-> m.ttl] /\ FrameOk(m.frame, S)

TableInv(table) ==
    /\ IsFiniteSet(DOMAIN table)
    /\ Cardinality(DOMAIN table) <= DuplicateSlots

ScopeInv ==
    /\ joined \in BOOLEAN
    /\ calls \in 0 .. MaxRequests
    /\ faults \in 0 .. MaxFaults
    /\ delayed \subseteq Ids
    /\ SentInv(sent, calls)
    /\ FramesInv(frames, sent)
    /\ DOMAIN dedup = Peers /\ \A q \in Peers : TableInv(dedup[q])

ApsInv == ScopeInv /\ SenderInv(tx, nwk, sent, DOMAIN sent)

-----------------------------------------------------------------------------
(* What the receivers know                                                 *)

\* Transmissions that need no acknowledgement or that arrived.
Good(S, ind) == {t \in DOMAIN S : S[t].ack => ind[t] > 0}

\* The counter c, of one of the first n calls, is that of a transmission.
Uses(t, q, c) == PeerOf(t) = q /\ CounterOf(t) = c

\* Peer q has a duplicate rejection record for the counter c.
RecordOk(q, c, S, n, ind) ==
    /\ c \in 0 .. n - 1
    /\ \A t \in DOMAIN S : Uses(t, q, c) => ind[t] > 0

\* Peer q reassembles r.
ReassemblyOk(q, r, S, n, ind) ==
    /\ r = [counter |-> r.counter, blocks |-> r.blocks, next |-> r.next,
            complete |-> r.complete, timer |-> r.timer]
    /\ r.counter \in 0 .. n - 1
    /\ r.blocks \in Nat /\ r.next \in 1 .. r.blocks
    /\ r.complete = (r.next = r.blocks)
    /\ \A t \in DOMAIN S :
           Uses(t, q, r.counter) => /\ S[t].blocks = r.blocks
                                    /\ r.complete => ind[t] > 0

\* Acknowledgement a is under way.
AckOk(a, S, n, ind) ==
    /\ a.counter \in 0 .. n - 1
    /\ \A t \in DOMAIN S :
           /\ t[2] = a.from /\ CounterOf(t) = a.counter
           /\ S[t].blocks = 0 \/ a.block = S[t].blocks - 1
           => ind[t] > 0

\* Duplicate records D, reassemblies A and acknowledgements K.
RecordsInv(D, S, n, ind) ==
    DOMAIN D = Peers /\ \A q \in Peers : \A c \in DOMAIN D[q] : RecordOk(q, c, S, n, ind)

ReassembliesInv(A, S, n, ind) ==
    /\ DOMAIN A = Peers
    /\ \A q \in Peers : A[q] = NoReassembly \/ ReassemblyOk(q, A[q], S, n, ind)

AcksInv(K, S, n, ind) ==
    \A m \in K : m = [ack |-> m.ack, ttl |-> m.ttl] /\ AckOk(m.ack, S, n, ind)

ReceiversInv ==
    /\ indicated \in [Transmissions -> 0 .. 2]
    /\ RecordsInv(dedup, sent, calls, indicated)
    /\ ReassembliesInv(reassembly, sent, calls, indicated)
    /\ AcksInv(acks, sent, calls, indicated)

DeliveryInv ==
    /\ ScopeInv
    /\ SenderInv(tx, nwk, sent, Good(sent, indicated))
    /\ ReceiversInv

-----------------------------------------------------------------------------
(* The operators of the sender                                             *)

LEMMA ConstantsType ==
    /\ MaxRequests \in Nat /\ CounterModulus \in Nat /\ CounterModulus > 0
    /\ MaxPending \in Nat /\ AckWait \in Nat /\ RetryDelay \in Nat
    /\ DuplicateSlots \in Nat /\ DuplicateSlots > 0
    /\ MaxRetries \in Nat /\ MaxDeferrals \in Nat /\ MaxDelay \in Nat
    /\ MaxFaults \in Nat
    /\ BlockCounts \subseteq Nat
  BY ApsDeliveryAssumption

\* Ending some of the transmissions of a request leaves the others.
LEMMA OfDifference ==
    ASSUME NEW D, IsFiniteSet(D), NEW ts \in SUBSET D, NEW id
    PROVE  /\ Cardinality(Of(D \ ts, id)) = Cardinality(Of(D, id)) - Cardinality(Of(ts, id))
           /\ Cardinality(Of(D \ ts, id)) \in Nat
           /\ Cardinality(Of(D \ ts, id)) = 0 <=> Of(D \ ts, id) = {}
<1>1. Of(D, id) \in SUBSET D /\ Of(ts, id) \in SUBSET D /\ Of(D \ ts, id) \in SUBSET D
  BY DEF Of
<1>2. /\ IsFiniteSet(Of(D, id)) /\ IsFiniteSet(Of(ts, id)) /\ IsFiniteSet(Of(D \ ts, id))
  BY <1>1, FS_Subset
<1>3. /\ Of(D \ ts, id) = Of(D, id) \ Of(ts, id)
      /\ Of(D, id) \cap Of(ts, id) = Of(ts, id)
  BY DEF Of
<1>4. /\ Cardinality(Of(D, id)) \in Nat /\ Cardinality(Of(ts, id)) \in Nat
      /\ Cardinality(Of(D \ ts, id)) \in Nat
  BY <1>2, FS_CardinalityType
<1>5. Cardinality(Of(D, id) \ Of(ts, id)) = Cardinality(Of(D, id)) - Cardinality(Of(ts, id))
  <2> DEFINE A == Of(D, id)
             B == Of(ts, id)
  <2>1. IsFiniteSet(A) /\ A \cap B = B
    BY <1>2, <1>3
  <2> HIDE DEF A, B
  <2>2. Cardinality(A \ B) = Cardinality(A) - Cardinality(A \cap B)
    BY <2>1, FS_Difference
  <2>3. Cardinality(A \ B) = Cardinality(A) - Cardinality(B)
    BY <2>1, <2>2
  <2> QED
    BY <2>3 DEF A, B
<1>6. Cardinality(Of(D \ ts, id)) = 0 <=> Of(D \ ts, id) = {}
  BY <1>2, FS_EmptySet
<1> QED
  BY <1>2, <1>3, <1>4, <1>5, <1>6

\* What is left of a request of R after the transmissions ts, and the
\* requests that are done with them.
Left(R, ts, status, id) == CountDown(R[id], Cardinality(Of(ts, id)), status)
IdsOf(ts) == {t[1] : t \in ts}
Done(R, ts, status) == {id \in IdsOf(ts) : Left(R, ts, status, id).remaining = 0}
RequestsAfter(R, ts, status) ==
    [id \in DOMAIN R \ Done(R, ts, status) |->
        IF id \in IdsOf(ts) THEN Left(R, ts, status, id) ELSE R[id]]
ConfirmsAfter(R, C, ts, status) ==
    [id \in Ids |-> IF id \in Done(R, ts, status)
                    THEN Append(C[id], Left(R, ts, status, id).status)
                    ELSE C[id]]

LEMMA CompleteAllParts ==
    ASSUME NEW s, IsSender(s), NEW ts, NEW status
    PROVE  /\ IsSender(CompleteAll(s, ts, status))
           /\ CompleteAll(s, ts, status).pending =
                  [t \in DOMAIN s.pending \ ts |-> s.pending[t]]
           /\ CompleteAll(s, ts, status).requests = RequestsAfter(s.requests, ts, status)
           /\ CompleteAll(s, ts, status).confirms =
                  ConfirmsAfter(s.requests, s.confirms, ts, status)
           /\ CompleteAll(s, ts, status).handed = s.handed
<1> DEFINE P == [t \in DOMAIN s.pending \ ts |-> s.pending[t]]
           R == RequestsAfter(s.requests, ts, status)
           C == ConfirmsAfter(s.requests, s.confirms, ts, status)
<1>1. CompleteAll(s, ts, status) = [s EXCEPT !.pending = P, !.requests = R, !.confirms = C]
  BY Zenon DEF CompleteAll, RequestsAfter, ConfirmsAfter, Done, Left, IdsOf
<1> HIDE DEF P, R, C
<1>2. CompleteAll(s, ts, status) =
          [pending |-> P, requests |-> R, confirms |-> C, handed |-> s.handed]
  BY <1>1 DEF IsSender
<1>3. /\ IsSender(CompleteAll(s, ts, status))
      /\ CompleteAll(s, ts, status).pending = P
      /\ CompleteAll(s, ts, status).requests = R
      /\ CompleteAll(s, ts, status).confirms = C
      /\ CompleteAll(s, ts, status).handed = s.handed
  BY <1>2 DEF IsSender
<1> QED
  BY <1>3 DEF P, R, C

\* complete keeps the requests and the confirms in step with the pending
\* transmissions.
LEMMA CompletedRequests ==
    ASSUME NEW D, IsFiniteSet(D), NEW R, NEW C, NEW G,
           NEW Q, D \subseteq Q, \A t \in Q : t[1] \in Ids,
           RequestsInv(D, R, C, Q, G),
           NEW ts \in SUBSET D, NEW status \in Statuses,
           status = "SUCCESS" => ts \subseteq G
    PROVE  RequestsInv(D \ ts, RequestsAfter(R, ts, status),
                       ConfirmsAfter(R, C, ts, status), Q, G)
<1> DEFINE R1 == RequestsAfter(R, ts, status)
           C1 == ConfirmsAfter(R, C, ts, status)
           E == D \ ts
           done == Done(R, ts, status)
           left(id) == Left(R, ts, status, id)
<1>0. \A id : /\ Cardinality(Of(E, id)) = Cardinality(Of(D, id)) - Cardinality(Of(ts, id))
              /\ Cardinality(Of(E, id)) \in Nat
              /\ Cardinality(Of(E, id)) = 0 <=> Of(E, id) = {}
  BY OfDifference
<1>1. \A id \in IdsOf(ts) : id \in DOMAIN R /\ Of(ts, id) # {}
  <2>1. \A id \in IdsOf(ts) : id \in Ids /\ Of(ts, id) # {} /\ Of(D, id) # {}
    BY DEF IdsOf, Of
  <2> QED
    BY <2>1 DEF RequestsInv, ClosedInv
<1>2. \A id \in DOMAIN R : /\ id \in Ids
                           /\ R[id] \in [remaining : Nat, status : Statuses]
                           /\ R[id].remaining = Cardinality(Of(D, id))
                           /\ Of(D, id) # {}
                           /\ C[id] = <<>>
                           /\ R[id].status = "SUCCESS" => Of(Q \ D, id) \subseteq G
  BY DEF RequestsInv, OpenInv
<1>3. ASSUME NEW id \in DOMAIN R
      PROVE  /\ left(id) \in [remaining : Nat, status : Statuses]
             /\ left(id).remaining = Cardinality(Of(E, id))
             /\ left(id).remaining = 0 <=> Of(E, id) = {}
             /\ left(id).status = "SUCCESS" => R[id].status = "SUCCESS" /\ status = "SUCCESS"
  <2>1. /\ Cardinality(Of(E, id)) = R[id].remaining - Cardinality(Of(ts, id))
        /\ Cardinality(Of(E, id)) \in Nat
        /\ Cardinality(Of(E, id)) = 0 <=> Of(E, id) = {}
    BY <1>0, <1>2
  <2>2. /\ left(id) = [remaining |-> R[id].remaining - Cardinality(Of(ts, id)),
                       status |-> IF R[id].status = "SUCCESS" THEN status ELSE R[id].status]
    BY DEF Left, CountDown
  <2> HIDE DEF left, E
  <2> QED
    BY <1>2, <2>1, <2>2
<1>4. done \subseteq IdsOf(ts) /\ \A id \in IdsOf(ts) : id \in done <=> Of(E, id) = {}
  BY <1>1, <1>3 DEF Done
<1>5. \A id : Of(Q \ E, id) = Of(Q \ D, id) \cup Of(ts, id)
  BY DEF Of
<1>6. \A id : id \notin IdsOf(ts) => Of(ts, id) = {} /\ Of(E, id) = Of(D, id)
  BY DEF Of, IdsOf
<1>7. \A id : Of(ts, id) \subseteq ts
  BY DEF Of
<1>8. /\ DOMAIN R1 = DOMAIN R \ done
      /\ \A id \in DOMAIN R \ done : R1[id] = IF id \in IdsOf(ts) THEN left(id) ELSE R[id]
  BY DEF RequestsAfter
<1>9. /\ DOMAIN C1 = Ids
      /\ \A id \in Ids : C1[id] = IF id \in done THEN Append(C[id], left(id).status) ELSE C[id]
  BY DEF ConfirmsAfter
<1> HIDE DEF R1, C1, E, done, left
<1>10. OpenInv(E, R1, C1, Q, G)
  <2> SUFFICES ASSUME NEW id \in DOMAIN R \ done
               PROVE  /\ R1[id] \in [remaining : Nat, status : Statuses]
                      /\ R1[id].remaining = Cardinality(Of(E, id))
                      /\ Of(E, id) # {}
                      /\ C1[id] = <<>>
                      /\ R1[id].status = "SUCCESS" => Of(Q \ E, id) \subseteq G
    BY <1>8 DEF OpenInv
  <2>1. C1[id] = <<>>
    BY <1>2, <1>9
  <2>2. CASE id \in IdsOf(ts)
    <3>1. R1[id] = left(id) /\ Of(E, id) # {}
      BY <2>2, <1>4, <1>8
    <3>2. R1[id].status = "SUCCESS" => Of(Q \ E, id) \subseteq G
      BY <3>1, <1>2, <1>3, <1>5, <1>7
    <3> QED
      BY <2>1, <3>1, <3>2, <1>3
  <2>3. CASE id \notin IdsOf(ts)
    <3>1. R1[id] = R[id] /\ Of(E, id) = Of(D, id) /\ Of(Q \ E, id) = Of(Q \ D, id)
      BY <2>3, <1>5, <1>6, <1>8
    <3> QED
      BY <2>1, <3>1, <1>2
  <2> QED
    BY <2>2, <2>3
<1>11. ClosedInv(E, R1, C1, Q, G)
  <2> SUFFICES ASSUME NEW id \in Ids, id \notin DOMAIN R \/ id \in done
               PROVE  /\ Of(E, id) = {}
                      /\ \/ C1[id] = <<>> /\ Of(Q, id) = {}
                         \/ \E st \in Statuses :
                               /\ C1[id] = <<st>> /\ Of(Q, id) # {}
                               /\ st = "SUCCESS" => Of(Q, id) \subseteq G
    BY <1>8 DEF ClosedInv
  <2>1. CASE id \notin DOMAIN R
    <3>1. id \notin IdsOf(ts) /\ id \notin done
      BY <2>1, <1>1, <1>4
    <3>2. C1[id] = C[id] /\ Of(E, id) = Of(D, id)
      BY <3>1, <1>6, <1>9
    <3> QED
      BY <2>1, <3>2 DEF RequestsInv, ClosedInv
  <2>2. CASE id \in done
    <3>1. id \in IdsOf(ts) /\ id \in DOMAIN R /\ Of(E, id) = {} /\ Of(ts, id) # {}
      BY <2>2, <1>1, <1>4
    <3> DEFINE st == left(id).status
    <3>2. st \in Statuses
      BY <3>1, <1>3
    <3>3. C1[id] = <<st>>
      <4>1. C1[id] = Append(<<>>, left(id).status)
        BY <2>2, <3>1, <1>2, <1>9
      <4> QED
        BY <4>1
    <3>4. Of(Q, id) = Of(Q \ D, id) \cup Of(ts, id)
      <4>1. Of(Q, id) = Of(Q \ E, id) \cup Of(E, id)
        BY DEF Of, E
      <4> QED
        BY <4>1, <3>1, <1>5
    <3>5. st = "SUCCESS" => Of(Q, id) \subseteq G
      BY <3>1, <3>4, <1>2, <1>3, <1>7
    <3> HIDE DEF st
    <3> QED
      BY <3>1, <3>2, <3>3, <3>4, <3>5
  <2> QED
    BY <2>1, <2>2
<1>12. DOMAIN R1 \subseteq Ids
  BY <1>2, <1>8
<1> QED
  BY <1>9, <1>10, <1>11, <1>12 DEF RequestsInv, E, R1, C1

-----------------------------------------------------------------------------
(* A turn of the sender                                                    *)

\* Fewer transmissions are pending.
LEMMA FewerSlots ==
    ASSUME NEW P, NEW S, SlotsInv(P, S), NEW ts,
           NEW P1, P1 = [t \in DOMAIN P \ ts |-> P[t]]
    PROVE  SlotsInv(P1, S)
<1>1. DOMAIN P1 \in SUBSET DOMAIN P /\ \A t \in DOMAIN P1 : P1[t] = P[t]
  OBVIOUS
<1>2. IsFiniteSet(DOMAIN P1) /\ Cardinality(DOMAIN P1) <= Cardinality(DOMAIN P)
  BY <1>1, FS_Subset DEF SlotsInv
<1>3. Cardinality(DOMAIN P1) \in Nat /\ Cardinality(DOMAIN P) \in Nat
  BY <1>2, FS_CardinalityType DEF SlotsInv
<1>4. Cardinality(DOMAIN P1) <= MaxPending
  BY <1>2, <1>3, ConstantsType DEF SlotsInv
<1> QED
  BY <1>1, <1>2, <1>4 DEF SlotsInv

\* complete, in a turn: no frame of the transmissions is held.
LEMMA CompletedTurn ==
    ASSUME NEW s, NEW W, NEW S, NEW G, TurnInv(s, W, S, G),
           \A t \in DOMAIN S : t[1] \in Ids,
           NEW ts \in SUBSET DOMAIN s.pending, NEW status \in Statuses,
           status = "SUCCESS" => ts \subseteq G,
           \A n \in Held(s, W) : n.live => n.frame.t \notin ts
    PROVE  /\ TurnInv(CompleteAll(s, ts, status), W, S, G)
           /\ CompleteAll(s, ts, status).pending =
                  [t \in DOMAIN s.pending \ ts |-> s.pending[t]]
           /\ CompleteAll(s, ts, status).handed = s.handed
<1> DEFINE c == CompleteAll(s, ts, status)
<1>1. /\ IsSender(c)
      /\ c.pending = [t \in DOMAIN s.pending \ ts |-> s.pending[t]]
      /\ c.requests = RequestsAfter(s.requests, ts, status)
      /\ c.confirms = ConfirmsAfter(s.requests, s.confirms, ts, status)
      /\ c.handed = s.handed
  BY CompleteAllParts DEF TurnInv
<1> HIDE DEF c
<1>2. SlotsInv(c.pending, S)
  BY <1>1, FewerSlots DEF TurnInv
<1>3. DOMAIN c.pending = DOMAIN s.pending \ ts
  BY <1>1
<1>4. RequestsInv(DOMAIN c.pending, c.requests, c.confirms, DOMAIN S, G)
  <2>1. IsFiniteSet(DOMAIN s.pending) /\ DOMAIN s.pending \subseteq DOMAIN S
    BY DEF TurnInv, SlotsInv
  <2>2. RequestsInv(DOMAIN s.pending, s.requests, s.confirms, DOMAIN S, G)
    BY DEF TurnInv
  <2>3. RequestsInv(DOMAIN s.pending \ ts, RequestsAfter(s.requests, ts, status),
                    ConfirmsAfter(s.requests, s.confirms, ts, status), DOMAIN S, G)
    BY <2>1, <2>2, CompletedRequests
  <2> QED
    BY <2>3, <1>1, <1>3
<1>5. NwkInv(c.pending, Held(c, W), S)
  <2>1. Held(c, W) = Held(s, W)
    BY <1>1 DEF Held
  <2> QED
    BY <1>1, <2>1 DEF TurnInv, NwkInv
<1> QED
  BY <1>1, <1>2, <1>4, <1>5 DEF TurnInv, c

\* What else a handler does to the pending transmissions: it changes the
\* entries of those whose frame is not held, or that are offered again.
LEMMA TouchedTurn ==
    ASSUME NEW s, NEW W, NEW S, NEW G, TurnInv(s, W, S, G), NEW W1,
           NEW s1, IsSender(s1), s1.requests = s.requests, s1.confirms = s.confirms,
           DOMAIN s1.pending = DOMAIN s.pending,
           \A t \in DOMAIN s.pending : Entry(t, s1.pending[t], S),
           NwkInv(s1.pending, Held(s1, W1), S)
    PROVE  TurnInv(s1, W1, S, G)
<1>1. SlotsInv(s1.pending, S)
  BY DEF TurnInv, SlotsInv
<1> QED
  BY <1>1 DEF TurnInv

\* A turn that leaves nothing ready ends between turns.
LEMMA SettledTurn ==
    ASSUME NEW s, NEW kept, NEW S, NEW G, TurnInv(s, kept, S, G), NoneReady(s.pending),
           Settle(s, kept)
    PROVE  SenderInv(tx', nwk', S, G)
<1>1. /\ tx' = [pending |-> s.pending, requests |-> s.requests, confirms |-> s.confirms]
      /\ nwk' = Held(s, kept)
  BY DEF Settle, Outside, Held
<1>2. tx' = Outside(tx')
  BY <1>1 DEF Outside
<1>3. tx'.pending = s.pending /\ tx'.requests = s.requests /\ tx'.confirms = s.confirms
  BY <1>1
<1> QED
  BY <1>1, <1>2, <1>3 DEF SenderInv, TurnInv

\* A handler gives an entry another state.
LEMMA StateChanged ==
    ASSUME NEW t, NEW p, NEW S, Entry(t, p, S), NEW state \in States
    PROVE  /\ Entry(t, [p EXCEPT !.state = state], S)
           /\ [p EXCEPT !.state = state].state = state
  BY DEF Entry, Pending

LEMMA FrameOfEntry ==
    ASSUME NEW S, NEW t \in DOMAIN S, NEW p, Entry(t, p, S)
    PROVE  FrameOk(FrameOf(p, t), S) /\ FrameOf(p, t).t = t
  BY DEF Entry, Pending, FrameOk, FrameOf

\* service_pending: what was ready is held, waits for a counter, or ended.
LEMMA ServicedTurn ==
    ASSUME NEW s, NEW W, NEW S, NEW G, TurnInv(s, W, S, G), NoneHanded(s),
           \A t \in DOMAIN S : t[1] \in Ids,
           NEW built \in [In(s, "Ready") -> {"Ok", "CounterPending", "NoKey"}]
    PROVE  /\ TurnInv(Service(s, built), W, S, G)
           /\ NoneReady(Service(s, built).pending)
<1> DEFINE ready == In(s, "Ready")
           of(outcome) == {t \in ready : built[t] = outcome}
           moved == [t \in DOMAIN s.pending |->
                        IF t \in of("Ok")
                        THEN [s.pending[t] EXCEPT !.state = "AwaitingNwkConfirm"]
                        ELSE IF t \in of("CounterPending")
                        THEN [s.pending[t] EXCEPT !.state = "CounterPending"]
                        ELSE s.pending[t]]
           fs == {FrameOf(s.pending[t], t) : t \in of("Ok")}
           s1 == [s EXCEPT !.pending = moved, !.handed = fs]
<1>1. Service(s, built) = CompleteAll(s1, of("NoKey"), "SECURITY_FAIL")
  BY Zenon DEF Service
<1>2. \A t \in DOMAIN s.pending : Entry(t, s.pending[t], S) /\ t \in DOMAIN S
  BY DEF TurnInv, SlotsInv
<1>3. /\ ready = {t \in DOMAIN s.pending : s.pending[t].state = "Ready"}
      /\ ready = of("Ok") \cup of("CounterPending") \cup of("NoKey")
      /\ of("NoKey") \cap of("Ok") = {} /\ of("NoKey") \cap of("CounterPending") = {}
      /\ of("Ok") \subseteq ready /\ of("NoKey") \subseteq ready /\ of("CounterPending") \subseteq ready
  BY DEF In
<1> DEFINE ok == of("Ok")
           waits == of("CounterPending")
           fail == of("NoKey")
<1>4. /\ DOMAIN moved = DOMAIN s.pending
      /\ \A t \in DOMAIN s.pending :
            /\ t \in ok => moved[t] = [s.pending[t] EXCEPT !.state = "AwaitingNwkConfirm"]
            /\ t \in waits /\ t \notin ok => moved[t] = [s.pending[t] EXCEPT !.state = "CounterPending"]
            /\ t \notin ok /\ t \notin waits => moved[t] = s.pending[t]
  OBVIOUS
<1>5. fs = {FrameOf(s.pending[t], t) : t \in ok}
  OBVIOUS
<1>6. Service(s, built) = CompleteAll(s1, fail, "SECURITY_FAIL")
  BY <1>1
<1>7. /\ ready = {t \in DOMAIN s.pending : s.pending[t].state = "Ready"}
      /\ ready = ok \cup waits \cup fail
      /\ fail \cap ok = {} /\ fail \cap waits = {}
      /\ ok \subseteq ready /\ waits \subseteq ready /\ fail \subseteq ready
  BY <1>3
<1> HIDE DEF ok, waits, fail, ready, of, moved, fs
<1>8. IsSender(s1) /\ s1.pending = moved /\ s1.requests = s.requests
      /\ s1.confirms = s.confirms /\ s1.handed = fs
  <2>1. IsSender(s)
    BY DEF TurnInv
  <2> DEFINE u == [s EXCEPT !.pending = moved]
  <2>2. u = [pending |-> moved, requests |-> s.requests, confirms |-> s.confirms,
             handed |-> s.handed]
    BY <2>1 DEF IsSender
  <2>3. s1 = [u EXCEPT !.handed = fs]
    OBVIOUS
  <2> HIDE DEF u, s1
  <2>4. s1 = [pending |-> moved, requests |-> s.requests, confirms |-> s.confirms, handed |-> fs]
    BY <2>2, <2>3
  <2> QED
    BY <2>4 DEF IsSender
<1> HIDE DEF s1
<1>9. ASSUME NEW t \in DOMAIN s.pending
      PROVE  /\ Entry(t, moved[t], S)
             /\ t \in ok => moved[t].state = "AwaitingNwkConfirm"
             /\ t \notin fail => moved[t].state # "Ready"
  <2>1. Entry(t, s.pending[t], S)
    BY <1>2
  <2>2. /\ "AwaitingNwkConfirm" \in States /\ "CounterPending" \in States
    BY DEF States
  <2>3. CASE t \in ok
    <3>1. moved[t] = [s.pending[t] EXCEPT !.state = "AwaitingNwkConfirm"]
      BY <2>3, <1>4
    <3>2. Entry(t, moved[t], S) /\ moved[t].state = "AwaitingNwkConfirm"
      BY <3>1, <2>1, <2>2, StateChanged
    <3> QED
      BY <3>2
  <2>4. CASE t \notin ok /\ t \in waits
    <3>1. moved[t] = [s.pending[t] EXCEPT !.state = "CounterPending"]
      BY <2>4, <1>4
    <3>2. Entry(t, moved[t], S) /\ moved[t].state = "CounterPending"
      BY <3>1, <2>1, <2>2, StateChanged
    <3> QED
      BY <2>4, <3>2
  <2>5. CASE t \notin ok /\ t \notin waits
    <3>1. moved[t] = s.pending[t]
      BY <2>5, <1>4
    <3> QED
      BY <3>1, <2>1, <2>5, <1>7
  <2> QED
    BY <2>3, <2>4, <2>5
<1>10. /\ \A n \in W : /\ n = [frame |-> n.frame, live |-> n.live]
                       /\ n.live \in BOOLEAN
                       /\ FrameOk(n.frame, S)
                       /\ n.live => /\ n.frame.t \in DOMAIN s.pending
                                    /\ s.pending[n.frame.t].state = "AwaitingNwkConfirm"
       /\ \A m, n \in W : m.live /\ n.live /\ m.frame.t = n.frame.t => m = n
  <2>1. Held(s, W) = W
    BY DEF Held, NoneHanded
  <2> QED
    BY <2>1 DEF TurnInv, NwkInv
<1>11. \A n \in W : n.live => /\ n.frame.t \notin ready
                              /\ n.frame.t \in DOMAIN moved
                              /\ moved[n.frame.t].state = "AwaitingNwkConfirm"
  BY <1>4, <1>7, <1>10
<1> DEFINE new == {[frame |-> f, live |-> TRUE] : f \in fs}
<1>12. \A n \in new : \E t \in ok : n = [frame |-> FrameOf(s.pending[t], t), live |-> TRUE]
  BY <1>5
<1>13. \A n \in new : /\ n = [frame |-> n.frame, live |-> n.live] /\ n.live = TRUE
                      /\ FrameOk(n.frame, S) /\ n.frame.t \in ok
                      /\ n.frame = FrameOf(s.pending[n.frame.t], n.frame.t)
  <2> SUFFICES ASSUME NEW n \in new
               PROVE  /\ n = [frame |-> n.frame, live |-> n.live] /\ n.live = TRUE
                      /\ FrameOk(n.frame, S) /\ n.frame.t \in ok
                      /\ n.frame = FrameOf(s.pending[n.frame.t], n.frame.t)
    OBVIOUS
  <2>1. PICK t \in ok : n = [frame |-> FrameOf(s.pending[t], t), live |-> TRUE]
    BY <1>12
  <2>2. FrameOk(FrameOf(s.pending[t], t), S) /\ FrameOf(s.pending[t], t).t = t
    BY <1>2, <1>7, FrameOfEntry
  <2> HIDE DEF new
  <2> QED
    BY <2>1, <2>2
<1>14. Held(s1, W) = W \cup new
  BY <1>8 DEF Held
<1> HIDE DEF new
<1>15. NwkInv(moved, W \cup new, S)
  <2>1. ASSUME NEW n \in W \cup new
        PROVE  /\ n = [frame |-> n.frame, live |-> n.live]
               /\ n.live \in BOOLEAN
               /\ FrameOk(n.frame, S)
               /\ n.live => /\ n.frame.t \in DOMAIN moved
                            /\ moved[n.frame.t].state = "AwaitingNwkConfirm"
    <3>1. CASE n \in W
      BY <3>1, <1>10, <1>11
    <3>2. CASE n \in new
      BY <3>2, <1>4, <1>7, <1>9, <1>13
    <3> QED
      BY <3>1, <3>2
  <2>2. ASSUME NEW m \in W \cup new, NEW n \in W \cup new,
               m.live, n.live, m.frame.t = n.frame.t
        PROVE  m = n
    <3>1. CASE m \in W /\ n \in W
      BY <3>1, <2>2, <1>10
    <3>2. CASE m \in new /\ n \in new
      <4>1. m.frame = n.frame
        BY <3>2, <2>2, <1>13
      <4> QED
        BY <3>2, <4>1, <1>13
    <3>3. CASE m \in W /\ n \in new
      BY <3>3, <2>2, <1>7, <1>11, <1>13
    <3>4. CASE m \in new /\ n \in W
      BY <3>4, <2>2, <1>7, <1>11, <1>13
    <3> QED
      BY <3>1, <3>2, <3>3, <3>4
  <2> QED
    BY <2>1, <2>2 DEF NwkInv
<1>16. TurnInv(s1, W, S, G)
  <2>1. \A t \in DOMAIN s.pending : Entry(t, s1.pending[t], S)
    BY <1>8, <1>9
  <2>2. NwkInv(s1.pending, Held(s1, W), S) /\ DOMAIN s1.pending = DOMAIN s.pending
    BY <1>4, <1>8, <1>14, <1>15
  <2> QED
    BY <2>1, <2>2, <1>8, TouchedTurn
<1>17. /\ TurnInv(CompleteAll(s1, fail, "SECURITY_FAIL"), W, S, G)
       /\ CompleteAll(s1, fail, "SECURITY_FAIL").pending = [t \in DOMAIN moved \ fail |-> moved[t]]
  <2>1. \A n \in Held(s1, W) : n.live => n.frame.t \notin fail
    BY <1>7, <1>11, <1>13, <1>14
  <2>2. fail \in SUBSET DOMAIN s1.pending
    BY <1>4, <1>7, <1>8
  <2> DEFINE status == "SECURITY_FAIL"
  <2>3. status \in Statuses /\ (status = "SUCCESS" => fail \subseteq G)
    BY DEF Statuses
  <2> HIDE DEF status
  <2>4. /\ TurnInv(CompleteAll(s1, fail, status), W, S, G)
        /\ CompleteAll(s1, fail, status).pending =
               [t \in DOMAIN s1.pending \ fail |-> s1.pending[t]]
    BY <1>16, <2>1, <2>2, <2>3, CompletedTurn
  <2> QED
    BY <2>4, <1>8 DEF status
<1>18. NoneReady([t \in DOMAIN moved \ fail |-> moved[t]])
  BY <1>4, <1>9 DEF NoneReady
<1> QED
  BY <1>6, <1>17, <1>18

\* The turn ends with service_pending.
LEMMA SettledServiced ==
    ASSUME NEW s, NEW kept, NEW S, NEW G, TurnInv(s, kept, S, G), NoneHanded(s),
           \A t \in DOMAIN S : t[1] \in Ids,
           SettleServiced(s, kept)
    PROVE  SenderInv(tx', nwk', S, G)
<1>1. PICK built \in [In(s, "Ready") -> BuildOutcomes] : Settle(Service(s, built), kept)
  BY DEF SettleServiced
<1>2. BuildOutcomes \subseteq {"Ok", "CounterPending", "NoKey"}
  BY DEF BuildOutcomes
<1>3. built \in [In(s, "Ready") -> {"Ok", "CounterPending", "NoKey"}]
  BY <1>1, <1>2
<1>4. TurnInv(Service(s, built), kept, S, G) /\ NoneReady(Service(s, built).pending)
  BY <1>3, ServicedTurn
<1> QED
  BY <1>1, <1>4, SettledTurn

-----------------------------------------------------------------------------
(* The handlers of the sender                                              *)

\* An entry becomes p, in a turn: its frame is not held.
LEMMA WithTurn ==
    ASSUME NEW s, NEW W, NEW S, NEW G, TurnInv(s, W, S, G), NoneHanded(s),
           NEW t \in DOMAIN s.pending,
           \A n \in W : n.live => n.frame.t # t,
           NEW p, Entry(t, p, S)
    PROVE  /\ TurnInv(With(s, t, p), W, S, G) /\ NoneHanded(With(s, t, p))
           /\ NoneReady(s.pending) /\ p.state # "Ready" => NoneReady(With(s, t, p).pending)
<1> DEFINE P == [s.pending EXCEPT ![t] = p]
           s1 == With(s, t, p)
<1>1. s1 = [s EXCEPT !.pending = P]
  BY DEF With
<1>2. DOMAIN P = DOMAIN s.pending /\ \A u \in DOMAIN P : P[u] = IF u = t THEN p ELSE s.pending[u]
  OBVIOUS
<1> HIDE DEF P, s1
<1>3. s1 = [pending |-> P, requests |-> s.requests, confirms |-> s.confirms, handed |-> s.handed]
  BY <1>1 DEF TurnInv, IsSender
<1>4. /\ IsSender(s1) /\ s1.pending = P /\ s1.requests = s.requests
      /\ s1.confirms = s.confirms /\ s1.handed = s.handed
  BY <1>3 DEF IsSender
<1>5. \A u \in DOMAIN s.pending : Entry(u, P[u], S)
  BY <1>2 DEF TurnInv, SlotsInv
<1>6. Held(s1, W) = W /\ Held(s, W) = W
  BY <1>4 DEF Held, NoneHanded
<1>7. NwkInv(P, W, S)
  BY <1>2, <1>6 DEF TurnInv, NwkInv
<1>8. TurnInv(s1, W, S, G)
  BY <1>2, <1>4, <1>5, <1>6, <1>7, TouchedTurn
<1>9. NoneHanded(s1)
  BY <1>4 DEF NoneHanded
<1>10. NoneReady(s.pending) /\ p.state # "Ready" => NoneReady(P)
  BY <1>2 DEF NoneReady
<1> QED
  BY <1>4, <1>8, <1>9, <1>10 DEF s1

LEMMA CompleteTurn ==
    ASSUME NEW s, NEW W, NEW S, NEW G, TurnInv(s, W, S, G), NoneHanded(s),
           \A t \in DOMAIN S : t[1] \in Ids,
           NEW t \in DOMAIN s.pending,
           \A n \in W : n.live => n.frame.t # t,
           NEW status \in Statuses, status = "SUCCESS" => t \in G
    PROVE  /\ TurnInv(Complete(s, t, status), W, S, G) /\ NoneHanded(Complete(s, t, status))
           /\ NoneReady(s.pending) => NoneReady(Complete(s, t, status).pending)
<1> DEFINE ts == {t}
<1>1. ts \in SUBSET DOMAIN s.pending /\ (status = "SUCCESS" => ts \subseteq G)
  OBVIOUS
<1>2. Held(s, W) = W
  BY DEF Held, NoneHanded
<1>3. \A n \in Held(s, W) : n.live => n.frame.t \notin ts
  BY <1>2
<1>4. Complete(s, t, status) = CompleteAll(s, ts, status)
  BY DEF Complete
<1> HIDE DEF ts
<1>5. /\ TurnInv(CompleteAll(s, ts, status), W, S, G)
      /\ CompleteAll(s, ts, status).pending = [u \in DOMAIN s.pending \ ts |-> s.pending[u]]
      /\ CompleteAll(s, ts, status).handed = s.handed
  BY <1>1, <1>3, CompletedTurn
<1>6. NoneReady(s.pending) => NoneReady([u \in DOMAIN s.pending \ ts |-> s.pending[u]])
  BY DEF NoneReady
<1> QED
  BY <1>4, <1>5, <1>6 DEF NoneHanded

\* on_nwk_data_confirm: whatever the NWK layer answers, for a frame it no
\* longer holds.
LEMMA NwkAnswerTurn ==
    ASSUME NEW s, NEW W, NEW S, NEW G, TurnInv(s, W, S, G), NoneHanded(s),
           \A t \in DOMAIN S : t[1] \in Ids,
           \A t \in DOMAIN S : ~ S[t].ack => t \in G,
           NEW t \in DOMAIN s.pending,
           \A n \in W : n.live => n.frame.t # t
    PROVE  /\ TurnInv(NwkSuccess(s, t), W, S, G)
           /\ NoneReady(s.pending) => NoneReady(NwkSuccess(s, t).pending)
           /\ TurnInv(NwkFailure(s, t), W, S, G) /\ NoneHanded(NwkFailure(s, t))
           /\ TurnInv(NwkRefusal(s, t), W, S, G) /\ NoneHanded(NwkRefusal(s, t))
<1> DEFINE p == s.pending[t]
<1>0. /\ Entry(t, p, S) /\ t \in DOMAIN S
  BY DEF TurnInv, SlotsInv
<1>1. /\ p \in Pending /\ p.ack = S[t].ack
  BY <1>0 DEF Entry
<1>2. "SUCCESS" \in Statuses /\ "NWK_FAILURE" \in Statuses /\ "NWK_FAILURE" # "SUCCESS"
  BY DEF Statuses
<1> HIDE DEF p
<1>3. /\ TurnInv(NwkSuccess(s, t), W, S, G)
      /\ NoneReady(s.pending) => NoneReady(NwkSuccess(s, t).pending)
  <2>1. CASE p.ack
    <3> DEFINE p1 == [p EXCEPT !.state = "AwaitingAck", !.timer = AckWait]
    <3>1. Entry(t, p1, S) /\ p1.state # "Ready"
      BY <1>0, ConstantsType DEF Entry, Pending, States
    <3>2. NwkSuccess(s, t) = With(s, t, p1)
      BY <2>1 DEF NwkSuccess, p
    <3> HIDE DEF p1
    <3>3. /\ TurnInv(With(s, t, p1), W, S, G)
          /\ NoneReady(s.pending) /\ p1.state # "Ready" => NoneReady(With(s, t, p1).pending)
      BY <3>1, WithTurn
    <3> QED
      BY <3>1, <3>2, <3>3
  <2>2. CASE ~ p.ack
    <3>1. NwkSuccess(s, t) = Complete(s, t, "SUCCESS") /\ t \in G
      BY <2>2, <1>0, <1>1 DEF NwkSuccess, p
    <3> DEFINE status == "SUCCESS"
    <3>2. status \in Statuses /\ (status = "SUCCESS" => t \in G) /\ NwkSuccess(s, t) = Complete(s, t, status)
      BY <3>1, <1>2
    <3> HIDE DEF status
    <3>3. /\ TurnInv(Complete(s, t, status), W, S, G)
          /\ NoneReady(s.pending) => NoneReady(Complete(s, t, status).pending)
      BY <3>2, CompleteTurn
    <3> QED
      BY <3>2, <3>3
  <2> QED
    BY <2>1, <2>2
<1>4. TurnInv(NwkFailure(s, t), W, S, G) /\ NoneHanded(NwkFailure(s, t))
  <2>1. CASE p.ack /\ p.retries < MaxRetries
    <3> DEFINE k == p.retries + 1
               p1 == [p EXCEPT !.retries = k, !.state = "Ready"]
    <3>0. k \in 0 .. MaxRetries
      BY <2>1, <1>1, ConstantsType DEF Pending
    <3>1. Entry(t, p1, S)
      <4> HIDE DEF k
      <4> QED
        BY <3>0, <1>0 DEF Entry, Pending, States
    <3>2. NwkFailure(s, t) = With(s, t, p1)
      BY <2>1 DEF NwkFailure, p
    <3> HIDE DEF p1
    <3> QED
      BY <3>1, <3>2, WithTurn
  <2>2. CASE ~ (p.ack /\ p.retries < MaxRetries)
    <3> DEFINE status == "NWK_FAILURE"
    <3>1. NwkFailure(s, t) = Complete(s, t, status)
      BY <2>2 DEF NwkFailure, p
    <3>2. status \in Statuses /\ (status = "SUCCESS" => t \in G)
      BY <1>2
    <3> HIDE DEF status
    <3> QED
      BY <3>1, <3>2, CompleteTurn
  <2> QED
    BY <2>1, <2>2
<1>5. TurnInv(NwkRefusal(s, t), W, S, G) /\ NoneHanded(NwkRefusal(s, t))
  <2>1. CASE p.deferrals < MaxDeferrals
    <3> DEFINE k == p.deferrals + 1
               p1 == [p EXCEPT !.deferrals = k, !.state = "Deferred", !.timer = RetryDelay]
    <3>0. k \in 0 .. MaxDeferrals
      BY <2>1, <1>1, ConstantsType DEF Pending
    <3>1. Entry(t, p1, S)
      <4> HIDE DEF k
      <4> QED
        BY <3>0, <1>0, ConstantsType DEF Entry, Pending, States
    <3>2. NwkRefusal(s, t) = With(s, t, p1)
      BY <2>1 DEF NwkRefusal, p
    <3> HIDE DEF p1
    <3> QED
      BY <3>1, <3>2, WithTurn
  <2>2. CASE ~ (p.deferrals < MaxDeferrals)
    <3>1. NwkRefusal(s, t) = NwkFailure(s, t)
      BY <2>2 DEF NwkRefusal, p
    <3> QED
      BY <3>1, <1>4
  <2> QED
    BY <2>1, <2>2
<1> QED
  BY <1>3, <1>4, <1>5

-----------------------------------------------------------------------------
(* The steps of the sender. G is any set that has the transmissions        *)
(* without acknowledgement request and those whose last acknowledgement    *)
(* is under way.                                                           *)

UnackedIn(S, G) == \A t \in DOMAIN S : ~ S[t].ack => t \in G

\* Between turns.
Resting(G) ==
    /\ calls \in 0 .. MaxRequests
    /\ SentInv(sent, calls)
    /\ SenderInv(tx, nwk, sent, G)

LEMMA SentIds ==
    ASSUME NEW S, NEW n \in 0 .. MaxRequests, SentInv(S, n)
    PROVE  \A t \in DOMAIN S : t[1] \in Ids /\ t \in Transmissions
  BY ConstantsType DEF SentInv, Ids, Transmissions

LEMMA InsideTurn ==
    ASSUME NEW G, Resting(G)
    PROVE  /\ TurnInv(Inside, nwk, sent, G)
           /\ NoneHanded(Inside) /\ NoneReady(Inside.pending)
           /\ Inside.pending = tx.pending
           /\ \A t \in DOMAIN sent : t[1] \in Ids
           /\ Held(Inside, nwk) = nwk
<1>1. /\ IsSender(Inside) /\ Inside.pending = tx.pending /\ Inside.requests = tx.requests
      /\ Inside.confirms = tx.confirms /\ Inside.handed = {}
  BY DEF Inside, IsSender
<1>2. Held(Inside, nwk) = nwk
  BY <1>1 DEF Held
<1>3. TurnInv(Inside, nwk, sent, G) /\ NoneReady(Inside.pending)
  BY <1>1, <1>2 DEF Resting, SenderInv, TurnInv
<1>4. \A t \in DOMAIN sent : t[1] \in Ids
  BY SentIds DEF Resting
<1> QED
  BY <1>1, <1>2, <1>3, <1>4 DEF NoneHanded

\* The NWK layer holds fewer frames, or waits for fewer confirms.
LEMMA FewerHeld ==
    ASSUME NEW s, NEW W, NEW S, NEW G, TurnInv(s, W, S, G), NoneHanded(s),
           NEW W1, NwkInv(s.pending, W1, S)
    PROVE  TurnInv(s, W1, S, G)
<1>1. Held(s, W1) = W1
  BY DEF Held, NoneHanded
<1> QED
  BY <1>1 DEF TurnInv

\* A turn begins with the answer for the frame n: no other frame of its
\* transmission is awaited.
LEMMA AnsweredFrame ==
    ASSUME NEW G, Resting(G), NEW n \in nwk, n.live, NEW W1,
           \A m \in W1 : m \in nwk \ {n} \/ m = Orphan(n)
    PROVE  /\ n.frame.t \in DOMAIN tx.pending
           /\ TurnInv(Inside, W1, sent, G)
           /\ \A m \in W1 : m.live => m.frame.t # n.frame.t
<1>1. NwkInv(tx.pending, nwk, sent)
  BY DEF Resting, SenderInv
<1> DEFINE n1 == Orphan(n)
<1>3. n1 = [frame |-> n.frame, live |-> FALSE]
  BY DEF Orphan
<1> HIDE DEF n1
<1>4. n1.frame = n.frame /\ n1.live = FALSE
  BY <1>3
<1>5. \A m \in W1 : m \in nwk \ {n} \/ m = n1
  BY DEF n1
<1>6. FrameOk(n.frame, sent) /\ n.frame.t \in DOMAIN tx.pending
  BY <1>1 DEF NwkInv
<1>7. \A m \in W1 : m.live => m \in nwk \ {n}
  BY <1>4, <1>5
<1>8. NwkInv(tx.pending, W1, sent)
  <2>1. ASSUME NEW m \in W1
        PROVE  /\ m = [frame |-> m.frame, live |-> m.live]
               /\ m.live \in BOOLEAN
               /\ FrameOk(m.frame, sent)
    <3>1. CASE m \in nwk
      BY <3>1, <1>1 DEF NwkInv
    <3>2. CASE m = n1
      BY <3>2, <1>3, <1>4, <1>6
    <3> QED
      BY <3>1, <3>2, <1>5
  <2>2. ASSUME NEW m \in W1, m.live
        PROVE  /\ m.frame.t \in DOMAIN tx.pending
               /\ tx.pending[m.frame.t].state = "AwaitingNwkConfirm"
    BY <1>1, <1>7, <2>2 DEF NwkInv
  <2>3. ASSUME NEW l \in W1, NEW m \in W1, l.live, m.live, l.frame.t = m.frame.t
        PROVE  l = m
    BY <1>1, <1>7, <2>3 DEF NwkInv
  <2> QED
    BY <2>1, <2>2, <2>3 DEF NwkInv
<1>9. TurnInv(Inside, W1, sent, G)
  BY <1>8, InsideTurn, FewerHeld
<1>10. \A m \in W1 : m.live => m.frame.t # n.frame.t
  BY <1>1, <1>7 DEF NwkInv
<1> QED
  BY <1>6, <1>9, <1>10

LEMMA NwkAnswerSteps ==
    ASSUME NEW G, Resting(G), UnackedIn(sent, G), NEW n \in nwk,
           \/ NwkSends(n)
           \/ NwkFails(n)
           \/ \E accepted \in BOOLEAN : NwkRefuses(n, accepted)
    PROVE  SenderInv(tx', nwk', sent, G)
<1>0. /\ n.live
      /\ \A t \in DOMAIN sent : t[1] \in Ids
      /\ \A t \in DOMAIN sent : ~ sent[t].ack => t \in G
      /\ NoneHanded(Inside) /\ NoneReady(Inside.pending) /\ Inside.pending = tx.pending
  BY InsideTurn DEF NwkSends, NwkFails, NwkRefuses, UnackedIn
<1>1. ASSUME NEW W1, \A m \in W1 : m \in nwk \ {n} \/ m = Orphan(n)
      PROVE  /\ TurnInv(NwkSuccess(Inside, n.frame.t), W1, sent, G)
             /\ NoneReady(NwkSuccess(Inside, n.frame.t).pending)
             /\ TurnInv(NwkFailure(Inside, n.frame.t), W1, sent, G)
             /\ NoneHanded(NwkFailure(Inside, n.frame.t))
             /\ TurnInv(NwkRefusal(Inside, n.frame.t), W1, sent, G)
             /\ NoneHanded(NwkRefusal(Inside, n.frame.t))
  <2>1. /\ n.frame.t \in DOMAIN tx.pending
        /\ TurnInv(Inside, W1, sent, G)
        /\ \A m \in W1 : m.live => m.frame.t # n.frame.t
    BY <1>0, <1>1, AnsweredFrame
  <2> DEFINE t == n.frame.t
             s == Inside
  <2>2. /\ t \in DOMAIN s.pending /\ TurnInv(s, W1, sent, G) /\ NoneHanded(s) /\ NoneReady(s.pending)
        /\ \A m \in W1 : m.live => m.frame.t # t
    BY <1>0, <2>1
  <2> HIDE DEF t, s
  <2>3. /\ TurnInv(NwkSuccess(s, t), W1, sent, G)
        /\ NoneReady(s.pending) => NoneReady(NwkSuccess(s, t).pending)
        /\ TurnInv(NwkFailure(s, t), W1, sent, G) /\ NoneHanded(NwkFailure(s, t))
        /\ TurnInv(NwkRefusal(s, t), W1, sent, G) /\ NoneHanded(NwkRefusal(s, t))
    BY <2>2, <1>0, NwkAnswerTurn
  <2> QED
    BY <2>2, <2>3 DEF t, s
<1>2. CASE NwkSends(n)
  <2>1. Settle(NwkSuccess(Inside, n.frame.t), nwk \ {n})
    BY <1>2 DEF NwkSends
  <2> DEFINE W1 == nwk \ {n}
             s1 == NwkSuccess(Inside, n.frame.t)
  <2>2. TurnInv(s1, W1, sent, G) /\ NoneReady(s1.pending)
    BY <1>1
  <2>3. Settle(s1, W1)
    BY <2>1
  <2> HIDE DEF W1, s1
  <2> QED
    BY <2>2, <2>3, SettledTurn
<1>3. CASE NwkFails(n)
  <2> DEFINE W1 == nwk \ {n}
             s1 == NwkFailure(Inside, n.frame.t)
  <2>1. SettleServiced(s1, W1)
    BY <1>3 DEF NwkFails
  <2>2. TurnInv(s1, W1, sent, G) /\ NoneHanded(s1)
    BY <1>1
  <2> HIDE DEF W1, s1
  <2> QED
    BY <1>0, <2>1, <2>2, SettledServiced
<1>4. ASSUME NEW accepted \in BOOLEAN, NwkRefuses(n, accepted)
      PROVE  SenderInv(tx', nwk', sent, G)
  <2> DEFINE W1 == (nwk \ {n}) \cup (IF accepted THEN {Orphan(n)} ELSE {})
             s1 == NwkRefusal(Inside, n.frame.t)
  <2>1. SettleServiced(s1, W1)
    BY <1>4 DEF NwkRefuses
  <2>2. \A m \in W1 : m \in nwk \ {n} \/ m = Orphan(n)
    OBVIOUS
  <2> HIDE DEF W1
  <2>3. TurnInv(s1, W1, sent, G) /\ NoneHanded(s1)
    BY <1>1, <2>2
  <2> HIDE DEF s1
  <2> QED
    BY <1>0, <2>1, <2>3, SettledServiced
<1> QED
  BY <1>2, <1>3, <1>4

LEMMA NwkForgetsStep ==
    ASSUME NEW G, Resting(G), NEW n \in nwk, NwkForgets(n)
    PROVE  SenderInv(tx', nwk', sent, G)
<1>1. tx' = tx /\ nwk' \subseteq nwk
  BY DEF NwkForgets
<1>2. SenderInv(tx, nwk, sent, G)
  BY DEF Resting
<1>3. NwkInv(tx.pending, nwk', sent)
  BY <1>1, <1>2 DEF SenderInv, NwkInv
<1> QED
  BY <1>1, <1>2, <1>3 DEF SenderInv

\* The transmission the acknowledgement m ends.
Ends(t, m) ==
    /\ AckMatches(tx.pending[t], t, m.ack)
    /\ ~ (tx.pending[t].blocks # 0 /\ tx.pending[t].block + 1 < tx.pending[t].blocks)

AckedIn(G) == \A m \in acks : \A t \in DOMAIN tx.pending : Ends(t, m) => t \in G

LEMMA ReceiveAckStep ==
    ASSUME NEW G, Resting(G), AckedIn(G), NEW m \in acks, ReceiveAck(m)
    PROVE  SenderInv(tx', nwk', sent, G)
<1>0. /\ TurnInv(Inside, nwk, sent, G)
      /\ NoneHanded(Inside) /\ NoneReady(Inside.pending) /\ Inside.pending = tx.pending
      /\ \A t \in DOMAIN sent : t[1] \in Ids
      /\ \A t \in DOMAIN tx.pending : Entry(t, tx.pending[t], sent)
      /\ NwkInv(tx.pending, nwk, sent)
  BY InsideTurn DEF Resting, SenderInv, SlotsInv
<1>1. CASE UNCHANGED <<tx, nwk>>
  BY <1>1 DEF Resting
<1>2. ASSUME NEW t \in DOMAIN tx.pending, AckMatches(tx.pending[t], t, m.ack),
             tx.pending[t].blocks # 0 /\ tx.pending[t].block + 1 < tx.pending[t].blocks,
             SettleServiced(With(Inside, t, [tx.pending[t] EXCEPT !.block = @ + 1,
                                                                  !.retries = 0,
                                                                  !.state = "Ready"]), nwk)
      PROVE  SenderInv(tx', nwk', sent, G)
  <2> DEFINE p == tx.pending[t]
             k == p.block + 1
             p1 == [p EXCEPT !.block = k, !.retries = 0, !.state = "Ready"]
             s == Inside
  <2>1. Entry(t, p, sent) /\ p.blocks # 0 /\ p.block + 1 < p.blocks
    BY <1>0, <1>2
  <2>2. SettleServiced(With(s, t, p1), nwk)
    BY <1>2
  <2>3. \A n \in nwk : n.live => n.frame.t # t
    BY <1>0, <1>2 DEF NwkInv, AckMatches
  <2>4. TurnInv(s, nwk, sent, G) /\ NoneHanded(s) /\ t \in DOMAIN s.pending
    BY <1>0
  <2> HIDE DEF p, s
  <2>5. p \in Pending /\ p.blocks \in Nat /\ p.block \in Nat
    BY <2>1, ConstantsType DEF Entry, Pending
  <2>6. k \in Nat /\ k <= p.blocks /\ k < p.blocks /\ 0 \in 0 .. MaxRetries
    BY <2>1, <2>5, ConstantsType
  <2> HIDE DEF k
  <2>7. Entry(t, p1, sent)
    <3>1. p1 \in Pending
      BY <2>5, <2>6 DEF Pending, States
    <3>2. /\ p1.counter = p.counter /\ p1.ack = p.ack /\ p1.blocks = p.blocks /\ p1.block = k
      BY <2>5 DEF Pending
    <3> HIDE DEF p1
    <3> QED
      BY <2>1, <2>6, <3>1, <3>2 DEF Entry
  <2> HIDE DEF p1
  <2>8. TurnInv(With(s, t, p1), nwk, sent, G) /\ NoneHanded(With(s, t, p1))
    BY <2>3, <2>4, <2>7, WithTurn
  <2> QED
    BY <1>0, <2>2, <2>8, SettledServiced
<1>3. ASSUME NEW t \in DOMAIN tx.pending, Ends(t, m),
             Settle(Complete(Inside, t, "SUCCESS"), nwk)
      PROVE  SenderInv(tx', nwk', sent, G)
  <2> DEFINE s == Inside
             status == "SUCCESS"
  <2>1. \A n \in nwk : n.live => n.frame.t # t
    BY <1>0, <1>3 DEF NwkInv, AckMatches, Ends
  <2>2. status \in Statuses /\ (status = "SUCCESS" => t \in G)
    BY <1>3 DEF AckedIn, Statuses
  <2>3. /\ TurnInv(s, nwk, sent, G) /\ NoneHanded(s) /\ NoneReady(s.pending)
        /\ t \in DOMAIN s.pending
        /\ Settle(Complete(s, t, status), nwk)
    BY <1>0, <1>3
  <2> HIDE DEF s, status
  <2>4. /\ TurnInv(Complete(s, t, status), nwk, sent, G)
        /\ NoneReady(s.pending) => NoneReady(Complete(s, t, status).pending)
    BY <1>0, <2>1, <2>2, <2>3, CompleteTurn
  <2> QED
    BY <2>3, <2>4, SettledTurn
<1>4. \/ UNCHANGED <<tx, nwk>>
      \/ \E t \in DOMAIN tx.pending :
            /\ AckMatches(tx.pending[t], t, m.ack)
            /\ tx.pending[t].blocks # 0 /\ tx.pending[t].block + 1 < tx.pending[t].blocks
            /\ SettleServiced(With(Inside, t, [tx.pending[t] EXCEPT !.block = @ + 1,
                                                                    !.retries = 0,
                                                                    !.state = "Ready"]), nwk)
      \/ \E t \in DOMAIN tx.pending : Ends(t, m) /\ Settle(Complete(Inside, t, "SUCCESS"), nwk)
  BY Zenon DEF ReceiveAck, Ends
<1> QED
  BY <1>1, <1>2, <1>3, <1>4

\* A handler that changes entries but leaves those with the NWK layer.
LEMMA RevisedTurn ==
    ASSUME NEW G, Resting(G),
           NEW P, DOMAIN P = DOMAIN tx.pending,
           \A t \in DOMAIN P :
               /\ Entry(t, P[t], sent)
               /\ tx.pending[t].state = "AwaitingNwkConfirm" => P[t].state = "AwaitingNwkConfirm",
           NEW s, s = [pending |-> P, requests |-> tx.requests, confirms |-> tx.confirms,
                       handed |-> {}]
    PROVE  /\ TurnInv(s, nwk, sent, G) /\ NoneHanded(s) /\ s.pending = P
           /\ SlotsInv(P, sent) /\ NwkInv(P, nwk, sent)
<1>0. /\ IsSender(s) /\ s.pending = P /\ s.requests = tx.requests
      /\ s.confirms = tx.confirms /\ s.handed = {}
  BY DEF IsSender
<1>1. /\ SlotsInv(tx.pending, sent) /\ NwkInv(tx.pending, nwk, sent)
      /\ RequestsInv(DOMAIN tx.pending, tx.requests, tx.confirms, DOMAIN sent, G)
  BY DEF Resting, SenderInv
<1>2. SlotsInv(P, sent)
  BY <1>1 DEF SlotsInv
<1>3. NwkInv(P, nwk, sent)
  BY <1>1 DEF NwkInv
<1>4. Held(s, nwk) = nwk
  BY <1>0 DEF Held
<1> QED
  BY <1>0, <1>1, <1>2, <1>3, <1>4 DEF TurnInv, NoneHanded

LEMMA RestingEntries ==
    ASSUME NEW G, Resting(G)
    PROVE  /\ \A t \in DOMAIN tx.pending : Entry(t, tx.pending[t], sent)
           /\ \A t \in DOMAIN tx.pending : tx.pending[t] \in Pending
           /\ tx = [pending |-> tx.pending, requests |-> tx.requests, confirms |-> tx.confirms]
  BY DEF Resting, SenderInv, SlotsInv, Entry, Outside

LEMMA CommitReservationStep ==
    ASSUME NEW G, Resting(G), NEW peer, CommitReservation(peer)
    PROVE  SenderInv(tx', nwk', sent, G)
<1> DEFINE parked == In(Inside, "CounterPending")
           P == [t \in DOMAIN tx.pending |->
                    IF t \in parked THEN [tx.pending[t] EXCEPT !.state = "Ready"]
                    ELSE tx.pending[t]]
           s == [Inside EXCEPT
                    !.pending = [t \in DOMAIN @ |->
                                    IF t \in parked THEN [@[t] EXCEPT !.state = "Ready"]
                                    ELSE @[t]]]
<1>1. \E built \in [In(s, "Ready") -> {"Ok", "CounterPending"}] : Settle(Service(s, built), nwk)
  BY DEF CommitReservation
<1>2. s = [pending |-> P, requests |-> tx.requests, confirms |-> tx.confirms, handed |-> {}]
  <2>1. Inside.pending = tx.pending
    BY DEF Inside
  <2> HIDE DEF parked
  <2>2. s = [Inside EXCEPT !.pending = P]
    BY <2>1
  <2> HIDE DEF P, s
  <2> QED
    BY <2>2 DEF Inside
<1>3. parked \subseteq DOMAIN tx.pending
      /\ \A t \in parked : tx.pending[t].state = "CounterPending"
  BY DEF In, Inside
<1>4. DOMAIN P = DOMAIN tx.pending
  OBVIOUS
<1>5. \A t \in DOMAIN P :
          /\ Entry(t, P[t], sent)
          /\ tx.pending[t].state = "AwaitingNwkConfirm" => P[t].state = "AwaitingNwkConfirm"
  <2> SUFFICES ASSUME NEW t \in DOMAIN tx.pending
               PROVE  /\ Entry(t, P[t], sent)
                      /\ tx.pending[t].state = "AwaitingNwkConfirm"
                             => P[t].state = "AwaitingNwkConfirm"
    OBVIOUS
  <2>1. Entry(t, tx.pending[t], sent) /\ "Ready" \in States
    BY RestingEntries DEF States
  <2>2. Entry(t, [tx.pending[t] EXCEPT !.state = "Ready"], sent)
    BY <2>1, StateChanged
  <2>3. t \in parked => P[t] = [tx.pending[t] EXCEPT !.state = "Ready"]
    OBVIOUS
  <2>4. t \notin parked => P[t] = tx.pending[t]
    OBVIOUS
  <2> HIDE DEF P, parked
  <2>5. CASE t \in parked
    BY <2>2, <2>3, <2>5, <1>3
  <2>6. CASE t \notin parked
    BY <2>1, <2>4, <2>6
  <2> QED
    BY <2>5, <2>6
<1> HIDE DEF s, P, parked
<1>6. TurnInv(s, nwk, sent, G) /\ NoneHanded(s)
  BY <1>2, <1>4, <1>5, RevisedTurn
<1>7. PICK built \in [In(s, "Ready") -> {"Ok", "CounterPending"}] : Settle(Service(s, built), nwk)
  BY <1>1
<1>8. built \in [In(s, "Ready") -> {"Ok", "CounterPending", "NoKey"}]
  BY <1>7
<1>9. TurnInv(Service(s, built), nwk, sent, G) /\ NoneReady(Service(s, built).pending)
  BY <1>6, <1>8, InsideTurn, ServicedTurn
<1> QED
  BY <1>7, <1>9, SettledTurn

\* A step that changes entries outside of a turn.
LEMMA RevisedStep ==
    ASSUME NEW G, Resting(G),
           NEW P, DOMAIN P = DOMAIN tx.pending,
           \A t \in DOMAIN P :
               /\ Entry(t, P[t], sent)
               /\ P[t].state # "Ready"
               /\ tx.pending[t].state = "AwaitingNwkConfirm" => P[t].state = "AwaitingNwkConfirm",
           tx' = [tx EXCEPT !.pending = P], nwk' = nwk
    PROVE  SenderInv(tx', nwk', sent, G)
<1>1. tx' = [pending |-> P, requests |-> tx.requests, confirms |-> tx.confirms]
  BY RestingEntries
<1>2. SlotsInv(P, sent) /\ NwkInv(P, nwk, sent)
  BY RevisedTurn
<1>3. NoneReady(P)
  BY DEF NoneReady
<1>4. RequestsInv(DOMAIN P, tx.requests, tx.confirms, DOMAIN sent, G)
  BY DEF Resting, SenderInv
<1>5. /\ tx'.pending = P /\ tx'.requests = tx.requests /\ tx'.confirms = tx.confirms
      /\ tx' = Outside(tx')
  BY <1>1 DEF Outside
<1> QED
  BY <1>2, <1>3, <1>4, <1>5 DEF SenderInv

LEMMA AbortReservationStep ==
    ASSUME NEW G, Resting(G), NEW peer, AbortReservation(peer)
    PROVE  SenderInv(tx', nwk', sent, G)
<1> DEFINE parked == {t \in In(Inside, "CounterPending") : PeerOf(t) = peer}
           P == [t \in DOMAIN tx.pending |->
                    IF t \in parked
                    THEN [tx.pending[t] EXCEPT !.state = "Deferred", !.timer = RetryDelay]
                    ELSE tx.pending[t]]
<1>1. tx' = [tx EXCEPT !.pending = P] /\ nwk' = nwk
  BY DEF AbortReservation
<1>2. \A t \in parked : tx.pending[t].state = "CounterPending"
  BY DEF In, Inside
<1>3. ASSUME NEW t \in DOMAIN tx.pending
      PROVE  /\ Entry(t, P[t], sent)
             /\ P[t].state # "Ready"
             /\ tx.pending[t].state = "AwaitingNwkConfirm" => P[t].state = "AwaitingNwkConfirm"
  <2>1. Entry(t, tx.pending[t], sent) /\ tx.pending[t].state # "Ready"
    BY RestingEntries DEF Resting, SenderInv, NoneReady
  <2>2. /\ Entry(t, [tx.pending[t] EXCEPT !.state = "Deferred", !.timer = RetryDelay], sent)
        /\ [tx.pending[t] EXCEPT !.state = "Deferred", !.timer = RetryDelay].state = "Deferred"
    BY <2>1, ConstantsType DEF Entry, Pending, States
  <2>3. t \in parked =>
            P[t] = [tx.pending[t] EXCEPT !.state = "Deferred", !.timer = RetryDelay]
    OBVIOUS
  <2>4. t \notin parked => P[t] = tx.pending[t]
    OBVIOUS
  <2> HIDE DEF P, parked
  <2>5. CASE t \in parked
    BY <2>2, <2>3, <2>5, <1>2
  <2>6. CASE t \notin parked
    BY <2>1, <2>4, <2>6
  <2> QED
    BY <2>5, <2>6
<1>4. DOMAIN P = DOMAIN tx.pending
  OBVIOUS
<1> HIDE DEF P
<1> QED
  BY <1>1, <1>3, <1>4, RevisedStep

LEMMA TickStep ==
    ASSUME NEW G, Resting(G), Tick
    PROVE  SenderInv(tx', nwk', sent, G)
<1> DEFINE P == [t \in DOMAIN tx.pending |-> Nearer(tx.pending[t])]
<1>1. tx' = [tx EXCEPT !.pending = P] /\ nwk' = nwk
  BY DEF Tick
<1>2. ASSUME NEW t \in DOMAIN tx.pending
      PROVE  /\ Entry(t, P[t], sent)
             /\ P[t].state # "Ready"
             /\ tx.pending[t].state = "AwaitingNwkConfirm" => P[t].state = "AwaitingNwkConfirm"
  <2> DEFINE p == tx.pending[t]
             k == Down(p.timer)
  <2>1. Entry(t, p, sent) /\ p \in Pending /\ p.state # "Ready"
    BY RestingEntries DEF Resting, SenderInv, NoneReady
  <2>2. P[t] = [p EXCEPT !.timer = k]
    BY DEF Nearer
  <2> HIDE DEF p, P
  <2>3. k \in Nat
    BY <2>1 DEF Pending, Down
  <2> HIDE DEF k
  <2>4. Entry(t, [p EXCEPT !.timer = k], sent) /\ [p EXCEPT !.timer = k].state = p.state
    BY <2>1, <2>3 DEF Entry, Pending
  <2> QED
    BY <2>1, <2>2, <2>4 DEF p
<1>3. DOMAIN P = DOMAIN tx.pending
  OBVIOUS
<1> HIDE DEF P
<1> QED
  BY <1>1, <1>2, <1>3, RevisedStep

\* An entry that is retried or offered again.
LEMMA RearmedEntry ==
    ASSUME NEW t, NEW p, NEW S, Entry(t, p, S), ~ GivesUp(p)
    PROVE  Entry(t, Rearm(p), S)
<1> DEFINE k == IF p.state = "AwaitingAck" THEN p.retries + 1 ELSE p.retries
           p1 == [p EXCEPT !.state = "Ready", !.retries = k]
<1>1. p \in Pending
  BY DEF Entry
<1>2. k \in 0 .. MaxRetries
  BY <1>1, ConstantsType DEF Pending, GivesUp
<1>3. Rearm(p) = p1
  BY <1>1 DEF Rearm, Pending
<1> HIDE DEF k
<1>4. Entry(t, p1, S)
  BY <1>1, <1>2 DEF Entry, Pending, States
<1> QED
  BY <1>3, <1>4

LEMMA PollTimersStep ==
    ASSUME NEW G, Resting(G), PollTimers
    PROVE  SenderInv(tx', nwk', sent, G)
<1> DEFINE due == {t \in DOMAIN tx.pending : Due(t)}
           failed == {t \in due : GivesUp(tx.pending[t])}
           P == [t \in DOMAIN tx.pending |->
                    IF t \in due \ failed THEN Rearm(tx.pending[t]) ELSE tx.pending[t]]
           s == [Inside EXCEPT !.pending = [t \in DOMAIN @ |->
                                               IF t \in due \ failed THEN Rearm(@[t]) ELSE @[t]]]
           status == "NO_ACK"
<1>1. SettleServiced(CompleteAll(s, failed, status), nwk)
  BY DEF PollTimers
<1>2. /\ \A t \in due : tx.pending[t].state \in {"Deferred", "AwaitingAck"}
      /\ failed \subseteq due /\ due \subseteq DOMAIN tx.pending
      /\ \A t \in due \ failed : ~ GivesUp(tx.pending[t])
  BY DEF Due
<1> HIDE DEF due, failed
<1>3. s = [pending |-> P, requests |-> tx.requests, confirms |-> tx.confirms, handed |-> {}]
  <2>1. Inside.pending = tx.pending
    BY DEF Inside
  <2>2. s = [Inside EXCEPT !.pending = P]
    BY <2>1
  <2> HIDE DEF P, s
  <2> QED
    BY <2>2 DEF Inside
<1>4. DOMAIN P = DOMAIN tx.pending
  OBVIOUS
<1>5. ASSUME NEW t \in DOMAIN tx.pending
      PROVE  /\ Entry(t, P[t], sent)
             /\ tx.pending[t].state = "AwaitingNwkConfirm" => P[t].state = "AwaitingNwkConfirm"
  <2>1. Entry(t, tx.pending[t], sent)
    BY RestingEntries
  <2>2. CASE t \in due \ failed
    <3>1. P[t] = Rearm(tx.pending[t])
      BY <2>2
    <3> HIDE DEF P
    <3>2. Entry(t, Rearm(tx.pending[t]), sent)
      BY <2>1, <2>2, <1>2, RearmedEntry
    <3> QED
      BY <3>1, <3>2, <2>2, <1>2
  <2>3. CASE t \notin due \ failed
    <3>1. P[t] = tx.pending[t]
      BY <2>3
    <3> QED
      BY <3>1, <2>1
  <2> QED
    BY <2>2, <2>3
<1> HIDE DEF s, P
<1>6. TurnInv(s, nwk, sent, G) /\ NoneHanded(s) /\ s.pending = P
  BY <1>3, <1>4, <1>5, RevisedTurn
<1>7. status \in Statuses /\ (status = "SUCCESS" => failed \subseteq G)
  BY DEF Statuses
<1> HIDE DEF status
<1>8. \A n \in Held(s, nwk) : n.live => n.frame.t \notin failed
  <2>1. Held(s, nwk) = nwk
    BY <1>6 DEF Held, NoneHanded
  <2>2. NwkInv(tx.pending, nwk, sent)
    BY DEF Resting, SenderInv
  <2> QED
    BY <2>1, <2>2, <1>2 DEF NwkInv
<1>9. failed \in SUBSET DOMAIN s.pending
  BY <1>2, <1>4, <1>6
<1>10. \A t \in DOMAIN sent : t[1] \in Ids
  BY InsideTurn
<1>11. /\ TurnInv(CompleteAll(s, failed, status), nwk, sent, G)
       /\ CompleteAll(s, failed, status).pending =
              [t \in DOMAIN s.pending \ failed |-> s.pending[t]]
       /\ CompleteAll(s, failed, status).handed = s.handed
  BY <1>6, <1>7, <1>8, <1>9, <1>10, CompletedTurn
<1>12. NoneHanded(CompleteAll(s, failed, status))
  BY <1>6, <1>11 DEF NoneHanded
<1> QED
  BY <1>1, <1>10, <1>11, <1>12, SettledServiced

LEMMA LeaveStep ==
    ASSUME NEW G, Resting(G), Leave
    PROVE  SenderInv(tx', nwk', sent, G)
<1> DEFINE D == DOMAIN tx.pending
           s == Inside
           status == "ILLEGAL_REQUEST"
           c == CompleteAll(s, D, status)
<1>1. /\ tx' = [Outside(c) EXCEPT !.requests = <<>>]
      /\ nwk' = {Orphan(n) : n \in nwk}
  BY DEF Leave
<1>2. TurnInv(s, {}, sent, G) /\ NoneHanded(s) /\ s.pending = tx.pending
  <2>1. NwkInv(Inside.pending, {}, sent)
    BY DEF NwkInv
  <2> QED
    BY <2>1, InsideTurn, FewerHeld
<1>3. \A n \in Held(s, {}) : n.live => n.frame.t \notin D
  BY <1>2 DEF Held, NoneHanded
<1>4. status \in Statuses /\ (status = "SUCCESS" => D \subseteq G)
  BY DEF Statuses
<1>5. \A t \in DOMAIN sent : t[1] \in Ids
  BY InsideTurn
<1>6. D \in SUBSET DOMAIN s.pending
  BY <1>2
<1> HIDE DEF s, status, D
<1>7. /\ TurnInv(c, {}, sent, G)
      /\ c.pending = [t \in DOMAIN s.pending \ D |-> s.pending[t]]
  BY <1>2, <1>3, <1>4, <1>5, <1>6, CompletedTurn
<1>8. DOMAIN c.pending = {}
  BY <1>7, <1>2 DEF D
<1> HIDE DEF c
<1>9. tx' = [pending |-> c.pending, requests |-> <<>>, confirms |-> c.confirms]
  BY <1>1 DEF Outside
<1>10. /\ tx'.pending = c.pending /\ tx'.requests = <<>> /\ tx'.confirms = c.confirms
       /\ tx' = Outside(tx')
  BY <1>9 DEF Outside
<1>11. RequestsInv({}, c.requests, c.confirms, DOMAIN sent, G)
  BY <1>7, <1>8 DEF TurnInv
<1>12. DOMAIN c.requests = {}
  <2>1. \A id : Of({}, id) = {}
    BY DEF Of
  <2> QED
    BY <1>11, <2>1 DEF RequestsInv, OpenInv
<1>13. RequestsInv({}, <<>>, c.confirms, DOMAIN sent, G)
  <2> DEFINE R == <<>>
  <2>1. DOMAIN R = {}
    OBVIOUS
  <2> HIDE DEF R
  <2>2. RequestsInv({}, R, c.confirms, DOMAIN sent, G)
    BY <2>1, <1>11, <1>12 DEF RequestsInv, OpenInv, ClosedInv
  <2> QED
    BY <2>2 DEF R
<1>14. NwkInv(c.pending, nwk', sent)
  <2>1. \A m \in nwk' : \E n \in nwk : m = [frame |-> n.frame, live |-> FALSE]
    BY <1>1 DEF Orphan
  <2>2. \A n \in nwk : FrameOk(n.frame, sent)
    BY DEF Resting, SenderInv, NwkInv
  <2>3. \A m \in nwk' : /\ m = [frame |-> m.frame, live |-> m.live]
                        /\ m.live = FALSE
                        /\ FrameOk(m.frame, sent)
    <3> SUFFICES ASSUME NEW m \in nwk'
                 PROVE  /\ m = [frame |-> m.frame, live |-> m.live]
                        /\ m.live = FALSE
                        /\ FrameOk(m.frame, sent)
      OBVIOUS
    <3>1. PICK n \in nwk : m = [frame |-> n.frame, live |-> FALSE]
      BY <2>1
    <3> QED
      BY <2>2, <3>1
  <2> QED
    BY <2>3 DEF NwkInv
<1>15. SlotsInv(c.pending, sent) /\ NoneReady(c.pending)
  BY <1>7, <1>8 DEF TurnInv, NoneReady
<1> QED
  BY <1>8, <1>10, <1>13, <1>14, <1>15 DEF SenderInv

\* More transmissions are known to have been queued.
Extends(S, S1) == DOMAIN S \subseteq DOMAIN S1 /\ \A t \in DOMAIN S : S1[t] = S[t]

LEMMA FrameExtends ==
    ASSUME NEW S, NEW S1, Extends(S, S1), NEW f, FrameOk(f, S)
    PROVE  FrameOk(f, S1)
  BY DEF FrameOk, Extends

LEMMA SenderExtends ==
    ASSUME NEW S, NEW S1, Extends(S, S1), NEW P, SlotsInv(P, S), NEW W, NwkInv(P, W, S)
    PROVE  SlotsInv(P, S1) /\ NwkInv(P, W, S1)
<1>1. SlotsInv(P, S1)
  BY DEF SlotsInv, Entry, Extends
<1>2. \A n \in W : FrameOk(n.frame, S1)
  BY FrameExtends DEF NwkInv
<1>3. NwkInv(P, W, S1)
  BY <1>2 DEF NwkInv
<1> QED
  BY <1>1, <1>3

\* track_request for the new transmissions ts of a new request.
LEMMA TrackedRequest ==
    ASSUME NEW D, NEW R, NEW C, NEW Q, NEW G, RequestsInv(D, R, C, Q, G), D \subseteq Q,
           NEW id \in Ids, \A t \in Q : t[1] # id,
           NEW ts, ts # {}, \A t \in ts : t[1] = id,
           Cardinality(ts) \in Nat,
           NEW R1, DOMAIN R1 = DOMAIN R \cup {id},
           R1[id] = [remaining |-> Cardinality(ts), status |-> "SUCCESS"],
           \A i \in DOMAIN R : i # id => R1[i] = R[i]
    PROVE  RequestsInv(D \cup ts, R1, C, Q \cup ts, G)
<1> DEFINE D1 == D \cup ts
           Q1 == Q \cup ts
<1>1. \A i : i # id => /\ Of(D1, i) = Of(D, i) /\ Of(Q1, i) = Of(Q, i)
                       /\ Of(Q1 \ D1, i) = Of(Q \ D, i)
  BY DEF Of
<1>2. Of(D, id) = {} /\ Of(Q, id) = {} /\ Of(D1, id) = ts /\ Of(Q1 \ D1, id) = {}
  BY DEF Of
<1> HIDE DEF D1, Q1
<1>3. DOMAIN R \subseteq Ids /\ DOMAIN C = Ids /\ OpenInv(D, R, C, Q, G) /\ ClosedInv(D, R, C, Q, G)
  BY DEF RequestsInv
<1>4. id \notin DOMAIN R
  BY <1>2, <1>3 DEF OpenInv
<1>5. C[id] = <<>>
  BY <1>2, <1>3, <1>4 DEF ClosedInv
<1>6. OpenInv(D1, R1, C, Q1, G)
  <2> SUFFICES ASSUME NEW i \in DOMAIN R1
               PROVE  /\ R1[i] \in [remaining : Nat, status : Statuses]
                      /\ R1[i].remaining = Cardinality(Of(D1, i))
                      /\ Of(D1, i) # {}
                      /\ C[i] = <<>>
                      /\ R1[i].status = "SUCCESS" => Of(Q1 \ D1, i) \subseteq G
    BY DEF OpenInv
  <2>1. CASE i = id
    <3>1. "SUCCESS" \in Statuses
      BY DEF Statuses
    <3>2. R1[id] \in [remaining : Nat, status : Statuses] /\ R1[id].remaining = Cardinality(ts)
      BY <3>1
    <3> QED
      BY <2>1, <3>2, <1>2, <1>5
  <2>2. CASE i # id
    <3>1. i \in DOMAIN R /\ R1[i] = R[i]
      BY <2>2
    <3> QED
      BY <2>2, <3>1, <1>1, <1>3 DEF OpenInv
  <2> QED
    BY <2>1, <2>2
<1>7. ClosedInv(D1, R1, C, Q1, G)
  <2> SUFFICES ASSUME NEW i \in Ids \ DOMAIN R1
               PROVE  /\ Of(D1, i) = {}
                      /\ \/ C[i] = <<>> /\ Of(Q1, i) = {}
                         \/ \E status \in Statuses :
                               /\ C[i] = <<status>> /\ Of(Q1, i) # {}
                               /\ status = "SUCCESS" => Of(Q1, i) \subseteq G
    BY DEF ClosedInv
  <2>1. i # id /\ i \in Ids \ DOMAIN R
    OBVIOUS
  <2>2. Of(D1, i) = Of(D, i) /\ Of(Q1, i) = Of(Q, i)
    BY <2>1, <1>1
  <2> QED
    BY <2>1, <2>2, <1>3 DEF ClosedInv
<1> QED
  BY <1>3, <1>6, <1>7 DEF RequestsInv, D1, Q1

\* queue_tx for the new transmissions ts.
LEMMA QueuedSlots ==
    ASSUME NEW P, NEW S1, SlotsInv(P, S1),
           NEW ts, ts \subseteq DOMAIN S1, ts \cap DOMAIN P = {}, IsFiniteSet(ts),
           Cardinality(ts) + Cardinality(DOMAIN P) <= MaxPending,
           NEW P1, DOMAIN P1 = DOMAIN P \cup ts,
           \A t \in DOMAIN P : P1[t] = P[t],
           \A t \in ts : Entry(t, P1[t], S1)
    PROVE  SlotsInv(P1, S1)
<1>1. IsFiniteSet(DOMAIN P) /\ Cardinality(DOMAIN P) \in Nat /\ Cardinality(ts) \in Nat
  BY FS_CardinalityType DEF SlotsInv
<1>2. /\ IsFiniteSet(DOMAIN P \cup ts)
      /\ Cardinality(DOMAIN P \cup ts) =
             Cardinality(DOMAIN P) + Cardinality(ts) - Cardinality(DOMAIN P \cap ts)
  BY <1>1, FS_Union
<1>3. Cardinality(DOMAIN P \cap ts) = 0
  <2>1. DOMAIN P \cap ts = {}
    OBVIOUS
  <2> QED
    BY <2>1, FS_EmptySet
<1>4. Cardinality(DOMAIN P1) = Cardinality(DOMAIN P) + Cardinality(ts)
  BY <1>1, <1>2, <1>3
<1>5. Cardinality(DOMAIN P1) <= MaxPending /\ IsFiniteSet(DOMAIN P1)
  BY <1>1, <1>2, <1>4
<1> QED
  BY <1>5 DEF SlotsInv

LEMMA CounterType ==
    ASSUME NEW n \in Nat
    PROVE  n % CounterModulus \in 0 .. CounterModulus - 1
  BY ConstantsType

\* What data_request adds to the history.
LEMMA DataRequestSent ==
    ASSUME calls \in 0 .. MaxRequests, SentInv(sent, calls),
           NEW wanted, wanted \subseteq Bindings, NEW queued, NEW ack \in BOOLEAN,
           NEW blocks \in BlockCounts, DataRequest(wanted, queued, ack, blocks)
    PROVE  /\ calls' = calls + 1 /\ calls' \in 0 .. MaxRequests
           /\ DOMAIN sent' = DOMAIN sent \cup ({calls + 1} \X queued)
           /\ Extends(sent, sent')
           /\ \A t \in {calls + 1} \X queued : sent'[t] = [ack |-> ack, blocks |-> blocks]
           /\ SentInv(sent', calls')
           /\ \A t \in DOMAIN sent : t[1] # calls + 1
<1> DEFINE ts == {calls + 1} \X queued
<1>1. /\ calls < MaxRequests /\ calls' = calls + 1 /\ queued \subseteq wanted
      /\ sent' = [t \in DOMAIN sent \cup ts |->
                     IF t \in ts THEN [ack |-> ack, blocks |-> blocks] ELSE sent[t]]
  BY DEF DataRequest
<1>2. calls \in Nat /\ calls' \in 0 .. MaxRequests
  BY <1>1, ConstantsType
<1>3. \A t \in DOMAIN sent : t[1] \in 1 .. calls /\ t \in (1 .. calls) \X Bindings
  BY DEF SentInv
<1>4. \A t \in DOMAIN sent : t[1] # calls + 1
  BY <1>2, <1>3
<1>5. \A t \in DOMAIN sent : t \notin ts
  BY <1>4
<1>6. \A t \in ts : t \in (1 .. calls + 1) \X Bindings
  BY <1>1, <1>2
<1>7. \A t \in DOMAIN sent : t \in (1 .. calls + 1) \X Bindings
  BY <1>2, <1>3
<1> HIDE DEF ts
<1>8. DOMAIN sent' = DOMAIN sent \cup ts /\ Extends(sent, sent')
      /\ \A t \in ts : sent'[t] = [ack |-> ack, blocks |-> blocks]
  BY <1>1, <1>5 DEF Extends
<1>9. DOMAIN sent' \subseteq (1 .. calls') \X Bindings
  BY <1>1, <1>6, <1>7, <1>8
<1>10. \A t \in DOMAIN sent' : sent'[t] \in [ack : BOOLEAN, blocks : BlockCounts]
  BY <1>8 DEF Extends, SentInv
<1> QED
  BY <1>1, <1>2, <1>4, <1>8, <1>9, <1>10 DEF SentInv, ts

LEMMA DataRequestStep ==
    ASSUME NEW G, Resting(G),
           NEW wanted, wanted \subseteq Bindings, NEW queued, NEW ack \in BOOLEAN,
           NEW blocks \in BlockCounts, DataRequest(wanted, queued, ack, blocks)
    PROVE  SenderInv(tx', nwk', sent', G)
<1> DEFINE id == calls + 1
           ts == {id} \X queued
           S1 == sent'
           entry == [counter |-> calls % CounterModulus, ack |-> ack, blocks |-> blocks,
                     block |-> 0, retries |-> 0, deferrals |-> 0,
                     state |-> "Ready", timer |-> 0]
           request == [remaining |-> Cardinality(queued), status |-> "SUCCESS"]
           P == [t \in DOMAIN tx.pending \cup ts |-> IF t \in ts THEN entry ELSE tx.pending[t]]
           R == [i \in DOMAIN tx.requests \cup {id} |-> IF i = id THEN request ELSE tx.requests[i]]
           s == TrackRequest(QueueTx(Inside, ts, calls % CounterModulus, ack, blocks),
                             id, Cardinality(queued))
<1>1. /\ queued \subseteq Bindings /\ (blocks # 0 => ack)
      /\ Cardinality(queued) + Cardinality(DOMAIN tx.pending) <= MaxPending
      /\ IF queued = {} THEN UNCHANGED <<tx, nwk>> ELSE SettleServiced(s, nwk)
  BY DEF DataRequest
<1>2. /\ calls' = calls + 1 /\ calls' \in 0 .. MaxRequests
      /\ DOMAIN S1 = DOMAIN sent \cup ts
      /\ Extends(sent, S1)
      /\ \A t \in ts : S1[t] = [ack |-> ack, blocks |-> blocks]
      /\ SentInv(S1, calls')
      /\ \A t \in DOMAIN sent : t[1] # id
  BY DataRequestSent DEF Resting
<1>3. \A t \in DOMAIN S1 : t[1] \in Ids
  BY <1>2, SentIds
<1>4. /\ tx = Outside(tx) /\ SlotsInv(tx.pending, sent) /\ NwkInv(tx.pending, nwk, sent)
      /\ NoneReady(tx.pending)
      /\ RequestsInv(DOMAIN tx.pending, tx.requests, tx.confirms, DOMAIN sent, G)
      /\ DOMAIN tx.pending \subseteq DOMAIN sent
      /\ calls \in Nat
  BY ConstantsType DEF Resting, SenderInv, SlotsInv
<1>5. SlotsInv(tx.pending, S1) /\ NwkInv(tx.pending, nwk, S1)
  BY <1>2, <1>4, SenderExtends
<1>6. \A t \in ts : t[1] = id
  OBVIOUS
<1>7. CASE queued = {}
  <2>1. ts = {}
    BY <1>7
  <2>2. DOMAIN S1 = DOMAIN sent /\ tx' = tx /\ nwk' = nwk
    BY <2>1, <1>1, <1>2, <1>7
  <2> HIDE DEF S1, ts
  <2> QED
    BY <2>2, <1>4, <1>5 DEF SenderInv, S1
<1>8. CASE queued # {}
  <2>1. IsFiniteSet(queued) /\ Cardinality(queued) \in Nat
    BY <1>1, FS_Subset, FS_CardinalityType, ApsDeliveryAssumption
  <2>2. IsFiniteSet(ts) /\ Cardinality(ts) = Cardinality(queued)
    <3> DEFINE one == {id}
    <3>1. IsFiniteSet(one) /\ Cardinality(one) = 1
      BY FS_Singleton
    <3> HIDE DEF one
    <3>2. IsFiniteSet(one \X queued) /\ Cardinality(one \X queued) = Cardinality(one) * Cardinality(queued)
      BY <3>1, <2>1, FS_Product
    <3> QED
      BY <3>1, <3>2, <2>1 DEF one
  <2>3. ts # {} /\ ts \cap DOMAIN tx.pending = {} /\ ts \subseteq DOMAIN S1
    <3>1. ts # {}
      <4>1. PICK b : b \in queued
        BY <1>8
      <4>2. <<id, b>> \in ts
        BY <4>1
      <4> QED
        BY <4>2
    <3> HIDE DEF ts, S1, id
    <3> QED
      BY <3>1, <1>2, <1>4, <1>6
  <2>4. s = [pending |-> P, requests |-> R, confirms |-> tx.confirms, handed |-> {}]
    <3> HIDE DEF ts, id
    <3>1. QueueTx(Inside, ts, calls % CounterModulus, ack, blocks) =
              [pending |-> P, requests |-> tx.requests, confirms |-> tx.confirms, handed |-> {}]
      <4>1. Inside.pending = tx.pending
        BY DEF Inside
      <4>2. QueueTx(Inside, ts, calls % CounterModulus, ack, blocks) = [Inside EXCEPT !.pending = P]
        BY <4>1 DEF QueueTx
      <4> HIDE DEF P
      <4> QED
        BY <4>2 DEF Inside
    <3> DEFINE q == QueueTx(Inside, ts, calls % CounterModulus, ack, blocks)
    <3>2. q.requests = tx.requests
      BY <3>1
    <3>3. s = [q EXCEPT !.requests = R]
      <4> HIDE DEF q
      <4> QED
        BY <3>2 DEF TrackRequest, q
    <3> HIDE DEF q, R, P
    <3> QED
      BY <3>1, <3>3 DEF q
  <2>5. /\ IsSender(s) /\ s.pending = P /\ s.requests = R /\ s.confirms = tx.confirms
        /\ NoneHanded(s)
    <3> HIDE DEF s, P, R
    <3> QED
      BY <2>4 DEF IsSender, NoneHanded
  <2>6. /\ DOMAIN P = DOMAIN tx.pending \cup ts
        /\ \A t \in DOMAIN tx.pending : P[t] = tx.pending[t]
        /\ \A t \in ts : P[t] = entry
    <3> HIDE DEF ts, entry
    <3> QED
      BY <2>3
  <2>7. \A t \in ts : Entry(t, entry, S1)
    <3> SUFFICES ASSUME NEW t \in ts
                 PROVE  Entry(t, entry, S1)
      OBVIOUS
    <3> DEFINE c == calls % CounterModulus
    <3>1. S1[t] = [ack |-> ack, blocks |-> blocks] /\ t[1] = calls + 1
      BY <1>2, <1>6
    <3>2. CounterOf(t) = c
      BY <3>1, <1>4 DEF CounterOf
    <3>3. c \in 0 .. CounterModulus - 1
      BY <1>4, CounterType
    <3>4. blocks \in Nat /\ 0 \in 0 .. MaxRetries /\ 0 \in 0 .. MaxDeferrals /\ "Ready" \in States
      BY ConstantsType DEF States
    <3>5. entry = [counter |-> c, ack |-> ack, blocks |-> blocks, block |-> 0, retries |-> 0,
                   deferrals |-> 0, state |-> "Ready", timer |-> 0]
      OBVIOUS
    <3> HIDE DEF c, S1, entry, ts
    <3>6. entry \in Pending
      BY <3>3, <3>4, <3>5 DEF Pending
    <3>7. /\ entry.counter = CounterOf(t) /\ entry.ack = S1[t].ack /\ entry.blocks = S1[t].blocks
          /\ entry.block = 0 /\ entry.blocks = blocks /\ entry.ack = ack
      BY <3>1, <3>2, <3>5
    <3> QED
      BY <1>1, <3>4, <3>6, <3>7 DEF Entry
  <2> HIDE DEF P, entry, S1, ts, s
  <2>8. SlotsInv(P, S1)
    <3>1. \A t \in ts : Entry(t, P[t], S1)
      BY <2>6, <2>7
    <3>2. Cardinality(ts) + Cardinality(DOMAIN tx.pending) <= MaxPending
      BY <1>1, <2>2
    <3> QED
      BY <1>5, <2>2, <2>3, <2>6, <3>1, <3>2, QueuedSlots
  <2>9. RequestsInv(DOMAIN tx.pending \cup ts, R, tx.confirms, DOMAIN sent \cup ts, G)
    <3>1. /\ DOMAIN R = DOMAIN tx.requests \cup {id}
          /\ R[id] = [remaining |-> Cardinality(ts), status |-> "SUCCESS"]
          /\ \A i \in DOMAIN tx.requests : i # id => R[i] = tx.requests[i]
      BY <2>2
    <3>2. id \in Ids /\ Cardinality(ts) \in Nat
      <4>1. id \in Nat /\ id >= 1 /\ id <= MaxRequests
        BY <1>2, <1>4, ConstantsType
      <4> QED
        BY <4>1, <2>1, <2>2, ConstantsType DEF Ids
    <3> HIDE DEF R, id
    <3> QED
      BY <1>2, <1>4, <1>6, <2>3, <3>1, <3>2, TrackedRequest
  <2>10. NwkInv(P, nwk, S1)
    BY <1>5, <2>6 DEF NwkInv
  <2>11. Held(s, nwk) = nwk
    BY <2>5 DEF Held, NoneHanded
  <2>12. TurnInv(s, nwk, S1, G)
    BY <1>2, <2>5, <2>6, <2>8, <2>9, <2>10, <2>11 DEF TurnInv
  <2>13. SettleServiced(s, nwk)
    BY <1>1, <1>8
  <2>14. SenderInv(tx', nwk', S1, G)
    BY <1>3, <2>5, <2>12, <2>13, SettledServiced
  <2> QED
    BY <2>14 DEF S1
<1> QED
  BY <1>7, <1>8

\* Every step keeps the sender's part of the invariant.
LEMMA SenderStep ==
    ASSUME NEW G, Resting(G), UnackedIn(sent, G), AckedIn(G), [Next]_vars
    PROVE  SenderInv(tx', nwk', sent', G)
<1>0. SenderInv(tx, nwk, sent, G)
  BY DEF Resting
<1>1. CASE Request
  <2>1. PICK wanted \in {{b} : b \in Bindings} \cup {Bindings} :
            \E queued \in SUBSET wanted, ack \in BOOLEAN, blocks \in BlockCounts :
                DataRequest(wanted, queued, ack, blocks)
    BY <1>1 DEF Request
  <2>2. wanted \subseteq Bindings
    BY <2>1
  <2> QED
    BY <2>1, <2>2, DataRequestStep
<1>2. ASSUME NEW n \in nwk,
             \/ NwkAnswers(n)
             \/ \E accepted \in BOOLEAN : NwkRefuses(n, accepted)
      PROVE  SenderInv(tx', nwk', sent', G)
  <2>1. sent' = sent
    BY <1>2 DEF NwkAnswers, NwkSends, NwkFails, NwkRefuses, callVars
  <2>2. SenderInv(tx', nwk', sent, G)
    BY <1>2, NwkAnswerSteps DEF NwkAnswers
  <2> QED
    BY <2>1, <2>2
<1>3. ASSUME NEW n \in nwk, NwkForgets(n)
      PROVE  SenderInv(tx', nwk', sent', G)
  <2>1. sent' = sent
    BY <1>3 DEF NwkForgets, callVars
  <2> QED
    BY <2>1, <1>3, NwkForgetsStep
<1>4. ASSUME NEW q \in Peers, CommitReservation(q) \/ AbortReservation(q)
      PROVE  SenderInv(tx', nwk', sent', G)
  <2>1. sent' = sent
    BY <1>4 DEF CommitReservation, AbortReservation, callVars
  <2> QED
    BY <2>1, <1>4, CommitReservationStep, AbortReservationStep
<1>5. ASSUME NEW m \in acks, ReceiveAck(m)
      PROVE  SenderInv(tx', nwk', sent', G)
  <2>1. sent' = sent
    BY <1>5 DEF ReceiveAck, callVars
  <2> QED
    BY <2>1, <1>5, ReceiveAckStep
<1>6. CASE PollTimers
  <2>1. sent' = sent
    BY <1>6 DEF PollTimers, callVars
  <2> QED
    BY <2>1, <1>6, PollTimersStep
<1>7. CASE Leave
  <2>1. sent' = sent
    BY <1>7 DEF Leave
  <2> QED
    BY <2>1, <1>7, LeaveStep
<1>8. CASE Tick
  <2>1. sent' = sent
    BY <1>8 DEF Tick, callVars
  <2> QED
    BY <2>1, <1>8, TickStep
<1>9. ASSUME UNCHANGED <<tx, nwk, sent>>
      PROVE  SenderInv(tx', nwk', sent', G)
  BY <1>0, <1>9
<1>10. \A m : (ReceiveFrame(m) \/ LoseFrame(m) \/ LoseAck(m)) => UNCHANGED <<tx, nwk, sent>>
  BY DEF ReceiveFrame, LoseFrame, LoseAck, callVars
<1>11. Join \/ UNCHANGED vars => UNCHANGED <<tx, nwk, sent>>
  BY DEF Join, vars
<1> QED
  BY <1>1, <1>2, <1>3, <1>4, <1>5, <1>6, <1>7, <1>8, <1>9, <1>10, <1>11 DEF Next

-----------------------------------------------------------------------------
(* The rest of the state                                                   *)

LEMMA OnAirFrames ==
    ASSUME NEW S, FramesInv(frames, S), NEW f, FrameOk(f, S), OnAir(f) \/ UNCHANGED frames
    PROVE  FramesInv(frames', S)
<1> DEFINE m == [frame |-> f, ttl |-> MaxDelay]
<1>1. m = [frame |-> m.frame, ttl |-> m.ttl] /\ m.frame = f
  OBVIOUS
<1>2. \A x \in frames' : x \in frames \/ x = m
  BY DEF OnAir
<1> HIDE DEF m
<1> QED
  BY <1>1, <1>2 DEF FramesInv

LEMMA AgedFrames ==
    ASSUME NEW S, NEW F, FramesInv(F, S)
    PROVE  FramesInv(Aged(F), S)
<1> SUFFICES ASSUME NEW m \in F
             PROVE  LET x == [m EXCEPT !.ttl = @ - 1]
                    IN  x = [frame |-> x.frame, ttl |-> x.ttl] /\ x.frame = m.frame
  BY DEF FramesInv, Aged
<1> QED
  BY DEF FramesInv

\* check_and_record keeps the table in its bounds.
LEMMA RecordedTable ==
    ASSUME NEW table, TableInv(table), NEW counter, NEW new \in Recorded(table, counter)
    PROVE  /\ TableInv(new)
           /\ DOMAIN new \subseteq DOMAIN table \cup {counter}
<1> DEFINE D == DOMAIN table
<1>1. IsFiniteSet(D) /\ Cardinality(D) \in Nat /\ Cardinality(D) <= DuplicateSlots
  BY FS_CardinalityType DEF TableInv
<1>2. CASE counter \notin D /\ Cardinality(D) >= DuplicateSlots
  <2>1. PICK c \in D : DOMAIN new = (D \ {c}) \cup {counter}
    BY <1>2 DEF Recorded
  <2>2. IsFiniteSet(D \ {c}) /\ Cardinality(D \ {c}) = Cardinality(D) - 1
    BY <1>1, FS_RemoveElement
  <2>3. /\ IsFiniteSet((D \ {c}) \cup {counter})
        /\ Cardinality((D \ {c}) \cup {counter}) = Cardinality(D \ {c}) + 1
    <3> DEFINE E == D \ {c}
    <3>1. IsFiniteSet(E) /\ counter \notin E
      BY <1>2, <2>2
    <3> HIDE DEF E, D
    <3>2. /\ IsFiniteSet(E \cup {counter})
          /\ Cardinality(E \cup {counter}) = Cardinality(E) + 1
      BY <3>1, FS_AddElement
    <3> QED
      BY <3>2 DEF E
  <2> HIDE DEF D
  <2>4. Cardinality(DOMAIN new) = Cardinality(D) /\ IsFiniteSet(DOMAIN new)
    BY <1>1, <2>1, <2>2, <2>3
  <2>5. DOMAIN new \subseteq D \cup {counter}
    BY <2>1
  <2> QED
    BY <1>1, <2>4, <2>5 DEF TableInv, D
<1>3. CASE ~ (counter \notin D /\ Cardinality(D) >= DuplicateSlots)
  <2>1. DOMAIN new = D \cup {counter}
    BY <1>3 DEF Recorded
  <2> HIDE DEF D
  <2>2. /\ IsFiniteSet(D \cup {counter})
        /\ Cardinality(D \cup {counter}) =
               IF counter \in D THEN Cardinality(D) ELSE Cardinality(D) + 1
    BY <1>1, FS_AddElement
  <2>3. Cardinality(D \cup {counter}) <= DuplicateSlots
    BY <1>1, <1>3, <2>2, ConstantsType
  <2> QED
    BY <2>1, <2>2, <2>3 DEF TableInv, D
<1> QED
  BY <1>2, <1>3

LEMMA SentPeers ==
    ASSUME NEW S, NEW n, SentInv(S, n), NEW t \in DOMAIN S
    PROVE  PeerOf(t) \in Peers
<1>1. t[2] \in Bindings
  BY DEF SentInv
<1> QED
  BY <1>1 DEF PeerOf, Peers

\* A fault more, or none.
LEMMA FaultType ==
    ASSUME faults \in 0 .. MaxFaults, Fault \/ UNCHANGED faults
    PROVE  faults' \in 0 .. MaxFaults
  BY ConstantsType DEF Fault

LEMMA ScopeStep ==
    ASSUME ScopeInv, NEW G, SenderInv(tx, nwk, sent, G), [Next]_vars
    PROVE  ScopeInv'
<1> DEFINE Faults == faults' \in 0 .. MaxFaults
           Calls == UNCHANGED <<joined, calls, sent>>
           Frames == FramesInv(frames', sent)
           Tables == DOMAIN dedup' = Peers /\ \A q \in Peers : TableInv(dedup'[q])
           Late == delayed' \subseteq Ids
<1>0. /\ joined \in BOOLEAN /\ calls \in 0 .. MaxRequests /\ faults \in 0 .. MaxFaults
      /\ delayed \subseteq Ids /\ SentInv(sent, calls) /\ FramesInv(frames, sent)
      /\ DOMAIN dedup = Peers /\ \A q \in Peers : TableInv(dedup[q])
  BY DEF ScopeInv
<1>1. /\ UNCHANGED frames => Frames
      /\ UNCHANGED dedup => Tables
      /\ UNCHANGED delayed => Late
      /\ UNCHANGED faults => Faults
      /\ Fault => Faults
  BY <1>0, FaultType
<1>2. \A n \in nwk : FrameOk(n.frame, sent)
  BY DEF SenderInv, NwkInv
<1>3. \A t \in DOMAIN sent : t[1] \in Ids
  BY <1>0, SentIds
<1>4. /\ \A n \in nwk : n.frame.t[1] \in Ids
      /\ \A t \in DOMAIN tx.pending : t[1] \in Ids
  BY <1>2, <1>3 DEF FrameOk, SenderInv, SlotsInv
<1>5. Calls /\ Faults /\ Late /\ Frames /\ Tables => ScopeInv'
  BY <1>0 DEF ScopeInv
<1>6. joined' \in BOOLEAN /\ UNCHANGED <<calls, sent>> /\ Faults /\ Late /\ Frames /\ Tables
          => ScopeInv'
  BY <1>0 DEF ScopeInv
<1>7. CASE Request
  <2>1. PICK wanted \in {{b} : b \in Bindings} \cup {Bindings} :
            \E queued \in SUBSET wanted, ack \in BOOLEAN, blocks \in BlockCounts :
                DataRequest(wanted, queued, ack, blocks)
    BY <1>7 DEF Request
  <2>2. PICK queued \in SUBSET wanted, ack \in BOOLEAN, blocks \in BlockCounts :
            DataRequest(wanted, queued, ack, blocks)
    BY <2>1
  <2>3. wanted \subseteq Bindings
    BY <2>1
  <2>4. calls' \in 0 .. MaxRequests /\ SentInv(sent', calls') /\ Extends(sent, sent')
    BY <2>2, <2>3, <1>0, DataRequestSent
  <2>5. UNCHANGED <<joined, faults, frames, dedup, delayed>>
    BY <2>2 DEF DataRequest, peerVars
  <2>6. FramesInv(frames', sent')
    BY <2>4, <2>5, <1>0, FrameExtends DEF FramesInv
  <2> QED
    BY <1>0, <2>4, <2>5, <2>6 DEF ScopeInv
<1>8. ASSUME NEW n \in nwk, NwkSends(n) \/ NwkFails(n) \/ NwkForgets(n)
      PROVE  ScopeInv'
  <2>1. /\ Calls /\ UNCHANGED <<dedup, delayed>> /\ (Fault \/ UNCHANGED faults)
        /\ OnAir(n.frame) \/ UNCHANGED frames
    BY <1>8 DEF NwkSends, NwkFails, NwkForgets, callVars, peerVars
  <2>2. Frames
    BY <2>1, <1>0, <1>2, OnAirFrames
  <2> QED
    BY <2>1, <2>2, <1>1, <1>5
<1>9. ASSUME NEW n \in nwk, NEW accepted \in BOOLEAN, NwkRefuses(n, accepted)
      PROVE  ScopeInv'
  <2>1. /\ Calls /\ UNCHANGED <<dedup, frames>> /\ Fault
        /\ delayed' = delayed \cup {n.frame.t[1]}
    BY <1>9 DEF NwkRefuses, callVars, peerVars
  <2>2. Late
    BY <2>1, <1>0, <1>4
  <2> QED
    BY <2>1, <2>2, <1>1, <1>5
<1>10. ASSUME NEW q, CommitReservation(q)
       PROVE  ScopeInv'
  <2>1. Calls /\ UNCHANGED <<dedup, frames, delayed, faults>>
    BY <1>10 DEF CommitReservation, callVars, peerVars
  <2> QED
    BY <2>1, <1>1, <1>5
<1>11. ASSUME NEW q, AbortReservation(q)
       PROVE  ScopeInv'
  <2>1. Calls /\ UNCHANGED <<dedup, frames>> /\ Fault
    BY <1>11 DEF AbortReservation, callVars, peerVars
  <2>2. delayed' \subseteq delayed \cup {t[1] : t \in DOMAIN tx.pending}
    BY <1>11 DEF AbortReservation, In, Inside
  <2>3. Late
    BY <2>2, <1>0, <1>4
  <2> QED
    BY <2>1, <2>3, <1>1, <1>5
<1>12. ASSUME NEW m \in acks, ReceiveAck(m) \/ LoseAck(m)
       PROVE  ScopeInv'
  <2>1. Calls /\ UNCHANGED <<dedup, frames, delayed>> /\ (Fault \/ UNCHANGED faults)
    BY <1>12 DEF ReceiveAck, LoseAck, callVars, peerVars
  <2> QED
    BY <2>1, <1>1, <1>5
<1>13. ASSUME NEW m \in frames, ReceiveFrame(m)
       PROVE  ScopeInv'
  <2> DEFINE f == m.frame
             peer == PeerOf(f.t)
  <2>1. Calls /\ UNCHANGED <<faults, delayed>> /\ frames' \subseteq frames
    BY <1>13 DEF ReceiveFrame, callVars
  <2>2. Frames
    BY <2>1, <1>0 DEF FramesInv
  <2>3. peer \in Peers
    BY <1>0, SentPeers DEF FramesInv, FrameOk
  <2>4. Tables
    <3>1. CASE f.blocks = 0
      <4>1. PICK table \in Recorded(dedup[peer], f.counter) : dedup' = [dedup EXCEPT ![peer] = table]
        BY <1>13, <3>1 DEF ReceiveFrame, HandleData
      <4>2. TableInv(table)
        BY <4>1, <2>3, <1>0, RecordedTable
      <4> HIDE DEF peer
      <4> QED
        BY <4>1, <4>2, <1>0, <2>3
    <3>2. CASE f.blocks # 0
      <4>1. UNCHANGED dedup
        BY <1>13, <3>2 DEF ReceiveFrame, HandleFragment
      <4> QED
        BY <4>1, <1>1
    <3> QED
      BY <3>1, <3>2
  <2> HIDE DEF Tables, Frames, Late, Faults
  <2> QED
    BY <2>1, <2>2, <2>4, <1>1, <1>5
<1>14. ASSUME NEW m \in frames, LoseFrame(m)
       PROVE  ScopeInv'
  <2>1. Calls /\ UNCHANGED <<dedup, delayed>> /\ Fault /\ frames' \subseteq frames
    BY <1>14 DEF LoseFrame, callVars, peerVars
  <2>2. Frames
    BY <2>1, <1>0 DEF FramesInv
  <2> QED
    BY <2>1, <2>2, <1>1, <1>5
<1>15. CASE PollTimers
  <2>1. Calls /\ UNCHANGED <<dedup, frames, delayed, faults>>
    BY <1>15 DEF PollTimers, callVars, peerVars
  <2> QED
    BY <2>1, <1>1, <1>5
<1>16. CASE Leave \/ Join
  <2>1. /\ joined' \in BOOLEAN /\ UNCHANGED <<calls, sent, dedup, frames, delayed>>
        /\ Fault \/ UNCHANGED faults
    BY <1>16 DEF Leave, Join, peerVars
  <2> QED
    BY <2>1, <1>1, <1>6
<1>17. CASE Tick
  <2>1. Calls
    BY <1>17 DEF Tick, callVars
  <2>2. Fault \/ UNCHANGED faults
    BY <1>17 DEF Tick
  <2>3. delayed' = delayed \cup {n.frame.t[1] : n \in nwk} /\ frames' = Aged(frames)
    BY <1>17 DEF Tick
  <2>4. Late
    BY <2>3, <1>0, <1>4
  <2>5. Frames
    BY <2>3, <1>0, AgedFrames
  <2>6. Tables
    <3>1. /\ DOMAIN dedup' = Peers
          /\ \A q \in Peers : DOMAIN dedup'[q] = {d \in DOMAIN dedup[q] : dedup[q][d] > 1}
      BY <1>17 DEF Tick
    <3> SUFFICES ASSUME NEW q \in Peers
                 PROVE  TableInv(dedup'[q])
      BY <3>1
    <3>2. DOMAIN dedup'[q] \in SUBSET DOMAIN dedup[q]
      BY <3>1
    <3>3. IsFiniteSet(DOMAIN dedup[q]) /\ Cardinality(DOMAIN dedup[q]) <= DuplicateSlots
      BY <1>0 DEF TableInv
    <3>4. /\ IsFiniteSet(DOMAIN dedup'[q])
          /\ Cardinality(DOMAIN dedup'[q]) <= Cardinality(DOMAIN dedup[q])
      BY <3>2, <3>3, FS_Subset
    <3>5. Cardinality(DOMAIN dedup'[q]) \in Nat /\ Cardinality(DOMAIN dedup[q]) \in Nat
      BY <3>3, <3>4, FS_CardinalityType
    <3> QED
      BY <3>3, <3>4, <3>5, ConstantsType DEF TableInv
  <2> HIDE DEF Tables, Frames, Late, Faults
  <2> QED
    BY <2>1, <2>2, <2>4, <2>5, <2>6, <1>1, <1>5
<1>18. CASE UNCHANGED vars
  BY <1>18, <1>1, <1>5 DEF vars
<1> QED
  BY <1>7, <1>8, <1>9, <1>10, <1>11, <1>12, <1>13, <1>14, <1>15, <1>16, <1>17, <1>18
  DEF Next, NwkAnswers

-----------------------------------------------------------------------------
(* Type correctness, and one confirm for each request                      *)

LEMMA SenderInit ==
    ASSUME Init, NEW G
    PROVE  SenderInv(tx, nwk, sent, G)
<1>1. /\ tx = [pending |-> <<>>, requests |-> <<>>, confirms |-> [i \in Ids |-> <<>>]]
      /\ nwk = {} /\ sent = <<>>
  BY DEF Init
<1> DEFINE e == <<>>
           C == [i \in Ids |-> <<>>]
<1>2. DOMAIN e = {}
  OBVIOUS
<1>3. DOMAIN C = Ids /\ \A i \in Ids : C[i] = <<>>
  OBVIOUS
<1>4. tx = [pending |-> e, requests |-> e, confirms |-> C] /\ sent = e
  BY <1>1
<1> HIDE DEF e, C
<1>5. /\ tx.pending = e /\ tx.requests = e /\ tx.confirms = C /\ tx = Outside(tx)
  BY <1>4 DEF Outside
<1>6. SlotsInv(e, e) /\ NoneReady(e)
  BY <1>2, FS_EmptySet, ConstantsType DEF SlotsInv, NoneReady
<1>7. RequestsInv({}, e, C, {}, G)
  BY <1>2, <1>3 DEF RequestsInv, OpenInv, ClosedInv, Of
<1>8. NwkInv(e, nwk, e)
  BY <1>1 DEF NwkInv
<1> QED
  BY <1>2, <1>4, <1>5, <1>6, <1>7, <1>8 DEF SenderInv

LEMMA ScopeInit ==
    Init => ScopeInv
<1> SUFFICES ASSUME Init
             PROVE  ScopeInv
  OBVIOUS
<1>1. /\ joined = TRUE /\ calls = 0 /\ faults = 0 /\ delayed = {} /\ frames = {} /\ sent = <<>>
  BY DEF Init
<1>2. SentInv(sent, calls) /\ FramesInv(frames, sent)
  BY <1>1 DEF SentInv, FramesInv
<1>3. DOMAIN dedup = Peers /\ \A q \in Peers : TableInv(dedup[q])
  <2> DEFINE e == <<>>
  <2>1. DOMAIN e = {} /\ dedup = [q \in Peers |-> e]
    BY DEF Init
  <2> HIDE DEF e
  <2>2. TableInv(e)
    BY <2>1, FS_EmptySet, ConstantsType DEF TableInv
  <2> QED
    BY <2>1, <2>2
<1> QED
  BY <1>1, <1>2, <1>3, ConstantsType DEF ScopeInv

\* The parts of the invariant do not ask for more when G grows.
LEMMA SenderWeaker ==
    ASSUME NEW x, NEW W, NEW S, NEW G, SenderInv(x, W, S, G), NEW G1, G \subseteq G1
    PROVE  SenderInv(x, W, S, G1)
<1>1. RequestsInv(DOMAIN x.pending, x.requests, x.confirms, DOMAIN S, G1)
  <2>1. RequestsInv(DOMAIN x.pending, x.requests, x.confirms, DOMAIN S, G)
    BY DEF SenderInv
  <2>2. OpenInv(DOMAIN x.pending, x.requests, x.confirms, DOMAIN S, G1)
    BY <2>1 DEF RequestsInv, OpenInv
  <2>3. ClosedInv(DOMAIN x.pending, x.requests, x.confirms, DOMAIN S, G1)
    BY <2>1 DEF RequestsInv, ClosedInv
  <2> QED
    BY <2>1, <2>2, <2>3 DEF RequestsInv
<1> QED
  BY <1>1 DEF SenderInv

LEMMA SentGrows ==
    ASSUME ScopeInv, [Next]_vars
    PROVE  Extends(sent, sent')
<1>1. CASE Request
  <2>1. PICK wanted \in {{b} : b \in Bindings} \cup {Bindings} :
            \E queued \in SUBSET wanted, ack \in BOOLEAN, blocks \in BlockCounts :
                DataRequest(wanted, queued, ack, blocks)
    BY <1>1 DEF Request
  <2>2. wanted \subseteq Bindings
    BY <2>1
  <2> QED
    BY <2>1, <2>2, DataRequestSent DEF ScopeInv
<1>2. ASSUME UNCHANGED sent
      PROVE  Extends(sent, sent')
  BY <1>2 DEF Extends
<1>3. \A n : (NwkAnswers(n) \/ NwkForgets(n)
              \/ \E accepted \in BOOLEAN : NwkRefuses(n, accepted)) => UNCHANGED sent
  BY DEF NwkAnswers, NwkSends, NwkFails, NwkForgets, NwkRefuses, callVars
<1>4. \A q : CommitReservation(q) \/ AbortReservation(q) => UNCHANGED sent
  BY DEF CommitReservation, AbortReservation, callVars
<1>5. \A m : ReceiveAck(m) \/ LoseAck(m) \/ ReceiveFrame(m) \/ LoseFrame(m) => UNCHANGED sent
  BY DEF ReceiveAck, LoseAck, ReceiveFrame, LoseFrame, callVars
<1>6. PollTimers \/ Leave \/ Join \/ Tick \/ UNCHANGED vars => UNCHANGED sent
  BY DEF PollTimers, Leave, Join, Tick, callVars, vars
<1> QED
  BY <1>1, <1>2, <1>3, <1>4, <1>5, <1>6 DEF Next

LEMMA ApsInvInductive ==
    Spec => []ApsInv
<1>1. Init => ApsInv
  BY ScopeInit, SenderInit DEF ApsInv
<1>2. ApsInv /\ [Next]_vars => ApsInv'
  <2> SUFFICES ASSUME ApsInv, [Next]_vars
               PROVE  ApsInv'
    OBVIOUS
  <2> DEFINE G == DOMAIN sent'
  <2>1. ScopeInv /\ SenderInv(tx, nwk, sent, DOMAIN sent)
    BY DEF ApsInv
  <2>2. Extends(sent, sent')
    BY <2>1, SentGrows
  <2>3. DOMAIN sent \subseteq G
    BY <2>2 DEF Extends
  <2> HIDE DEF G
  <2>4. SenderInv(tx, nwk, sent, G)
    BY <2>1, <2>3, SenderWeaker
  <2>5. Resting(G)
    BY <2>1, <2>4 DEF Resting, ScopeInv
  <2>6. UnackedIn(sent, G)
    BY <2>3 DEF UnackedIn
  <2>7. AckedIn(G)
    BY <2>3, <2>4 DEF AckedIn, SenderInv, SlotsInv
  <2>8. SenderInv(tx', nwk', sent', G)
    BY <2>5, <2>6, <2>7, SenderStep
  <2>9. ScopeInv'
    BY <2>1, ScopeStep
  <2> QED
    BY <2>8, <2>9 DEF ApsInv, G
<1> QED
  BY <1>1, <1>2, PTL DEF Spec

\* The sender's tables, counters and timers stay in their bounds: a slot is
\* taken only while PENDING_TX leaves one, no entry is left ready after
\* service_pending, and no block beyond the last is sent.
THEOREM TypeCorrect ==
    Spec => []TypeInvariant
<1>1. ApsInv => TypeInvariant
  <2> SUFFICES ASSUME ApsInv
               PROVE  TypeInvariant
    OBVIOUS
  <2>1. /\ ScopeInv /\ SentInv(sent, calls) /\ SlotsInv(tx.pending, sent)
        /\ NoneReady(tx.pending)
        /\ RequestsInv(DOMAIN tx.pending, tx.requests, tx.confirms, DOMAIN sent, DOMAIN sent)
    BY DEF ApsInv, SenderInv, ScopeInv
  <2>2. \A t \in DOMAIN sent : t \in Transmissions
    BY <2>1, SentIds DEF ScopeInv
  <2>3. DOMAIN sent \subseteq Transmissions /\ DOMAIN tx.pending \subseteq Transmissions
    BY <2>1, <2>2 DEF SlotsInv
  <2>4. \A t \in DOMAIN tx.pending :
            /\ tx.pending[t] \in Pending
            /\ tx.pending[t].state # "Ready"
            /\ tx.pending[t].block <= tx.pending[t].blocks
    BY <2>1 DEF SlotsInv, Entry, NoneReady
  <2>5. \A i \in Ids : tx.confirms[i] \in Seq(Statuses)
    <3> SUFFICES ASSUME NEW i \in Ids
                 PROVE  tx.confirms[i] \in Seq(Statuses)
      OBVIOUS
    <3>1. \/ tx.confirms[i] = <<>>
          \/ \E status \in Statuses : tx.confirms[i] = <<status>>
      BY <2>1 DEF RequestsInv, OpenInv, ClosedInv
    <3>2. <<>> \in Seq(Statuses) /\ \A status \in Statuses : <<status>> \in Seq(Statuses)
      OBVIOUS
    <3> HIDE DEF Statuses
    <3> QED
      BY <3>1, <3>2
  <2>6. \A q \in Peers : Cardinality(DOMAIN dedup[q]) <= DuplicateSlots
    BY <2>1 DEF ScopeInv, TableInv
  <2> QED
    BY <2>1, <2>3, <2>4, <2>5, <2>6 DEF TypeInvariant, ScopeInv, SlotsInv
<1> QED
  BY <1>1, ApsInvInductive, PTL

\* A request is confirmed once, when none of its transmissions is pending:
\* complete, service_pending, expire_acks and fail_all_pending keep the
\* requests in step with the pending transmissions in whatever order the NWK
\* layer, the acknowledgements, the timers and a leave end them.
THEOREM OneConfirm ==
    Spec => []ConfirmedOnce
<1>1. ApsInv => ConfirmedOnce
  <2> SUFFICES ASSUME ApsInv
               PROVE  ConfirmedOnce
    OBVIOUS
  <2> DEFINE D == DOMAIN tx.pending
             Q == DOMAIN sent
             R == tx.requests
             C == tx.confirms
  <2>1. OpenInv(D, R, C, Q, Q) /\ ClosedInv(D, R, C, Q, Q)
    BY DEF ApsInv, SenderInv, RequestsInv
  <2>2. \A id : WasQueued(id) <=> Of(Q, id) # {}
    BY DEF WasQueued, Of
  <2> HIDE DEF D, Q, R, C
  <2>3. ASSUME NEW id \in Ids, id \in DOMAIN R
        PROVE  /\ R[id].remaining = Cardinality(Of(D, id))
               /\ Of(D, id) # {} /\ C[id] = <<>>
    BY <2>1, <2>3 DEF OpenInv
  <2>4. ASSUME NEW id \in Ids, id \notin DOMAIN R
        PROVE  /\ Of(D, id) = {}
               /\ Len(C[id]) = IF WasQueued(id) THEN 1 ELSE 0
    <3>1. /\ Of(D, id) = {}
          /\ \/ C[id] = <<>> /\ Of(Q, id) = {}
             \/ \E status \in Statuses : C[id] = <<status>> /\ Of(Q, id) # {}
      BY <2>1, <2>4 DEF ClosedInv
    <3> QED
      BY <3>1, <2>2
  <2>5. \A id : {t \in DOMAIN tx.pending : t[1] = id} = Of(D, id)
    BY DEF Of, D
  <2> QED
    BY <2>3, <2>4, <2>5 DEF ConfirmedOnce, R, C
<1> QED
  BY <1>1, ApsInvInductive, PTL

-----------------------------------------------------------------------------
(* Success means delivered                                                 *)

\* No APS counter comes again, and no two bindings lead to one peer.
Distinct ==
    /\ MaxRequests <= CounterModulus
    /\ \A b, c \in Bindings : b[1] = c[1] => b = c

LEMMA CounterIs ==
    ASSUME Distinct, NEW t, t[1] \in Ids
    PROVE  CounterOf(t) = t[1] - 1
<1> DEFINE n == t[1] - 1
<1>1. n \in Nat /\ n < CounterModulus
  BY ConstantsType DEF Ids, Distinct
<1> HIDE DEF n
<1>2. n % CounterModulus = n
  BY <1>1, ConstantsType
<1> QED
  BY <1>2 DEF CounterOf, n

\* A peer and a counter tell the transmission.
LEMMA SameTransmission ==
    ASSUME Distinct, NEW S, NEW n \in 0 .. MaxRequests, SentInv(S, n),
           NEW t \in DOMAIN S, NEW u \in DOMAIN S, CounterOf(t) = CounterOf(u),
           PeerOf(t) = PeerOf(u)
    PROVE  t = u
<1>1. t \in (1 .. n) \X Bindings /\ u \in (1 .. n) \X Bindings
  BY DEF SentInv
<1>2. t[1] \in Ids /\ u[1] \in Ids
  BY SentIds
<1>3. t[1] - 1 = u[1] - 1
  BY <1>2, CounterIs
<1>4. t[1] = u[1]
  BY <1>1, <1>3
<1>5. t[2] = u[2]
  BY <1>1 DEF Distinct, PeerOf
<1> QED
  BY <1>1, <1>4, <1>5

\* More was sent, with new counters, and more was indicated.
Later(S, n, ind, S1, n1, ind1) ==
    /\ Extends(S, S1)
    /\ n \in Nat /\ n1 \in Nat /\ n <= n1
    /\ \A t \in DOMAIN S1 \ DOMAIN S : CounterOf(t) \notin 0 .. n - 1
    /\ \A t \in DOMAIN S : ind[t] > 0 => ind1[t] > 0

LEMMA OkLater ==
    ASSUME NEW S, NEW n, NEW ind, NEW S1, NEW n1, NEW ind1, Later(S, n, ind, S1, n1, ind1)
    PROVE  /\ \A q, c : RecordOk(q, c, S, n, ind) => RecordOk(q, c, S1, n1, ind1)
           /\ \A q, r : ReassemblyOk(q, r, S, n, ind) => ReassemblyOk(q, r, S1, n1, ind1)
           /\ \A a : AckOk(a, S, n, ind) => AckOk(a, S1, n1, ind1)
<1>0. \A c \in 0 .. n - 1 : c \in 0 .. n1 - 1
  BY DEF Later
<1>1. ASSUME NEW q, NEW c, RecordOk(q, c, S, n, ind)
      PROVE  RecordOk(q, c, S1, n1, ind1)
  BY <1>0, <1>1 DEF RecordOk, Later, Uses, Extends
<1>2. ASSUME NEW q, NEW r, ReassemblyOk(q, r, S, n, ind)
      PROVE  ReassemblyOk(q, r, S1, n1, ind1)
  <2>1. r.counter \in 0 .. n1 - 1
    BY <1>0, <1>2 DEF ReassemblyOk
  <2>2. \A t \in DOMAIN S1 : Uses(t, q, r.counter) => t \in DOMAIN S
    BY <1>2 DEF Later, ReassemblyOk, Uses
  <2>3. \A t \in DOMAIN S1 :
            Uses(t, q, r.counter) => S1[t].blocks = r.blocks /\ (r.complete => ind1[t] > 0)
    BY <1>2, <2>2 DEF ReassemblyOk, Later, Extends
  <2> QED
    BY <1>2, <2>1, <2>3 DEF ReassemblyOk
<1>3. ASSUME NEW a, AckOk(a, S, n, ind)
      PROVE  AckOk(a, S1, n1, ind1)
  <2>1. \A t \in DOMAIN S1 : CounterOf(t) = a.counter => t \in DOMAIN S /\ S1[t] = S[t]
    BY <1>3 DEF Later, AckOk, Extends
  <2> QED
    BY <1>0, <1>3, <2>1 DEF AckOk, Later
<1> QED
  BY <1>1, <1>2, <1>3

LEMMA ReceiversLater ==
    ASSUME NEW S, NEW n, NEW ind, NEW S1, NEW n1, NEW ind1, Later(S, n, ind, S1, n1, ind1)
    PROVE  /\ \A D : RecordsInv(D, S, n, ind) => RecordsInv(D, S1, n1, ind1)
           /\ \A A : ReassembliesInv(A, S, n, ind) => ReassembliesInv(A, S1, n1, ind1)
           /\ \A K : AcksInv(K, S, n, ind) => AcksInv(K, S1, n1, ind1)
<1>1. \A D : RecordsInv(D, S, n, ind) => RecordsInv(D, S1, n1, ind1)
  BY OkLater DEF RecordsInv
<1>2. \A A : ReassembliesInv(A, S, n, ind) => ReassembliesInv(A, S1, n1, ind1)
  BY OkLater DEF ReassembliesInv
<1>3. \A K : AcksInv(K, S, n, ind) => AcksInv(K, S1, n1, ind1)
  BY OkLater DEF AcksInv
<1> QED
  BY <1>1, <1>2, <1>3

\* An indication is counted.
LEMMA Indicated ==
    ASSUME indicated \in [Transmissions -> 0 .. 2], NEW u \in Transmissions,
           Indicate(u) \/ UNCHANGED indicated
    PROVE  /\ indicated' \in [Transmissions -> 0 .. 2]
           /\ \A t \in Transmissions : indicated[t] > 0 => indicated'[t] > 0
           /\ Indicate(u) => indicated'[u] > 0
<1>1. CASE UNCHANGED indicated /\ ~ Indicate(u)
  BY <1>1
<1>2. CASE Indicate(u)
  <2> DEFINE k == IF indicated[u] < 2 THEN indicated[u] + 1 ELSE 2
  <2>1. k \in 0 .. 2 /\ k > 0
    OBVIOUS
  <2>2. indicated' = [indicated EXCEPT ![u] = k]
    BY <1>2 DEF Indicate
  <2> HIDE DEF k
  <2> QED
    BY <2>1, <2>2
<1> QED
  BY <1>1, <1>2

\* What a receiver finds in the state: the frame f of the transmission t.
Arrives(f) ==
    /\ Distinct
    /\ calls \in 0 .. MaxRequests
    /\ SentInv(sent, calls)
    /\ FrameOk(f, sent)
    /\ ReceiversInv

LEMMA ArrivesFacts ==
    ASSUME NEW f, Arrives(f)
    PROVE  /\ f.t \in DOMAIN sent /\ f.t \in Transmissions
           /\ PeerOf(f.t) \in Peers
           /\ f.counter \in 0 .. calls - 1 /\ f.counter = CounterOf(f.t)
           /\ f.counter # CounterModulus
           /\ \A u \in DOMAIN sent : Uses(u, PeerOf(f.t), f.counter) => u = f.t
           /\ \A u \in DOMAIN sent : u[2] = f.t[2] /\ CounterOf(u) = f.counter => u = f.t
           /\ \A u \in DOMAIN sent : u \in Transmissions
<1>1. f.t \in DOMAIN sent /\ f.counter = CounterOf(f.t)
  BY DEF Arrives, FrameOk
<1>2. \A u \in DOMAIN sent : u \in Transmissions /\ u[1] \in Ids
  BY SentIds DEF Arrives
<1>3. f.t[1] \in 1 .. calls /\ calls \in Nat /\ calls <= MaxRequests
  BY <1>1, ConstantsType DEF Arrives, SentInv
<1>4. CounterOf(f.t) = f.t[1] - 1
  BY <1>1, <1>2, CounterIs DEF Arrives
<1>5. f.counter \in 0 .. calls - 1 /\ f.counter # CounterModulus
  BY <1>1, <1>3, <1>4, ConstantsType DEF Arrives, Distinct
<1>6. \A u \in DOMAIN sent : Uses(u, PeerOf(f.t), f.counter) => u = f.t
  BY <1>1, SameTransmission DEF Uses, Arrives
<1>7. \A u \in DOMAIN sent : u[2] = f.t[2] /\ CounterOf(u) = f.counter => u = f.t
  BY <1>6 DEF Uses, PeerOf
<1>8. PeerOf(f.t) \in Peers
  BY <1>1, SentPeers DEF Arrives
<1> QED
  BY <1>1, <1>2, <1>5, <1>6, <1>7, <1>8

LEMMA LaterIndicated ==
    ASSUME NEW f, Arrives(f), Indicate(f.t) \/ UNCHANGED indicated
    PROVE  /\ indicated' \in [Transmissions -> 0 .. 2]
           /\ Later(sent, calls, indicated, sent, calls, indicated')
           /\ Indicate(f.t) => indicated'[f.t] > 0
           /\ indicated[f.t] > 0 => indicated'[f.t] > 0
<1>1. f.t \in Transmissions /\ indicated \in [Transmissions -> 0 .. 2] /\ calls \in Nat
      /\ \A u \in DOMAIN sent : u \in Transmissions
  BY ArrivesFacts, ConstantsType DEF Arrives, ReceiversInv
<1>2. /\ indicated' \in [Transmissions -> 0 .. 2]
      /\ \A u \in Transmissions : indicated[u] > 0 => indicated'[u] > 0
      /\ Indicate(f.t) => indicated'[f.t] > 0
  BY <1>1, Indicated
<1> QED
  BY <1>1, <1>2 DEF Later, Extends

\* send_ack: the new acknowledgement says what AckOk asks for.
LEMMA AckSent ==
    ASSUME NEW f, Arrives(f), NEW block,
           AcksInv(acks, sent, calls, indicated'),
           sent[f.t].blocks = 0 \/ block = sent[f.t].blocks - 1 => indicated'[f.t] > 0,
           SendAck(f, block)
    PROVE  AcksInv(acks', sent, calls, indicated')
<1> DEFINE a == [from |-> f.t[2], counter |-> f.counter, block |-> block]
           m == [ack |-> a, ttl |-> MaxDelay]
<1>1. a.from = f.t[2] /\ a.counter = f.counter /\ a.block = block
  OBVIOUS
<1>2. m = [ack |-> m.ack, ttl |-> m.ttl] /\ m.ack = a
  OBVIOUS
<1>3. acks' = acks \cup {m}
  BY DEF SendAck
<1> HIDE DEF a, m
<1>4. AckOk(a, sent, calls, indicated')
  <2>1. a.counter \in 0 .. calls - 1
    BY <1>1, ArrivesFacts
  <2>2. ASSUME NEW u \in DOMAIN sent, u[2] = a.from, CounterOf(u) = a.counter,
               sent[u].blocks = 0 \/ a.block = sent[u].blocks - 1
        PROVE  indicated'[u] > 0
    <3>1. u = f.t
      BY <2>2, <1>1, ArrivesFacts
    <3> QED
      BY <3>1, <2>2, <1>1
  <2> QED
    BY <2>1, <2>2 DEF AckOk
<1> QED
  BY <1>2, <1>3, <1>4 DEF AcksInv

LEMMA HandleDataStep ==
    ASSUME NEW f, Arrives(f), f.blocks = 0, \A q \in Peers : TableInv(dedup[q]),
           HandleData(f), UNCHANGED <<sent, calls>>
    PROVE  ReceiversInv' /\ Later(sent, calls, indicated, sent', calls', indicated')
<1> DEFINE peer == PeerOf(f.t)
<1>0. /\ RecordsInv(dedup, sent, calls, indicated)
      /\ ReassembliesInv(reassembly, sent, calls, indicated)
      /\ AcksInv(acks, sent, calls, indicated)
      /\ peer \in Peers
  BY ArrivesFacts DEF Arrives, ReceiversInv
<1>1. /\ \E table \in Recorded(dedup[peer], f.counter) : dedup' = [dedup EXCEPT ![peer] = table]
      /\ IF f.ack THEN SendAck(f, NoBlock) ELSE UNCHANGED acks
      /\ IF f.counter \in DOMAIN dedup[peer] THEN UNCHANGED indicated ELSE Indicate(f.t)
      /\ UNCHANGED reassembly
  BY DEF HandleData
<1>2. /\ indicated' \in [Transmissions -> 0 .. 2]
      /\ Later(sent, calls, indicated, sent, calls, indicated')
      /\ Indicate(f.t) => indicated'[f.t] > 0
      /\ indicated[f.t] > 0 => indicated'[f.t] > 0
  BY <1>1, LaterIndicated
<1>3. indicated'[f.t] > 0
  <2>1. CASE f.counter \in DOMAIN dedup[peer]
    <3>1. RecordOk(peer, f.counter, sent, calls, indicated)
      BY <2>1, <1>0 DEF RecordsInv
    <3>2. f.t \in DOMAIN sent /\ Uses(f.t, peer, f.counter)
      BY ArrivesFacts DEF Uses
    <3> QED
      BY <3>1, <3>2, <1>2 DEF RecordOk
  <2>2. CASE f.counter \notin DOMAIN dedup[peer]
    BY <2>2, <1>1, <1>2
  <2> QED
    BY <2>1, <2>2
<1>4. /\ RecordsInv(dedup, sent, calls, indicated')
      /\ ReassembliesInv(reassembly, sent, calls, indicated')
      /\ AcksInv(acks, sent, calls, indicated')
  BY <1>0, <1>2, ReceiversLater
<1>5. RecordsInv(dedup', sent, calls, indicated')
  <2>1. PICK table \in Recorded(dedup[peer], f.counter) : dedup' = [dedup EXCEPT ![peer] = table]
    BY <1>1
  <2>2. DOMAIN table \subseteq DOMAIN dedup[peer] \cup {f.counter}
    BY <1>0, <2>1, RecordedTable
  <2>3. RecordOk(peer, f.counter, sent, calls, indicated')
    BY <1>3, ArrivesFacts DEF RecordOk
  <2>4. DOMAIN dedup = Peers
    BY <1>0 DEF RecordsInv
  <2> HIDE DEF peer
  <2>5. /\ DOMAIN dedup' = Peers /\ dedup'[peer] = table
        /\ \A q \in Peers : q # peer => dedup'[q] = dedup[q]
    BY <1>0, <2>1, <2>4
  <2> QED
    BY <1>4, <2>2, <2>3, <2>5 DEF RecordsInv
<1>6. AcksInv(acks', sent, calls, indicated')
  <2>1. CASE f.ack
    BY <2>1, <1>1, <1>3, <1>4, AckSent
  <2>2. CASE ~ f.ack
    BY <2>2, <1>1, <1>4
  <2> QED
    BY <2>1, <2>2
<1>7. ReassembliesInv(reassembly', sent, calls, indicated')
  BY <1>1, <1>4
<1> QED
  BY <1>2, <1>5, <1>6, <1>7 DEF ReceiversInv

\* The transaction of the frame f, as peer q has it, after the block in turn.
LEMMA ExtendedReassembly ==
    ASSUME NEW f, Arrives(f), f.blocks # 0, NEW q, q = PeerOf(f.t), NEW ind,
           NEW r, r = [counter |-> r.counter, blocks |-> r.blocks, next |-> r.next,
                       complete |-> r.complete, timer |-> r.timer],
           r.counter = f.counter, r.blocks = f.blocks, r.next \in 0 .. f.blocks - 1,
           Extended(r).complete => ind[f.t] > 0
    PROVE  /\ ReassemblyOk(q, Extended(r), sent, calls, ind)
           /\ Extended(r).complete <=> r.next + 1 = f.blocks
<1> DEFINE complete == r.next + 1 = r.blocks
           time == IF complete THEN Persistence ELSE ReceiveTimeout
           k == r.next + 1
           x == Extended(r)
<1>1. f.blocks \in Nat /\ f.t \in DOMAIN sent /\ sent[f.t].blocks = f.blocks
  BY ConstantsType DEF Arrives, FrameOk, SentInv
<1>2. x = [r EXCEPT !.next = k, !.complete = complete, !.timer = time]
  BY DEF Extended
<1>3. k \in 1 .. f.blocks /\ complete \in BOOLEAN /\ complete = (k = f.blocks)
  BY <1>1
<1> HIDE DEF x, k, complete, time
<1>4. x = [counter |-> r.counter, blocks |-> r.blocks, next |-> k, complete |-> complete,
           timer |-> time]
  <2> DEFINE y == [r EXCEPT !.next = k]
             z == [y EXCEPT !.complete = complete]
  <2>1. y = [counter |-> r.counter, blocks |-> r.blocks, next |-> k,
             complete |-> r.complete, timer |-> r.timer]
    OBVIOUS
  <2>2. x = [z EXCEPT !.timer = time]
    BY <1>2
  <2> HIDE DEF y
  <2>3. z = [counter |-> r.counter, blocks |-> r.blocks, next |-> k,
             complete |-> complete, timer |-> r.timer]
    BY <2>1
  <2> HIDE DEF z
  <2> QED
    BY <2>2, <2>3
<1>5. /\ x.counter = f.counter /\ x.blocks = f.blocks /\ x.next = k /\ x.complete = complete
      /\ x = [counter |-> x.counter, blocks |-> x.blocks, next |-> x.next,
              complete |-> x.complete, timer |-> x.timer]
  BY <1>4
<1>6. x.complete => ind[f.t] > 0
  BY DEF x
<1>7. ASSUME NEW u \in DOMAIN sent, Uses(u, q, x.counter)
      PROVE  sent[u].blocks = x.blocks /\ (x.complete => ind[u] > 0)
  <2>1. u = f.t
    BY <1>5, <1>7, ArrivesFacts
  <2> QED
    BY <2>1, <1>1, <1>5, <1>6
<1>8. x.counter \in 0 .. calls - 1
  BY <1>5, ArrivesFacts
<1>9. x.blocks \in Nat /\ x.next \in 1 .. x.blocks /\ x.complete = (x.next = x.blocks)
  BY <1>1, <1>3, <1>5
<1>10. ReassemblyOk(q, x, sent, calls, ind)
  BY <1>5, <1>7, <1>8, <1>9 DEF ReassemblyOk
<1>11. x.complete <=> r.next + 1 = f.blocks
  BY <1>5 DEF complete
<1> QED
  BY <1>10, <1>11 DEF x

LEMMA HandleFragmentStep ==
    ASSUME NEW f, Arrives(f), f.blocks # 0, HandleFragment(f), UNCHANGED <<sent, calls>>
    PROVE  ReceiversInv' /\ Later(sent, calls, indicated, sent', calls', indicated')
<1> DEFINE peer == PeerOf(f.t)
           r == reassembly[peer]
           same == r.counter = f.counter
           busy == r # NoReassembly /\ ~ r.complete
           fresh == [counter |-> f.counter, blocks |-> f.blocks,
                     next |-> 0, complete |-> FALSE, timer |-> 0]
           ignored == IF f.block = 0 THEN ~ same /\ busy
                      ELSE ~ same \/ (~ OldBlock(r, f.block) /\ f.block # r.next)
           repeated == same /\ (f.block = 0 \/ OldBlock(r, f.block))
           next == IF f.block = 0 THEN Extended(fresh) ELSE Extended(r)
<1>0. /\ RecordsInv(dedup, sent, calls, indicated)
      /\ ReassembliesInv(reassembly, sent, calls, indicated)
      /\ AcksInv(acks, sent, calls, indicated)
      /\ DOMAIN reassembly = Peers
  BY DEF Arrives, ReceiversInv, ReassembliesInv
<1>1. /\ peer \in Peers /\ f.t \in DOMAIN sent /\ Uses(f.t, peer, f.counter)
  BY ArrivesFacts DEF Uses
<1>2. /\ f.blocks \in Nat /\ f.block \in Nat /\ f.block < f.blocks /\ sent[f.t].blocks = f.blocks
  BY ConstantsType DEF Arrives, FrameOk, SentInv
<1>3. /\ UNCHANGED dedup
      /\ IF ignored THEN UNCHANGED acks ELSE SendAck(f, f.block)
      /\ IF ignored \/ repeated THEN UNCHANGED <<reassembly, indicated>>
         ELSE /\ reassembly' = [reassembly EXCEPT ![peer] = next]
              /\ IF next.complete THEN Indicate(f.t) ELSE UNCHANGED indicated
  BY Zenon DEF HandleFragment
<1>4. Indicate(f.t) \/ UNCHANGED indicated
  BY <1>3
<1>5. /\ indicated' \in [Transmissions -> 0 .. 2]
      /\ Later(sent, calls, indicated, sent, calls, indicated')
      /\ Indicate(f.t) => indicated'[f.t] > 0
      /\ indicated[f.t] > 0 => indicated'[f.t] > 0
  BY <1>4, LaterIndicated
<1>6. /\ RecordsInv(dedup', sent, calls, indicated')
      /\ ReassembliesInv(reassembly, sent, calls, indicated')
      /\ AcksInv(acks, sent, calls, indicated')
  BY <1>0, <1>3, <1>5, ReceiversLater
<1>7. /\ r.counter \in 0 .. calls - 1 => ReassemblyOk(peer, r, sent, calls, indicated)
      /\ r = NoReassembly \/ ReassemblyOk(peer, r, sent, calls, indicated)
      /\ same => ReassemblyOk(peer, r, sent, calls, indicated)
  <2>1. r = NoReassembly \/ ReassemblyOk(peer, r, sent, calls, indicated)
    BY <1>0, <1>1 DEF ReassembliesInv
  <2>2. NoReassembly.counter = CounterModulus
    BY DEF NoReassembly
  <2>3. CounterModulus \notin 0 .. calls - 1 /\ f.counter # CounterModulus
    BY ArrivesFacts, ConstantsType DEF Arrives, Distinct
  <2> QED
    BY <2>1, <2>2, <2>3
<1>8. same => /\ r = [counter |-> r.counter, blocks |-> r.blocks, next |-> r.next,
                      complete |-> r.complete, timer |-> r.timer]
              /\ r.blocks = f.blocks /\ r.next \in 1 .. f.blocks
              /\ r.complete = (r.next = f.blocks)
              /\ r.complete => indicated[f.t] > 0
  BY <1>1, <1>2, <1>7 DEF ReassemblyOk
<1> HIDE DEF r
<1>9. CASE ignored
  <2>1. UNCHANGED <<acks, reassembly>>
    BY <1>3, <1>9
  <2> QED
    BY <2>1, <1>5, <1>6 DEF ReceiversInv
<1>10. CASE ~ ignored /\ repeated
  <2>1. UNCHANGED <<reassembly, indicated>> /\ SendAck(f, f.block) /\ same
    BY <1>3, <1>10
  <2>2. f.block = f.blocks - 1 => r.complete
    <3>1. r.complete \/ f.block = 0 \/ f.block < r.next
      BY <1>10 DEF OldBlock
    <3>2. r.next \in 1 .. f.blocks /\ (r.next = f.blocks => r.complete)
      BY <1>8, <2>1
    <3>3. f.block = f.blocks - 1 /\ (f.block = 0 \/ f.block < r.next) => r.next = f.blocks
      BY <1>2, <3>2
    <3> QED
      BY <3>1, <3>2, <3>3
  <2>3. sent[f.t].blocks = 0 \/ f.block = sent[f.t].blocks - 1 => indicated'[f.t] > 0
    BY <1>2, <1>5, <1>8, <2>1, <2>2
  <2>4. AcksInv(acks', sent, calls, indicated')
    BY <1>6, <2>1, <2>3, AckSent
  <2> QED
    BY <2>1, <2>4, <1>5, <1>6 DEF ReceiversInv
<1>11. CASE ~ ignored /\ ~ repeated
  <2>1. /\ reassembly' = [reassembly EXCEPT ![peer] = next] /\ SendAck(f, f.block)
        /\ next.complete => indicated'[f.t] > 0
    BY <1>3, <1>5, <1>11
  <2>2. /\ ReassemblyOk(peer, next, sent, calls, indicated')
        /\ f.block = f.blocks - 1 => next.complete
    <3>1. CASE f.block = 0
      <4>1. next = Extended(fresh)
        BY <3>1
      <4>2. /\ fresh = [counter |-> fresh.counter, blocks |-> fresh.blocks, next |-> fresh.next,
                        complete |-> fresh.complete, timer |-> fresh.timer]
            /\ fresh.counter = f.counter /\ fresh.blocks = f.blocks /\ fresh.next = 0
        OBVIOUS
      <4> HIDE DEF fresh
      <4>3. fresh.next \in 0 .. f.blocks - 1
        BY <1>2, <4>2
      <4>4. Extended(fresh).complete => indicated'[f.t] > 0
        BY <2>1, <4>1
      <4> HIDE DEF next
      <4>5. /\ ReassemblyOk(peer, Extended(fresh), sent, calls, indicated')
            /\ Extended(fresh).complete <=> fresh.next + 1 = f.blocks
        BY <4>2, <4>3, <4>4, ExtendedReassembly
      <4> QED
        BY <1>2, <3>1, <4>1, <4>2, <4>5
    <3>2. CASE f.block # 0
      <4>1. same /\ ~ OldBlock(r, f.block) /\ f.block = r.next
        BY <1>11, <3>2
      <4>2. next = Extended(r) /\ ~ r.complete
        BY <3>2, <4>1 DEF OldBlock
      <4>3. r.next \in 0 .. f.blocks - 1 /\ r.blocks = f.blocks
        BY <1>2, <1>8, <4>1, <4>2
      <4>4. Extended(r).complete => indicated'[f.t] > 0
        BY <2>1, <4>2
      <4> HIDE DEF next
      <4>5. /\ ReassemblyOk(peer, Extended(r), sent, calls, indicated')
            /\ Extended(r).complete <=> r.next + 1 = f.blocks
        BY <1>8, <4>1, <4>3, <4>4, ExtendedReassembly
      <4> QED
        BY <1>2, <4>1, <4>2, <4>5
    <3> QED
      BY <3>1, <3>2
  <2> HIDE DEF next, peer
  <2>3. ReassembliesInv(reassembly', sent, calls, indicated')
    BY <1>0, <1>1, <1>6, <2>1, <2>2 DEF ReassembliesInv
  <2>4. sent[f.t].blocks = 0 \/ f.block = sent[f.t].blocks - 1 => indicated'[f.t] > 0
    BY <1>2, <2>1, <2>2
  <2>5. AcksInv(acks', sent, calls, indicated')
    BY <1>6, <2>1, <2>4, AckSent
  <2> QED
    BY <2>3, <2>5, <1>5, <1>6 DEF ReceiversInv
<1> QED
  BY <1>9, <1>10, <1>11

LEMMA LaterRefl ==
    ASSUME calls \in Nat, UNCHANGED <<sent, calls, indicated>>
    PROVE  Later(sent, calls, indicated, sent', calls', indicated')
  BY DEF Later, Extends

\* data_request takes a counter that nobody knows yet.
LEMMA LaterRequest ==
    ASSUME Distinct, ScopeInv, Request
    PROVE  Later(sent, calls, indicated, sent', calls', indicated')
<1>1. PICK wanted \in {{b} : b \in Bindings} \cup {Bindings} :
          \E queued \in SUBSET wanted, ack \in BOOLEAN, blocks \in BlockCounts :
              DataRequest(wanted, queued, ack, blocks)
  BY DEF Request
<1>2. PICK queued \in SUBSET wanted, ack \in BOOLEAN, blocks \in BlockCounts :
          DataRequest(wanted, queued, ack, blocks)
  BY <1>1
<1>3. wanted \subseteq Bindings
  BY <1>1
<1> DEFINE ts == {calls + 1} \X queued
<1>4. /\ calls' = calls + 1 /\ calls' \in 0 .. MaxRequests
      /\ DOMAIN sent' = DOMAIN sent \cup ts
      /\ Extends(sent, sent')
      /\ SentInv(sent', calls')
  <2>1. calls \in 0 .. MaxRequests /\ SentInv(sent, calls)
    BY DEF ScopeInv
  <2>2. DOMAIN sent' = DOMAIN sent \cup ts
    BY <1>2 DEF DataRequest
  <2>3. /\ calls' = calls + 1 /\ calls' \in 0 .. MaxRequests
        /\ Extends(sent, sent')
        /\ SentInv(sent', calls')
    BY <2>1, <1>2, <1>3, DataRequestSent
  <2> QED
    BY <2>2, <2>3
<1>5. calls \in Nat /\ UNCHANGED indicated
  BY <1>2, ConstantsType DEF ScopeInv, DataRequest, peerVars
<1>6. \A t \in ts : t[1] = calls + 1
  OBVIOUS
<1> HIDE DEF ts
<1>7. \A t \in ts : t[1] \in Ids
  BY <1>4, SentIds
<1>8. \A t \in ts : CounterOf(t) = calls
  BY <1>5, <1>6, <1>7, CounterIs
<1> QED
  BY <1>4, <1>5, <1>8 DEF Later

LEMMA ReceiversStep ==
    ASSUME Distinct, DeliveryInv, [Next]_vars
    PROVE  ReceiversInv' /\ Later(sent, calls, indicated, sent', calls', indicated')
<1> DEFINE More == Later(sent, calls, indicated, sent', calls', indicated')
<1>0. /\ ScopeInv /\ ReceiversInv /\ calls \in 0 .. MaxRequests /\ SentInv(sent, calls)
      /\ calls \in Nat
      /\ indicated \in [Transmissions -> 0 .. 2]
      /\ RecordsInv(dedup, sent, calls, indicated)
      /\ ReassembliesInv(reassembly, sent, calls, indicated)
      /\ AcksInv(acks, sent, calls, indicated)
  BY ConstantsType DEF DeliveryInv, ScopeInv, ReceiversInv
<1>1. ASSUME UNCHANGED <<dedup, reassembly, indicated>>, More, acks' \subseteq acks
      PROVE  ReceiversInv' /\ More
  <2>1. /\ RecordsInv(dedup, sent', calls', indicated')
        /\ ReassembliesInv(reassembly, sent', calls', indicated')
        /\ AcksInv(acks, sent', calls', indicated')
    BY <1>0, <1>1, ReceiversLater
  <2>2. AcksInv(acks', sent', calls', indicated')
    BY <1>1, <2>1 DEF AcksInv
  <2> QED
    BY <1>0, <1>1, <2>1, <2>2 DEF ReceiversInv
<1>2. CASE Request
  <2>1. UNCHANGED <<dedup, reassembly, indicated, acks>>
    BY <1>2 DEF Request, DataRequest, peerVars
  <2>2. More
    BY <1>0, <1>2, LaterRequest
  <2> QED
    BY <2>1, <2>2, <1>1
<1>3. ASSUME UNCHANGED <<dedup, reassembly, indicated, sent, calls>>, acks' \subseteq acks
      PROVE  ReceiversInv' /\ More
  <2>1. More
    BY <1>0, <1>3, LaterRefl
  <2> QED
    BY <2>1, <1>1, <1>3
<1>4. ASSUME NEW n, \/ NwkAnswers(n) \/ NwkForgets(n)
                    \/ \E accepted \in BOOLEAN : NwkRefuses(n, accepted)
      PROVE  ReceiversInv' /\ More
  <2>1. UNCHANGED <<dedup, reassembly, indicated, sent, calls, acks>>
    BY <1>4 DEF NwkAnswers, NwkSends, NwkFails, NwkForgets, NwkRefuses, callVars, peerVars
  <2> QED
    BY <2>1, <1>3
<1>5. ASSUME NEW q, CommitReservation(q) \/ AbortReservation(q)
      PROVE  ReceiversInv' /\ More
  <2>1. UNCHANGED <<dedup, reassembly, indicated, sent, calls, acks>>
    BY <1>5 DEF CommitReservation, AbortReservation, callVars, peerVars
  <2> QED
    BY <2>1, <1>3
<1>6. ASSUME NEW m, ReceiveAck(m) \/ LoseAck(m) \/ LoseFrame(m)
      PROVE  ReceiversInv' /\ More
  <2>1. UNCHANGED <<dedup, reassembly, indicated, sent, calls>> /\ acks' \subseteq acks
    BY <1>6 DEF ReceiveAck, LoseAck, LoseFrame, callVars, peerVars
  <2> QED
    BY <2>1, <1>3
<1>7. CASE PollTimers \/ Leave \/ Join \/ UNCHANGED vars
  <2>1. UNCHANGED <<dedup, reassembly, indicated, sent, calls, acks>>
    BY <1>7 DEF PollTimers, Leave, Join, vars, callVars, peerVars
  <2> QED
    BY <2>1, <1>3
<1>8. ASSUME NEW m \in frames, ReceiveFrame(m)
      PROVE  ReceiversInv' /\ More
  <2> DEFINE f == m.frame
  <2>1. UNCHANGED <<sent, calls>>
    BY <1>8 DEF ReceiveFrame, callVars
  <2>2. FrameOk(f, sent) /\ \A q \in Peers : TableInv(dedup[q])
    BY <1>0 DEF ScopeInv, FramesInv
  <2>3. Arrives(f)
    BY <1>0, <2>2 DEF Arrives
  <2>4. IF f.blocks = 0 THEN HandleData(f) ELSE HandleFragment(f)
    BY <1>8 DEF ReceiveFrame
  <2> HIDE DEF f
  <2> QED
    BY <2>1, <2>2, <2>3, <2>4, HandleDataStep, HandleFragmentStep
<1>9. CASE Tick
  <2>1. /\ UNCHANGED <<sent, calls, indicated>>
        /\ acks' = Aged(acks)
        /\ DOMAIN dedup' = Peers
        /\ \A q \in Peers : DOMAIN dedup'[q] \subseteq DOMAIN dedup[q]
    BY <1>9 DEF Tick, callVars
  <2>2. RecordsInv(dedup', sent, calls, indicated)
    BY <1>0, <2>1 DEF RecordsInv
  <2>3. AcksInv(Aged(acks), sent, calls, indicated)
    <3> SUFFICES ASSUME NEW m \in acks
                 PROVE  LET x == [m EXCEPT !.ttl = @ - 1]
                        IN  x = [ack |-> x.ack, ttl |-> x.ttl] /\ x.ack = m.ack
      BY <1>0 DEF AcksInv, Aged
    <3> QED
      BY <1>0 DEF AcksInv
  <2>4. ReassembliesInv(reassembly', sent, calls, indicated)
    <3>1. reassembly' = [q \in Peers |->
                            IF reassembly[q] = NoReassembly THEN reassembly[q]
                            ELSE IF reassembly[q].timer <= 1 THEN NoReassembly
                            ELSE [reassembly[q] EXCEPT !.timer = @ - 1]]
      BY <1>9 DEF Tick
    <3>2. ASSUME NEW q \in Peers
          PROVE  \/ reassembly'[q] = NoReassembly
                 \/ ReassemblyOk(q, reassembly'[q], sent, calls, indicated)
      <4> DEFINE r == reassembly[q]
                 k == r.timer - 1
                 x == [r EXCEPT !.timer = k]
      <4>1. r = NoReassembly \/ ReassemblyOk(q, r, sent, calls, indicated)
        BY <1>0 DEF ReassembliesInv
      <4>2. reassembly'[q] = NoReassembly \/ (r # NoReassembly /\ reassembly'[q] = x)
        BY <3>1
      <4> HIDE DEF r, k
      <4>3. ASSUME ReassemblyOk(q, r, sent, calls, indicated)
            PROVE  ReassemblyOk(q, x, sent, calls, indicated)
        <5>1. /\ x.counter = r.counter /\ x.blocks = r.blocks /\ x.next = r.next
              /\ x.complete = r.complete /\ x.timer = k
              /\ x = [counter |-> r.counter, blocks |-> r.blocks, next |-> r.next,
                      complete |-> r.complete, timer |-> k]
          <6>1. r = [counter |-> r.counter, blocks |-> r.blocks, next |-> r.next,
                     complete |-> r.complete, timer |-> r.timer]
            BY <4>3 DEF ReassemblyOk
          <6>2. x = [counter |-> r.counter, blocks |-> r.blocks, next |-> r.next,
                     complete |-> r.complete, timer |-> k]
            BY <6>1
          <6> HIDE DEF x
          <6> QED
            BY <6>2
        <5> HIDE DEF x
        <5> QED
          BY <4>3, <5>1 DEF ReassemblyOk
      <4> QED
        BY <4>1, <4>2, <4>3
    <3> QED
      BY <3>1, <3>2 DEF ReassembliesInv
  <2>5. More
    BY <1>0, <2>1, LaterRefl
  <2> QED
    BY <1>0, <2>1, <2>2, <2>3, <2>4, <2>5 DEF ReceiversInv
<1> QED
  BY <1>2, <1>4, <1>5, <1>6, <1>7, <1>8, <1>9 DEF Next

\* What was good stays good.
LEMMA GoodGrows ==
    ASSUME NEW S, NEW n, NEW ind, NEW S1, NEW n1, NEW ind1, Later(S, n, ind, S1, n1, ind1)
    PROVE  Good(S, ind) \subseteq Good(S1, ind1)
  BY DEF Good, Later, Extends

\* A transmission ends with an acknowledgement only when it was indicated.
LEMMA EndsGood ==
    ASSUME DeliveryInv
    PROVE  AckedIn(Good(sent, indicated))
<1> SUFFICES ASSUME NEW m \in acks, NEW t \in DOMAIN tx.pending, Ends(t, m)
             PROVE  t \in Good(sent, indicated)
  BY DEF AckedIn
<1> DEFINE p == tx.pending[t]
           a == m.ack
<1>1. Entry(t, p, sent) /\ t \in DOMAIN sent
  BY DEF DeliveryInv, SenderInv, SlotsInv
<1>2. AckOk(a, sent, calls, indicated)
  BY DEF DeliveryInv, ReceiversInv, AcksInv
<1>3. /\ t[2] = a.from /\ p.counter = a.counter /\ (p.blocks # 0 => a.block = p.block)
      /\ ~ (p.blocks # 0 /\ p.block + 1 < p.blocks)
  BY DEF Ends, AckMatches
<1> HIDE DEF p, a
<1>4. /\ p.counter = CounterOf(t) /\ p.blocks = sent[t].blocks
      /\ p.block \in Nat /\ p.blocks \in Nat
      /\ p.blocks # 0 => p.block < p.blocks
  BY <1>1, ConstantsType DEF Entry, Pending
<1>5. sent[t].blocks = 0 \/ a.block = sent[t].blocks - 1
  BY <1>3, <1>4
<1>6. indicated[t] > 0
  BY <1>1, <1>2, <1>3, <1>4, <1>5 DEF AckOk
<1> QED
  BY <1>1, <1>6 DEF Good

LEMMA DeliveryInvInductive ==
    ASSUME Distinct
    PROVE  Spec => []DeliveryInv
<1>1. Init => DeliveryInv
  <2> SUFFICES ASSUME Init
               PROVE  DeliveryInv
    OBVIOUS
  <2>1. ScopeInv /\ SenderInv(tx, nwk, sent, Good(sent, indicated))
    BY ScopeInit, SenderInit
  <2>2. indicated \in [Transmissions -> 0 .. 2] /\ AcksInv(acks, sent, calls, indicated)
        /\ ReassembliesInv(reassembly, sent, calls, indicated)
    BY DEF Init, AcksInv, ReassembliesInv
  <2>3. RecordsInv(dedup, sent, calls, indicated)
    <3> DEFINE e == <<>>
    <3>1. DOMAIN e = {} /\ dedup = [q \in Peers |-> e]
      BY DEF Init
    <3> HIDE DEF e
    <3> QED
      BY <3>1 DEF RecordsInv
  <2> QED
    BY <2>1, <2>2, <2>3 DEF DeliveryInv, ReceiversInv
<1>2. DeliveryInv /\ [Next]_vars => DeliveryInv'
  <2> SUFFICES ASSUME DeliveryInv, [Next]_vars
               PROVE  DeliveryInv'
    OBVIOUS
  <2> DEFINE G == Good(sent', indicated')
  <2>1. ScopeInv /\ SenderInv(tx, nwk, sent, Good(sent, indicated))
    BY DEF DeliveryInv
  <2>2. ReceiversInv' /\ Later(sent, calls, indicated, sent', calls', indicated')
    BY ReceiversStep
  <2>3. Good(sent, indicated) \subseteq G
    BY <2>2, GoodGrows
  <2> HIDE DEF G
  <2>4. SenderInv(tx, nwk, sent, G)
    BY <2>1, <2>3, SenderWeaker
  <2>5. Resting(G)
    BY <2>1, <2>4 DEF Resting, ScopeInv
  <2>6. UnackedIn(sent, G)
    BY <2>3 DEF UnackedIn, Good
  <2>7. AckedIn(G)
    BY <2>3, EndsGood DEF AckedIn
  <2>8. SenderInv(tx', nwk', sent', G)
    BY <2>5, <2>6, <2>7, SenderStep
  <2>9. ScopeInv'
    BY <2>1, ScopeStep
  <2> QED
    BY <2>2, <2>8, <2>9 DEF DeliveryInv, G
<1> QED
  BY <1>1, <1>2, PTL DEF Spec

\* An acknowledged transmission that ends in Success was indicated by its
\* destination: on_ack takes no acknowledgement of another block, another
\* copy or another request for it, and a peer that acknowledges a duplicate
\* or an old block has indicated the first. Bindings lead to different
\* peers (two endpoints of one peer share the duplicate rejection record),
\* and no APS counter comes again.
THEOREM SuccessIsDelivery ==
    ASSUME Distinct
    PROVE  Spec => []SuccessMeansDelivered
<1>1. DeliveryInv => SuccessMeansDelivered
  <2> SUFFICES ASSUME DeliveryInv, NEW id \in Ids, tx.confirms[id] = <<"SUCCESS">>,
                      NEW t \in DOMAIN sent, t[1] = id, sent[t].ack
               PROVE  indicated[t] > 0
    BY DEF SuccessMeansDelivered
  <2> DEFINE G == Good(sent, indicated)
             Q == DOMAIN sent
             D == DOMAIN tx.pending
             C == tx.confirms
             R == tx.requests
  <2>1. OpenInv(D, R, C, Q, G) /\ ClosedInv(D, R, C, Q, G)
    BY DEF DeliveryInv, SenderInv, RequestsInv
  <2>2. C[id] = <<"SUCCESS">> /\ t \in Of(Q, id)
    BY DEF Of
  <2> HIDE DEF G, Q, D, C, R
  <2>3. C[id] # <<>>
    BY <2>2
  <2>4. PICK status \in Statuses :
            /\ C[id] = <<status>>
            /\ status = "SUCCESS" => Of(Q, id) \subseteq G
    BY <2>1, <2>3 DEF OpenInv, ClosedInv
  <2>5. status = "SUCCESS"
    BY <2>2, <2>4
  <2>6. t \in G
    BY <2>2, <2>4, <2>5
  <2> QED
    BY <2>6 DEF G, Good
<1> QED
  BY <1>1, DeliveryInvInductive, PTL

-----------------------------------------------------------------------------
(* What a duplicate rejection record has to outlive                        *)

\* k acknowledgement timeouts.
Waits(k) == k * AckWait

\* Entry p may cause another transmission, and the ticks until the last copy
\* of it arrives.
Causes(p) == p.state # "AwaitingAck" \/ p.retries < MaxRetries
Reach(p) ==
    MaxDelay + (IF p.state = "AwaitingAck" THEN p.timer + Waits(MaxRetries - p.retries - 1)
                ELSE Waits(MaxRetries - p.retries))

\* Ticks for which a duplicate rejection table still rejects the counter c.
Life(table, c) == IF c \in DOMAIN table THEN table[c] ELSE 0

\* Entry p of transmission t, with the frames W held by the NWK layer: no
\* time is lost.
Punctual(t, p, W) ==
    /\ p.state # "Deferred"
    /\ p.state = "AwaitingAck" => p.timer <= AckWait
    /\ p.state = "AwaitingNwkConfirm" => \E n \in W : n.live /\ n.frame.t = t

\* A record that lives for l ticks outlives every copy of t: those under way
\* (F), held (W) and still to be made.
Covered(t, l, P, W, F) ==
    /\ \A m \in F : m.frame.t = t => l > m.ttl
    /\ \A n \in W : n.frame.t = t => l > MaxDelay
    /\ t \in DOMAIN P /\ Causes(P[t]) => l > Reach(P[t])

Exempt(t, S, late, lost) == S[t].blocks # 0 \/ t[1] \in late \/ t \in lost

\* Transmission t, indicated k times.
TimedInv(t, k, l, P, W, F) ==
    /\ k <= 1
    /\ t \in DOMAIN P => Punctual(t, P[t], W)
    /\ k > 0 => Covered(t, l, P, W, F)

OnceInv ==
    /\ indicated \in [Transmissions -> 0 .. 2]
    /\ \A t \in Transmissions \ DOMAIN sent : indicated[t] = 0
    /\ \A q \in Peers : \A c \in DOMAIN dedup[q] : dedup[q][c] \in Nat
    /\ \A m \in frames : m.ttl \in 0 .. MaxDelay
    /\ \A t \in DOMAIN sent :
          \/ Exempt(t, sent, delayed, forgotten)
          \/ TimedInv(t, indicated[t], Life(dedup[PeerOf(t)], CounterOf(t)), tx.pending, nwk, frames)

\* Entry p becomes q: what q may cause, p might cause as late.
Onward(p, q) == Causes(q) => Causes(p) /\ Reach(q) <= Reach(p)

\* In a turn of the sender the entries P become Q, and the NWK layer keeps W1
\* of the frames W.
MidTurn(t, P, W, Q, W1) ==
    /\ \A n \in W1 : n.frame.t = t => \E k \in W : k.frame.t = t
    /\ t \in DOMAIN Q => /\ t \in DOMAIN P /\ Onward(P[t], Q[t])
                         /\ Q[t].state = "Ready" \/ Punctual(t, Q[t], W1)

\* After the turn P1 are the entries and W1 the frames held.
EndTurn(t, P, W, P1, W1) ==
    /\ \A n \in W1 : n.frame.t = t => \/ \E k \in W : k.frame.t = t
                                      \/ t \in DOMAIN P /\ Causes(P[t])
    /\ t \in DOMAIN P1 => /\ t \in DOMAIN P /\ Onward(P[t], P1[t])
                          /\ Punctual(t, P1[t], W1)

\* The messages F become F1: what is new was held by the NWK layer.
AirMoves(t, W, F, F1) ==
    \A m \in F1 : m.frame.t = t => \/ m \in F
                                   \/ m.ttl = MaxDelay /\ \E n \in W : n.frame.t = t

-----------------------------------------------------------------------------
(* Times                                                                   *)

\* Acknowledgement timeouts are counted one by one.
LEMMA WaitsFacts ==
    ASSUME NEW k \in Nat
    PROVE  /\ Waits(k) \in Nat /\ Waits(k + 1) = Waits(k) + AckWait
           /\ \A j \in Nat : j <= k => Waits(j) <= Waits(k)
           /\ RejectionTimeout = Waits(MaxRetries) + AckWait
<1>1. AckWait \in Nat /\ MaxRetries \in Nat
  BY ConstantsType
<1>2. k * AckWait \in Nat /\ (k + 1) * AckWait = k * AckWait + AckWait
  BY <1>1
<1>3. \A j \in Nat : j <= k => j * AckWait <= k * AckWait
  BY <1>1
<1>4. AckWait * (1 + MaxRetries) = MaxRetries * AckWait + AckWait
  BY <1>1
<1> QED
  BY <1>2, <1>3, <1>4 DEF Waits, RejectionTimeout, ReceiveTimeout

\* Numbers of an entry: the last copy it causes arrives in time.
LEMMA EntryTimes ==
    ASSUME NEW p \in Pending, Causes(p)
    PROVE  /\ Reach(p) \in Nat /\ MaxDelay <= Reach(p)
           /\ \A t, W : Punctual(t, p, W) /\ MaxDelay < AckWait => Reach(p) < RejectionTimeout
<1>0. /\ p.timer \in Nat /\ p.retries \in 0 .. MaxRetries /\ MaxRetries \in Nat
      /\ MaxDelay \in Nat /\ AckWait \in Nat
  BY ConstantsType DEF Pending
<1>1. CASE p.state = "AwaitingAck"
  <2> DEFINE k == MaxRetries - p.retries - 1
  <2>1. k \in Nat /\ k + 1 <= MaxRetries /\ k + 1 \in Nat
    BY <1>0, <1>1 DEF Causes
  <2>2. Reach(p) = MaxDelay + (p.timer + Waits(k))
    BY <1>1 DEF Reach
  <2> HIDE DEF k
  <2>3. Waits(k) \in Nat /\ Waits(k + 1) = Waits(k) + AckWait /\ Waits(k + 1) <= Waits(MaxRetries)
        /\ Waits(MaxRetries) \in Nat /\ RejectionTimeout = Waits(MaxRetries) + AckWait
    BY <1>0, <2>1, WaitsFacts
  <2>4. ASSUME NEW t, NEW W, Punctual(t, p, W), MaxDelay < AckWait
        PROVE  Reach(p) < RejectionTimeout
    <3>1. p.timer <= AckWait
      BY <1>1, <2>4 DEF Punctual
    <3> QED
      BY <1>0, <2>2, <2>3, <2>4, <3>1
  <2> QED
    BY <1>0, <2>2, <2>3, <2>4
<1>2. CASE p.state # "AwaitingAck"
  <2> DEFINE k == MaxRetries - p.retries
  <2>1. k \in Nat /\ k <= MaxRetries
    BY <1>0
  <2>2. Reach(p) = MaxDelay + Waits(k)
    BY <1>2 DEF Reach
  <2> HIDE DEF k
  <2>3. Waits(k) \in Nat /\ Waits(k) <= Waits(MaxRetries)
        /\ Waits(MaxRetries) \in Nat /\ RejectionTimeout = Waits(MaxRetries) + AckWait
    BY <1>0, <2>1, WaitsFacts
  <2> QED
    BY <1>0, <2>2, <2>3
<1> QED
  BY <1>1, <1>2

\* What handlers make of an entry is no later than the entry.
LEMMA OnwardTransitive ==
    ASSUME NEW p \in Pending, NEW q \in Pending, NEW r \in Pending,
           Onward(p, q), Onward(q, r)
    PROVE  Onward(p, r)
<1> SUFFICES ASSUME Causes(r) PROVE Causes(p) /\ Reach(r) <= Reach(p)
  BY DEF Onward
<1>1. Causes(q) /\ Reach(r) <= Reach(q)
  BY DEF Onward
<1>2. Causes(p) /\ Reach(q) <= Reach(p)
  BY <1>1 DEF Onward
<1>3. Reach(p) \in Nat /\ Reach(q) \in Nat /\ Reach(r) \in Nat
  BY <1>1, <1>2, EntryTimes
<1> QED
  BY <1>1, <1>2, <1>3

LEMMA OnwardStays ==
    ASSUME NEW p \in Pending
    PROVE  Onward(p, p)
  BY EntryTimes DEF Onward

\* An entry that is not waiting for an acknowledgement takes another state.
LEMMA OnwardState ==
    ASSUME NEW p \in Pending, p.state # "AwaitingAck", NEW state \in States,
           state # "AwaitingAck"
    PROVE  Onward(p, [p EXCEPT !.state = state])
<1> DEFINE q == [p EXCEPT !.state = state]
<1>1. q.state = state /\ q.retries = p.retries
  BY DEF Pending
<1> HIDE DEF q
<1>2. Causes(p) /\ Reach(q) = Reach(p)
  BY <1>1 DEF Causes, Reach
<1>3. Reach(p) \in Nat
  BY <1>2, EntryTimes
<1> QED
  BY <1>2, <1>3 DEF Onward, q

\* The frame was sent: the acknowledgement is awaited for one timeout.
LEMMA OnwardSent ==
    ASSUME NEW p \in Pending, p.state # "AwaitingAck"
    PROVE  Onward(p, [p EXCEPT !.state = "AwaitingAck", !.timer = AckWait])
<1> DEFINE q == [p EXCEPT !.state = "AwaitingAck", !.timer = AckWait]
           k == MaxRetries - p.retries - 1
<1>1. q.state = "AwaitingAck" /\ q.retries = p.retries /\ q.timer = AckWait
  BY DEF Pending
<1> HIDE DEF q
<1> SUFFICES ASSUME Causes(q) PROVE Causes(p) /\ Reach(q) <= Reach(p)
  BY DEF Onward, q
<1>2. k \in Nat /\ MaxRetries - p.retries = k + 1 /\ MaxDelay \in Nat /\ AckWait \in Nat
  BY <1>1, ConstantsType DEF Causes, Pending
<1>3. Reach(q) = MaxDelay + (AckWait + Waits(k))
  BY <1>1 DEF Reach
<1>4. Reach(p) = MaxDelay + Waits(MaxRetries - p.retries)
  BY DEF Reach
<1> HIDE DEF k
<1>5. Waits(k) \in Nat /\ Waits(k + 1) = Waits(k) + AckWait
  BY <1>2, WaitsFacts
<1> QED
  BY <1>2, <1>3, <1>4, <1>5 DEF Causes

\* A retry takes one timeout off.
LEMMA OnwardRetry ==
    ASSUME NEW p \in Pending, p.retries < MaxRetries, NEW q,
           q = [p EXCEPT !.retries = p.retries + 1, !.state = "Ready"]
    PROVE  Onward(p, q) /\ q \in Pending /\ q.state = "Ready"
<1> DEFINE k == MaxRetries - p.retries - 1
<1>0. p.retries + 1 \in 0 .. MaxRetries /\ p.retries \in Nat /\ p.timer \in Nat
  BY ConstantsType DEF Pending
<1>1. q.state = "Ready" /\ q.retries = p.retries + 1 /\ q \in Pending
  <2> DEFINE i == p.retries + 1
  <2>1. q = [p EXCEPT !.retries = i, !.state = "Ready"] /\ i \in 0 .. MaxRetries
    BY <1>0
  <2> HIDE DEF i
  <2>2. q.state = "Ready" /\ q.retries = i /\ q \in Pending
    BY <2>1 DEF Pending, States
  <2> QED
    BY <2>2 DEF i
<1>2. /\ k \in Nat /\ MaxRetries - p.retries = k + 1 /\ MaxRetries - (p.retries + 1) = k
      /\ MaxDelay \in Nat /\ AckWait \in Nat
  BY <1>0, ConstantsType
<1>3. Reach(q) = MaxDelay + Waits(k)
  BY <1>1, <1>2 DEF Reach
<1>4. Reach(p) = MaxDelay + (IF p.state = "AwaitingAck" THEN p.timer + Waits(k) ELSE Waits(k + 1))
  BY <1>2 DEF Reach
<1> HIDE DEF k
<1>5. Waits(k) \in Nat /\ Waits(k + 1) = Waits(k) + AckWait
  BY <1>2, WaitsFacts
<1>6. Reach(q) <= Reach(p) /\ Causes(p)
  BY <1>0, <1>2, <1>3, <1>4, <1>5 DEF Causes
<1> QED
  BY <1>1, <1>6 DEF Onward

-----------------------------------------------------------------------------
(* Turns of the sender                                                     *)

PendingEntries(P) == \A t \in DOMAIN P : P[t] \in Pending

\* service_pending, entry by entry.
LEMMA ServedEntries ==
    ASSUME NEW s, IsSender(s), NEW built \in [In(s, "Ready") -> {"Ok", "CounterPending", "NoKey"}],
           NEW v, v = Service(s, built)
    PROVE  /\ \A t \in DOMAIN v.pending :
                 /\ t \in DOMAIN s.pending
                 /\ s.pending[t].state # "Ready" => v.pending[t] = s.pending[t]
                 /\ s.pending[t].state = "Ready" =>
                       \/ v.pending[t] = [s.pending[t] EXCEPT !.state = "CounterPending"]
                       \/ /\ v.pending[t] = [s.pending[t] EXCEPT !.state = "AwaitingNwkConfirm"]
                          /\ \E f \in v.handed : f.t = t
           /\ \A f \in v.handed : f.t \in DOMAIN s.pending /\ s.pending[f.t].state = "Ready"
<1> DEFINE ready == In(s, "Ready")
           of(outcome) == {t \in ready : built[t] = outcome}
           moved == [t \in DOMAIN s.pending |->
                        IF t \in of("Ok")
                        THEN [s.pending[t] EXCEPT !.state = "AwaitingNwkConfirm"]
                        ELSE IF t \in of("CounterPending")
                        THEN [s.pending[t] EXCEPT !.state = "CounterPending"]
                        ELSE s.pending[t]]
           fs == {FrameOf(s.pending[t], t) : t \in of("Ok")}
           s1 == [s EXCEPT !.pending = moved, !.handed = fs]
           ok == of("Ok")
           waits == of("CounterPending")
           fail == of("NoKey")
<1>1. v = CompleteAll(s1, fail, "SECURITY_FAIL")
  BY Zenon DEF Service
<1>2. /\ ready = {t \in DOMAIN s.pending : s.pending[t].state = "Ready"}
      /\ ready = ok \cup waits \cup fail
      /\ fail \cap ok = {} /\ fail \cap waits = {} /\ ok \cap waits = {}
      /\ ok \subseteq ready /\ fail \subseteq ready /\ waits \subseteq ready
  BY DEF In
<1>3. /\ DOMAIN moved = DOMAIN s.pending
      /\ \A t \in DOMAIN s.pending :
            /\ t \in ok => moved[t] = [s.pending[t] EXCEPT !.state = "AwaitingNwkConfirm"]
            /\ t \in waits => moved[t] = [s.pending[t] EXCEPT !.state = "CounterPending"]
            /\ t \notin ready => moved[t] = s.pending[t]
  BY <1>2
<1>4. /\ \A t \in ok : FrameOf(s.pending[t], t) \in fs /\ FrameOf(s.pending[t], t).t = t
      /\ \A f \in fs : \E t \in ok : f = FrameOf(s.pending[t], t) /\ f.t = t
  BY DEF FrameOf
<1> HIDE DEF ok, waits, fail, ready, of, moved, fs
<1>5. IsSender(s1) /\ s1.pending = moved /\ s1.handed = fs
  <2> DEFINE u == [s EXCEPT !.pending = moved]
  <2>1. u = [pending |-> moved, requests |-> s.requests, confirms |-> s.confirms,
             handed |-> s.handed]
    BY DEF IsSender
  <2>2. s1 = [u EXCEPT !.handed = fs]
    OBVIOUS
  <2> HIDE DEF u, s1
  <2>3. s1 = [pending |-> moved, requests |-> s.requests, confirms |-> s.confirms, handed |-> fs]
    BY <2>1, <2>2
  <2> QED
    BY <2>3 DEF IsSender
<1> HIDE DEF s1
<1>6. v.pending = [t \in DOMAIN moved \ fail |-> moved[t]] /\ v.handed = fs
  BY <1>1, <1>5, CompleteAllParts
<1>7. DOMAIN v.pending = DOMAIN s.pending \ fail /\ \A t \in DOMAIN v.pending : v.pending[t] = moved[t]
  BY <1>3, <1>6
<1>8. ASSUME NEW t \in DOMAIN v.pending
      PROVE  /\ t \in DOMAIN s.pending
             /\ s.pending[t].state # "Ready" => v.pending[t] = s.pending[t]
             /\ s.pending[t].state = "Ready" =>
                   \/ v.pending[t] = [s.pending[t] EXCEPT !.state = "CounterPending"]
                   \/ /\ v.pending[t] = [s.pending[t] EXCEPT !.state = "AwaitingNwkConfirm"]
                      /\ \E f \in v.handed : f.t = t
  <2>1. t \in DOMAIN s.pending /\ t \notin fail /\ v.pending[t] = moved[t]
    BY <1>7
  <2>2. CASE t \in ok
    <3>1. \E f \in v.handed : f.t = t
      BY <2>2, <1>4, <1>6
    <3> QED
      BY <2>1, <2>2, <3>1, <1>2, <1>3
  <2>3. CASE t \in waits
    BY <2>1, <2>3, <1>2, <1>3
  <2>4. CASE t \notin ok /\ t \notin waits
    BY <2>1, <2>4, <1>2, <1>3
  <2> QED
    BY <2>2, <2>3, <2>4
<1>9. \A f \in v.handed : f.t \in DOMAIN s.pending /\ s.pending[f.t].state = "Ready"
  BY <1>2, <1>4, <1>6
<1> QED
  BY <1>8, <1>9

\* What becomes of an entry p that is ready or punctual, and its frames.
LEMMA ServedPunctual ==
    ASSUME NEW s, IsSender(s), PendingEntries(s.pending),
           NEW built \in [In(s, "Ready") -> {"Ok", "CounterPending", "NoKey"}],
           NEW kept, Settle(Service(s, built), kept),
           NEW t \in DOMAIN tx'.pending,
           t \in DOMAIN s.pending =>
               s.pending[t].state = "Ready" \/ Punctual(t, s.pending[t], kept)
    PROVE  /\ t \in DOMAIN s.pending
           /\ Punctual(t, tx'.pending[t], nwk')
           /\ tx'.pending[t] \in Pending
           /\ Onward(s.pending[t], tx'.pending[t])
<1> DEFINE v == Service(s, built)
           p == s.pending[t]
           q == tx'.pending[t]
<1>1. /\ \A u \in DOMAIN v.pending :
            /\ u \in DOMAIN s.pending
            /\ s.pending[u].state # "Ready" => v.pending[u] = s.pending[u]
            /\ s.pending[u].state = "Ready" =>
                  \/ v.pending[u] = [s.pending[u] EXCEPT !.state = "CounterPending"]
                  \/ /\ v.pending[u] = [s.pending[u] EXCEPT !.state = "AwaitingNwkConfirm"]
                     /\ \E f \in v.handed : f.t = u
  BY ServedEntries
<1>2. tx'.pending = v.pending /\ nwk' = kept \cup {[frame |-> f, live |-> TRUE] : f \in v.handed}
  BY DEF Settle, Outside
<1> HIDE DEF v
<1>3. /\ t \in DOMAIN s.pending /\ p \in Pending
      /\ p.state # "Ready" => q = p
      /\ p.state = "Ready" => \/ q = [p EXCEPT !.state = "CounterPending"]
                              \/ /\ q = [p EXCEPT !.state = "AwaitingNwkConfirm"]
                                 /\ \E f \in v.handed : f.t = t
  BY <1>1, <1>2 DEF PendingEntries
<1>4. p.state = "Ready" \/ Punctual(t, p, kept)
  BY <1>3
<1> HIDE DEF p, q
<1>5. CASE p.state # "Ready"
  <2>1. Punctual(t, q, nwk')
    BY <1>2, <1>3, <1>4, <1>5 DEF Punctual
  <2> QED
    BY <1>3, <1>5, <2>1, OnwardStays DEF p, q
<1>6. CASE p.state = "Ready" /\ q = [p EXCEPT !.state = "CounterPending"]
  <2>1. q.state = "CounterPending" /\ q \in Pending
    BY <1>3, <1>6 DEF Pending, States
  <2>2. Onward(p, q)
    BY <1>3, <1>6, OnwardState DEF States
  <2> QED
    BY <1>3, <2>1, <2>2 DEF Punctual, p, q
<1>7. CASE /\ p.state = "Ready" /\ q = [p EXCEPT !.state = "AwaitingNwkConfirm"]
           /\ \E f \in v.handed : f.t = t
  <2>1. q.state = "AwaitingNwkConfirm" /\ q \in Pending
    BY <1>3, <1>7 DEF Pending, States
  <2>2. Onward(p, q)
    BY <1>3, <1>7, OnwardState DEF States
  <2>3. PICK f \in v.handed : f.t = t
    BY <1>7
  <2> DEFINE n == [frame |-> f, live |-> TRUE]
  <2>4. n \in nwk' /\ n.live /\ n.frame.t = t
    BY <1>2, <2>3
  <2>5. \E m \in nwk' : m.live /\ m.frame.t = t
    BY <2>4
  <2>6. Punctual(t, q, nwk')
    BY <2>1, <2>5 DEF Punctual
  <2> QED
    BY <1>3, <2>1, <2>2, <2>6 DEF p, q
<1> QED
  BY <1>3, <1>5, <1>6, <1>7

\* A turn that ends with service_pending.
LEMMA ServedMoves ==
    ASSUME NEW s, IsSender(s), PendingEntries(s.pending), PendingEntries(tx.pending),
           NEW built \in [In(s, "Ready") -> {"Ok", "CounterPending", "NoKey"}],
           NEW kept, Settle(Service(s, built), kept),
           NEW t, MidTurn(t, tx.pending, nwk, s.pending, kept)
    PROVE  EndTurn(t, tx.pending, nwk, tx'.pending, nwk')
<1> DEFINE v == Service(s, built)
<1>1. nwk' = kept \cup {[frame |-> f, live |-> TRUE] : f \in v.handed}
  BY DEF Settle
<1>2. \A f \in v.handed : f.t \in DOMAIN s.pending /\ s.pending[f.t].state = "Ready"
  BY ServedEntries
<1> HIDE DEF v
<1>3. ASSUME NEW n \in nwk', n.frame.t = t
      PROVE  \/ \E k \in nwk : k.frame.t = t
             \/ t \in DOMAIN tx.pending /\ Causes(tx.pending[t])
  <2>1. CASE n \in kept
    BY <1>3, <2>1 DEF MidTurn
  <2>2. CASE n \notin kept
    <3>1. PICK f \in v.handed : n = [frame |-> f, live |-> TRUE]
      BY <1>1, <2>2
    <3>2. t \in DOMAIN s.pending /\ s.pending[t].state = "Ready"
      BY <1>2, <1>3, <3>1
    <3>3. Causes(s.pending[t])
      BY <3>2 DEF Causes
    <3> QED
      BY <3>2, <3>3 DEF MidTurn, Onward
  <2> QED
    BY <2>1, <2>2
<1>4. ASSUME t \in DOMAIN tx'.pending
      PROVE  /\ t \in DOMAIN tx.pending /\ Onward(tx.pending[t], tx'.pending[t])
             /\ Punctual(t, tx'.pending[t], nwk')
  <2>1. t \in DOMAIN s.pending => s.pending[t].state = "Ready" \/ Punctual(t, s.pending[t], kept)
    BY DEF MidTurn
  <2>2. /\ t \in DOMAIN s.pending /\ Punctual(t, tx'.pending[t], nwk')
        /\ tx'.pending[t] \in Pending /\ Onward(s.pending[t], tx'.pending[t])
    BY <1>4, <2>1, ServedPunctual
  <2>3. t \in DOMAIN tx.pending /\ Onward(tx.pending[t], s.pending[t])
    BY <2>2 DEF MidTurn
  <2>4. tx.pending[t] \in Pending /\ s.pending[t] \in Pending
    BY <2>2, <2>3 DEF PendingEntries
  <2> QED
    BY <2>2, <2>3, <2>4, OnwardTransitive
<1> QED
  BY <1>3, <1>4 DEF EndTurn

\* The same for the turns in which anything may come out of build_frame.
LEMMA ServicedMoves ==
    ASSUME NEW s, IsSender(s), PendingEntries(s.pending), PendingEntries(tx.pending),
           NEW kept, SettleServiced(s, kept)
    PROVE  /\ \A t : MidTurn(t, tx.pending, nwk, s.pending, kept)
                         => EndTurn(t, tx.pending, nwk, tx'.pending, nwk')
           /\ \A t \in DOMAIN tx'.pending :
                 /\ t \in DOMAIN s.pending =>
                       s.pending[t].state = "Ready" \/ Punctual(t, s.pending[t], kept)
                 => Punctual(t, tx'.pending[t], nwk')
<1>1. PICK built \in [In(s, "Ready") -> BuildOutcomes] : Settle(Service(s, built), kept)
  BY DEF SettleServiced
<1>2. BuildOutcomes \subseteq {"Ok", "CounterPending", "NoKey"}
  BY DEF BuildOutcomes
<1>3. built \in [In(s, "Ready") -> {"Ok", "CounterPending", "NoKey"}]
  BY <1>1, <1>2
<1> QED
  BY <1>1, <1>3, ServedMoves, ServedPunctual

\* A turn that leaves nothing ready.
LEMMA SettledMoves ==
    ASSUME NEW s, s.handed = {}, NEW kept, Settle(s, kept), NEW t,
           MidTurn(t, tx.pending, nwk, s.pending, kept),
           t \in DOMAIN s.pending => s.pending[t].state # "Ready"
    PROVE  EndTurn(t, tx.pending, nwk, tx'.pending, nwk')
<1>1. tx'.pending = s.pending /\ nwk' = kept
  BY DEF Settle, Outside
<1> QED
  BY <1>1 DEF MidTurn, EndTurn

-----------------------------------------------------------------------------
(* Steps of the sender                                                     *)

\* What a step finds.
LEMMA OnceFacts ==
    ASSUME ApsInv, OnceInv
    PROVE  /\ PendingEntries(tx.pending) /\ DOMAIN tx.pending \subseteq DOMAIN sent
           /\ IsSender(Inside) /\ Inside.pending = tx.pending /\ Inside.handed = {}
           /\ NwkInv(tx.pending, nwk, sent) /\ NoneReady(tx.pending)
           /\ \A t \in DOMAIN sent : t \in Transmissions /\ PeerOf(t) \in Peers
                                     /\ indicated[t] \in 0 .. 2
                                     /\ Life(dedup[PeerOf(t)], CounterOf(t)) \in Nat
           /\ \A t \in DOMAIN tx.pending :
                 ~ Exempt(t, sent, delayed, forgotten) => Punctual(t, tx.pending[t], nwk)
<1>1. /\ SlotsInv(tx.pending, sent) /\ NwkInv(tx.pending, nwk, sent) /\ NoneReady(tx.pending)
      /\ calls \in 0 .. MaxRequests /\ SentInv(sent, calls)
  BY DEF ApsInv, SenderInv, ScopeInv
<1>2. PendingEntries(tx.pending) /\ DOMAIN tx.pending \subseteq DOMAIN sent
  BY <1>1 DEF SlotsInv, Entry, PendingEntries
<1>3. IsSender(Inside) /\ Inside.pending = tx.pending /\ Inside.handed = {}
  BY DEF Inside, IsSender
<1>4. \A t \in DOMAIN sent : t \in Transmissions /\ PeerOf(t) \in Peers
  BY <1>1, SentIds, SentPeers
<1>5. \A t \in DOMAIN sent : indicated[t] \in 0 .. 2
  BY <1>4 DEF OnceInv
<1>6. \A t \in DOMAIN sent : Life(dedup[PeerOf(t)], CounterOf(t)) \in Nat
  BY <1>4 DEF OnceInv, Life
<1>7. \A t \in DOMAIN tx.pending :
          ~ Exempt(t, sent, delayed, forgotten) => Punctual(t, tx.pending[t], nwk)
  BY <1>2 DEF OnceInv, TimedInv
<1> QED
  BY <1>1, <1>2, <1>3, <1>4, <1>5, <1>6, <1>7

\* A record that outlives every copy goes on to do so.
LEMMA TimedMoves ==
    ASSUME NEW t, NEW k, NEW l \in Nat, NEW P, PendingEntries(P), NEW W, NEW F,
           NEW P1, PendingEntries(P1), NEW W1, NEW F1,
           TimedInv(t, k, l, P, W, F), EndTurn(t, P, W, P1, W1), AirMoves(t, W, F, F1)
    PROVE  TimedInv(t, k, l, P1, W1, F1)
<1>1. k <= 1 /\ (t \in DOMAIN P1 => Punctual(t, P1[t], W1))
  BY DEF TimedInv, EndTurn
<1> SUFFICES ASSUME Covered(t, l, P, W, F)
             PROVE  Covered(t, l, P1, W1, F1)
  BY <1>1 DEF TimedInv
<1>2. ASSUME NEW m \in F1, m.frame.t = t
      PROVE  l > m.ttl
  BY <1>2 DEF AirMoves, Covered
<1>3. ASSUME NEW n \in W1, n.frame.t = t
      PROVE  l > MaxDelay
  <2>1. CASE \E k1 \in W : k1.frame.t = t
    BY <2>1 DEF Covered
  <2>2. CASE t \in DOMAIN P /\ Causes(P[t])
    <3>1. l > Reach(P[t])
      BY <2>2 DEF Covered
    <3>2. Reach(P[t]) \in Nat /\ MaxDelay <= Reach(P[t])
      BY <2>2, EntryTimes DEF PendingEntries
    <3> QED
      BY <3>1, <3>2, ConstantsType
  <2> QED
    BY <1>3, <2>1, <2>2 DEF EndTurn
<1>4. ASSUME t \in DOMAIN P1, Causes(P1[t])
      PROVE  l > Reach(P1[t])
  <2>1. t \in DOMAIN P /\ Causes(P[t]) /\ Reach(P1[t]) <= Reach(P[t])
    BY <1>4 DEF EndTurn, Onward
  <2>2. l > Reach(P[t])
    BY <2>1 DEF Covered
  <2>3. Reach(P[t]) \in Nat /\ Reach(P1[t]) \in Nat
    BY <1>4, <2>1, EntryTimes DEF PendingEntries
  <2> QED
    BY <2>1, <2>2, <2>3
<1> QED
  BY <1>2, <1>3, <1>4 DEF Covered

\* Steps in which no peer does anything.
LEMMA QuietStep ==
    ASSUME ApsInv, ApsInv', OnceInv, UNCHANGED <<sent, dedup, indicated, forgotten>>,
           delayed \subseteq delayed',
           \A m \in frames' : m \in frames \/ m.ttl = MaxDelay,
           \A t \in DOMAIN sent :
               ~ Exempt(t, sent, delayed', forgotten) =>
                     /\ EndTurn(t, tx.pending, nwk, tx'.pending, nwk')
                     /\ AirMoves(t, nwk, frames, frames')
    PROVE  OnceInv'
<1>1. /\ indicated' \in [Transmissions -> 0 .. 2]
      /\ \A t \in Transmissions \ DOMAIN sent' : indicated'[t] = 0
      /\ \A q \in Peers : \A c \in DOMAIN dedup'[q] : dedup'[q][c] \in Nat
  BY DEF OnceInv
<1>2. \A m \in frames' : m.ttl \in 0 .. MaxDelay
  BY ConstantsType DEF OnceInv
<1>3. PendingEntries(tx.pending) /\ PendingEntries(tx'.pending)
  BY DEF ApsInv, SenderInv, SlotsInv, Entry, PendingEntries
<1>4. ASSUME NEW t \in DOMAIN sent, ~ Exempt(t, sent, delayed', forgotten)
      PROVE  TimedInv(t, indicated[t], Life(dedup[PeerOf(t)], CounterOf(t)), tx'.pending, nwk', frames')
  <2> DEFINE l == Life(dedup[PeerOf(t)], CounterOf(t))
  <2>1. ~ Exempt(t, sent, delayed, forgotten)
    BY <1>4 DEF Exempt
  <2>2. TimedInv(t, indicated[t], l, tx.pending, nwk, frames) /\ l \in Nat
    BY <2>1, OnceFacts DEF OnceInv
  <2>3. EndTurn(t, tx.pending, nwk, tx'.pending, nwk') /\ AirMoves(t, nwk, frames, frames')
    BY <1>4
  <2> HIDE DEF l
  <2>4. TimedInv(t, indicated[t], l, tx'.pending, nwk', frames')
    BY <1>3, <2>2, <2>3, TimedMoves
  <2> QED
    BY <2>4 DEF l
<1> QED
  BY <1>1, <1>2, <1>4 DEF OnceInv

\* The entry of t and its frames are left alone in a turn.
LEMMA Untouched ==
    ASSUME ApsInv, OnceInv, NEW t \in DOMAIN sent, ~ Exempt(t, sent, delayed, forgotten),
           NEW Q, t \in DOMAIN Q => t \in DOMAIN tx.pending /\ Q[t] = tx.pending[t],
           NEW kept, \A n \in kept : \E k \in nwk : k.frame = n.frame,
           \A n \in nwk : n.live /\ n.frame.t = t => n \in kept
    PROVE  MidTurn(t, tx.pending, nwk, Q, kept)
<1>1. \A n \in kept : n.frame.t = t => \E k \in nwk : k.frame.t = t
  <2> SUFFICES ASSUME NEW n \in kept, n.frame.t = t
               PROVE  \E k \in nwk : k.frame.t = t
    OBVIOUS
  <2>1. PICK k \in nwk : k.frame = n.frame
    OBVIOUS
  <2> QED
    BY <2>1
<1>2. ASSUME t \in DOMAIN Q
      PROVE  Onward(tx.pending[t], Q[t]) /\ Punctual(t, Q[t], kept)
  <2>1. tx.pending[t] \in Pending /\ Punctual(t, tx.pending[t], nwk) /\ Q[t] = tx.pending[t]
    BY <1>2, OnceFacts DEF PendingEntries
  <2>2. Punctual(t, tx.pending[t], kept)
    BY <2>1 DEF Punctual
  <2> QED
    BY <2>1, <2>2, OnwardStays
<1> QED
  BY <1>1, <1>2 DEF MidTurn

\* An entry becomes p.
LEMMA WithParts ==
    ASSUME NEW s, IsSender(s), NEW t \in DOMAIN s.pending, NEW p
    PROVE  /\ IsSender(With(s, t, p)) /\ With(s, t, p).handed = s.handed
           /\ DOMAIN With(s, t, p).pending = DOMAIN s.pending
           /\ With(s, t, p).pending[t] = p
           /\ \A u \in DOMAIN s.pending : u # t => With(s, t, p).pending[u] = s.pending[u]
<1> DEFINE P == [s.pending EXCEPT ![t] = p]
           s1 == With(s, t, p)
<1>1. s1 = [s EXCEPT !.pending = P]
  BY DEF With
<1>2. DOMAIN P = DOMAIN s.pending /\ \A u \in DOMAIN P : P[u] = IF u = t THEN p ELSE s.pending[u]
  OBVIOUS
<1> HIDE DEF P, s1
<1>3. s1 = [pending |-> P, requests |-> s.requests, confirms |-> s.confirms, handed |-> s.handed]
  BY <1>1 DEF IsSender
<1>4. IsSender(s1) /\ s1.pending = P /\ s1.handed = s.handed
  BY <1>3 DEF IsSender
<1> QED
  BY <1>2, <1>4 DEF s1

\* An entry ends.
LEMMA CompleteParts ==
    ASSUME NEW s, IsSender(s), NEW t, NEW status
    PROVE  /\ IsSender(Complete(s, t, status)) /\ Complete(s, t, status).handed = s.handed
           /\ DOMAIN Complete(s, t, status).pending = DOMAIN s.pending \ {t}
           /\ \A u \in DOMAIN s.pending : u # t => Complete(s, t, status).pending[u] = s.pending[u]
<1> DEFINE c == Complete(s, t, status)
           ts == {t}
<1>1. c = CompleteAll(s, ts, status)
  BY DEF Complete
<1> HIDE DEF c, ts
<1>2. /\ IsSender(c) /\ c.handed = s.handed
      /\ c.pending = [u \in DOMAIN s.pending \ ts |-> s.pending[u]]
  BY <1>1, CompleteAllParts
<1>3. DOMAIN c.pending = DOMAIN s.pending \ ts
      /\ \A u \in DOMAIN s.pending \ ts : c.pending[u] = s.pending[u]
  BY <1>2
<1> QED
  BY <1>2, <1>3 DEF c, ts

LEMMA TurnEntries ==
    ASSUME NEW s, NEW W, NEW S, NEW G, TurnInv(s, W, S, G)
    PROVE  IsSender(s) /\ PendingEntries(s.pending)
  BY DEF TurnInv, SlotsInv, Entry, PendingEntries

\* What is transmitted was held by the NWK layer.
LEMMA OnAirMoves ==
    ASSUME NEW n \in nwk, OnAir(n.frame) \/ UNCHANGED frames
    PROVE  /\ \A t : AirMoves(t, nwk, frames, frames')
           /\ \A m \in frames' : m \in frames \/ m.ttl = MaxDelay
<1> DEFINE x == [frame |-> n.frame, ttl |-> MaxDelay]
<1>1. \A m \in frames' : m \in frames \/ m = x
  BY DEF OnAir
<1>2. x.frame = n.frame /\ x.ttl = MaxDelay
  OBVIOUS
<1> HIDE DEF x
<1> QED
  BY <1>1, <1>2 DEF AirMoves

\* on_nwk_data_confirm, entry by entry.
LEMMA NwkAnswerParts ==
    ASSUME NEW s, IsSender(s), PendingEntries(s.pending), NEW t \in DOMAIN s.pending,
           s.pending[t].state = "AwaitingNwkConfirm",
           NEW v, v \in {NwkSuccess(s, t), NwkFailure(s, t), NwkRefusal(s, t)}
    PROVE  /\ IsSender(v) /\ v.handed = s.handed
           /\ DOMAIN v.pending \subseteq DOMAIN s.pending
           /\ \A u \in DOMAIN v.pending : u # t => v.pending[u] = s.pending[u]
           /\ v = NwkSuccess(s, t) /\ t \in DOMAIN v.pending =>
                 /\ Onward(s.pending[t], v.pending[t])
                 /\ v.pending[t].state = "AwaitingAck" /\ v.pending[t].timer <= AckWait
           /\ v = NwkFailure(s, t) /\ t \in DOMAIN v.pending =>
                 Onward(s.pending[t], v.pending[t]) /\ v.pending[t].state = "Ready"
<1> DEFINE p == s.pending[t]
           Common == /\ IsSender(v) /\ v.handed = s.handed
                     /\ DOMAIN v.pending \subseteq DOMAIN s.pending
                     /\ \A u \in DOMAIN v.pending : u # t => v.pending[u] = s.pending[u]
<1>0. p \in Pending /\ p.state = "AwaitingNwkConfirm"
  BY DEF PendingEntries
<1>1. ASSUME NEW status, v = Complete(s, t, status)
      PROVE  Common /\ t \notin DOMAIN v.pending
  BY <1>1, CompleteParts
<1>2. ASSUME NEW q, v = With(s, t, q)
      PROVE  Common /\ v.pending[t] = q
  BY <1>2, WithParts
<1>3. ASSUME v = NwkSuccess(s, t)
      PROVE  /\ Common
             /\ t \in DOMAIN v.pending =>
                   /\ Onward(p, v.pending[t])
                   /\ v.pending[t].state = "AwaitingAck" /\ v.pending[t].timer <= AckWait
  <2> DEFINE q == [p EXCEPT !.state = "AwaitingAck", !.timer = AckWait]
  <2>1. v = With(s, t, q) \/ v = Complete(s, t, "SUCCESS")
    BY <1>3 DEF NwkSuccess
  <2>2. q.state = "AwaitingAck" /\ q.timer = AckWait /\ Onward(p, q)
    BY <1>0, OnwardSent DEF Pending
  <2>3. q.timer <= AckWait
    BY <2>2, ConstantsType
  <2> HIDE DEF q, p, Common
  <2>4. CASE v = With(s, t, q)
    BY <1>2, <2>2, <2>3, <2>4
  <2> QED
    BY <1>1, <2>1, <2>4
<1>4. ASSUME v = NwkFailure(s, t)
      PROVE  /\ Common
             /\ t \in DOMAIN v.pending => Onward(p, v.pending[t]) /\ v.pending[t].state = "Ready"
  <2> DEFINE q == [p EXCEPT !.retries = p.retries + 1, !.state = "Ready"]
  <2>1. \/ v = With(s, t, q) /\ p.retries < MaxRetries
        \/ v = Complete(s, t, "NWK_FAILURE")
    BY <1>4 DEF NwkFailure
  <2>2. p.retries < MaxRetries => q.state = "Ready" /\ Onward(p, q)
    BY <1>0, OnwardRetry
  <2> HIDE DEF q, p, Common
  <2>3. CASE v = With(s, t, q) /\ p.retries < MaxRetries
    BY <1>2, <2>2, <2>3
  <2> QED
    BY <1>1, <2>1, <2>3
<1>5. CASE v = NwkRefusal(s, t)
  <2>1. v = NwkFailure(s, t) \/ \E q : v = With(s, t, q)
    BY <1>5 DEF NwkRefusal
  <2> HIDE DEF p, Common
  <2>2. Common
    BY <1>2, <1>4, <2>1
  <2> QED
    BY <1>3, <1>4, <2>2 DEF p, Common
<1> HIDE DEF p, Common
<1> QED
  BY <1>3, <1>4, <1>5 DEF p, Common

\* The turn that handles the answer for the frame n, for each transmission.
LEMMA NwkAnswerMid ==
    ASSUME ApsInv, OnceInv, NEW n \in nwk, n.live,
           NEW v, v \in {NwkSuccess(Inside, n.frame.t), NwkFailure(Inside, n.frame.t),
                         NwkRefusal(Inside, n.frame.t)},
           NEW kept, \A m \in kept : m \in nwk \ {n} \/ m = Orphan(n), nwk \ {n} \subseteq kept
    PROVE  /\ IsSender(v) /\ v.handed = {} /\ PendingEntries(v.pending)
           /\ \A t \in DOMAIN sent :
                 /\ ~ Exempt(t, sent, delayed, forgotten)
                 /\ t = n.frame.t => \/ v = NwkSuccess(Inside, n.frame.t)
                                     \/ v = NwkFailure(Inside, n.frame.t)
                 => MidTurn(t, tx.pending, nwk, v.pending, kept)
           /\ v = NwkSuccess(Inside, n.frame.t) =>
                 \A t \in DOMAIN v.pending : v.pending[t].state # "Ready"
<1> DEFINE G == DOMAIN sent
           t0 == n.frame.t
           s == Inside
<1>2. /\ PendingEntries(tx.pending) /\ IsSender(s) /\ s.pending = tx.pending /\ s.handed = {}
      /\ NwkInv(tx.pending, nwk, sent) /\ NoneReady(tx.pending)
  BY OnceFacts
<1>3. t0 \in DOMAIN s.pending /\ s.pending[t0].state = "AwaitingNwkConfirm"
  BY <1>2 DEF NwkInv
<1>4. Resting(G) /\ UnackedIn(sent, G)
  BY DEF ApsInv, Resting, ScopeInv, UnackedIn
<1>5. PendingEntries(v.pending)
  <2>1. TurnInv(s, kept, sent, G) /\ \A m \in kept : m.live => m.frame.t # t0
    BY <1>4, AnsweredFrame
  <2>2. \A t \in DOMAIN sent : t[1] \in Ids
    BY <1>4, InsideTurn
  <2>3. NoneHanded(s)
    BY <1>2 DEF NoneHanded
  <2>4. \A t \in DOMAIN sent : ~ sent[t].ack => t \in G
    OBVIOUS
  <2>0. v \in {NwkSuccess(s, t0), NwkFailure(s, t0), NwkRefusal(s, t0)}
    OBVIOUS
  <2> HIDE DEF s, t0, G
  <2>5. TurnInv(v, kept, sent, G)
    BY <1>3, <2>0, <2>1, <2>2, <2>3, <2>4, NwkAnswerTurn
  <2> QED
    BY <2>5, TurnEntries
<1>6. /\ IsSender(v) /\ v.handed = {} /\ DOMAIN v.pending \subseteq DOMAIN tx.pending
      /\ \A u \in DOMAIN v.pending : u # t0 => v.pending[u] = tx.pending[u]
      /\ v = NwkSuccess(s, t0) /\ t0 \in DOMAIN v.pending =>
            /\ Onward(tx.pending[t0], v.pending[t0])
            /\ v.pending[t0].state = "AwaitingAck" /\ v.pending[t0].timer <= AckWait
      /\ v = NwkFailure(s, t0) /\ t0 \in DOMAIN v.pending =>
            Onward(tx.pending[t0], v.pending[t0]) /\ v.pending[t0].state = "Ready"
  <2>0. v \in {NwkSuccess(s, t0), NwkFailure(s, t0), NwkRefusal(s, t0)}
    OBVIOUS
  <2> HIDE DEF s, t0
  <2> QED
    BY <1>2, <1>3, <2>0, NwkAnswerParts
<1>7. \A m \in kept : \E k \in nwk : k.frame = m.frame
  BY DEF Orphan
<1>8. ASSUME NEW t \in DOMAIN sent, ~ Exempt(t, sent, delayed, forgotten),
             t = t0 => v = NwkSuccess(s, t0) \/ v = NwkFailure(s, t0)
      PROVE  MidTurn(t, tx.pending, nwk, v.pending, kept)
  <2>1. CASE t # t0
    <3>1. \A m \in nwk : m.live /\ m.frame.t = t => m \in kept
      BY <2>1
    <3>2. t \in DOMAIN v.pending => t \in DOMAIN tx.pending /\ v.pending[t] = tx.pending[t]
      BY <1>6, <2>1
    <3> QED
      BY <1>7, <1>8, <3>1, <3>2, Untouched
  <2>2. CASE t = t0
    <3>1. ASSUME NEW m \in kept, m.frame.t = t
          PROVE  \E k \in nwk : k.frame.t = t
      <4>1. PICK k \in nwk : k.frame = m.frame
        BY <1>7
      <4> QED
        BY <3>1, <4>1
    <3>2. t \in DOMAIN v.pending =>
              /\ t \in DOMAIN tx.pending /\ Onward(tx.pending[t], v.pending[t])
              /\ v.pending[t].state = "Ready" \/ Punctual(t, v.pending[t], kept)
      <4> HIDE DEF s, t0
      <4> QED
        BY <1>6, <1>8, <2>2 DEF Punctual
    <3> QED
      BY <3>1, <3>2 DEF MidTurn
  <2> QED
    BY <2>1, <2>2
<1>9. ASSUME v = NwkSuccess(s, t0), NEW t \in DOMAIN v.pending
      PROVE  v.pending[t].state # "Ready"
  <2> HIDE DEF s, t0
  <2> QED
    BY <1>2, <1>6, <1>9 DEF NoneReady
<1> QED
  BY <1>5, <1>6, <1>8, <1>9

LEMMA NwkSendsOnce ==
    ASSUME ApsInv, ApsInv', OnceInv, NEW n \in nwk, NwkSends(n)
    PROVE  OnceInv'
<1> DEFINE v == NwkSuccess(Inside, n.frame.t)
           kept == nwk \ {n}
<1>1. /\ n.live /\ UNCHANGED <<sent, dedup, indicated, forgotten, delayed>>
      /\ OnAir(n.frame) /\ Settle(v, kept)
  BY DEF NwkSends, callVars, peerVars
<1>2. /\ \A t : AirMoves(t, nwk, frames, frames')
      /\ \A m \in frames' : m \in frames \/ m.ttl = MaxDelay
  BY <1>1, OnAirMoves
<1>3. /\ v.handed = {} /\ \A t \in DOMAIN v.pending : v.pending[t].state # "Ready"
      /\ \A t \in DOMAIN sent :
            ~ Exempt(t, sent, delayed, forgotten)
                => MidTurn(t, tx.pending, nwk, v.pending, kept)
  BY <1>1, NwkAnswerMid
<1> HIDE DEF v, kept
<1>4. ASSUME NEW t \in DOMAIN sent, ~ Exempt(t, sent, delayed', forgotten)
      PROVE  EndTurn(t, tx.pending, nwk, tx'.pending, nwk')
  BY <1>1, <1>3, <1>4, SettledMoves
<1> QED
  BY <1>1, <1>2, <1>4, QuietStep

LEMMA NwkFailsOnce ==
    ASSUME ApsInv, ApsInv', OnceInv, NEW n \in nwk, NwkFails(n)
    PROVE  OnceInv'
<1> DEFINE v == NwkFailure(Inside, n.frame.t)
           kept == nwk \ {n}
<1>1. /\ n.live /\ UNCHANGED <<sent, dedup, indicated, forgotten, delayed>>
      /\ OnAir(n.frame) \/ UNCHANGED frames
      /\ SettleServiced(v, kept)
  BY DEF NwkFails, callVars, peerVars
<1>2. /\ \A t : AirMoves(t, nwk, frames, frames')
      /\ \A m \in frames' : m \in frames \/ m.ttl = MaxDelay
  BY <1>1, OnAirMoves
<1>3. /\ IsSender(v) /\ PendingEntries(v.pending)
      /\ \A t \in DOMAIN sent :
            ~ Exempt(t, sent, delayed, forgotten)
                => MidTurn(t, tx.pending, nwk, v.pending, kept)
  BY <1>1, NwkAnswerMid
<1> HIDE DEF v, kept
<1>4. ASSUME NEW t \in DOMAIN sent, ~ Exempt(t, sent, delayed', forgotten)
      PROVE  EndTurn(t, tx.pending, nwk, tx'.pending, nwk')
  BY <1>1, <1>3, <1>4, OnceFacts, ServicedMoves
<1> QED
  BY <1>1, <1>2, <1>4, QuietStep

\* A refused request is late from now on.
LEMMA NwkRefusesOnce ==
    ASSUME ApsInv, ApsInv', OnceInv, NEW n \in nwk, NEW accepted \in BOOLEAN,
           NwkRefuses(n, accepted)
    PROVE  OnceInv'
<1> DEFINE v == NwkRefusal(Inside, n.frame.t)
           kept == (nwk \ {n}) \cup (IF accepted THEN {Orphan(n)} ELSE {})
<1>1. /\ n.live /\ UNCHANGED <<sent, dedup, indicated, forgotten, frames>>
      /\ SettleServiced(v, kept) /\ delayed' = delayed \cup {n.frame.t[1]}
  BY DEF NwkRefuses, callVars, peerVars
<1>2. \A t : AirMoves(t, nwk, frames, frames')
  BY <1>1, OnAirMoves
<1>3. (\A m \in kept : m \in nwk \ {n} \/ m = Orphan(n)) /\ nwk \ {n} \subseteq kept
  OBVIOUS
<1> HIDE DEF kept
<1>4. /\ IsSender(v) /\ PendingEntries(v.pending)
      /\ \A t \in DOMAIN sent :
            ~ Exempt(t, sent, delayed, forgotten) /\ t # n.frame.t
                => MidTurn(t, tx.pending, nwk, v.pending, kept)
  BY <1>1, <1>3, NwkAnswerMid
<1> HIDE DEF v
<1>5. ASSUME NEW t \in DOMAIN sent, ~ Exempt(t, sent, delayed', forgotten)
      PROVE  EndTurn(t, tx.pending, nwk, tx'.pending, nwk')
  <2>1. ~ Exempt(t, sent, delayed, forgotten) /\ t # n.frame.t
    BY <1>1, <1>5 DEF Exempt
  <2> QED
    BY <1>1, <1>4, <2>1, OnceFacts, ServicedMoves
<1> QED
  BY <1>1, <1>2, <1>5, QuietStep

LEMMA NwkForgetsOnce ==
    ASSUME ApsInv, ApsInv', OnceInv, NEW n \in nwk, NwkForgets(n)
    PROVE  OnceInv'
<1>1. /\ ~ n.live /\ UNCHANGED <<sent, dedup, indicated, forgotten, delayed, tx>>
      /\ OnAir(n.frame) \/ UNCHANGED frames
      /\ nwk' = nwk \ {n}
  BY DEF NwkForgets, callVars, peerVars
<1>2. /\ \A t : AirMoves(t, nwk, frames, frames')
      /\ \A m \in frames' : m \in frames \/ m.ttl = MaxDelay
  BY <1>1, OnAirMoves
<1>3. ASSUME NEW t \in DOMAIN sent, ~ Exempt(t, sent, delayed', forgotten)
      PROVE  EndTurn(t, tx.pending, nwk, tx'.pending, nwk')
  <2>1. MidTurn(t, tx.pending, nwk, tx.pending, nwk')
    <3>1. ~ Exempt(t, sent, delayed, forgotten)
      BY <1>1, <1>3
    <3>2. (\A k \in nwk' : \E m \in nwk : m.frame = k.frame)
          /\ (\A m \in nwk : m.live /\ m.frame.t = t => m \in nwk')
      BY <1>1
    <3> QED
      BY <3>1, <3>2, Untouched
  <2>2. t \in DOMAIN tx.pending => tx.pending[t].state # "Ready"
    BY OnceFacts DEF NoneReady
  <2> QED
    BY <1>1, <2>1, <2>2 DEF MidTurn, EndTurn
<1> QED
  BY <1>1, <1>2, <1>3, QuietStep

\* Entries that stay as they are or get ready in a turn.
LEMMA ReadiedMoves ==
    ASSUME ApsInv, OnceInv, NEW Q, DOMAIN Q \subseteq DOMAIN tx.pending,
           \A t \in DOMAIN Q :
               ~ Exempt(t, sent, delayed, forgotten) =>
                     \/ Q[t] = tx.pending[t]
                     \/ Q[t].state = "Ready" /\ Onward(tx.pending[t], Q[t])
    PROVE  \A t \in DOMAIN sent :
               ~ Exempt(t, sent, delayed, forgotten) => MidTurn(t, tx.pending, nwk, Q, nwk)
<1> SUFFICES ASSUME NEW t \in DOMAIN sent, ~ Exempt(t, sent, delayed, forgotten)
             PROVE  MidTurn(t, tx.pending, nwk, Q, nwk)
  OBVIOUS
<1>1. CASE t \notin DOMAIN Q
  BY <1>1 DEF MidTurn
<1>2. CASE t \in DOMAIN Q /\ Q[t] = tx.pending[t]
  BY <1>2, Untouched
<1>3. CASE t \in DOMAIN Q /\ Q[t] # tx.pending[t]
  BY <1>3 DEF MidTurn
<1> QED
  BY <1>1, <1>2, <1>3

LEMMA RevisedParts ==
    ASSUME NEW P, NEW s, s = [Inside EXCEPT !.pending = P]
    PROVE  IsSender(s) /\ s.pending = P /\ s.handed = {}
<1>1. s = [pending |-> P, requests |-> tx.requests, confirms |-> tx.confirms, handed |-> {}]
  BY DEF Inside
<1>2. \A u : u = [pending |-> P, requests |-> tx.requests, confirms |-> tx.confirms, handed |-> {}]
                => IsSender(u) /\ u.pending = P /\ u.handed = {}
  BY DEF IsSender
<1> QED
  BY <1>1, <1>2

LEMMA CommitReservationOnce ==
    ASSUME ApsInv, ApsInv', OnceInv, NEW peer, CommitReservation(peer)
    PROVE  OnceInv'
<1> DEFINE parked == In(Inside, "CounterPending")
           P == [t \in DOMAIN tx.pending |->
                    IF t \in parked THEN [tx.pending[t] EXCEPT !.state = "Ready"]
                    ELSE tx.pending[t]]
           s == [Inside EXCEPT
                    !.pending = [t \in DOMAIN @ |->
                                    IF t \in parked THEN [@[t] EXCEPT !.state = "Ready"]
                                    ELSE @[t]]]
<1>1. /\ \E built \in [In(s, "Ready") -> {"Ok", "CounterPending"}] : Settle(Service(s, built), nwk)
      /\ UNCHANGED <<sent, dedup, indicated, forgotten, delayed, frames>>
  BY DEF CommitReservation, callVars, peerVars
<1>2. s = [Inside EXCEPT !.pending = P]
  <2>1. Inside.pending = tx.pending
    BY DEF Inside
  <2> HIDE DEF parked
  <2> QED
    BY <2>1
<1>3. \A t \in parked : tx.pending[t].state = "CounterPending"
  BY DEF In, Inside
<1>4. ASSUME NEW t \in DOMAIN tx.pending
      PROVE  /\ P[t] \in Pending
             /\ \/ P[t] = tx.pending[t]
                \/ P[t].state = "Ready" /\ Onward(tx.pending[t], P[t])
  <2> DEFINE p == tx.pending[t]
             q == [p EXCEPT !.state = "Ready"]
  <2>1. p \in Pending
    BY OnceFacts DEF PendingEntries
  <2>2. (t \in parked => P[t] = q /\ p.state = "CounterPending") /\ (t \notin parked => P[t] = p)
    BY <1>3
  <2> HIDE DEF P, parked, p
  <2>3. q \in Pending /\ q.state = "Ready"
    BY <2>1 DEF Pending, States
  <2>4. t \in parked => Onward(p, q)
    BY <2>1, <2>2, OnwardState DEF States
  <2> HIDE DEF q
  <2> QED
    BY <2>1, <2>2, <2>3, <2>4 DEF p
<1>5. DOMAIN P = DOMAIN tx.pending
  OBVIOUS
<1> HIDE DEF s, P, parked
<1>6. IsSender(s) /\ s.pending = P /\ PendingEntries(P)
  BY <1>2, <1>4, <1>5, RevisedParts DEF PendingEntries
<1>7. PICK built \in [In(s, "Ready") -> {"Ok", "CounterPending"}] : Settle(Service(s, built), nwk)
  BY <1>1
<1>8. built \in [In(s, "Ready") -> {"Ok", "CounterPending", "NoKey"}]
  BY <1>7
<1>9. \A t \in DOMAIN sent :
          ~ Exempt(t, sent, delayed, forgotten) => MidTurn(t, tx.pending, nwk, P, nwk)
  BY <1>4, <1>5, ReadiedMoves
<1>10. ASSUME NEW t \in DOMAIN sent, ~ Exempt(t, sent, delayed', forgotten)
       PROVE  EndTurn(t, tx.pending, nwk, tx'.pending, nwk') /\ AirMoves(t, nwk, frames, frames')
  <2>1. AirMoves(t, nwk, frames, frames')
    BY <1>1 DEF AirMoves
  <2>2. MidTurn(t, tx.pending, nwk, s.pending, nwk)
    BY <1>1, <1>6, <1>9, <1>10
  <2> QED
    BY <1>6, <1>7, <1>8, <2>1, <2>2, OnceFacts, ServedMoves
<1> QED
  BY <1>1, <1>10, QuietStep

\* Requests whose counter could not be reserved are late from now on.
LEMMA AbortReservationOnce ==
    ASSUME ApsInv, ApsInv', OnceInv, NEW peer, AbortReservation(peer)
    PROVE  OnceInv'
<1> DEFINE parked == {t \in In(Inside, "CounterPending") : PeerOf(t) = peer}
           P == [t \in DOMAIN tx.pending |->
                    IF t \in parked
                    THEN [tx.pending[t] EXCEPT !.state = "Deferred", !.timer = RetryDelay]
                    ELSE tx.pending[t]]
<1>1. /\ tx' = [tx EXCEPT !.pending = P] /\ delayed' = delayed \cup {t[1] : t \in parked}
      /\ UNCHANGED <<sent, dedup, indicated, forgotten, nwk, frames>>
  BY DEF AbortReservation, callVars, peerVars
<1>2. DOMAIN P = DOMAIN tx.pending /\ \A t \in DOMAIN P : t \notin parked => P[t] = tx.pending[t]
  OBVIOUS
<1> HIDE DEF P, parked
<1>3. tx = [pending |-> tx.pending, requests |-> tx.requests, confirms |-> tx.confirms]
  BY DEF ApsInv, SenderInv, Outside
<1>4. tx'.pending = P
  BY <1>1, <1>3
<1>5. ASSUME NEW t \in DOMAIN sent, ~ Exempt(t, sent, delayed', forgotten)
      PROVE  EndTurn(t, tx.pending, nwk, tx'.pending, nwk') /\ AirMoves(t, nwk, frames, frames')
  <2>1. ~ Exempt(t, sent, delayed, forgotten) /\ t \notin parked
    BY <1>1, <1>5 DEF Exempt
  <2>2. MidTurn(t, tx.pending, nwk, P, nwk)
    BY <1>2, <2>1, Untouched
  <2>3. t \in DOMAIN P => P[t].state # "Ready"
    BY <1>2, <2>1, OnceFacts DEF NoneReady
  <2> QED
    BY <1>1, <1>4, <2>2, <2>3 DEF MidTurn, EndTurn, AirMoves
<1> QED
  BY <1>1, <1>5, QuietStep

LEMMA ReceiveAckOnce ==
    ASSUME ApsInv, ApsInv', OnceInv, NEW m \in acks, ReceiveAck(m)
    PROVE  OnceInv'
<1>0. /\ UNCHANGED <<sent, dedup, indicated, forgotten, delayed, frames>>
      /\ \A t : AirMoves(t, nwk, frames, frames')
  BY DEF ReceiveAck, callVars, peerVars, AirMoves
<1>1. /\ PendingEntries(tx.pending) /\ DOMAIN tx.pending \subseteq DOMAIN sent
      /\ IsSender(Inside) /\ Inside.pending = tx.pending /\ Inside.handed = {}
      /\ NoneReady(tx.pending)
  BY OnceFacts
<1>2. ASSUME UNCHANGED <<tx, nwk>>, NEW t \in DOMAIN sent, ~ Exempt(t, sent, delayed, forgotten)
      PROVE  EndTurn(t, tx.pending, nwk, tx'.pending, nwk')
  <2>1. MidTurn(t, tx.pending, nwk, tx.pending, nwk)
    BY <1>2, Untouched
  <2> QED
    BY <1>1, <1>2, <2>1 DEF MidTurn, EndTurn, NoneReady
<1>3. ASSUME NEW t0 \in DOMAIN tx.pending, tx.pending[t0].blocks # 0,
             SettleServiced(With(Inside, t0, [tx.pending[t0] EXCEPT !.block = @ + 1,
                                                                    !.retries = 0,
                                                                    !.state = "Ready"]), nwk),
             NEW t \in DOMAIN sent, ~ Exempt(t, sent, delayed, forgotten)
      PROVE  EndTurn(t, tx.pending, nwk, tx'.pending, nwk')
  <2> DEFINE p == tx.pending[t0]
             k == p.block + 1
             p1 == [p EXCEPT !.block = k, !.retries = 0, !.state = "Ready"]
             s == Inside
             v == With(s, t0, p1)
  <2>0. t0 \in DOMAIN s.pending /\ IsSender(s) /\ s.pending = tx.pending
    BY <1>1
  <2>1. SettleServiced(v, nwk) /\ p \in Pending /\ Exempt(t0, sent, delayed, forgotten)
    <3>1. SettleServiced(v, nwk)
      BY <1>3
    <3>2. Entry(t0, p, sent)
      BY DEF ApsInv, SenderInv, SlotsInv
    <3> QED
      BY <1>3, <3>1, <3>2 DEF Exempt, Entry
  <2> HIDE DEF p, s
  <2>2. k \in Nat /\ 0 \in 0 .. MaxRetries
    BY <2>1, ConstantsType DEF Pending
  <2> HIDE DEF k
  <2>3. p1 \in Pending
    BY <2>1, <2>2 DEF Pending, States
  <2> HIDE DEF p1
  <2>4. /\ IsSender(v) /\ DOMAIN v.pending = DOMAIN tx.pending /\ v.pending[t0] = p1
        /\ \A u \in DOMAIN tx.pending : u # t0 => v.pending[u] = tx.pending[u]
    BY <2>0, WithParts
  <2> HIDE DEF v
  <2>5. PendingEntries(v.pending)
    BY <1>1, <2>3, <2>4 DEF PendingEntries
  <2>6. \A u \in DOMAIN sent :
            ~ Exempt(u, sent, delayed, forgotten) => MidTurn(u, tx.pending, nwk, v.pending, nwk)
    BY <2>1, <2>4, ReadiedMoves
  <2> QED
    BY <1>1, <1>3, <2>1, <2>4, <2>5, <2>6, ServicedMoves
<1>4. ASSUME NEW t0 \in DOMAIN tx.pending, Settle(Complete(Inside, t0, "SUCCESS"), nwk),
             NEW t \in DOMAIN sent, ~ Exempt(t, sent, delayed, forgotten)
      PROVE  EndTurn(t, tx.pending, nwk, tx'.pending, nwk')
  <2> DEFINE s == Inside
             v == Complete(s, t0, "SUCCESS")
  <2>0. Settle(v, nwk) /\ IsSender(s) /\ s.pending = tx.pending /\ s.handed = {}
    BY <1>1, <1>4
  <2> HIDE DEF s
  <2>1. /\ v.handed = {} /\ DOMAIN v.pending = DOMAIN tx.pending \ {t0}
        /\ \A u \in DOMAIN tx.pending : u # t0 => v.pending[u] = tx.pending[u]
    BY <2>0, CompleteParts
  <2> HIDE DEF v
  <2>2. MidTurn(t, tx.pending, nwk, v.pending, nwk)
    BY <1>4, <2>1, ReadiedMoves
  <2>3. t \in DOMAIN v.pending => v.pending[t].state # "Ready"
    BY <1>1, <2>1 DEF NoneReady
  <2> QED
    BY <2>0, <2>1, <2>2, <2>3, SettledMoves
<1>5. \/ UNCHANGED <<tx, nwk>>
      \/ \E t \in DOMAIN tx.pending :
            /\ tx.pending[t].blocks # 0
            /\ SettleServiced(With(Inside, t, [tx.pending[t] EXCEPT !.block = @ + 1,
                                                                    !.retries = 0,
                                                                    !.state = "Ready"]), nwk)
      \/ \E t \in DOMAIN tx.pending : Settle(Complete(Inside, t, "SUCCESS"), nwk)
  BY Zenon DEF ReceiveAck
<1>6. \A t \in DOMAIN sent : ~ Exempt(t, sent, delayed, forgotten)
                                 => EndTurn(t, tx.pending, nwk, tx'.pending, nwk')
  BY <1>2, <1>3, <1>4, <1>5
<1> QED
  BY <1>0, <1>6, QuietStep

LEMMA PollTimersOnce ==
    ASSUME ApsInv, ApsInv', OnceInv, PollTimers
    PROVE  OnceInv'
<1> DEFINE due == {t \in DOMAIN tx.pending : Due(t)}
           failed == {t \in due : GivesUp(tx.pending[t])}
           P == [t \in DOMAIN tx.pending |->
                    IF t \in due \ failed THEN Rearm(tx.pending[t]) ELSE tx.pending[t]]
           s == [Inside EXCEPT !.pending = [t \in DOMAIN @ |->
                                               IF t \in due \ failed THEN Rearm(@[t]) ELSE @[t]]]
           status == "NO_ACK"
           v == CompleteAll(s, failed, status)
<1>1. /\ SettleServiced(v, nwk)
      /\ UNCHANGED <<sent, dedup, indicated, forgotten, delayed, frames>>
  BY DEF PollTimers, callVars, peerVars
<1>2. /\ \A t \in due : tx.pending[t].state \in {"Deferred", "AwaitingAck"}
      /\ \A t \in due \ failed : ~ GivesUp(tx.pending[t])
  BY DEF Due
<1> HIDE DEF due, failed
<1>3. s = [Inside EXCEPT !.pending = P]
  <2>1. Inside.pending = tx.pending
    BY DEF Inside
  <2> QED
    BY <2>1
<1>4. ASSUME NEW t \in DOMAIN tx.pending
      PROVE  /\ P[t] \in Pending
             /\ ~ Exempt(t, sent, delayed, forgotten) =>
                   \/ P[t] = tx.pending[t]
                   \/ P[t].state = "Ready" /\ Onward(tx.pending[t], P[t])
  <2> DEFINE p == tx.pending[t]
             q == [p EXCEPT !.retries = p.retries + 1, !.state = "Ready"]
  <2>1. Entry(t, p, sent) /\ p \in Pending
    BY DEF ApsInv, SenderInv, SlotsInv, Entry
  <2>2. (t \in due \ failed => P[t] = Rearm(p)) /\ (t \notin due \ failed => P[t] = p)
    OBVIOUS
  <2>3. t \in due \ failed => ~ GivesUp(p) /\ p.state \in {"Deferred", "AwaitingAck"}
    BY <1>2
  <2>4. ~ Exempt(t, sent, delayed, forgotten) => p.state # "Deferred"
    BY OnceFacts DEF Punctual
  <2> HIDE DEF P, p
  <2>5. CASE t \notin due \ failed
    BY <2>1, <2>2, <2>5 DEF p
  <2>6. CASE t \in due \ failed
    <3>1. Rearm(p) \in Pending
      BY <2>1, <2>3, <2>6, RearmedEntry DEF Entry
    <3>2. ASSUME p.state = "AwaitingAck"
          PROVE  Rearm(p).state = "Ready" /\ Onward(p, Rearm(p))
      <4>1. p.retries < MaxRetries
        BY <2>1, <2>3, <2>6, <3>2, ConstantsType DEF GivesUp, Pending
      <4>2. Rearm(p) = q
        <5> DEFINE k == p.retries + 1
        <5>1. Rearm(p) = [p EXCEPT !.state = "Ready", !.retries = k]
          BY <2>1, <3>2 DEF Rearm, Pending
        <5> HIDE DEF k
        <5>2. [p EXCEPT !.state = "Ready", !.retries = k] = [p EXCEPT !.retries = k, !.state = "Ready"]
          BY <2>1 DEF Pending
        <5> QED
          BY <5>1, <5>2 DEF k
      <4> QED
        BY <2>1, <4>1, <4>2, OnwardRetry
    <3> QED
      BY <2>2, <2>3, <2>4, <2>6, <3>1, <3>2 DEF p
  <2> QED
    BY <2>5, <2>6
<1>5. DOMAIN P = DOMAIN tx.pending
  OBVIOUS
<1> HIDE DEF s, P, status
<1>6. IsSender(s) /\ s.pending = P
  BY <1>3, RevisedParts
<1>7. IsSender(v) /\ v.pending = [t \in DOMAIN P \ failed |-> P[t]]
  BY <1>6, CompleteAllParts
<1> HIDE DEF v
<1>8. DOMAIN v.pending \subseteq DOMAIN tx.pending /\ \A t \in DOMAIN v.pending : v.pending[t] = P[t]
  BY <1>5, <1>7
<1>9. PendingEntries(v.pending)
  BY <1>4, <1>8 DEF PendingEntries
<1>10. \A t \in DOMAIN sent :
          ~ Exempt(t, sent, delayed, forgotten) => MidTurn(t, tx.pending, nwk, v.pending, nwk)
  BY <1>4, <1>8, ReadiedMoves
<1>11. ASSUME NEW t \in DOMAIN sent, ~ Exempt(t, sent, delayed', forgotten)
       PROVE  EndTurn(t, tx.pending, nwk, tx'.pending, nwk') /\ AirMoves(t, nwk, frames, frames')
  <2>1. AirMoves(t, nwk, frames, frames')
    BY <1>1 DEF AirMoves
  <2>2. MidTurn(t, tx.pending, nwk, v.pending, nwk)
    BY <1>1, <1>10, <1>11
  <2> QED
    BY <1>1, <1>7, <1>9, <2>1, <2>2, OnceFacts, ServicedMoves
<1> QED
  BY <1>1, <1>11, QuietStep

LEMMA LeaveOnce ==
    ASSUME ApsInv, ApsInv', OnceInv, Leave
    PROVE  OnceInv'
<1> DEFINE D == DOMAIN tx.pending
           s == Inside
           status == "ILLEGAL_REQUEST"
           c == CompleteAll(s, D, status)
<1>1. /\ tx' = [Outside(c) EXCEPT !.requests = <<>>]
      /\ nwk' = {Orphan(n) : n \in nwk}
      /\ UNCHANGED <<sent, dedup, indicated, forgotten, delayed, frames>>
  BY DEF Leave, callVars, peerVars
<1>2. IsSender(s) /\ s.pending = tx.pending
  BY OnceFacts
<1> HIDE DEF s, status
<1>3. c.pending = [t \in DOMAIN s.pending \ D |-> s.pending[t]]
  BY <1>2, CompleteAllParts
<1>4. DOMAIN c.pending = {}
  BY <1>2, <1>3
<1> HIDE DEF c
<1>5. tx'.pending = c.pending
  BY <1>1 DEF Outside
<1>6. \A n \in nwk' : \E k \in nwk : n = [frame |-> k.frame, live |-> FALSE]
  BY <1>1 DEF Orphan
<1>7. ASSUME NEW t
      PROVE  EndTurn(t, tx.pending, nwk, tx'.pending, nwk') /\ AirMoves(t, nwk, frames, frames')
  <2>1. ASSUME NEW n \in nwk', n.frame.t = t
        PROVE  \E k \in nwk : k.frame.t = t
    <3>1. PICK k \in nwk : n = [frame |-> k.frame, live |-> FALSE]
      BY <1>6
    <3>2. k.frame.t = t
      BY <2>1, <3>1
    <3> QED
      BY <3>2
  <2> QED
    BY <1>1, <1>4, <1>5, <2>1 DEF EndTurn, AirMoves
<1> QED
  BY <1>1, <1>7, QuietStep

\* Steps that leave the entries and the frames held alone.
LEMMA PassiveOnce ==
    ASSUME ApsInv, ApsInv', OnceInv, frames' \subseteq frames,
           UNCHANGED <<sent, tx, nwk, dedup, indicated, forgotten, delayed>>
    PROVE  OnceInv'
<1>1. ASSUME NEW t \in DOMAIN sent, ~ Exempt(t, sent, delayed', forgotten)
      PROVE  EndTurn(t, tx.pending, nwk, tx'.pending, nwk') /\ AirMoves(t, nwk, frames, frames')
  <2>1. MidTurn(t, tx.pending, nwk, tx.pending, nwk)
    BY <1>1, Untouched
  <2>2. t \in DOMAIN tx.pending => tx.pending[t].state # "Ready"
    BY OnceFacts DEF NoneReady
  <2> QED
    BY <2>1, <2>2 DEF MidTurn, EndTurn, AirMoves
<1> QED
  BY <1>1, QuietStep

-----------------------------------------------------------------------------
(* Requests and time                                                       *)

\* The entries P after data_request: those of the transmissions ts are new.
Requested(P, ts, new) ==
    /\ DOMAIN P = DOMAIN tx.pending \cup ts
    /\ \A t \in DOMAIN tx.pending : t \notin ts => P[t] = tx.pending[t]
    /\ \A t \in ts : P[t] = new

\* data_request, entry by entry.
LEMMA RequestedParts ==
    ASSUME NEW id, NEW ts, NEW c, NEW ack, NEW blocks, NEW n,
           NEW s, s = TrackRequest(QueueTx(Inside, ts, c, ack, blocks), id, n)
    PROVE  /\ IsSender(s)
           /\ Requested(s.pending, ts,
                  [counter |-> c, ack |-> ack, blocks |-> blocks, block |-> 0, retries |-> 0,
                   deferrals |-> 0, state |-> "Ready", timer |-> 0])
<1> DEFINE entry == [counter |-> c, ack |-> ack, blocks |-> blocks, block |-> 0, retries |-> 0,
                     deferrals |-> 0, state |-> "Ready", timer |-> 0]
           request == [remaining |-> n, status |-> "SUCCESS"]
           P == [t \in DOMAIN tx.pending \cup ts |-> IF t \in ts THEN entry ELSE tx.pending[t]]
           q == QueueTx(Inside, ts, c, ack, blocks)
           R == [i \in DOMAIN q.requests \cup {id} |-> IF i = id THEN request ELSE q.requests[i]]
<1>1. /\ DOMAIN P = DOMAIN tx.pending \cup ts
      /\ \A t \in DOMAIN tx.pending : t \notin ts => P[t] = tx.pending[t]
      /\ \A t \in ts : P[t] = entry
  <2> HIDE DEF entry
  <2> QED
    OBVIOUS
<1>2. q = [Inside EXCEPT !.pending = P]
  <2>1. Inside.pending = tx.pending
    BY DEF Inside
  <2> QED
    BY <2>1 DEF QueueTx
<1>3. s = [q EXCEPT !.requests = R]
  <2> HIDE DEF q
  <2> QED
    BY DEF TrackRequest, q
<1> HIDE DEF P, q, R, entry
<1>4. IsSender(q) /\ q.pending = P
  BY <1>2, RevisedParts
<1>5. s = [pending |-> q.pending, requests |-> R, confirms |-> q.confirms, handed |-> q.handed]
  BY <1>3, <1>4 DEF IsSender
<1>6. \A u : u = [pending |-> q.pending, requests |-> R, confirms |-> q.confirms, handed |-> q.handed]
                => IsSender(u) /\ u.pending = q.pending
  BY DEF IsSender
<1>7. IsSender(s) /\ s.pending = P
  BY <1>4, <1>5, <1>6
<1>8. Requested(s.pending, ts, entry)
  BY <1>1, <1>7 DEF Requested
<1> QED
  BY <1>7, <1>8 DEF entry

\* A new transmission was never indicated; it starts in time.
LEMMA RequestOnce ==
    ASSUME ApsInv, ApsInv', OnceInv, NEW wanted, wanted \subseteq Bindings, NEW queued,
           NEW ack \in BOOLEAN, NEW blocks \in BlockCounts,
           DataRequest(wanted, queued, ack, blocks)
    PROVE  OnceInv'
<1> DEFINE id == calls + 1
           ts == {id} \X queued
           c == calls % CounterModulus
           s == TrackRequest(QueueTx(Inside, ts, c, ack, blocks), id, Cardinality(queued))
<1>1. /\ IF queued = {} THEN UNCHANGED <<tx, nwk>> ELSE SettleServiced(s, nwk)
      /\ UNCHANGED <<frames, dedup, indicated, forgotten, delayed>>
  BY DEF DataRequest, peerVars
<1>2. calls \in 0 .. MaxRequests /\ SentInv(sent, calls)
      /\ calls' \in 0 .. MaxRequests /\ SentInv(sent', calls')
  BY DEF ApsInv, ScopeInv
<1>3. /\ DOMAIN sent' = DOMAIN sent \cup ts /\ \A t \in DOMAIN sent : sent'[t] = sent[t]
      /\ \A t \in DOMAIN sent : t \notin ts
  <2> DEFINE S1 == sent'
  <2>1. /\ calls' = calls + 1 /\ calls' \in 0 .. MaxRequests
        /\ DOMAIN S1 = DOMAIN sent \cup ts
        /\ Extends(sent, S1)
        /\ \A t \in ts : S1[t] = [ack |-> ack, blocks |-> blocks]
        /\ SentInv(S1, calls')
        /\ \A t \in DOMAIN sent : t[1] # id
    BY <1>2, DataRequestSent
  <2>2. \A t \in ts : t[1] = id
    OBVIOUS
  <2> HIDE DEF ts, id
  <2> QED
    BY <2>1, <2>2 DEF Extends
<1>4. \A t \in DOMAIN sent' : t \in Transmissions
  BY <1>2, SentIds
<1>5. /\ PendingEntries(tx.pending) /\ NoneReady(tx.pending) /\ DOMAIN tx.pending \subseteq DOMAIN sent
  BY OnceFacts
<1>6. PendingEntries(tx'.pending)
  BY DEF ApsInv, SenderInv, SlotsInv, Entry, PendingEntries
<1>7. /\ \A t \in DOMAIN sent : ~ Exempt(t, sent, delayed, forgotten) =>
             EndTurn(t, tx.pending, nwk, tx'.pending, nwk')
      /\ \A t \in ts \cap DOMAIN tx'.pending : Punctual(t, tx'.pending[t], nwk')
  <2>1. CASE queued = {}
    <3>1. ts = {} /\ UNCHANGED <<tx, nwk>>
      BY <1>1, <2>1
    <3>2. \A t \in DOMAIN sent :
              ~ Exempt(t, sent, delayed, forgotten) => MidTurn(t, tx.pending, nwk, tx.pending, nwk)
      BY Untouched
    <3> QED
      BY <1>5, <3>1, <3>2 DEF MidTurn, EndTurn, NoneReady
  <2>2. CASE queued # {}
    <3>1. SettleServiced(s, nwk)
      BY <1>1, <2>2
    <3> DEFINE entry == [counter |-> c, ack |-> ack, blocks |-> blocks, block |-> 0, retries |-> 0,
                         deferrals |-> 0, state |-> "Ready", timer |-> 0]
    <3>2. c \in 0 .. CounterModulus - 1
      BY <1>2, ConstantsType, CounterType
    <3>3. blocks \in Nat /\ 0 \in 0 .. MaxRetries /\ 0 \in 0 .. MaxDeferrals /\ "Ready" \in States
      BY ConstantsType DEF States
    <3> HIDE DEF c, id, ts
    <3>4. entry \in Pending /\ entry.state = "Ready"
      BY <3>2, <3>3 DEF Pending
    <3>5. /\ IsSender(s) /\ DOMAIN s.pending = DOMAIN tx.pending \cup ts
          /\ \A t \in DOMAIN tx.pending : t \notin ts => s.pending[t] = tx.pending[t]
          /\ \A t \in ts : s.pending[t] = entry
      <4> DEFINE n == Cardinality(queued)
      <4>1. s = TrackRequest(QueueTx(Inside, ts, c, ack, blocks), id, n)
        OBVIOUS
      <4> HIDE DEF s, n
      <4>2. IsSender(s) /\ Requested(s.pending, ts, entry)
        BY <4>1, RequestedParts
      <4> HIDE DEF entry
      <4> QED
        BY <4>2 DEF Requested
    <3> HIDE DEF s, entry
    <3>6. PendingEntries(s.pending)
      BY <1>5, <3>4, <3>5 DEF PendingEntries
    <3>7. \A t \in DOMAIN sent :
              ~ Exempt(t, sent, delayed, forgotten) => MidTurn(t, tx.pending, nwk, s.pending, nwk)
      <4> SUFFICES ASSUME NEW t \in DOMAIN sent, ~ Exempt(t, sent, delayed, forgotten)
                   PROVE  MidTurn(t, tx.pending, nwk, s.pending, nwk)
        OBVIOUS
      <4>1. t \in DOMAIN s.pending => t \in DOMAIN tx.pending /\ s.pending[t] = tx.pending[t]
        BY <1>3, <3>5
      <4> QED
        BY <4>1, Untouched
    <3>8. /\ \A t : MidTurn(t, tx.pending, nwk, s.pending, nwk)
                       => EndTurn(t, tx.pending, nwk, tx'.pending, nwk')
          /\ \A t \in DOMAIN tx'.pending :
                /\ t \in DOMAIN s.pending =>
                      s.pending[t].state = "Ready" \/ Punctual(t, s.pending[t], nwk)
                => Punctual(t, tx'.pending[t], nwk')
      BY <1>5, <3>1, <3>5, <3>6, ServicedMoves
    <3>9. \A t \in ts : s.pending[t].state = "Ready"
      BY <3>4, <3>5
    <3> QED
      BY <3>7, <3>8, <3>9
  <2> QED
    BY <2>1, <2>2
<1> HIDE DEF s, c, ts, id
<1>8. /\ indicated' \in [Transmissions -> 0 .. 2]
      /\ \A t \in Transmissions \ DOMAIN sent' : indicated'[t] = 0
      /\ \A q \in Peers : \A d \in DOMAIN dedup'[q] : dedup'[q][d] \in Nat
      /\ \A m \in frames' : m.ttl \in 0 .. MaxDelay
  BY <1>1, <1>3 DEF OnceInv
<1>9. ASSUME NEW t \in DOMAIN sent', ~ Exempt(t, sent', delayed', forgotten')
      PROVE  TimedInv(t, indicated'[t], Life(dedup'[PeerOf(t)], CounterOf(t)), tx'.pending, nwk', frames')
  <2> DEFINE l == Life(dedup[PeerOf(t)], CounterOf(t))
  <2>1. CASE t \in DOMAIN sent
    <3>1. ~ Exempt(t, sent, delayed, forgotten)
      BY <1>1, <1>3, <1>9, <2>1 DEF Exempt
    <3>2. TimedInv(t, indicated[t], l, tx.pending, nwk, frames) /\ l \in Nat
      BY <2>1, <3>1, OnceFacts DEF OnceInv
    <3>3. EndTurn(t, tx.pending, nwk, tx'.pending, nwk') /\ AirMoves(t, nwk, frames, frames')
      BY <1>1, <1>7, <2>1, <3>1 DEF AirMoves
    <3> HIDE DEF l
    <3>4. TimedInv(t, indicated[t], l, tx'.pending, nwk', frames')
      BY <1>5, <1>6, <3>2, <3>3, TimedMoves
    <3> QED
      BY <1>1, <3>4 DEF l
  <2>2. CASE t \notin DOMAIN sent
    <3>1. t \in ts /\ indicated'[t] = 0
      BY <1>1, <1>3, <1>4, <2>2 DEF OnceInv
    <3>2. t \in DOMAIN tx'.pending => Punctual(t, tx'.pending[t], nwk')
      BY <1>7, <3>1
    <3> QED
      BY <3>1, <3>2 DEF TimedInv
  <2> QED
    BY <2>1, <2>2
<1> QED
  BY <1>8, <1>9 DEF OnceInv

\* The deadline of an entry that waits for its acknowledgement comes nearer.
LEMMA NearerEntry ==
    ASSUME NEW p \in Pending, p.state = "AwaitingAck", p.timer # 0, NEW q, q = Nearer(p)
    PROVE  /\ q.state = "AwaitingAck" /\ q.timer = p.timer - 1
           /\ Causes(q) => Causes(p) /\ Reach(q) = Reach(p) - 1 /\ Reach(p) \in Nat /\ Reach(p) > 0
<1> DEFINE k == Down(p.timer)
<1>1. k = p.timer - 1 /\ k \in Nat /\ p.timer \in Nat /\ p.retries \in 0 .. MaxRetries
  BY DEF Down, Pending
<1>2. q = [p EXCEPT !.timer = k]
  BY DEF Nearer
<1> HIDE DEF k
<1>3. q.state = "AwaitingAck" /\ q.timer = k /\ q.retries = p.retries
  BY <1>2 DEF Pending
<1>4. ASSUME Causes(q)
      PROVE  Causes(p) /\ Reach(q) = Reach(p) - 1 /\ Reach(p) \in Nat /\ Reach(p) > 0
  <2> DEFINE j == MaxRetries - p.retries - 1
  <2>1. p.retries < MaxRetries
    BY <1>3, <1>4 DEF Causes
  <2>2. j \in Nat /\ MaxDelay \in Nat
    BY <1>1, <2>1, ConstantsType
  <2>3. Reach(q) = MaxDelay + (k + Waits(j)) /\ Reach(p) = MaxDelay + (p.timer + Waits(j))
    BY <1>3 DEF Reach
  <2> HIDE DEF j
  <2>4. Waits(j) \in Nat
    BY <2>2, WaitsFacts
  <2> QED
    BY <1>1, <2>1, <2>2, <2>3, <2>4 DEF Causes
<1> QED
  BY <1>1, <1>3, <1>4

\* A tick takes as much off a record as off what it has to outlive.
LEMMA TickOnce ==
    ASSUME ApsInv, ApsInv', OnceInv, Tick
    PROVE  OnceInv'
<1>1. /\ \A m \in frames : m.ttl > 0
      /\ \A t \in DOMAIN tx.pending : ~ Due(t) /\ tx.pending[t].state # "CounterPending"
      /\ tx' = [tx EXCEPT !.pending = [t \in DOMAIN @ |-> Nearer(@[t])]]
      /\ frames' = Aged(frames)
      /\ dedup' = [q \in Peers |->
                      [c \in {d \in DOMAIN dedup[q] : dedup[q][d] > 1} |-> dedup[q][c] - 1]]
      /\ delayed' = delayed \cup {n.frame.t[1] : n \in nwk}
      /\ UNCHANGED <<sent, nwk, indicated, forgotten>>
  BY DEF Tick, callVars
<1>2. DOMAIN tx'.pending = DOMAIN tx.pending
      /\ \A t \in DOMAIN tx.pending : tx'.pending[t] = Nearer(tx.pending[t])
  <2> DEFINE P == [t \in DOMAIN tx.pending |-> Nearer(tx.pending[t])]
  <2>1. tx' = [tx EXCEPT !.pending = P]
    BY <1>1
  <2>2. DOMAIN P = DOMAIN tx.pending /\ \A t \in DOMAIN P : P[t] = Nearer(tx.pending[t])
    OBVIOUS
  <2> HIDE DEF P
  <2>3. tx = [pending |-> tx.pending, requests |-> tx.requests, confirms |-> tx.confirms]
    BY DEF ApsInv, SenderInv, Outside
  <2>4. tx'.pending = P
    BY <2>1, <2>3
  <2> QED
    BY <2>2, <2>4
<1>3. \A x \in frames' : \E m \in frames : x.frame = m.frame /\ x.ttl = m.ttl - 1
  <2> SUFFICES ASSUME NEW m \in frames
               PROVE  LET x == [m EXCEPT !.ttl = @ - 1]
                      IN  x.frame = m.frame /\ x.ttl = m.ttl - 1
    BY <1>1 DEF Aged
  <2>1. m = [frame |-> m.frame, ttl |-> m.ttl]
    BY DEF ApsInv, ScopeInv, FramesInv
  <2> QED
    BY <2>1
<1>4. \A m \in frames : m.ttl \in 0 .. MaxDelay /\ m.ttl > 0
  BY <1>1 DEF OnceInv
<1>5. \A x \in frames' : x.ttl \in 0 .. MaxDelay
  BY <1>3, <1>4, ConstantsType
<1>6. \A q \in Peers : \A c \in DOMAIN dedup'[q] :
          c \in DOMAIN dedup[q] /\ dedup[q][c] > 1 /\ dedup'[q][c] = dedup[q][c] - 1
  BY <1>1
<1>7. \A q \in Peers : \A c \in DOMAIN dedup[q] : dedup[q][c] \in Nat
  BY DEF OnceInv
<1>8. \A q \in Peers : \A c \in DOMAIN dedup'[q] : dedup'[q][c] \in Nat
  BY <1>6, <1>7
<1>9. \A q \in Peers : \A c : /\ Life(dedup[q], c) \in Nat
                              /\ Life(dedup[q], c) > 1 => Life(dedup'[q], c) = Life(dedup[q], c) - 1
  <2> SUFFICES ASSUME NEW q \in Peers, NEW c
               PROVE  /\ Life(dedup[q], c) \in Nat
                      /\ Life(dedup[q], c) > 1 => Life(dedup'[q], c) = Life(dedup[q], c) - 1
    OBVIOUS
  <2>1. DOMAIN dedup'[q] = {d \in DOMAIN dedup[q] : dedup[q][d] > 1}
    BY <1>1
  <2> QED
    BY <1>6, <1>7, <2>1 DEF Life
<1>10. ASSUME NEW t \in DOMAIN sent, ~ Exempt(t, sent, delayed', forgotten)
       PROVE  TimedInv(t, indicated[t], Life(dedup'[PeerOf(t)], CounterOf(t)), tx'.pending, nwk, frames')
  <2> DEFINE l == Life(dedup[PeerOf(t)], CounterOf(t))
             l1 == Life(dedup'[PeerOf(t)], CounterOf(t))
  <2>1. ~ Exempt(t, sent, delayed, forgotten) /\ \A n \in nwk : n.frame.t # t
    BY <1>1, <1>10 DEF Exempt
  <2>2. TimedInv(t, indicated[t], l, tx.pending, nwk, frames)
    BY <2>1 DEF OnceInv
  <2>3. l \in Nat /\ (l > 1 => l1 = l - 1)
    BY <1>9, OnceFacts
  <2> HIDE DEF l, l1
  <2>4. ASSUME t \in DOMAIN tx.pending
        PROVE  /\ tx.pending[t] \in Pending
               /\ tx.pending[t].state = "AwaitingAck" /\ tx.pending[t].timer # 0
               /\ tx.pending[t].timer <= AckWait
    <3>1. tx.pending[t] \in Pending /\ tx.pending[t].state # "Ready"
      BY <2>4, OnceFacts DEF PendingEntries, NoneReady
    <3>2. Punctual(t, tx.pending[t], nwk)
      BY <2>2, <2>4 DEF TimedInv
    <3>3. tx.pending[t].state \in States
      BY <3>1 DEF Pending
    <3>4. tx.pending[t].state = "AwaitingAck"
      BY <1>1, <2>1, <2>4, <3>1, <3>2, <3>3 DEF Punctual, States
    <3> QED
      BY <1>1, <2>4, <3>1, <3>2, <3>4 DEF Punctual, Due
  <2>5. ASSUME t \in DOMAIN tx.pending
        PROVE  /\ Punctual(t, tx'.pending[t], nwk)
               /\ Causes(tx'.pending[t]) =>
                     /\ Causes(tx.pending[t]) /\ Reach(tx'.pending[t]) = Reach(tx.pending[t]) - 1
                     /\ Reach(tx.pending[t]) \in Nat /\ Reach(tx.pending[t]) > 0
    <3> DEFINE p == tx.pending[t]
               q == tx'.pending[t]
    <3>1. p \in Pending /\ p.state = "AwaitingAck" /\ p.timer # 0 /\ p.timer <= AckWait /\ q = Nearer(p)
      BY <1>2, <2>4, <2>5
    <3> HIDE DEF p, q
    <3>2. /\ q.state = "AwaitingAck" /\ q.timer = p.timer - 1
          /\ Causes(q) => Causes(p) /\ Reach(q) = Reach(p) - 1 /\ Reach(p) \in Nat /\ Reach(p) > 0
      BY <3>1, NearerEntry
    <3>3. q.timer <= AckWait
      BY <3>1, <3>2, ConstantsType DEF Pending
    <3> QED
      BY <3>2, <3>3 DEF Punctual, p, q
  <2>6. ASSUME Covered(t, l, tx.pending, nwk, frames)
        PROVE  Covered(t, l1, tx'.pending, nwk, frames')
    <3>1. ASSUME NEW x \in frames', x.frame.t = t
          PROVE  l1 > x.ttl
      <4>1. PICK m \in frames : x.frame = m.frame /\ x.ttl = m.ttl - 1
        BY <1>3
      <4>2. l > m.ttl
        BY <2>6, <3>1, <4>1 DEF Covered
      <4>3. m.ttl \in Nat /\ m.ttl > 0
        BY <1>4, ConstantsType
      <4> QED
        BY <2>3, <4>1, <4>2, <4>3
    <3>2. ASSUME t \in DOMAIN tx'.pending, Causes(tx'.pending[t])
          PROVE  l1 > Reach(tx'.pending[t])
      <4>1. t \in DOMAIN tx.pending
        BY <1>2, <3>2
      <4>2. /\ Causes(tx.pending[t]) /\ Reach(tx'.pending[t]) = Reach(tx.pending[t]) - 1
            /\ Reach(tx.pending[t]) \in Nat /\ Reach(tx.pending[t]) > 0
        BY <2>5, <3>2, <4>1
      <4>3. l > Reach(tx.pending[t])
        BY <2>6, <4>1, <4>2 DEF Covered
      <4> QED
        BY <2>3, <4>2, <4>3
    <3> QED
      BY <2>1, <3>1, <3>2 DEF Covered
  <2>7. TimedInv(t, indicated[t], l1, tx'.pending, nwk, frames')
    BY <1>2, <2>2, <2>5, <2>6 DEF TimedInv
  <2> QED
    BY <2>7 DEF l1
<1>11. /\ indicated' \in [Transmissions -> 0 .. 2]
       /\ \A t \in Transmissions \ DOMAIN sent' : indicated'[t] = 0
  BY <1>1 DEF OnceInv
<1> QED
  BY <1>1, <1>5, <1>8, <1>10, <1>11 DEF OnceInv

-----------------------------------------------------------------------------
(* Indications                                                             *)

\* A frame is under way for less than the acknowledgement is awaited.
Prompt == MaxDelay < AckWait

\* What check_and_record makes of the table.
LEMMA RecordedTimes ==
    ASSUME NEW table, NEW counter, NEW new \in Recorded(table, counter)
    PROVE  /\ counter \in DOMAIN new /\ new[counter] = RejectionTimeout
           /\ \A c \in DOMAIN new : c # counter => c \in DOMAIN table /\ new[c] = table[c]
<1> DEFINE kept(gone) == [c \in (DOMAIN table \ gone) \cup {counter} |->
                             IF c = counter THEN RejectionTimeout ELSE table[c]]
<1>1. \E gone : new = kept(gone)
  BY Zenon DEF Recorded
<1>2. PICK gone : new = kept(gone)
  BY <1>1
<1> QED
  BY <1>2

\* A new record outlives every copy of a punctual transmission.
LEMMA FreshRecord ==
    ASSUME Prompt, NEW t, NEW P, PendingEntries(P), NEW W, NEW F,
           t \in DOMAIN P => Punctual(t, P[t], W),
           \A m \in F : m.ttl \in 0 .. MaxDelay
    PROVE  Covered(t, RejectionTimeout, P, W, F) /\ RejectionTimeout \in Nat
<1>1. /\ MaxDelay \in Nat /\ AckWait \in Nat /\ MaxRetries \in Nat /\ MaxDelay < AckWait
  BY ConstantsType DEF Prompt
<1>2. Waits(MaxRetries) \in Nat /\ RejectionTimeout = Waits(MaxRetries) + AckWait
  BY <1>1, WaitsFacts
<1>3. RejectionTimeout \in Nat /\ RejectionTimeout > MaxDelay
  BY <1>1, <1>2
<1>4. \A m \in F : RejectionTimeout > m.ttl
  BY <1>1, <1>3
<1>5. ASSUME t \in DOMAIN P, Causes(P[t])
      PROVE  RejectionTimeout > Reach(P[t])
  <2>1. P[t] \in Pending /\ Punctual(t, P[t], W)
    BY <1>5 DEF PendingEntries
  <2>2. Reach(P[t]) \in Nat /\ Reach(P[t]) < RejectionTimeout
    BY <1>1, <1>5, <2>1, EntryTimes
  <2> QED
    BY <1>3, <2>2
<1> QED
  BY <1>3, <1>4, <1>5 DEF Covered

\* Fewer copies are under way.
LEMMA FewerCopies ==
    ASSUME NEW t, NEW k, NEW l, NEW P, NEW W, NEW F, TimedInv(t, k, l, P, W, F),
           NEW F1, F1 \subseteq F
    PROVE  TimedInv(t, k, l, P, W, F1)
  BY DEF TimedInv, Covered

LEMMA HandleDataOnce ==
    ASSUME Prompt, ApsInv, OnceInv, NEW m \in frames, frames' = frames \ {m},
           m.frame.blocks = 0, HandleData(m.frame),
           UNCHANGED <<sent, tx, nwk, delayed>>
    PROVE  OnceInv'
<1> DEFINE f == m.frame
           peer == PeerOf(f.t)
<1>1. /\ \E table \in Recorded(dedup[peer], f.counter) : dedup' = [dedup EXCEPT ![peer] = table]
      /\ forgotten' = forgotten \cup
            {t \in DOMAIN sent : /\ PeerOf(t) = peer
                                 /\ CounterOf(t) \in DOMAIN dedup[peer] \ DOMAIN dedup'[peer]}
      /\ IF f.counter \in DOMAIN dedup[peer] THEN UNCHANGED indicated ELSE Indicate(f.t)
  BY DEF HandleData
<1>2. f.t \in DOMAIN sent /\ f.counter = CounterOf(f.t) /\ m.ttl \in 0 .. MaxDelay
  BY DEF ApsInv, ScopeInv, FramesInv, FrameOk, OnceInv
<1>3. /\ PendingEntries(tx.pending)
      /\ \A t \in DOMAIN sent : t \in Transmissions /\ PeerOf(t) \in Peers /\ indicated[t] \in 0 .. 2
  BY OnceFacts
<1>4. /\ indicated \in [Transmissions -> 0 .. 2] /\ DOMAIN dedup = Peers
      /\ \A x \in frames' : x.ttl \in 0 .. MaxDelay
  BY DEF OnceInv, ApsInv, ScopeInv
<1>5. PICK table \in Recorded(dedup[peer], f.counter) : dedup' = [dedup EXCEPT ![peer] = table]
  BY <1>1
<1>6. /\ dedup'[peer] = table /\ \A q \in Peers : q # peer => dedup'[q] = dedup[q]
      /\ peer \in Peers
  BY <1>2, <1>3, <1>4, <1>5
<1>7. /\ f.counter \in DOMAIN table /\ table[f.counter] = RejectionTimeout
      /\ \A c \in DOMAIN table : c # f.counter =>
            c \in DOMAIN dedup[peer] /\ table[c] = dedup[peer][c]
  BY <1>5, RecordedTimes
<1>8. RejectionTimeout \in Nat
  BY WaitsFacts, ConstantsType
<1>9. \A q \in Peers : \A c \in DOMAIN dedup'[q] : dedup'[q][c] \in Nat
  BY <1>6, <1>7, <1>8 DEF OnceInv
<1>10. /\ indicated' \in [Transmissions -> 0 .. 2]
       /\ \A t \in Transmissions : t # f.t => indicated'[t] = indicated[t]
       /\ f.counter \in DOMAIN dedup[peer] => indicated'[f.t] = indicated[f.t]
       /\ indicated[f.t] = 0 => indicated'[f.t] <= 1
  <2> DEFINE k == IF indicated[f.t] < 2 THEN indicated[f.t] + 1 ELSE 2
  <2>1. k \in 0 .. 2 /\ (indicated[f.t] = 0 => k <= 1) /\ f.t \in Transmissions
    BY <1>2, <1>3
  <2>2. CASE f.counter \in DOMAIN dedup[peer]
    BY <1>1, <1>4, <2>1, <2>2
  <2>3. CASE f.counter \notin DOMAIN dedup[peer]
    <3>1. indicated' = [indicated EXCEPT ![f.t] = k]
      BY <1>1, <2>3 DEF Indicate
    <3> HIDE DEF k, peer, f
    <3> QED
      BY <1>4, <2>1, <2>3, <3>1
  <2> QED
    BY <2>2, <2>3
<1> HIDE DEF f, peer
<1>11. ASSUME NEW t \in DOMAIN sent, ~ Exempt(t, sent, delayed, forgotten')
       PROVE  TimedInv(t, indicated'[t], Life(dedup'[PeerOf(t)], CounterOf(t)), tx.pending, nwk, frames')
  <2> DEFINE l == Life(dedup[PeerOf(t)], CounterOf(t))
             l1 == Life(dedup'[PeerOf(t)], CounterOf(t))
  <2>1. ~ Exempt(t, sent, delayed, forgotten) /\ t \notin forgotten'
    BY <1>1, <1>11 DEF Exempt
  <2>2. TimedInv(t, indicated[t], l, tx.pending, nwk, frames)
    BY <2>1 DEF OnceInv
  <2>3. TimedInv(t, indicated[t], l, tx.pending, nwk, frames')
    BY <2>2, FewerCopies
  <2>4. PeerOf(t) \in Peers /\ t \in Transmissions
    BY <1>3
  <2>5. CASE PeerOf(t) # peer \/ CounterOf(t) # f.counter
    <3>1. t # f.t
      BY <1>2, <2>5 DEF peer
    <3>2. l1 = l
      <4>1. CASE PeerOf(t) # peer
        BY <1>6, <2>4, <4>1
      <4>2. CASE PeerOf(t) = peer /\ CounterOf(t) # f.counter
        <5>1. CounterOf(t) \in DOMAIN dedup[peer] <=> CounterOf(t) \in DOMAIN table
          BY <1>1, <1>6, <1>7, <2>1, <4>2
        <5> QED
          BY <1>6, <1>7, <4>2, <5>1 DEF Life
      <4> QED
        BY <2>5, <4>1, <4>2
    <3> HIDE DEF l, l1
    <3>3. TimedInv(t, indicated'[t], l1, tx.pending, nwk, frames')
      BY <1>10, <2>3, <2>4, <3>1, <3>2
    <3> QED
      BY <3>3 DEF l1
  <2>6. CASE PeerOf(t) = peer /\ CounterOf(t) = f.counter
    <3>1. l1 = RejectionTimeout
      BY <1>6, <1>7, <2>6 DEF Life
    <3>2. t \in DOMAIN tx.pending => Punctual(t, tx.pending[t], nwk)
      BY <2>2 DEF TimedInv
    <3>3. Covered(t, l1, tx.pending, nwk, frames')
      BY <1>3, <1>4, <3>1, <3>2, FreshRecord
    <3>4. indicated'[t] <= 1
      <4>1. CASE t # f.t \/ f.counter \in DOMAIN dedup[peer]
        BY <1>10, <2>2, <2>4, <4>1 DEF TimedInv
      <4>2. CASE t = f.t /\ f.counter \notin DOMAIN dedup[peer]
        <5>1. l = 0
          BY <2>6, <4>2 DEF Life
        <5>2. ~ (indicated[t] > 0)
          BY <1>2, <2>2, <4>2, <5>1, ConstantsType DEF TimedInv, Covered, f
        <5>3. indicated[t] = 0
          BY <1>3, <5>2
        <5> QED
          BY <1>10, <4>2, <5>3
      <4> QED
        BY <4>1, <4>2
    <3> HIDE DEF l1
    <3>5. TimedInv(t, indicated'[t], l1, tx.pending, nwk, frames')
      BY <3>2, <3>3, <3>4 DEF TimedInv
    <3> QED
      BY <3>5 DEF l1
  <2> QED
    BY <2>5, <2>6
<1>12. \A t \in Transmissions \ DOMAIN sent : indicated'[t] = 0
  BY <1>2, <1>10 DEF OnceInv
<1> QED
  BY <1>4, <1>9, <1>10, <1>11, <1>12 DEF OnceInv

\* Only fragmented transmissions are indicated by handle_fragment.
LEMMA HandleFragmentOnce ==
    ASSUME ApsInv, OnceInv, NEW m \in frames, frames' = frames \ {m},
           m.frame.blocks # 0, HandleFragment(m.frame),
           UNCHANGED <<sent, tx, nwk, delayed>>
    PROVE  OnceInv'
<1> DEFINE f == m.frame
<1>1. UNCHANGED <<dedup, forgotten>> /\ (Indicate(f.t) \/ UNCHANGED indicated)
  BY DEF HandleFragment
<1>2. f.t \in DOMAIN sent /\ sent[f.t].blocks # 0 /\ f.t \in Transmissions
      /\ \A t \in DOMAIN sent : t \in Transmissions
  <2>1. FrameOk(f, sent)
    BY DEF ApsInv, ScopeInv, FramesInv
  <2> QED
    BY <2>1, OnceFacts DEF FrameOk
<1>3. indicated \in [Transmissions -> 0 .. 2]
  BY DEF OnceInv
<1>4. /\ indicated' \in [Transmissions -> 0 .. 2]
      /\ \A t \in Transmissions : t # f.t => indicated'[t] = indicated[t]
  <2>1. indicated' \in [Transmissions -> 0 .. 2]
    BY <1>1, <1>2, <1>3, Indicated
  <2> DEFINE k == IF indicated[f.t] < 2 THEN indicated[f.t] + 1 ELSE 2
  <2>2. CASE Indicate(f.t)
    <3>1. indicated' = [indicated EXCEPT ![f.t] = k]
      BY <2>2 DEF Indicate
    <3> HIDE DEF k, f
    <3> QED
      BY <1>3, <2>1, <3>1
  <2> QED
    BY <1>1, <2>1, <2>2
<1>5. ASSUME NEW t \in DOMAIN sent, ~ Exempt(t, sent, delayed, forgotten)
      PROVE  TimedInv(t, indicated'[t], Life(dedup[PeerOf(t)], CounterOf(t)), tx.pending, nwk, frames')
  <2> DEFINE l == Life(dedup[PeerOf(t)], CounterOf(t))
  <2>1. t # f.t
    BY <1>2, <1>5 DEF Exempt
  <2>2. TimedInv(t, indicated[t], l, tx.pending, nwk, frames)
    BY <1>5 DEF OnceInv
  <2> HIDE DEF l
  <2>3. TimedInv(t, indicated[t], l, tx.pending, nwk, frames')
    BY <2>2, FewerCopies
  <2>4. indicated'[t] = indicated[t]
    BY <1>2, <1>4, <2>1
  <2> QED
    BY <2>3, <2>4 DEF l
<1>6. /\ \A t \in Transmissions \ DOMAIN sent' : indicated'[t] = 0
      /\ \A q \in Peers : \A c \in DOMAIN dedup'[q] : dedup'[q][c] \in Nat
      /\ \A x \in frames' : x.ttl \in 0 .. MaxDelay
  BY <1>1, <1>2, <1>4 DEF OnceInv
<1> QED
  BY <1>1, <1>4, <1>5, <1>6 DEF OnceInv

LEMMA OnceInit ==
    ASSUME Init
    PROVE  OnceInv
<1> DEFINE e == <<>>
<1>1. DOMAIN e = {} /\ dedup = [q \in Peers |-> e] /\ sent = e
  BY DEF Init
<1> HIDE DEF e
<1>2. frames = {} /\ indicated = [t \in Transmissions |-> 0]
  BY DEF Init
<1> QED
  BY <1>1, <1>2 DEF OnceInv

LEMMA OnceStep ==
    ASSUME Prompt, ApsInv, ApsInv', OnceInv, [Next]_vars
    PROVE  OnceInv'
<1>1. CASE Request
  <2>1. PICK wanted \in {{b} : b \in Bindings} \cup {Bindings} :
            \E queued \in SUBSET wanted, ack \in BOOLEAN, blocks \in BlockCounts :
                DataRequest(wanted, queued, ack, blocks)
    BY <1>1 DEF Request
  <2>2. wanted \subseteq Bindings
    BY <2>1
  <2> QED
    BY <2>1, <2>2, RequestOnce
<1>2. ASSUME NEW n \in nwk,
             \/ NwkAnswers(n)
             \/ \E accepted \in BOOLEAN : NwkRefuses(n, accepted)
             \/ NwkForgets(n)
      PROVE  OnceInv'
  BY <1>2, NwkSendsOnce, NwkFailsOnce, NwkRefusesOnce, NwkForgetsOnce DEF NwkAnswers
<1>3. ASSUME NEW q \in Peers, CommitReservation(q) \/ AbortReservation(q)
      PROVE  OnceInv'
  BY <1>3, CommitReservationOnce, AbortReservationOnce
<1>4. ASSUME NEW m \in acks, ReceiveAck(m)
      PROVE  OnceInv'
  BY <1>4, ReceiveAckOnce
<1>5. ASSUME NEW m \in frames, ReceiveFrame(m)
      PROVE  OnceInv'
  <2>1. /\ frames' = frames \ {m} /\ UNCHANGED <<sent, tx, nwk, delayed>>
        /\ IF m.frame.blocks = 0 THEN HandleData(m.frame) ELSE HandleFragment(m.frame)
    BY <1>5 DEF ReceiveFrame, callVars
  <2>2. CASE m.frame.blocks = 0
    BY <2>1, <2>2, HandleDataOnce
  <2>3. CASE m.frame.blocks # 0
    BY <2>1, <2>3, HandleFragmentOnce
  <2> QED
    BY <2>2, <2>3
<1>6. CASE PollTimers
  BY <1>6, PollTimersOnce
<1>7. CASE Leave
  BY <1>7, LeaveOnce
<1>8. CASE Tick
  BY <1>8, TickOnce
<1>9. ASSUME \/ \E m \in frames : LoseFrame(m)
             \/ \E m \in acks : LoseAck(m)
             \/ Join
             \/ UNCHANGED vars
      PROVE  OnceInv'
  <2>1. frames' \subseteq frames /\ UNCHANGED <<sent, tx, nwk, dedup, indicated, forgotten, delayed>>
    BY <1>9 DEF LoseFrame, LoseAck, Join, vars, callVars, peerVars
  <2> QED
    BY <2>1, PassiveOnce
<1> QED
  BY <1>1, <1>2, <1>3, <1>4, <1>5, <1>6, <1>7, <1>8, <1>9 DEF Next

\* A transmission that no layer below held, refused or deferred, and whose
\* record no full table gave up, is indicated at most once, however often it
\* is retried and in whatever order its copies arrive: the duplicate
\* rejection record that the first copy leaves lives until the last copy
\* that the retries of expire_acks and on_nwk_data_confirm can cause has
\* arrived. A frame is under way for less than one acknowledgement timeout.
THEOREM IndicatedAtMostOnce ==
    ASSUME Prompt
    PROVE  Spec => []IndicatedOnce
<1>1. Init => OnceInv
  BY OnceInit
<1>2. ApsInv /\ ApsInv' /\ OnceInv /\ [Next]_vars => OnceInv'
  BY OnceStep
<1>3. OnceInv => IndicatedOnce
  BY DEF OnceInv, IndicatedOnce, Exempt, TimedInv
<1> QED
  BY <1>1, <1>2, <1>3, ApsInvInductive, PTL DEF Spec
============================================================================
