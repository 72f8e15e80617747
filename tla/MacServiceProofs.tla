-------------------------- MODULE MacServiceProofs --------------------------
(***************************************************************************)
(* Proofs about MacService, for every number of requests, associations,    *)
(* retries and faults and every size of the queues: type correctness, that *)
(* a request is confirmed once, and that success means received.           *)
(***************************************************************************)
EXTENDS MacService, FunctionTheorems, FiniteSetTheorems, WellFoundedInduction, TLAPS

-----------------------------------------------------------------------------
(* The inductive invariant of one service                                  *)

\* How often a sequence has an element of X.
Positions(s, X) == {i \in DOMAIN s : s[i] \in X}
CountIn(s, X) == Cardinality(Positions(s, X))

Seqs == 0 .. SeqModulus - 1
Acks == [kind : {"Ack"}, seq : Seqs, pending : BOOLEAN]
Associating == {"AssocRequest", "AssocDataRequest"}

\* Frames that may be transmitted, and transactions that may be held, when
\* the ids in D were given to requests.
Sendable(D) ==
    {f \in Frames : /\ f.kind # "DeferredData"
                    /\ IF f.kind \in Associating THEN f.id = NoId ELSE f.id \in D}

Holdable(D) == {f \in Frames : f.kind \notin Associating /\ f.id \in D}

OnAir(D) == Acks \cup Sendable(D)

InFlight(D) ==
    [frame : Sendable(D), waiting : {"tx", "ack"}, retries : 0 .. MaxRetries]

IsService(m) ==
    m = [dsn |-> m.dsn, queue |-> m.queue, flight |-> m.flight,
         actions |-> m.actions, indirect |-> m.indirect, assoc |-> m.assoc,
         short |-> m.short, pan |-> m.pan, confirms |-> m.confirms,
         taken |-> m.taken]

ServiceInv(m, D) ==
    /\ IsService(m)
    /\ m.dsn \in Seqs
    /\ m.queue \in Seq(Sendable(D)) /\ Len(m.queue) <= QueueCapacity
    /\ m.indirect \in Seq(Holdable(D)) /\ Len(m.indirect) <= IndirectCapacity
    /\ m.flight = NoFlight \/ m.flight \in InFlight(D)
    /\ m.actions \in Seq(OnAir(D))
    /\ m.assoc \in Phases
    /\ m.confirms \in [Ids -> Seq(Statuses)]

-----------------------------------------------------------------------------
(* The state: some steps are two, so the invariant is about a record s of  *)
(* the values of the variables.                                            *)

Now == [mac |-> mac, rx |-> rx, calls |-> calls, issued |-> issued,
        attempts |-> attempts, received |-> received]

IssuedBy(s, n) == {id \in DOMAIN s.issued : s.issued[id].node = n}

ScopeInv(s) ==
    /\ s.calls \in 0 .. MaxIds
    /\ DOMAIN s.issued \subseteq 1 .. s.calls
    /\ \A id \in DOMAIN s.issued : s.issued[id].node \in Nodes
    /\ s.received \subseteq DOMAIN s.issued
    /\ s.attempts \in 0 .. MaxAttempts
    /\ DOMAIN s.mac = Nodes /\ DOMAIN s.rx = Nodes
    /\ s.mac[Child].indirect = <<>> /\ s.mac[Parent].assoc = "None"

\* How often a request is held by, or was reported by, the service.
ById(id) == {f \in Frames : f.id = id}
FlightCount(m, X) == IF m.flight # NoFlight /\ m.flight.frame \in X THEN 1 ELSE 0
PlacesOf(m, id) ==
    CountIn(m.queue, ById(id)) + CountIn(m.indirect, ById(id)) + Len(m.confirms[id])
    + FlightCount(m, ById(id)) + IF id \in m.taken THEN 1 ELSE 0

PlacesInv(m, J) == \A id \in Ids : PlacesOf(m, id) = IF id \in J THEN 1 ELSE 0

MacInv(s) ==
    /\ ScopeInv(s)
    /\ \A n \in Nodes : /\ ServiceInv(s.mac[n], DOMAIN s.issued)
                        /\ PlacesInv(s.mac[n], IssuedBy(s, n))
                        /\ s.rx[n] \in Seq(OnAir(DOMAIN s.issued))

-----------------------------------------------------------------------------
(* Sequence numbers, as long as none comes again                           *)

NoWrap == SeqModulus > MaxIds + 2 * MaxAttempts

\* The frames the service holds that have a sequence number.
Built(m) ==
    Range(m.queue)
    \cup {f \in Range(m.indirect) : f.kind # "DeferredData"}
    \cup (IF m.flight = NoFlight THEN {} ELSE {m.flight.frame})

\* What n transmits and what of it has not been received.
Air(s, n) == Range(s.mac[n].actions) \cup Range(s.rx[Peer(n)])

FramesOf(s, n) == Built(s.mac[n]) \cup {f \in Air(s, n) : f.kind # "Ack"}
AcksTo(s, n) == {a \in Air(s, Peer(n)) : a.kind = "Ack"}

\* Sequence numbers that the association may still use: one for each request
\* on its way, to fetch the response to it.
Requests == {f \in Frames : f.kind = "AssocRequest"}
Reserved(m) ==
    CountIn(m.queue, Requests) + FlightCount(m, Requests)
    + IF m.assoc = "WaitingResponseTime" THEN 1 ELSE 0

BudgetInv(s) ==
    \A n \in Nodes : s.mac[n].dsn + Reserved(s.mac[n]) <= s.calls + 2 * s.attempts

\* A sequence number tells the request, and an acknowledgement on its way
\* that the request was received.
SeqInv(s) ==
    \A n \in Nodes :
        /\ \A f \in FramesOf(s, n) \cup AcksTo(s, n) : f.seq < s.mac[n].dsn
        /\ \A f, g \in FramesOf(s, n) : f.seq = g.seq => f.id = g.id
        /\ \A a \in AcksTo(s, n), f \in FramesOf(s, n) :
               a.seq = f.seq /\ f.id # NoId => f.id \in s.received

\* Frames say what was asked for, and only the child asks to associate.
FrameInv(s) ==
    \A n \in Nodes : \A f \in FramesOf(s, n) :
        /\ f.id # NoId /\ s.issued[f.id].ack => f.ack
        /\ n = Parent => f.kind # "AssocRequest"

SuccessInv(s) ==
    \A n \in Nodes, id \in DOMAIN s.issued :
        s.issued[id].ack /\ "Success" \in Range(s.mac[n].confirms[id]) => id \in s.received

ReceiptInv(s) ==
    MacInv(s) /\ BudgetInv(s) /\ SeqInv(s) /\ FrameInv(s) /\ SuccessInv(s)

-----------------------------------------------------------------------------
(* The operators on sequences                                              *)

LEMMA CountType ==
    ASSUME NEW S, NEW s \in Seq(S), NEW X
    PROVE  IsFiniteSet(Positions(s, X)) /\ CountIn(s, X) \in Nat
<1>1. Positions(s, X) \in SUBSET (1 .. Len(s)) /\ Len(s) \in Nat
  BY DEF Positions
<1>2. IsFiniteSet(Positions(s, X))
  <2>1. IsFiniteSet(1 .. Len(s))
    BY <1>1, FS_Interval
  <2> QED
    BY <1>1, <2>1, FS_Subset
<1> QED
  BY <1>2, FS_CardinalityType DEF CountIn

LEMMA CountEmpty ==
    ASSUME NEW X
    PROVE  CountIn(<<>>, X) = 0
<1>1. Positions(<<>>, X) = {}
  BY DEF Positions
<1> QED
  BY <1>1, FS_EmptySet DEF CountIn

LEMMA CountAppend ==
    ASSUME NEW S, NEW s \in Seq(S), NEW e \in S, NEW X
    PROVE  CountIn(Append(s, e), X) = CountIn(s, X) + IF e \in X THEN 1 ELSE 0
<1> DEFINE n == Len(s) + 1
           P == Positions(s, X)
<1>1. /\ IsFiniteSet(P) /\ Cardinality(P) \in Nat
      /\ n \notin P
  <2>1. IsFiniteSet(P) /\ Cardinality(P) \in Nat
    BY CountType DEF CountIn
  <2>2. n \notin P
    BY DEF Positions
  <2> QED
    BY <2>1, <2>2
<1>2. CASE e \in X
  <2>1. Positions(Append(s, e), X) = P \cup {n}
    BY <1>2 DEF Positions
  <2> QED
    BY <1>1, <1>2, <2>1, FS_AddElement DEF CountIn
<1>3. CASE e \notin X
  <2>1. Positions(Append(s, e), X) = P
    BY <1>3 DEF Positions
  <2> QED
    BY <1>1, <1>3, <2>1 DEF CountIn
<1> QED
  BY <1>2, <1>3

\* r has the elements of s but the one at i: g tells where each one was.
Without(r, s, i, g) ==
    /\ g \in [DOMAIN r -> DOMAIN s \ {i}]
    /\ \A j \in DOMAIN r : r[j] = s[g[j]]
    /\ \A j, k \in DOMAIN r : g[j] = g[k] => j = k
    /\ \A k \in DOMAIN s \ {i} : \E j \in DOMAIN r : g[j] = k

LEMMA CountWithout ==
    ASSUME NEW S, NEW s \in Seq(S), NEW i \in DOMAIN s, NEW X,
           NEW r, NEW g, Without(r, s, i, g)
    PROVE  CountIn(r, X) = CountIn(s, X) - IF s[i] \in X THEN 1 ELSE 0
<1> DEFINE A == Positions(r, X)
           B == Positions(s, X) \ {i}
           h == [j \in A |-> g[j]]
<1>1. h \in [A -> B]
  BY DEF Positions, Without
<1>2. \A j, k \in A : h[j] = h[k] => j = k
  BY DEF Positions, Without
<1>3. \A k \in B : \E j \in A : h[j] = k
  BY DEF Positions, Without
<1>4. IsFiniteSet(Positions(s, X)) /\ Cardinality(Positions(s, X)) \in Nat
  BY CountType DEF CountIn
<1>5. IsFiniteSet(B) /\ Cardinality(B) = IF i \in Positions(s, X)
                                          THEN Cardinality(Positions(s, X)) - 1
                                          ELSE Cardinality(Positions(s, X))
  BY <1>4, FS_RemoveElement
<1> HIDE DEF h, A, B
<1>6. h \in Bijection(A, B) /\ h \in Injection(A, B)
  BY <1>1, <1>2, <1>3, Fun_IsBij, Fun_BijectionProperties
<1>7. IsFiniteSet(A)
  BY <1>5, <1>6, FS_Injection
<1>8. Cardinality(B) = Cardinality(A)
  BY <1>6, <1>7, FS_Bijection DEF ExistsBijection
<1> QED
  BY <1>4, <1>5, <1>8 DEF A, CountIn, Positions

LEMMA CountTail ==
    ASSUME NEW S, NEW s \in Seq(S), s # <<>>, NEW X
    PROVE  /\ Tail(s) \in Seq(S) /\ Len(Tail(s)) = Len(s) - 1 /\ Head(s) \in S
           /\ CountIn(Tail(s), X) = CountIn(s, X) - IF Head(s) \in X THEN 1 ELSE 0
<1> DEFINE g == [j \in DOMAIN Tail(s) |-> j + 1]
<1>1. /\ Tail(s) \in Seq(S) /\ Len(Tail(s)) = Len(s) - 1 /\ Head(s) = s[1]
      /\ 1 \in DOMAIN s /\ DOMAIN s = 1 .. Len(s) /\ DOMAIN Tail(s) = 1 .. Len(s) - 1
      /\ \A j \in DOMAIN Tail(s) : Tail(s)[j] = s[j + 1]
      /\ Len(s) \in Nat
  OBVIOUS
<1>2. g \in [DOMAIN Tail(s) -> DOMAIN s \ {1}]
  BY <1>1
<1>3. \A k \in DOMAIN s \ {1} : k - 1 \in DOMAIN Tail(s) /\ g[k - 1] = k
  BY <1>1
<1>4. /\ \A j \in DOMAIN Tail(s) : Tail(s)[j] = s[g[j]]
      /\ \A j, k \in DOMAIN Tail(s) : g[j] = g[k] => j = k
  BY <1>1
<1>5. \A k \in DOMAIN s \ {1} : \E j \in DOMAIN Tail(s) : g[j] = k
  BY <1>3
<1>6. 1 \in DOMAIN s
  BY <1>1
<1> HIDE DEF g
<1>7. Without(Tail(s), s, 1, g)
  BY <1>2, <1>4, <1>5 DEF Without
<1>8. CountIn(Tail(s), X) = CountIn(s, X) - IF s[1] \in X THEN 1 ELSE 0
  BY <1>6, <1>7, CountWithout
<1> QED
  BY <1>1, <1>8

LEMMA SecondPart ==
    ASSUME NEW S, NEW a \in Seq(S), NEW b \in Seq(S),
           NEW j \in 1 .. Len(a) + Len(b), j > Len(a)
    PROVE  (a \o b)[j] = b[j - Len(a)]
  OBVIOUS

LEMMA CountRemoveAt ==
    ASSUME NEW S, NEW s \in Seq(S), NEW i \in DOMAIN s, NEW X
    PROVE  /\ RemoveAt(s, i) \in Seq(S) /\ Len(RemoveAt(s, i)) = Len(s) - 1
           /\ Range(RemoveAt(s, i)) \subseteq Range(s)
           /\ CountIn(RemoveAt(s, i), X) = CountIn(s, X) - IF s[i] \in X THEN 1 ELSE 0
<1> DEFINE r == RemoveAt(s, i)
           g == [j \in 1 .. Len(s) - 1 |-> IF j < i THEN j ELSE j + 1]
<1>1. i \in 1 .. Len(s) /\ Len(s) \in Nat /\ DOMAIN s = 1 .. Len(s)
  OBVIOUS
<1>2. /\ SubSeq(s, 1, i - 1) \in Seq(S) /\ Len(SubSeq(s, 1, i - 1)) = i - 1
      /\ \A j \in 1 .. i - 1 : SubSeq(s, 1, i - 1)[j] = s[j]
  BY <1>1
<1>3. /\ SubSeq(s, i + 1, Len(s)) \in Seq(S)
      /\ Len(SubSeq(s, i + 1, Len(s))) = Len(s) - i
      /\ \A j \in 1 .. Len(s) - i : SubSeq(s, i + 1, Len(s))[j] = s[i + j]
  BY <1>1
<1>4. /\ r \in Seq(S) /\ Len(r) = Len(s) - 1 /\ DOMAIN r = 1 .. Len(s) - 1
      /\ \A j \in 1 .. Len(s) - 1 : r[j] = s[g[j]]
  <2> DEFINE a == SubSeq(s, 1, i - 1)
             b == SubSeq(s, i + 1, Len(s))
  <2>1. r = a \o b
    BY DEF RemoveAt
  <2>2. a \in Seq(S) /\ b \in Seq(S) /\ Len(a) = i - 1 /\ Len(b) = Len(s) - i
    BY <1>2, <1>3
  <2>3. /\ \A j \in 1 .. i - 1 : a[j] = s[j]
        /\ \A j \in 1 .. Len(s) - i : b[j] = s[i + j]
    BY <1>2, <1>3
  <2> HIDE DEF a, b, r
  <2>4. r \in Seq(S) /\ Len(r) = Len(s) - 1
    <3>1. r \in Seq(S) /\ Len(r) = Len(a) + Len(b)
      BY <2>1, <2>2
    <3> QED
      BY <1>1, <2>2, <3>1
  <2>5. ASSUME NEW j \in 1 .. Len(s) - 1
        PROVE  r[j] = s[g[j]]
    <3>1. CASE j < i
      BY <1>1, <2>1, <2>2, <2>3, <3>1
    <3>2. CASE j >= i
      <4>1. /\ j - (i - 1) \in 1 .. Len(s) - i
            /\ j \in 1 .. Len(a) + Len(b) /\ j > Len(a) /\ j - Len(a) = j - (i - 1)
        BY <1>1, <2>2, <3>2
      <4>2. r[j] = b[j - (i - 1)]
        <5>1. r[j] = b[j - Len(a)]
          BY <2>1, <2>2, <4>1, SecondPart
        <5> QED
          BY <4>1, <5>1
      <4>3. b[j - (i - 1)] = s[i + (j - (i - 1))] /\ i + (j - (i - 1)) = j + 1
        BY <1>1, <2>3, <4>1
      <4> QED
        BY <1>1, <3>2, <4>2, <4>3
    <3> QED
      BY <1>1, <3>1, <3>2
  <2> QED
    BY <1>1, <2>4, <2>5
<1>5. g \in [1 .. Len(s) - 1 -> DOMAIN s \ {i}]
  BY <1>1
<1>6. \A j, k \in 1 .. Len(s) - 1 : g[j] = g[k] => j = k
  BY <1>1
<1>7. ASSUME NEW k \in DOMAIN s \ {i}
      PROVE  \E j \in 1 .. Len(s) - 1 : g[j] = k
  <2>1. CASE k < i
    BY <1>1, <2>1
  <2>2. CASE k > i
    <3>1. k - 1 \in 1 .. Len(s) - 1 /\ g[k - 1] = k
      BY <1>1, <2>2
    <3> QED
      BY <3>1
  <2> QED
    BY <1>1, <2>1, <2>2
<1> HIDE DEF r, g
<1>8. CountIn(r, X) = CountIn(s, X) - IF s[i] \in X THEN 1 ELSE 0
  <2>1. Without(r, s, i, g)
    BY <1>4, <1>5, <1>6, <1>7 DEF Without
  <2> QED
    BY <2>1, CountWithout
<1>9. Range(r) \subseteq Range(s)
  BY <1>4, <1>5 DEF Range
<1> QED
  BY <1>4, <1>8, <1>9 DEF r

LEMMA CountSwapRemove ==
    ASSUME NEW S, NEW s \in Seq(S), NEW i \in DOMAIN s, NEW X
    PROVE  /\ SwapRemove(s, i) \in Seq(S) /\ Len(SwapRemove(s, i)) = Len(s) - 1
           /\ Range(SwapRemove(s, i)) \subseteq Range(s)
           /\ CountIn(SwapRemove(s, i), X) = CountIn(s, X) - IF s[i] \in X THEN 1 ELSE 0
<1> DEFINE t == [s EXCEPT ![i] = s[Len(s)]]
           r == SwapRemove(s, i)
           g == [j \in 1 .. Len(s) - 1 |-> IF j = i THEN Len(s) ELSE j]
<1>1. i \in 1 .. Len(s) /\ Len(s) \in Nat /\ DOMAIN s = 1 .. Len(s) /\ Len(s) \in DOMAIN s
  OBVIOUS
<1>2. /\ t \in Seq(S) /\ Len(t) = Len(s)
      /\ \A j \in 1 .. Len(s) : t[j] = IF j = i THEN s[Len(s)] ELSE s[j]
  BY <1>1
<1>3. r = SubSeq(t, 1, Len(t) - 1)
  BY DEF SwapRemove, Front, Last
<1> HIDE DEF t, r
<1>4. /\ r \in Seq(S) /\ Len(r) = Len(s) - 1 /\ DOMAIN r = 1 .. Len(s) - 1
      /\ \A j \in 1 .. Len(s) - 1 : r[j] = t[j]
  BY <1>1, <1>2, <1>3
<1>5. \A j \in 1 .. Len(s) - 1 : r[j] = s[g[j]]
  BY <1>1, <1>2, <1>4
<1>6. g \in [1 .. Len(s) - 1 -> DOMAIN s \ {i}]
  BY <1>1
<1>7. \A j, k \in 1 .. Len(s) - 1 : g[j] = g[k] => j = k
  BY <1>1
<1>8. ASSUME NEW k \in DOMAIN s \ {i}
      PROVE  \E j \in 1 .. Len(s) - 1 : g[j] = k
  <2>1. CASE k < Len(s)
    BY <1>1, <2>1
  <2>2. CASE k = Len(s)
    <3>1. i \in 1 .. Len(s) - 1 /\ g[i] = k
      BY <1>1, <2>2
    <3> QED
      BY <3>1
  <2> QED
    BY <1>1, <2>1, <2>2
<1> HIDE DEF g
<1>9. CountIn(r, X) = CountIn(s, X) - IF s[i] \in X THEN 1 ELSE 0
  <2>1. Without(r, s, i, g)
    BY <1>4, <1>5, <1>6, <1>7, <1>8 DEF Without
  <2> QED
    BY <2>1, CountWithout
<1>10. Range(r) \subseteq Range(s)
  BY <1>4, <1>5, <1>6 DEF Range
<1> QED
  BY <1>4, <1>9, <1>10 DEF r

-----------------------------------------------------------------------------
(* Steps of one service                                                    *)

Once(m) == \A id \in Ids : PlacesOf(m, id) <= 1

Successes(m) == {id \in Ids : "Success" \in Range(m.confirms[id])}

\* The ids of frames of m that want no acknowledgement.
Unacknowledged(m) == {f.id : f \in {g \in Built(m) : ~g.ack}}

\* m becomes m1: nothing held is lost or reported twice, no frame is new,
\* only the acknowledgements in K are, and success is reported only for ids
\* in R and frames that want no acknowledgement.
Step(m, m1, D, K, R) ==
    /\ ServiceInv(m1, D)
    /\ \A id \in Ids : PlacesOf(m1, id) = PlacesOf(m, id)
    /\ m.indirect = <<>> => m1.indirect = <<>>
    /\ m.assoc = "None" => m1.assoc = "None"
    /\ m1.dsn = m.dsn
    /\ Reserved(m1) <= Reserved(m)
    /\ Built(m1) \subseteq Built(m)
    /\ Range(m1.actions) \subseteq Range(m.actions) \cup Built(m) \cup K
    /\ Successes(m1) \subseteq Successes(m) \cup Unacknowledged(m) \cup R

LEMMA ConstantsType ==
    /\ MaxIds \in Nat /\ MaxAttempts \in Nat /\ MaxRetries \in Nat /\ MaxFaults \in Nat
    /\ SeqModulus \in Nat /\ SeqModulus > 0
    /\ QueueCapacity \in Nat /\ IndirectCapacity \in Nat
    /\ Child # Parent
  BY MacServiceAssumption

LEMMA CountsType ==
    ASSUME NEW m, NEW D, ServiceInv(m, D), NEW X
    PROVE  /\ CountIn(m.queue, X) \in Nat /\ CountIn(m.indirect, X) \in Nat
           /\ FlightCount(m, X) \in {0, 1}
           /\ Reserved(m) \in Nat
           /\ \A id \in Ids : /\ Len(m.confirms[id]) \in Nat
                              /\ PlacesOf(m, id) \in Nat
<1>1. ASSUME NEW Y
      PROVE  /\ CountIn(m.queue, Y) \in Nat /\ CountIn(m.indirect, Y) \in Nat
             /\ FlightCount(m, Y) \in {0, 1}
  BY CountType DEF ServiceInv, FlightCount
<1>2. \A id \in Ids : Len(m.confirms[id]) \in Nat
  BY DEF ServiceInv
<1>3. Reserved(m) \in Nat
  <2>1. CountIn(m.queue, Requests) \in Nat /\ FlightCount(m, Requests) \in {0, 1}
    BY <1>1
  <2> QED
    BY <2>1 DEF Reserved
<1>4. ASSUME NEW id \in Ids
      PROVE  PlacesOf(m, id) \in Nat
  <2>1. /\ CountIn(m.queue, ById(id)) \in Nat /\ CountIn(m.indirect, ById(id)) \in Nat
        /\ FlightCount(m, ById(id)) \in {0, 1}
    BY <1>1
  <2> DEFINE q == CountIn(m.queue, ById(id))
             h == CountIn(m.indirect, ById(id))
             c == Len(m.confirms[id])
             g == FlightCount(m, ById(id))
             u == IF id \in m.taken THEN 1 ELSE 0
  <2>2. PlacesOf(m, id) = q + h + c + g + u /\ u \in Nat
    BY DEF PlacesOf
  <2>3. q \in Nat /\ h \in Nat /\ c \in Nat /\ g \in {0, 1}
    BY <1>2, <2>1
  <2> HIDE DEF q, h, c, g, u
  <2> QED
    BY <2>2, <2>3
<1> QED
  BY <1>1, <1>2, <1>3, <1>4

LEMMA StepTransitive ==
    ASSUME NEW m, NEW m1, NEW m2, NEW D, NEW K, NEW R, ServiceInv(m, D),
           Step(m, m1, D, K, R), Step(m1, m2, D, K, R)
    PROVE  Step(m, m2, D, K, R)
<1>1. Reserved(m) \in Nat /\ Reserved(m1) \in Nat /\ Reserved(m2) \in Nat
  BY CountsType DEF Step
<1>2. Unacknowledged(m1) \subseteq Unacknowledged(m)
  BY DEF Step, Unacknowledged
<1>3. Reserved(m2) <= Reserved(m)
  BY <1>1 DEF Step
<1> QED
  BY <1>2, <1>3 DEF Step

\* The frame in flight stays what it is, and nothing is queued or reported.
LEMMA QuietStep ==
    ASSUME NEW m, NEW m1, NEW D, NEW K, NEW R, ServiceInv(m, D), IsService(m1),
           m1.dsn = m.dsn, m1.queue = m.queue, m1.indirect = m.indirect,
           m1.confirms = m.confirms, m1.taken = m.taken,
           \/ m1.flight = m.flight
           \/ /\ m.flight # NoFlight /\ m1.flight # NoFlight
              /\ m1.flight \in InFlight(D) /\ m1.flight.frame = m.flight.frame,
           m1.actions \in Seq(OnAir(D)),
           Range(m1.actions) \subseteq Range(m.actions) \cup Built(m) \cup K,
           m1.assoc = m.assoc \/ m1.assoc = "None"
    PROVE  Step(m, m1, D, K, R)
<1>1. ServiceInv(m1, D)
  BY DEF ServiceInv, Phases
<1>2. \A X : FlightCount(m1, X) = FlightCount(m, X)
  BY DEF FlightCount
<1>3. \A id \in Ids : PlacesOf(m1, id) = PlacesOf(m, id)
  BY <1>2 DEF PlacesOf
<1>4. Reserved(m1) <= Reserved(m)
  <2>1. /\ CountIn(m.queue, Requests) \in Nat /\ FlightCount(m, Requests) \in {0, 1}
        /\ FlightCount(m1, Requests) = FlightCount(m, Requests)
    BY <1>2, CountsType
  <2> QED
    BY <2>1 DEF Reserved
<1>5. Built(m1) = Built(m)
  BY DEF Built
<1>6. Successes(m1) = Successes(m)
  BY DEF Successes
<1> QED
  BY <1>1, <1>3, <1>4, <1>5, <1>6 DEF Step

AckOf(f, pending) == [kind |-> "Ack", seq |-> f.seq, pending |-> pending]

LEMMA SendAckStep ==
    ASSUME NEW m, NEW D, NEW K, NEW R, ServiceInv(m, D),
           NEW f, f.seq \in Seqs, NEW pending \in BOOLEAN, AckOf(f, pending) \in K
    PROVE  /\ Step(m, SendAck(m, f, pending), D, K, R)
           /\ SendAck(m, f, pending).indirect = m.indirect
           /\ SendAck(m, f, pending).assoc = m.assoc
<1> DEFINE m1 == SendAck(m, f, pending)
<1>1. AckOf(f, pending) \in OnAir(D)
  BY DEF AckOf, OnAir, Acks
<1>2. m1 = [m EXCEPT !.actions = Append(m.actions, AckOf(f, pending))]
  BY DEF SendAck, AckOf
<1>3. /\ IsService(m1)
      /\ m1.dsn = m.dsn /\ m1.queue = m.queue /\ m1.indirect = m.indirect
      /\ m1.confirms = m.confirms /\ m1.taken = m.taken /\ m1.flight = m.flight
      /\ m1.assoc = m.assoc
      /\ m1.actions = Append(m.actions, AckOf(f, pending))
  BY <1>2 DEF ServiceInv, IsService
<1> HIDE DEF m1
<1>4. m1.actions \in Seq(OnAir(D)) /\ Range(m1.actions) \subseteq Range(m.actions) \cup K
  BY <1>1, <1>3 DEF ServiceInv, Range
<1>5. Step(m, m1, D, K, R)
  BY <1>3, <1>4, QuietStep
<1> QED
  BY <1>3, <1>5 DEF m1

LEMMA TransmitStep ==
    ASSUME NEW m, NEW D, NEW K, NEW R, ServiceInv(m, D), m.flight # NoFlight
    PROVE  Step(m, Transmit(m), D, K, R)
<1> DEFINE m1 == Transmit(m)
           flight == [m.flight EXCEPT !.waiting = "tx"]
<1>1. /\ m.flight \in InFlight(D) /\ flight \in InFlight(D)
      /\ flight # NoFlight /\ flight.frame = m.flight.frame
      /\ m.flight.frame \in OnAir(D) /\ m.flight.frame \in Built(m)
  BY DEF ServiceInv, InFlight, NoFlight, OnAir, Built
<1>2. m1 = [m EXCEPT !.flight = flight, !.actions = Append(m.actions, m.flight.frame)]
  BY DEF Transmit, ServiceInv, IsService
<1> HIDE DEF flight
<1>3. /\ IsService(m1)
      /\ m1.dsn = m.dsn /\ m1.queue = m.queue /\ m1.indirect = m.indirect
      /\ m1.confirms = m.confirms /\ m1.taken = m.taken /\ m1.flight = flight
      /\ m1.assoc = m.assoc
      /\ m1.actions = Append(m.actions, m.flight.frame)
  BY <1>2 DEF ServiceInv, IsService
<1> HIDE DEF m1
<1>4. m1.actions \in Seq(OnAir(D)) /\ Range(m1.actions) \subseteq Range(m.actions) \cup Built(m)
  BY <1>1, <1>3 DEF ServiceInv, Range
<1>5. Step(m, m1, D, K, R)
  BY <1>1, <1>3, <1>4, QuietStep
<1> QED
  BY <1>5 DEF m1

\* The frame in flight is waited for in another way or has fewer retries.
LEMMA FlightStep ==
    ASSUME NEW m, NEW D, NEW K, NEW R, ServiceInv(m, D), m.flight # NoFlight,
           NEW flight \in InFlight(D), flight.frame = m.flight.frame
    PROVE  /\ Step(m, [m EXCEPT !.flight = flight], D, K, R)
           /\ [m EXCEPT !.flight = flight].flight = flight
<1> DEFINE m1 == [m EXCEPT !.flight = flight]
<1>1. flight # NoFlight
  BY DEF InFlight, NoFlight
<1>2. m1 = [m EXCEPT !.flight = flight]
  OBVIOUS
<1> HIDE DEF m1
<1>3. /\ IsService(m1)
      /\ m1.dsn = m.dsn /\ m1.queue = m.queue /\ m1.indirect = m.indirect
      /\ m1.confirms = m.confirms /\ m1.taken = m.taken /\ m1.flight = flight
      /\ m1.assoc = m.assoc /\ m1.actions = m.actions
  BY <1>2 DEF ServiceInv, IsService
<1>4. m1.actions \in Seq(OnAir(D))
  BY <1>3 DEF ServiceInv
<1>5. Step(m, m1, D, K, R)
  BY <1>1, <1>3, <1>4, QuietStep
<1> QED
  BY <1>3, <1>5 DEF m1

\* The radio takes the next action.
LEMMA TakeAction ==
    ASSUME NEW m, NEW D, NEW K, NEW R, ServiceInv(m, D), m.actions # <<>>
    PROVE  /\ Step(m, [m EXCEPT !.actions = Tail(@)], D, K, R)
           /\ Head(m.actions) \in OnAir(D) /\ Head(m.actions) \in Range(m.actions)
<1> DEFINE m1 == [m EXCEPT !.actions = Tail(@)]
<1>1. m1 = [m EXCEPT !.actions = Tail(m.actions)]
  OBVIOUS
<1> HIDE DEF m1
<1>2. /\ IsService(m1)
      /\ m1.dsn = m.dsn /\ m1.queue = m.queue /\ m1.indirect = m.indirect
      /\ m1.confirms = m.confirms /\ m1.taken = m.taken /\ m1.flight = m.flight
      /\ m1.assoc = m.assoc /\ m1.actions = Tail(m.actions)
  BY <1>1 DEF ServiceInv, IsService
<1>3. m.actions \in Seq(OnAir(D))
  BY DEF ServiceInv
<1>4. /\ m1.actions \in Seq(OnAir(D)) /\ Range(m1.actions) \subseteq Range(m.actions)
      /\ Head(m.actions) \in OnAir(D) /\ Head(m.actions) \in Range(m.actions)
  BY <1>2, <1>3 DEF Range
<1>5. Step(m, m1, D, K, R)
  BY <1>2, <1>4, QuietStep
<1> QED
  BY <1>4, <1>5 DEF m1

\* start_next_transmission
LEMMA StartNextStep ==
    ASSUME NEW m, NEW D, NEW K, NEW R, ServiceInv(m, D)
    PROVE  Step(m, StartNext(m), D, K, R)
<1>1. CASE m.flight # NoFlight \/ m.queue = <<>>
  <2>1. StartNext(m) = m
    BY <1>1 DEF StartNext
  <2>2. IsService(m) /\ m.actions \in Seq(OnAir(D))
    BY DEF ServiceInv
  <2>3. Step(m, m, D, K, R)
    BY <2>2, QuietStep
  <2> QED
    BY <2>1, <2>3
<1>2. CASE m.flight = NoFlight /\ m.queue # <<>>
  <2> DEFINE f == Head(m.queue)
             flight == [frame |-> f, waiting |-> "tx",
                        retries |-> IF f.ack THEN MaxRetries ELSE 0]
             m1 == [m EXCEPT !.queue = Tail(@), !.flight = flight]
  <2>1. StartNext(m) = Transmit(m1)
    BY <1>2 DEF StartNext
  <2>2. m1 = [m EXCEPT !.queue = Tail(m.queue), !.flight = flight]
    OBVIOUS
  <2> HIDE DEF m1
  <2>3. /\ IsService(m1)
        /\ m1.dsn = m.dsn /\ m1.queue = Tail(m.queue) /\ m1.indirect = m.indirect
        /\ m1.confirms = m.confirms /\ m1.taken = m.taken /\ m1.flight = flight
        /\ m1.assoc = m.assoc /\ m1.actions = m.actions
    BY <2>2 DEF ServiceInv, IsService
  <2>4. /\ m.queue \in Seq(Sendable(D)) /\ Tail(m.queue) \in Seq(Sendable(D))
        /\ Len(Tail(m.queue)) = Len(m.queue) - 1
        /\ f \in Sendable(D) /\ f \in Range(m.queue)
        /\ Range(Tail(m.queue)) \subseteq Range(m.queue)
    BY <1>2 DEF ServiceInv, Range
  <2>5. flight \in InFlight(D) /\ flight # NoFlight /\ flight.frame = f
    BY <2>4, ConstantsType DEF InFlight, NoFlight
  <2> HIDE DEF f, flight
  <2>6. ASSUME NEW X
        PROVE  CountIn(m1.queue, X) + FlightCount(m1, X)
                   = CountIn(m.queue, X) + FlightCount(m, X)
    <3>1. /\ CountIn(m1.queue, X) = CountIn(m.queue, X) - IF f \in X THEN 1 ELSE 0
          /\ CountIn(m.queue, X) \in Nat
      BY <1>2, <2>3, <2>4, CountTail, CountType DEF f
    <3>2. FlightCount(m, X) = 0 /\ FlightCount(m1, X) = IF f \in X THEN 1 ELSE 0
      BY <1>2, <2>3, <2>5 DEF FlightCount
    <3> QED
      BY <3>1, <3>2
  <2>7. ServiceInv(m1, D)
    BY <2>3, <2>4, <2>5, ConstantsType DEF ServiceInv
  <2>8. ASSUME NEW id \in Ids
        PROVE  PlacesOf(m1, id) = PlacesOf(m, id)
    <3> DEFINE X == ById(id)
    <3>1. /\ CountIn(m.queue, X) \in Nat /\ CountIn(m1.queue, X) \in Nat
          /\ CountIn(m.indirect, X) \in Nat /\ CountIn(m1.indirect, X) = CountIn(m.indirect, X)
          /\ FlightCount(m, X) \in {0, 1} /\ FlightCount(m1, X) \in {0, 1}
          /\ Len(m.confirms[id]) \in Nat /\ m1.confirms[id] = m.confirms[id]
          /\ CountIn(m1.queue, X) + FlightCount(m1, X)
                 = CountIn(m.queue, X) + FlightCount(m, X)
      BY <2>3, <2>6, <2>7, CountsType
    <3> DEFINE q == CountIn(m.queue, X)
               q1 == CountIn(m1.queue, X)
               h == CountIn(m.indirect, X)
               c == Len(m.confirms[id])
               g == FlightCount(m, X)
               g1 == FlightCount(m1, X)
               u == IF id \in m.taken THEN 1 ELSE 0
    <3>2. PlacesOf(m, id) = q + h + c + g + u /\ u \in Nat
      BY DEF PlacesOf
    <3>3. PlacesOf(m1, id) = q1 + h + c + g1 + u
      BY <2>3, <3>1 DEF PlacesOf
    <3>4. /\ q \in Nat /\ q1 \in Nat /\ h \in Nat /\ c \in Nat /\ g \in {0, 1}
          /\ g1 \in {0, 1} /\ q1 + g1 = q + g
      BY <3>1
    <3> HIDE DEF X, q, q1, h, c, g, g1, u
    <3> QED
      BY <3>2, <3>3, <3>4
  <2>9. Reserved(m1) = Reserved(m) /\ Reserved(m) \in Nat
    <3>1. /\ CountIn(m.queue, Requests) \in Nat /\ CountIn(m1.queue, Requests) \in Nat
          /\ FlightCount(m, Requests) \in {0, 1} /\ FlightCount(m1, Requests) \in {0, 1}
          /\ CountIn(m1.queue, Requests) + FlightCount(m1, Requests)
                 = CountIn(m.queue, Requests) + FlightCount(m, Requests)
      BY <2>6, <2>7, CountsType
    <3> QED
      BY <2>3, <3>1 DEF Reserved
  <2>10. Built(m1) \subseteq Built(m)
    BY <1>2, <2>3, <2>4, <2>5 DEF Built
  <2>11. Successes(m1) = Successes(m)
    BY <2>3 DEF Successes
  <2>12. Step(m, m1, D, K, R)
    BY <2>3, <2>7, <2>8, <2>9, <2>10, <2>11 DEF Step
  <2>13. Step(m1, Transmit(m1), D, K, R)
    BY <2>3, <2>5, <2>7, TransmitStep
  <2> QED
    BY <2>1, <2>12, <2>13, StepTransitive
<1> QED
  BY <1>1, <1>2

\* finish_in_flight for a frame of the association, which has no id.
LEMMA FinishAssociating ==
    ASSUME NEW m, NEW m1, NEW D, NEW K, NEW R, ServiceInv(m, D),
           m.flight # NoFlight, m.flight.frame.kind \in Associating,
           IsService(m1),
           m1.dsn = m.dsn, m1.queue = m.queue, m1.indirect = m.indirect,
           m1.confirms = m.confirms, m1.taken = m.taken, m1.actions = m.actions,
           m1.flight = NoFlight,
           m1.assoc \in Phases,
           m.assoc = "None" => m1.assoc = "None",
           m1.assoc = "WaitingResponseTime" => m.flight.frame.kind = "AssocRequest"
    PROVE  Step(m, m1, D, K, R)
<1> DEFINE f == m.flight.frame
<1>1. f \in Frames /\ f.id = NoId
  BY DEF ServiceInv, InFlight, Sendable
<1>2. ServiceInv(m1, D)
  BY DEF ServiceInv
<1>3. ASSUME NEW id \in Ids
      PROVE  PlacesOf(m1, id) = PlacesOf(m, id)
  <2>1. FlightCount(m1, ById(id)) = 0 /\ FlightCount(m, ById(id)) = 0
    BY <1>1, ConstantsType DEF FlightCount, ById, Ids, NoId
  <2> QED
    BY <2>1 DEF PlacesOf
<1>4. Reserved(m1) <= Reserved(m)
  <2>1. /\ CountIn(m.queue, Requests) \in Nat
        /\ CountIn(m1.queue, Requests) = CountIn(m.queue, Requests)
        /\ FlightCount(m1, Requests) = 0
        /\ FlightCount(m, Requests) = IF f.kind = "AssocRequest" THEN 1 ELSE 0
    BY <1>1, CountsType DEF FlightCount, Requests
  <2> HIDE DEF f
  <2> QED
    BY <2>1 DEF Reserved, f
<1>5. Built(m1) \subseteq Built(m)
  BY DEF Built
<1>6. Successes(m1) = Successes(m)
  BY DEF Successes
<1> QED
  BY <1>2, <1>3, <1>4, <1>5, <1>6 DEF Step

\* finish_in_flight for a request with a confirm.
LEMMA FinishConfirmed ==
    ASSUME NEW m, NEW D, D \subseteq Ids, NEW K, NEW R, ServiceInv(m, D),
           m.flight # NoFlight, m.flight.frame.kind \notin Associating,
           NEW status \in Statuses,
           status = "Success" /\ m.flight.frame.ack => m.flight.frame.id \in R
    PROVE  Step(m, Confirm([m EXCEPT !.flight = NoFlight], m.flight.frame.id, status),
                D, K, R)
<1> DEFINE f == m.flight.frame
           confirms == [m.confirms EXCEPT ![f.id] = Append(@, status)]
           m1 == Confirm([m EXCEPT !.flight = NoFlight], f.id, status)
<1>1. f \in Frames /\ f.id \in Ids /\ f \in Built(m)
  BY DEF ServiceInv, InFlight, Sendable, Built
<1>2. m1 = [m EXCEPT !.flight = NoFlight, !.confirms = confirms]
  BY DEF Confirm, ServiceInv, IsService
<1>3. /\ confirms \in [Ids -> Seq(Statuses)]
      /\ \A id \in Ids : confirms[id] = IF id = f.id THEN Append(m.confirms[id], status)
                                        ELSE m.confirms[id]
      /\ \A id \in Ids : m.confirms[id] \in Seq(Statuses)
  BY <1>1 DEF ServiceInv
<1> HIDE DEF m1, confirms
<1>4. /\ IsService(m1)
      /\ m1.dsn = m.dsn /\ m1.queue = m.queue /\ m1.indirect = m.indirect
      /\ m1.confirms = confirms /\ m1.taken = m.taken /\ m1.flight = NoFlight
      /\ m1.assoc = m.assoc /\ m1.actions = m.actions
  BY <1>2 DEF ServiceInv, IsService
<1>5. ServiceInv(m1, D)
  BY <1>3, <1>4 DEF ServiceInv
<1>6. ASSUME NEW id \in Ids
      PROVE  PlacesOf(m1, id) = PlacesOf(m, id)
  <2>1. /\ FlightCount(m1, ById(id)) = 0
        /\ FlightCount(m, ById(id)) = IF id = f.id THEN 1 ELSE 0
    BY <1>1, <1>4 DEF FlightCount, ById
  <2> HIDE DEF f
  <2>2. /\ id = f.id => Len(m1.confirms[id]) = Len(m.confirms[id]) + 1
        /\ id # f.id => Len(m1.confirms[id]) = Len(m.confirms[id])
    BY <1>3, <1>4
  <2>3. /\ CountIn(m1.queue, ById(id)) \in Nat /\ CountIn(m1.indirect, ById(id)) \in Nat
        /\ CountIn(m1.queue, ById(id)) = CountIn(m.queue, ById(id))
        /\ CountIn(m1.indirect, ById(id)) = CountIn(m.indirect, ById(id))
        /\ Len(m.confirms[id]) \in Nat
    BY <1>4, <1>5, CountsType
  <2> QED
    BY <1>4, <2>1, <2>2, <2>3 DEF PlacesOf
<1>7. Reserved(m1) <= Reserved(m)
  <2>1. /\ CountIn(m.queue, Requests) \in Nat
        /\ CountIn(m1.queue, Requests) = CountIn(m.queue, Requests)
        /\ FlightCount(m1, Requests) = 0 /\ FlightCount(m, Requests) \in {0, 1}
    BY <1>4, CountsType DEF FlightCount
  <2> QED
    BY <1>4, <2>1 DEF Reserved
<1>8. Built(m1) \subseteq Built(m)
  BY <1>4 DEF Built
<1>9. Successes(m1) \subseteq Successes(m) \cup Unacknowledged(m) \cup R
  <2> SUFFICES ASSUME NEW id \in Ids, "Success" \in Range(m1.confirms[id]),
                      id \notin Successes(m)
               PROVE  id \in Unacknowledged(m) \cup R
    BY DEF Successes
  <2>1. "Success" \notin Range(m.confirms[id])
    BY DEF Successes
  <2>2. id = f.id /\ status = "Success"
    BY <1>3, <1>4, <2>1 DEF Range
  <2> QED
    BY <1>1, <2>2 DEF Unacknowledged
<1> QED
  BY <1>4, <1>5, <1>6, <1>7, <1>8, <1>9 DEF Step, m1

LEMMA FinishStep ==
    ASSUME NEW m, NEW D, D \subseteq Ids, NEW K, NEW R, ServiceInv(m, D),
           m.flight # NoFlight, NEW status \in Statuses, NEW pending,
           status = "Success" /\ m.flight.frame.ack /\ m.flight.frame.id # NoId
               => m.flight.frame.id \in R
    PROVE  Step(m, Finish(m, status, pending), D, K, R)
<1> DEFINE f == m.flight.frame
           n == [m EXCEPT !.flight = NoFlight]
           m1 == Finish(m, status, pending)
<1>1. /\ IsService(n)
      /\ n.dsn = m.dsn /\ n.queue = m.queue /\ n.indirect = m.indirect
      /\ n.confirms = m.confirms /\ n.taken = m.taken /\ n.flight = NoFlight
      /\ n.assoc = m.assoc /\ n.actions = m.actions
  <2>1. n = [m EXCEPT !.flight = NoFlight]
    OBVIOUS
  <2> HIDE DEF n
  <2> QED
    BY <2>1 DEF ServiceInv, IsService
<1>2. m.assoc \in Phases
  BY DEF ServiceInv
<1>3. CASE f.kind \in Associating
  <2>1. \/ m1 = n /\ m.assoc = "None"
        \/ /\ f.kind = "AssocRequest"
           /\ m1 = [n EXCEPT !.assoc = "WaitingResponseTime"] /\ m.assoc # "None"
        \/ m1 = [n EXCEPT !.assoc = "Polling"] /\ m.assoc # "None"
        \/ m1 = [n EXCEPT !.assoc = "None"]
    BY <1>1, <1>3 DEF Finish, Enter, AssociateConfirm, Associating
  <2> HIDE DEF n, m1
  <2>2. /\ IsService(m1)
        /\ m1.dsn = m.dsn /\ m1.queue = m.queue /\ m1.indirect = m.indirect
        /\ m1.confirms = m.confirms /\ m1.taken = m.taken /\ m1.flight = NoFlight
        /\ m1.actions = m.actions
        /\ m1.assoc \in Phases
        /\ m.assoc = "None" => m1.assoc = "None"
        /\ m1.assoc = "WaitingResponseTime" => f.kind = "AssocRequest"
    BY <1>1, <2>1 DEF IsService, Phases
  <2>3. Step(m, m1, D, K, R)
    BY <1>3, <2>2, FinishAssociating
  <2> QED
    BY <2>3 DEF m1
<1>4. CASE f.kind \notin Associating
  <2>1. m1 = Confirm(n, f.id, status)
    BY <1>4 DEF Finish, Associating
  <2>2. f.id # NoId
    BY <1>4, ConstantsType DEF ServiceInv, InFlight, Sendable, Ids, NoId
  <2> QED
    BY <1>4, <2>1, <2>2, FinishConfirmed
<1> QED
  BY <1>3, <1>4

LEMMA RetryOrStep ==
    ASSUME NEW m, NEW D, D \subseteq Ids, NEW K, NEW R, ServiceInv(m, D),
           m.flight # NoFlight, NEW status \in Statuses, status # "Success"
    PROVE  Step(m, RetryOr(m, status), D, K, R)
<1>1. m.flight \in InFlight(D)
  BY DEF ServiceInv
<1>2. CASE m.flight.retries > 0
  <2> DEFINE flight == [m.flight EXCEPT !.retries = @ - 1]
             m1 == [m EXCEPT !.flight = flight]
  <2>1. flight \in InFlight(D) /\ flight.frame = m.flight.frame /\ flight # NoFlight
    BY <1>1, <1>2, ConstantsType DEF InFlight, NoFlight
  <2>2. RetryOr(m, status) = Transmit(m1)
    BY <1>2 DEF RetryOr
  <2> HIDE DEF flight
  <2>3. Step(m, m1, D, K, R) /\ m1.flight = flight
    BY <2>1, FlightStep
  <2> HIDE DEF m1
  <2>4. Step(m1, Transmit(m1), D, K, R)
    BY <2>1, <2>3, TransmitStep DEF Step
  <2> QED
    BY <2>2, <2>3, <2>4, StepTransitive
<1>3. CASE ~(m.flight.retries > 0)
  <2>1. RetryOr(m, status) = Finish(m, status, FALSE)
    BY <1>3 DEF RetryOr
  <2> QED
    BY <2>1, FinishStep
<1> QED
  BY <1>2, <1>3

LEMMA NoStep ==
    ASSUME NEW m, NEW D, NEW K, NEW R, ServiceInv(m, D)
    PROVE  Step(m, m, D, K, R)
<1>1. IsService(m) /\ m.actions \in Seq(OnAir(D))
  BY DEF ServiceInv
<1> QED
  BY <1>1, QuietStep

Results == {"Ok", "ChannelAccessFailure", "RadioError"}

LEMMA OnTxCompleteStep ==
    ASSUME NEW m, NEW D, D \subseteq Ids, NEW K, NEW R, ServiceInv(m, D),
           NEW result \in Results
    PROVE  Step(m, OnTxComplete(m, result), D, K, R)
<1>1. CASE m.flight = NoFlight \/ m.flight.waiting # "tx"
  BY <1>1, NoStep DEF OnTxComplete
<1>2. CASE m.flight # NoFlight /\ m.flight.waiting = "tx"
  <2>1. CASE result = "ChannelAccessFailure"
    <3>1. OnTxComplete(m, result) = RetryOr(m, "ChannelAccessFailure")
      BY <1>2, <2>1 DEF OnTxComplete
    <3> QED
      BY <1>2, <3>1, RetryOrStep DEF Statuses
  <2>2. CASE result = "RadioError"
    <3>1. OnTxComplete(m, result) = Finish(m, "RadioError", FALSE)
      BY <1>2, <2>2 DEF OnTxComplete
    <3> QED
      BY <1>2, <3>1, FinishStep DEF Statuses
  <2>3. CASE result = "Ok" /\ m.flight.frame.ack
    <3> DEFINE flight == [m.flight EXCEPT !.waiting = "ack"]
    <3>1. OnTxComplete(m, result) = [m EXCEPT !.flight = flight]
      BY <1>2, <2>3 DEF OnTxComplete
    <3>2. flight \in InFlight(D) /\ flight.frame = m.flight.frame
      BY <1>2 DEF ServiceInv, InFlight
    <3> HIDE DEF flight
    <3> QED
      BY <1>2, <3>1, <3>2, FlightStep
  <2>4. CASE result = "Ok" /\ ~m.flight.frame.ack
    <3>1. OnTxComplete(m, result) = Finish(m, "Success", FALSE)
      BY <1>2, <2>4 DEF OnTxComplete
    <3> QED
      BY <1>2, <2>4, <3>1, FinishStep DEF Statuses
  <2> QED
    BY <2>1, <2>2, <2>3, <2>4 DEF Results
<1> QED
  BY <1>1, <1>2

\* on_ack: the other node has the frame.
LEMMA OnAckStep ==
    ASSUME NEW m, NEW D, D \subseteq Ids, NEW K, NEW R, ServiceInv(m, D), NEW a,
           \A f \in Built(m) : f.seq = a.seq /\ f.id # NoId => f.id \in R
    PROVE  Step(m, OnAck(m, a), D, K, R)
<1>1. CASE AckMatches(m, a)
  <2>1. m.flight # NoFlight /\ m.flight.frame.seq = a.seq
    BY <1>1 DEF AckMatches
  <2>2. m.flight.frame \in Built(m)
    BY <2>1 DEF Built
  <2>3. OnAck(m, a) = Finish(m, "Success", a.pending)
    BY <1>1 DEF OnAck
  <2> QED
    BY <2>1, <2>2, <2>3, FinishStep DEF Statuses
<1>2. CASE ~AckMatches(m, a)
  BY <1>2, NoStep DEF OnAck
<1> QED
  BY <1>1, <1>2

\* s is the table without the transaction at i.
Removed(m, i, s, D) ==
    /\ s \in Seq(Holdable(D)) /\ Len(s) <= Len(m.indirect)
    /\ Range(s) \subseteq Range(m.indirect)
    /\ \A X : CountIn(s, X) = CountIn(m.indirect, X) - IF m.indirect[i] \in X THEN 1 ELSE 0

LEMMA BothRemove ==
    ASSUME NEW m, NEW D, ServiceInv(m, D), NEW i \in DOMAIN m.indirect
    PROVE  /\ Removed(m, i, RemoveAt(m.indirect, i), D)
           /\ Removed(m, i, SwapRemove(m.indirect, i), D)
<1>1. m.indirect \in Seq(Holdable(D)) /\ Len(m.indirect) \in Nat
  BY DEF ServiceInv
<1>2. Removed(m, i, RemoveAt(m.indirect, i), D)
  BY <1>1, CountRemoveAt DEF Removed
<1>3. Removed(m, i, SwapRemove(m.indirect, i), D)
  BY <1>1, CountSwapRemove DEF Removed
<1> QED
  BY <1>2, <1>3

LEMMA Appended ==
    ASSUME NEW S, NEW s \in Seq(S), NEW e \in S
    PROVE  /\ Append(s, e) \in Seq(S) /\ Len(Append(s, e)) = Len(s) + 1 /\ Append(s, e) # s
           /\ Len(s) \in Nat
           /\ Range(Append(s, e)) = Range(s) \cup {e}
<1>1. /\ Append(s, e) \in Seq(S) /\ Len(Append(s, e)) = Len(s) + 1 /\ Append(s, e) # s
      /\ Len(s) \in Nat
  OBVIOUS
<1>2. Range(Append(s, e)) \subseteq Range(s) \cup {e}
  BY DEF Range
<1>3. Range(s) \subseteq Range(Append(s, e))
  <2> SUFFICES ASSUME NEW i \in DOMAIN s
               PROVE  s[i] \in Range(Append(s, e))
    BY DEF Range
  <2>1. i \in DOMAIN Append(s, e) /\ Append(s, e)[i] = s[i]
    OBVIOUS
  <2> QED
    BY <2>1 DEF Range
<1>4. e \in Range(Append(s, e))
  <2>1. Len(s) + 1 \in DOMAIN Append(s, e) /\ Append(s, e)[Len(s) + 1] = e
    OBVIOUS
  <2> QED
    BY <2>1 DEF Range
<1> QED
  BY <1>1, <1>2, <1>3, <1>4

Report(C, i, status) == [C EXCEPT ![i] = Append(C[i], status)]

LEMMA Reported ==
    ASSUME NEW C \in [Ids -> Seq(Statuses)], NEW i \in Ids, NEW status \in Statuses,
           NEW C1, C1 = Report(C, i, status), NEW id \in Ids
    PROVE  /\ C1 \in [Ids -> Seq(Statuses)]
           /\ Len(C[id]) \in Nat
           /\ Len(C1[id]) = IF i = id THEN Len(C[id]) + 1 ELSE Len(C[id])
           /\ Range(C1[id]) \subseteq Range(C[id]) \cup {status}
<1>1. Append(C[i], status) \in Seq(Statuses)
  BY Appended
<1>2. C1 \in [Ids -> Seq(Statuses)]
  BY <1>1 DEF Report
<1>3. /\ i = id => C1[id] = Append(C[id], status)
      /\ i # id => C1[id] = C[id]
      /\ C[id] \in Seq(Statuses)
  BY DEF Report
<1>4. /\ Len(C[id]) \in Nat
      /\ Len(Append(C[id], status)) = Len(C[id]) + 1
      /\ Range(Append(C[id], status)) = Range(C[id]) \cup {status}
  BY <1>3, Appended
<1>5. CASE i = id
  BY <1>2, <1>3, <1>4, <1>5
<1>6. CASE i # id
  BY <1>2, <1>3, <1>4, <1>6
<1> QED
  BY <1>5, <1>6

Expires(m, m1, i) == m1.confirms = Report(m.confirms, i, "TransactionExpired")

LEMMA ExpiryReported ==
    ASSUME NEW m, NEW m1, NEW D, ServiceInv(m, D), NEW i \in Ids, NEW id \in Ids,
           Expires(m, m1, i)
    PROVE  /\ m1.confirms \in [Ids -> Seq(Statuses)]
           /\ Len(m1.confirms[id]) = IF i = id THEN Len(m.confirms[id]) + 1
                                     ELSE Len(m.confirms[id])
           /\ Range(m1.confirms[id]) \subseteq Range(m.confirms[id]) \cup {"TransactionExpired"}
<1> PICK status : status = "TransactionExpired"
  OBVIOUS
<1>1. m1.confirms = Report(m.confirms, i, status)
  BY DEF Expires
<1>2. status \in Statuses /\ m.confirms \in [Ids -> Seq(Statuses)]
  BY DEF Statuses, ServiceInv
<1>3. m1.confirms \in [Ids -> Seq(Statuses)]
  BY <1>1, <1>2, Reported
<1>4. Len(m1.confirms[id]) = IF i = id THEN Len(m.confirms[id]) + 1 ELSE Len(m.confirms[id])
  BY <1>1, <1>2, Reported
<1>5. Range(m1.confirms[id]) \subseteq Range(m.confirms[id]) \cup {status}
  BY <1>1, <1>2, Reported
<1> QED
  BY <1>3, <1>4, <1>5

\* A transaction leaves the table: the upper layer takes it, it expires or it
\* is queued.
LEMMA RemovalStep ==
    ASSUME NEW m, NEW m1, NEW D, D \subseteq Ids, NEW K, NEW R, ServiceInv(m, D), Once(m),
           NEW i \in DOMAIN m.indirect, Removed(m, i, m1.indirect, D), IsService(m1),
           m1.dsn = m.dsn, m1.flight = m.flight, m1.assoc = m.assoc, m1.actions = m.actions,
           \/ /\ m1.taken = m.taken \cup {m.indirect[i].id}
              /\ m1.queue = m.queue /\ m1.confirms = m.confirms
           \/ /\ m1.taken = m.taken /\ m1.queue = m.queue
              /\ m1.confirms = [m.confirms EXCEPT ![m.indirect[i].id] =
                                    Append(@, "TransactionExpired")]
           \/ /\ m1.taken = m.taken /\ m1.confirms = m.confirms
              /\ m1.queue = Append(m.queue, m.indirect[i])
              /\ m.indirect[i].kind # "DeferredData" /\ Len(m.queue) < QueueCapacity
    PROVE  Step(m, m1, D, K, R)
<1> DEFINE e == m.indirect[i]
           took == /\ m1.taken = m.taken \cup {e.id}
                   /\ m1.queue = m.queue /\ m1.confirms = m.confirms
           expired == /\ m1.taken = m.taken /\ m1.queue = m.queue
                      /\ m1.confirms = [m.confirms EXCEPT ![e.id] =
                                            Append(m.confirms[e.id], "TransactionExpired")]
           queued == /\ m1.taken = m.taken /\ m1.confirms = m.confirms
                     /\ m1.queue = Append(m.queue, e)
                     /\ e.kind # "DeferredData" /\ Len(m.queue) < QueueCapacity
<1>1. took \/ expired \/ queued
  OBVIOUS
<1>2. /\ m.indirect \in Seq(Holdable(D)) /\ m.queue \in Seq(Sendable(D))
      /\ Len(m.queue) \in Nat /\ Len(m.queue) <= QueueCapacity
      /\ m.confirms \in [Ids -> Seq(Statuses)]
  BY DEF ServiceInv
<1>3. e \in Holdable(D) /\ e \in Frames /\ e.id \in Ids /\ e \in Range(m.indirect)
      /\ e.kind \notin Associating
  BY <1>2 DEF Holdable, Range
<1>4. e.kind # "DeferredData" => e \in Sendable(D) /\ e \in Built(m)
  BY <1>3 DEF Sendable, Holdable, Built
<1>5. /\ m1.indirect \in Seq(Holdable(D)) /\ Len(m1.indirect) <= IndirectCapacity
      /\ Len(m1.indirect) \in Nat
  BY <1>2, ConstantsType DEF Removed, ServiceInv
<1> HIDE DEF e
<1>6. m1.queue \in Seq(Sendable(D)) /\ Len(m1.queue) <= QueueCapacity
  <2>1. CASE queued
    <3>1. Len(m1.queue) = Len(m.queue) + 1 /\ m1.queue \in Seq(Sendable(D))
      BY <1>2, <1>4, <2>1, Appended
    <3> QED
      BY <1>2, <2>1, <3>1, ConstantsType
  <2> QED
    BY <1>1, <1>2, <2>1
<1>7. expired => Expires(m, m1, e.id)
  BY DEF Report, Expires
<1>8. ASSUME NEW id \in Ids, expired
      PROVE  /\ m1.confirms \in [Ids -> Seq(Statuses)]
             /\ Len(m1.confirms[id]) = IF e.id = id THEN Len(m.confirms[id]) + 1
                                       ELSE Len(m.confirms[id])
             /\ Range(m1.confirms[id]) \subseteq Range(m.confirms[id]) \cup {"TransactionExpired"}
  <2>1. Expires(m, m1, e.id) /\ e.id \in Ids /\ ServiceInv(m, D)
    BY <1>3, <1>7, <1>8
  <2> QED
    BY ONLY <2>1, ExpiryReported, id \in Ids
<1>9. m1.confirms \in [Ids -> Seq(Statuses)]
  BY <1>1, <1>2, <1>3, <1>8
<1>10. ServiceInv(m1, D)
  BY <1>5, <1>6, <1>9 DEF ServiceInv
<1>11. ASSUME NEW X
      PROVE  /\ CountIn(m.queue, X) \in Nat /\ CountIn(m.indirect, X) \in Nat
             /\ CountIn(m1.queue, X) \in Nat /\ CountIn(m1.indirect, X) \in Nat
             /\ CountIn(m1.indirect, X) = CountIn(m.indirect, X) - IF e \in X THEN 1 ELSE 0
             /\ FlightCount(m1, X) = FlightCount(m, X) /\ FlightCount(m, X) \in {0, 1}
             /\ m1.queue # m.queue =>
                    CountIn(m1.queue, X) = CountIn(m.queue, X) + IF e \in X THEN 1 ELSE 0
  <2>1. /\ CountIn(m.queue, X) \in Nat /\ CountIn(m.indirect, X) \in Nat
        /\ CountIn(m1.queue, X) \in Nat /\ CountIn(m1.indirect, X) \in Nat
        /\ FlightCount(m, X) \in {0, 1}
    BY <1>10, CountsType
  <2>2. CountIn(m1.indirect, X) = CountIn(m.indirect, X) - IF e \in X THEN 1 ELSE 0
    BY DEF Removed, e
  <2>3. FlightCount(m1, X) = FlightCount(m, X)
    BY DEF FlightCount
  <2>4. m1.queue # m.queue =>
            CountIn(m1.queue, X) = CountIn(m.queue, X) + IF e \in X THEN 1 ELSE 0
    <3>1. CASE queued
      <4>1. e \in Sendable(D) /\ m1.queue = Append(m.queue, e)
        BY <1>4, <3>1
      <4> QED
        BY <1>2, <4>1, CountAppend
    <3> QED
      BY <1>1, <3>1
  <2> QED
    BY <2>1, <2>2, <2>3, <2>4
<1>12. queued => m1.queue # m.queue
  BY <1>2, <1>4, Appended
<1>13. ASSUME NEW id \in Ids
       PROVE  PlacesOf(m1, id) = PlacesOf(m, id)
  <2> DEFINE X == ById(id)
             q == CountIn(m.queue, X)
             h == CountIn(m.indirect, X)
             fl == FlightCount(m, X)
             c == Len(m.confirms[id])
  <2>1. e \in X <=> e.id = id
    BY <1>3 DEF ById
  <2>2. /\ q \in Nat /\ h \in Nat /\ fl \in {0, 1} /\ c \in Nat
        /\ CountIn(m1.indirect, X) \in Nat
        /\ CountIn(m1.indirect, X) = h - IF e.id = id THEN 1 ELSE 0
        /\ FlightCount(m1, X) = fl
        /\ m1.queue # m.queue =>
               CountIn(m1.queue, X) = q + IF e.id = id THEN 1 ELSE 0
    BY <1>2, <1>11, <2>1
  <2>3. PlacesOf(m, id) = q + h + c + fl + IF id \in m.taken THEN 1 ELSE 0
    BY DEF PlacesOf
  <2>4. PlacesOf(m1, id) = CountIn(m1.queue, X) + CountIn(m1.indirect, X)
            + Len(m1.confirms[id]) + FlightCount(m1, X) + IF id \in m1.taken THEN 1 ELSE 0
    BY DEF PlacesOf
  <2>5. PlacesOf(m, id) <= 1
    BY DEF Once
  <2>6. CASE took
    <3>1. e.id = id => id \notin m.taken /\ h >= 1
      <4> HIDE DEF q, h, fl, c, X
      <4> QED
        BY <2>2, <2>3, <2>5
    <3>2. e.id # id => (id \in m1.taken <=> id \in m.taken)
      BY <2>6
    <3>3. e.id = id => id \in m1.taken
      BY <2>6
    <3>4. CountIn(m1.queue, X) = q /\ Len(m1.confirms[id]) = c
      BY <2>6
    <3> HIDE DEF q, h, fl, c, X
    <3> QED
      BY <2>2, <2>3, <2>4, <3>1, <3>2, <3>3, <3>4
  <2>7. CASE expired
    <3>1. Len(m1.confirms[id]) = IF e.id = id THEN c + 1 ELSE c
      BY <1>8, <2>7
    <3>2. CountIn(m1.queue, X) = q /\ (id \in m1.taken <=> id \in m.taken)
      BY <2>7
    <3> HIDE DEF q, h, fl, c, X, expired
    <3> QED
      BY <2>2, <2>3, <2>4, <3>1, <3>2
  <2>8. CASE queued
    <3>1. CountIn(m1.queue, X) = q + IF e.id = id THEN 1 ELSE 0
      BY <1>12, <2>2, <2>8
    <3>2. Len(m1.confirms[id]) = c /\ (id \in m1.taken <=> id \in m.taken)
      BY <2>8
    <3> HIDE DEF q, h, fl, c, X, queued
    <3> QED
      BY <2>2, <2>3, <2>4, <3>1, <3>2
  <2> QED
    BY <1>1, <2>6, <2>7, <2>8
<1>14. Reserved(m1) <= Reserved(m)
  <2>1. e \notin Requests
    BY <1>3 DEF Requests, Associating
  <2>2. CountIn(m1.queue, Requests) = CountIn(m.queue, Requests)
    BY <1>11, <2>1
  <2>3. /\ CountIn(m.queue, Requests) \in Nat /\ FlightCount(m, Requests) \in {0, 1}
        /\ FlightCount(m1, Requests) = FlightCount(m, Requests)
    BY <1>11
  <2> QED
    BY <2>2, <2>3 DEF Reserved
<1>15. Built(m1) \subseteq Built(m)
  <2>1. Range(m1.queue) \subseteq Range(m.queue) \cup {g \in {e} : e.kind # "DeferredData"}
    <3>1. CASE queued
      <4>1. e \in Sendable(D) /\ m1.queue = Append(m.queue, e) /\ e.kind # "DeferredData"
        BY <1>4, <3>1
      <4>2. Range(m1.queue) = Range(m.queue) \cup {e}
        BY <1>2, <4>1, Appended
      <4> QED
        BY <4>1, <4>2
    <3> QED
      BY <1>1, <3>1
  <2>2. Range(m1.indirect) \subseteq Range(m.indirect)
    BY DEF Removed
  <2> QED
    BY <1>4, <2>1, <2>2 DEF Built
<1>16. Successes(m1) \subseteq Successes(m)
  <2> SUFFICES ASSUME NEW id \in Ids, "Success" \in Range(m1.confirms[id])
               PROVE  "Success" \in Range(m.confirms[id])
    BY DEF Successes
  <2> QED
    BY <1>1, <1>8
<1> QED
  BY <1>10, <1>13, <1>14, <1>15, <1>16 DEF Step

LEMMA OnceKept ==
    ASSUME NEW m, NEW m1, NEW D, NEW K, NEW R, Once(m), Step(m, m1, D, K, R)
    PROVE  Once(m1)
  BY DEF Once, Step

\* A set of positions has a first one.
LEMMA FirstPosition ==
    ASSUME NEW T, T \subseteq Nat, T # {}
    PROVE  (CHOOSE j \in T : \A k \in T : j <= k) \in T
<1>1. \E x \in T : \A y \in T : ~ (<<y, x>> \in OpToRel(<, Nat))
  BY NatLessThanWellFounded, WFMin
<1>2. \E x \in T : \A y \in T : x <= y
  <2>1. PICK x \in T : \A y \in T : ~ (<<y, x>> \in OpToRel(<, Nat))
    BY <1>1
  <2>2. ASSUME NEW y \in T
        PROVE  x <= y
    <3>1. x \in Nat /\ y \in Nat /\ ~ (y < x)
      BY <2>1 DEF OpToRel
    <3> QED
      BY <3>1
  <2> QED
    BY <2>2
<1> QED
  BY <1>2

\* The frame f arrived at m: it may be acknowledged.
AcksFor(f) == {AckOf(f, pending) : pending \in BOOLEAN}

LEMMA FetchStep ==
    ASSUME NEW m, NEW D, D \subseteq Ids, NEW K, NEW R, ServiceInv(m, D), Once(m),
           NEW i \in DOMAIN m.indirect
    PROVE  Step(m, Fetch(m, i), D, K, R)
<1> DEFINE e == m.indirect[i]
           n == [m EXCEPT !.indirect = SwapRemove(@, i)]
           m1 == Fetch(m, i)
<1>1. m1 = IF e.kind = "DeferredData" THEN [n EXCEPT !.taken = n.taken \cup {e.id}]
           ELSE Release(n, e)
  BY DEF Fetch
<1>2. n = [m EXCEPT !.indirect = SwapRemove(m.indirect, i)]
  OBVIOUS
<1> HIDE DEF n, m1
<1>3. /\ IsService(n)
      /\ n.dsn = m.dsn /\ n.queue = m.queue /\ n.flight = m.flight
      /\ n.assoc = m.assoc /\ n.actions = m.actions /\ n.confirms = m.confirms
      /\ n.taken = m.taken
      /\ n.indirect = SwapRemove(m.indirect, i)
  BY <1>2 DEF ServiceInv, IsService
<1>4. Removed(m, i, n.indirect, D)
  BY <1>3, BothRemove
<1>5. \/ /\ e.kind = "DeferredData" /\ m1 = [n EXCEPT !.taken = n.taken \cup {e.id}]
      \/ /\ m1 = [n EXCEPT !.confirms = Report(n.confirms, e.id, "TransactionExpired")]
      \/ /\ e.kind # "DeferredData" /\ Len(n.queue) < QueueCapacity
         /\ m1 = [n EXCEPT !.queue = Append(n.queue, e)]
  <2>1. n.queue \in Seq(Sendable(D)) /\ Len(n.queue) \in Nat
    BY <1>3 DEF ServiceInv
  <2>2. CASE QueueFull(n)
    BY <1>1, <2>2 DEF Release, Confirm, Report
  <2>3. CASE ~QueueFull(n)
    BY <1>1, <2>1, <2>3, ConstantsType DEF Release, Enqueue, QueueFull
  <2> QED
    BY <2>2, <2>3
<1> HIDE DEF e
<1>6. /\ IsService(m1)
      /\ m1.dsn = n.dsn /\ m1.flight = n.flight /\ m1.assoc = n.assoc
      /\ m1.actions = n.actions /\ m1.indirect = n.indirect
      /\ \/ /\ m1.taken = n.taken \cup {e.id}
            /\ m1.queue = n.queue /\ m1.confirms = n.confirms
         \/ /\ m1.taken = n.taken /\ m1.queue = n.queue
            /\ m1.confirms = Report(n.confirms, e.id, "TransactionExpired")
         \/ /\ m1.taken = n.taken /\ m1.confirms = n.confirms
            /\ m1.queue = Append(n.queue, e)
            /\ e.kind # "DeferredData" /\ Len(n.queue) < QueueCapacity
  BY <1>3, <1>5 DEF IsService
<1>7. Step(m, m1, D, K, R)
  BY <1>3, <1>4, <1>6, RemovalStep DEF Report, e
<1> QED
  BY <1>7 DEF m1

LEMMA OnDataRequestStep ==
    ASSUME NEW m, NEW D, D \subseteq Ids, NEW K, NEW R, ServiceInv(m, D), Once(m),
           NEW f, f.seq \in Seqs, AcksFor(f) \subseteq K
    PROVE  Step(m, OnDataRequest(m, f), D, K, R)
<1> DEFINE n == SendAck(m, f, HasEntryFor(m, f))
<1>1. HasEntryFor(m, f) \in BOOLEAN
  BY DEF HasEntryFor
<1>2. AckOf(f, HasEntryFor(m, f)) \in K
  BY <1>1 DEF AcksFor
<1>3. Step(m, n, D, K, R) /\ n.indirect = m.indirect
  BY <1>1, <1>2, SendAckStep
<1> HIDE DEF n
<1>4. CASE ~HasEntryFor(m, f)
  BY <1>3, <1>4 DEF OnDataRequest, n
<1>5. CASE HasEntryFor(m, f)
  <2>1. m.indirect \in Seq(Holdable(D))
    BY DEF ServiceInv
  <2>2. EntriesFor(m, f) \subseteq Nat /\ EntriesFor(m, f) \subseteq DOMAIN m.indirect
    BY <2>1 DEF EntriesFor
  <2>3. FirstFor(m, f) \in DOMAIN n.indirect
    BY <1>3, <1>5, <2>2, FirstPosition DEF HasEntryFor, FirstFor
  <2>4. ServiceInv(n, D) /\ Once(n)
    BY <1>3, OnceKept DEF Step
  <2>5. Step(n, Fetch(n, FirstFor(m, f)), D, K, R)
    BY <2>3, <2>4, FetchStep
  <2>6. OnDataRequest(m, f) = Fetch(n, FirstFor(m, f))
    BY <1>5 DEF OnDataRequest, n
  <2> QED
    BY <1>3, <2>5, <2>6, StepTransitive
<1> QED
  BY <1>4, <1>5

LEMMA OnFrameStep ==
    ASSUME NEW m, NEW D, D \subseteq Ids, NEW K, NEW R, ServiceInv(m, D), Once(m),
           NEW f \in Sendable(D), f.kind # "AssocRequest", AcksFor(f) \subseteq K
    PROVE  Step(m, OnFrame(m, f), D, K, R)
<1>1. /\ f.seq \in Seqs
      /\ f.kind \in {"Data", "IndirectData", "Poll", "AssocDataRequest", "AssocResponse"}
  BY DEF Sendable, Frames, Kinds, Seqs
<1>2. \A pending \in BOOLEAN : AckOf(f, pending) \in K
  BY DEF AcksFor
<1>3. CASE f.kind \in {"Data", "IndirectData"}
  <2>1. HasEntryFor(m, f) \in BOOLEAN
    BY DEF HasEntryFor
  <2>2. Step(m, SendAck(m, f, HasEntryFor(m, f)), D, K, R)
    BY <1>1, <1>2, <2>1, SendAckStep
  <2>3. OnFrame(m, f) = IF f.ack THEN SendAck(m, f, HasEntryFor(m, f)) ELSE m
    BY <1>3 DEF OnFrame
  <2> QED
    BY <2>2, <2>3, NoStep
<1>4. CASE f.kind \in {"Poll", "AssocDataRequest"}
  <2>1. OnFrame(m, f) = OnDataRequest(m, f)
    BY <1>4 DEF OnFrame
  <2> QED
    BY <1>1, <2>1, OnDataRequestStep
<1>5. CASE f.kind = "AssocResponse"
  <2> DEFINE n == SendAck(m, f, FALSE)
             m1 == OnAssocResponse(m, f)
  <2>1. OnFrame(m, f) = m1
    BY <1>5 DEF OnFrame
  <2>2. Step(m, n, D, K, R)
    BY <1>1, <1>2, SendAckStep
  <2>3. \/ m1 = n
        \/ \E s, p : m1 = [n EXCEPT !.short = s, !.pan = p, !.assoc = "None"]
    BY DEF OnAssocResponse, AssociateConfirm
  <2>4. ServiceInv(n, D)
    BY <2>2 DEF Step
  <2> HIDE DEF n, m1
  <2>5. CASE m1 = n
    BY <2>1, <2>2, <2>5
  <2>6. CASE \E s, p : m1 = [n EXCEPT !.short = s, !.pan = p, !.assoc = "None"]
    <3>1. PICK s, p : m1 = [n EXCEPT !.short = s, !.pan = p, !.assoc = "None"]
      BY <2>6
    <3>2. /\ IsService(m1)
          /\ m1.dsn = n.dsn /\ m1.queue = n.queue /\ m1.indirect = n.indirect
          /\ m1.confirms = n.confirms /\ m1.taken = n.taken /\ m1.flight = n.flight
          /\ m1.assoc = "None" /\ m1.actions = n.actions
      BY <2>4, <3>1 DEF ServiceInv, IsService
    <3>3. m1.actions \in Seq(OnAir(D))
      BY <2>4, <3>2 DEF ServiceInv
    <3>4. Step(n, m1, D, K, R)
      BY <2>4, <3>2, <3>3, QuietStep
    <3> QED
      BY <2>1, <2>2, <3>4, StepTransitive
  <2> QED
    BY <2>3, <2>5, <2>6
<1> QED
  BY <1>1, <1>3, <1>4, <1>5

-----------------------------------------------------------------------------
(* Steps of the system                                                     *)

LEMMA PeerOfPeer ==
    ASSUME NEW n \in Nodes
    PROVE  /\ Peer(n) \in Nodes /\ Peer(Peer(n)) = n /\ Peer(n) # n
           /\ Nodes = {n, Peer(n)}
  BY ConstantsType DEF Nodes, Peer

\* Node n handles something: s becomes t.
HandleStep(s, t, n, K, R) ==
    /\ Step(s.mac[n], t.mac[n], DOMAIN s.issued, K, R)
    /\ DOMAIN t.mac = Nodes /\ t.mac[Peer(n)] = s.mac[Peer(n)]
    /\ t.calls = s.calls /\ t.issued = s.issued /\ t.attempts = s.attempts
    /\ s.received \subseteq t.received /\ t.received \subseteq DOMAIN s.issued
    /\ DOMAIN t.rx = Nodes /\ \A k \in Nodes : t.rx[k] \in Seq(OnAir(DOMAIN s.issued))
    /\ Range(t.rx[n]) \subseteq Range(s.rx[n])
    /\ Range(t.rx[Peer(n)]) \subseteq Range(s.rx[Peer(n)]) \cup Range(s.mac[n].actions)
                                      \cup Built(s.mac[n])

LEMMA HandleKeepsMac ==
    ASSUME NEW s, NEW t, NEW n \in Nodes, NEW K, NEW R,
           MacInv(s), HandleStep(s, t, n, K, R)
    PROVE  MacInv(t)
<1>1. /\ Peer(n) \in Nodes /\ Nodes = {n, Peer(n)} /\ Child \in Nodes /\ Parent \in Nodes
  BY PeerOfPeer DEF Nodes
<1>2. Step(s.mac[n], t.mac[n], DOMAIN s.issued, K, R)
  BY DEF HandleStep
<1>3. \A k \in Nodes : /\ ServiceInv(t.mac[k], DOMAIN t.issued)
                       /\ s.mac[k].indirect = <<>> => t.mac[k].indirect = <<>>
                       /\ s.mac[k].assoc = "None" => t.mac[k].assoc = "None"
                       /\ \A id \in Ids : PlacesOf(t.mac[k], id) = PlacesOf(s.mac[k], id)
  BY <1>1, <1>2 DEF HandleStep, Step, MacInv
<1>4. ScopeInv(t)
  BY <1>1, <1>3 DEF HandleStep, MacInv, ScopeInv
<1>5. ASSUME NEW k \in Nodes
      PROVE  PlacesInv(t.mac[k], IssuedBy(t, k))
  <2>1. IssuedBy(t, k) = IssuedBy(s, k)
    BY DEF HandleStep, IssuedBy
  <2> QED
    BY <1>3, <2>1 DEF MacInv, PlacesInv
<1> QED
  BY <1>3, <1>4, <1>5 DEF MacInv, HandleStep

LEMMA HandleKeepsReceipt ==
    ASSUME NEW s, NEW t, NEW n \in Nodes, NEW K, NEW R,
           ReceiptInv(s), HandleStep(s, t, n, K, R),
           \A a \in K : /\ a.kind = "Ack" /\ a.seq < s.mac[Peer(n)].dsn
                        /\ \A g \in FramesOf(s, Peer(n)) :
                               g.seq = a.seq /\ g.id # NoId => g.id \in t.received,
           R \subseteq t.received
    PROVE  ReceiptInv(t)
<1> DEFINE p == Peer(n)
<1>1. p \in Nodes /\ Peer(p) = n /\ Nodes = {n, p} /\ p # n
  BY PeerOfPeer
<1> HIDE DEF p
<1>2. /\ Step(s.mac[n], t.mac[n], DOMAIN s.issued, K, R)
      /\ t.mac[p] = s.mac[p] /\ t.issued = s.issued
      /\ t.calls = s.calls /\ t.attempts = s.attempts
      /\ s.received \subseteq t.received
      /\ Range(t.rx[n]) \subseteq Range(s.rx[n])
      /\ Range(t.rx[p]) \subseteq Range(s.rx[p]) \cup Range(s.mac[n].actions) \cup Built(s.mac[n])
  BY DEF HandleStep, p
<1>3. /\ Built(t.mac[n]) \subseteq Built(s.mac[n])
      /\ Range(t.mac[n].actions) \subseteq Range(s.mac[n].actions) \cup Built(s.mac[n]) \cup K
      /\ \A k \in Nodes : t.mac[k].dsn = s.mac[k].dsn
      /\ Successes(t.mac[n]) \subseteq Successes(s.mac[n]) \cup Unacknowledged(s.mac[n]) \cup R
  BY <1>1, <1>2 DEF Step
<1>4. MacInv(s) /\ MacInv(t)
  BY HandleKeepsMac DEF ReceiptInv
<1>5. ASSUME NEW f \in Built(s.mac[n])
      PROVE  f.kind # "Ack" /\ f.id \in DOMAIN s.issued \cup {NoId}
  <2>1. f \in Sendable(DOMAIN s.issued) \cup Holdable(DOMAIN s.issued)
    BY <1>4 DEF MacInv, ServiceInv, Built, Range, InFlight
  <2> QED
    BY <2>1 DEF Sendable, Holdable, Frames, Kinds
<1>6. /\ FramesOf(t, n) \subseteq FramesOf(s, n)
      /\ FramesOf(t, p) \subseteq FramesOf(s, p)
      /\ AcksTo(t, n) \subseteq AcksTo(s, n)
      /\ AcksTo(t, p) \subseteq AcksTo(s, p) \cup K
  <2>1. Air(t, n) \subseteq Air(s, n) \cup Built(s.mac[n]) \cup K
    BY <1>1, <1>2, <1>3 DEF Air, p
  <2>2. Air(t, p) \subseteq Air(s, p)
    BY <1>1, <1>2 DEF Air
  <2>3. \A a \in K : a.kind = "Ack"
    OBVIOUS
  <2>4. Peer(n) = p
    BY DEF p
  <2> QED
    BY <1>1, <1>2, <1>3, <1>5, <2>1, <2>2, <2>3, <2>4 DEF FramesOf, AcksTo
<1>7. BudgetInv(t)
  <2>1. Reserved(t.mac[n]) <= Reserved(s.mac[n]) /\ Reserved(t.mac[p]) = Reserved(s.mac[p])
    BY <1>2 DEF Step
  <2>2. \A k \in Nodes : /\ Reserved(s.mac[k]) \in Nat /\ Reserved(t.mac[k]) \in Nat
                         /\ s.mac[k].dsn \in Nat /\ s.calls \in Nat /\ s.attempts \in Nat
    <3>1. \A k \in Nodes : Reserved(s.mac[k]) \in Nat /\ Reserved(t.mac[k]) \in Nat
      BY <1>4, CountsType DEF MacInv
    <3>2. s.calls \in Nat /\ s.attempts \in Nat
      BY <1>4, ConstantsType DEF MacInv, ScopeInv
    <3>3. \A k \in Nodes : s.mac[k].dsn \in Nat
      BY <1>4, ConstantsType DEF MacInv, ServiceInv, Seqs
    <3> QED
      BY <3>1, <3>2, <3>3
  <2>3. \A k \in Nodes : s.mac[k].dsn + Reserved(s.mac[k]) <= s.calls + 2 * s.attempts
    BY DEF ReceiptInv, BudgetInv
  <2>4. t.mac[n].dsn + Reserved(t.mac[n]) <= t.calls + 2 * t.attempts
    BY <1>1, <1>2, <1>3, <2>1, <2>2, <2>3
  <2>5. t.mac[p].dsn + Reserved(t.mac[p]) <= t.calls + 2 * t.attempts
    BY <1>1, <1>2, <1>3, <2>1, <2>2, <2>3
  <2> QED
    BY <1>1, <2>4, <2>5 DEF BudgetInv
<1>8. SeqInv(t)
  <2> SUFFICES ASSUME NEW k \in Nodes
               PROVE  /\ \A f \in FramesOf(t, k) \cup AcksTo(t, k) : f.seq < t.mac[k].dsn
                      /\ \A f, g \in FramesOf(t, k) : f.seq = g.seq => f.id = g.id
                      /\ \A a \in AcksTo(t, k), f \in FramesOf(t, k) :
                             a.seq = f.seq /\ f.id # NoId => f.id \in t.received
    BY DEF SeqInv
  <2>1. /\ FramesOf(t, k) \subseteq FramesOf(s, k)
        /\ AcksTo(t, k) \subseteq AcksTo(s, k) \cup {a \in K : k = p}
        /\ t.mac[k].dsn = s.mac[k].dsn
    BY <1>1, <1>3, <1>6
  <2>2. \A a \in K : k = p => /\ a.seq < s.mac[k].dsn
                              /\ \A g \in FramesOf(s, k) :
                                     g.seq = a.seq /\ g.id # NoId => g.id \in t.received
    BY DEF p
  <2>3. /\ \A f \in FramesOf(s, k) \cup AcksTo(s, k) : f.seq < s.mac[k].dsn
        /\ \A f, g \in FramesOf(s, k) : f.seq = g.seq => f.id = g.id
        /\ \A a \in AcksTo(s, k), f \in FramesOf(s, k) :
               a.seq = f.seq /\ f.id # NoId => f.id \in s.received
    BY DEF ReceiptInv, SeqInv
  <2> QED
    BY <1>2, <2>1, <2>2, <2>3
<1>9. FrameInv(t)
  BY <1>1, <1>2, <1>6 DEF ReceiptInv, FrameInv
<1>10. SuccessInv(t)
  <2> SUFFICES ASSUME NEW k \in Nodes, NEW id \in DOMAIN s.issued, s.issued[id].ack,
                      "Success" \in Range(t.mac[k].confirms[id])
               PROVE  id \in t.received
    BY <1>2 DEF SuccessInv
  <2>1. id \in Ids /\ id # NoId
    BY <1>4, ConstantsType DEF MacInv, ScopeInv, Ids, NoId
  <2>2. CASE "Success" \in Range(s.mac[k].confirms[id])
    BY <1>2, <2>2 DEF ReceiptInv, SuccessInv
  <2>3. CASE "Success" \notin Range(s.mac[k].confirms[id])
    <3>1. k = n
      BY <1>1, <1>2, <2>3
    <3>2. id \in Unacknowledged(s.mac[n]) \cup R
      BY <1>3, <2>1, <2>3, <3>1 DEF Successes
    <3>3. id \notin Unacknowledged(s.mac[n])
      <4> SUFFICES ASSUME NEW f \in Built(s.mac[n]), ~f.ack, f.id = id
                   PROVE  FALSE
        BY DEF Unacknowledged
      <4>1. f \in FramesOf(s, n)
        BY DEF FramesOf
      <4> QED
        BY <2>1, <4>1 DEF ReceiptInv, FrameInv
    <3> QED
      BY <3>2, <3>3
  <2> QED
    BY <2>2, <2>3
<1> QED
  BY <1>4, <1>7, <1>8, <1>9, <1>10 DEF ReceiptInv

\* Node n is asked for something: a request or a frame of the association is
\* new. F is the frame it builds, if any.
AddStep(s, t, n, F) ==
    /\ DOMAIN t.mac = Nodes /\ t.mac[Peer(n)] = s.mac[Peer(n)]
    /\ t.rx = s.rx /\ t.received = s.received
    /\ t.calls \in s.calls .. MaxIds /\ t.attempts \in s.attempts .. MaxAttempts
    /\ DOMAIN s.issued \subseteq DOMAIN t.issued
    /\ \A id \in DOMAIN s.issued : t.issued[id] = s.issued[id]
    /\ \A id \in DOMAIN t.issued \ DOMAIN s.issued :
           id = t.calls /\ t.calls = s.calls + 1 /\ t.issued[id].node = n
    /\ ServiceInv(t.mac[n], DOMAIN t.issued)
    /\ \A id \in Ids : PlacesOf(t.mac[n], id) = PlacesOf(s.mac[n], id)
                           + IF id \in DOMAIN t.issued \ DOMAIN s.issued THEN 1 ELSE 0
    /\ t.mac[n].confirms = s.mac[n].confirms /\ t.mac[n].actions = s.mac[n].actions
    /\ n = Child => t.mac[n].indirect = s.mac[n].indirect
    /\ n = Parent => t.mac[n].assoc = s.mac[n].assoc
    /\ Built(t.mac[n]) \subseteq Built(s.mac[n]) \cup F
    /\ \A f \in F : /\ f.seq = s.mac[n].dsn
                    /\ f.id # NoId => /\ f.id \in DOMAIN t.issued
                                      /\ t.issued[f.id].ack => f.ack
                    /\ n = Parent => f.kind # "AssocRequest"
                    /\ \A g \in F : f = g
    /\ \/ /\ F = {} /\ t.mac[n].dsn = s.mac[n].dsn
          /\ Reserved(t.mac[n]) = Reserved(s.mac[n])
       \/ /\ t.mac[n].dsn = (s.mac[n].dsn + 1) % SeqModulus
          /\ 1 + Reserved(t.mac[n]) <= Reserved(s.mac[n]) + (t.calls - s.calls)
                                       + 2 * (t.attempts - s.attempts)

\* More ids have been given.
LEMMA MoreIds ==
    ASSUME NEW D, NEW D1, D \subseteq D1
    PROVE  /\ OnAir(D) \subseteq OnAir(D1)
           /\ \A m : ServiceInv(m, D) => ServiceInv(m, D1)
           /\ \A q \in Seq(OnAir(D)) : q \in Seq(OnAir(D1))
<1>1. /\ Sendable(D) \subseteq Sendable(D1) /\ Holdable(D) \subseteq Holdable(D1)
  BY DEF Sendable, Holdable
<1>2. OnAir(D) \subseteq OnAir(D1)
  BY <1>1 DEF OnAir
<1>3. /\ \A q \in Seq(OnAir(D)) : q \in Seq(OnAir(D1))
      /\ \A q \in Seq(Sendable(D)) : q \in Seq(Sendable(D1))
      /\ \A q \in Seq(Holdable(D)) : q \in Seq(Holdable(D1))
  BY <1>1, <1>2
<1>4. InFlight(D) \subseteq InFlight(D1)
  BY <1>1 DEF InFlight
<1> QED
  BY <1>2, <1>3, <1>4 DEF ServiceInv

LEMMA FramesType ==
    ASSUME NEW s, MacInv(s), NEW n \in Nodes
    PROVE  /\ FramesOf(s, n) \subseteq Sendable(DOMAIN s.issued) \cup Holdable(DOMAIN s.issued)
           /\ AcksTo(s, n) \subseteq Acks
<1> DEFINE D == DOMAIN s.issued
<1>1. Peer(n) \in Nodes /\ Peer(Peer(n)) = n
  BY PeerOfPeer
<1>2. ASSUME NEW k \in Nodes
      PROVE  /\ Built(s.mac[k]) \subseteq Sendable(D) \cup Holdable(D)
             /\ Range(s.mac[k].actions) \subseteq OnAir(D)
             /\ Range(s.rx[k]) \subseteq OnAir(D)
  <2>1. ServiceInv(s.mac[k], D) /\ s.rx[k] \in Seq(OnAir(D))
    BY DEF MacInv
  <2>2. /\ Range(s.mac[k].queue) \subseteq Sendable(D)
        /\ Range(s.mac[k].indirect) \subseteq Holdable(D)
        /\ Range(s.mac[k].actions) \subseteq OnAir(D)
        /\ Range(s.rx[k]) \subseteq OnAir(D)
    BY <2>1 DEF ServiceInv, Range
  <2>3. s.mac[k].flight # NoFlight => s.mac[k].flight.frame \in Sendable(D)
    BY <2>1 DEF ServiceInv, InFlight
  <2> QED
    BY <2>2, <2>3 DEF Built
<1>3. Air(s, n) \subseteq OnAir(D) /\ Air(s, Peer(n)) \subseteq OnAir(D)
  BY <1>1, <1>2 DEF Air
<1>4. \A f \in OnAir(D) : IF f.kind = "Ack" THEN f \in Acks ELSE f \in Sendable(D)
  BY DEF OnAir, Acks, Sendable, Frames, Kinds
<1> QED
  BY <1>2, <1>3, <1>4 DEF FramesOf, AcksTo

LEMMA AddKeepsMac ==
    ASSUME NEW s, NEW t, NEW n \in Nodes, NEW F, MacInv(s), AddStep(s, t, n, F)
    PROVE  MacInv(t)
<1> DEFINE p == Peer(n)
           D == DOMAIN s.issued
           D1 == DOMAIN t.issued
<1>1. p \in Nodes /\ Nodes = {n, p} /\ p # n /\ Child \in Nodes /\ Parent \in Nodes
  BY PeerOfPeer DEF Nodes
<1>2. D \subseteq D1 /\ D \subseteq 1 .. s.calls /\ s.calls \in Nat
  BY ConstantsType DEF AddStep, MacInv, ScopeInv
<1>3. D1 \subseteq 1 .. t.calls /\ t.calls \in 0 .. MaxIds /\ t.attempts \in 0 .. MaxAttempts
  <2>1. t.calls \in s.calls .. MaxIds /\ t.attempts \in s.attempts .. MaxAttempts
    BY DEF AddStep
  <2>2. s.attempts \in Nat
    BY ConstantsType DEF MacInv, ScopeInv
  <2>3. \A id \in D1 \ D : id = s.calls + 1 /\ t.calls = s.calls + 1
    BY DEF AddStep
  <2>4. D1 \subseteq 1 .. t.calls
    BY <1>2, <2>1, <2>3, ConstantsType
  <2> QED
    BY <1>2, <2>1, <2>2, <2>4, ConstantsType
<1>4. t.mac[p] = s.mac[p] /\ t.rx = s.rx
  BY DEF AddStep
<1>5. \A k \in Nodes : ServiceInv(t.mac[k], D1) /\ t.rx[k] \in Seq(OnAir(D1))
  <2>1. \A k \in Nodes : ServiceInv(s.mac[k], D) /\ s.rx[k] \in Seq(OnAir(D))
    BY DEF MacInv
  <2>2. ServiceInv(t.mac[n], D1)
    BY DEF AddStep
  <2>3. ServiceInv(s.mac[p], D1) /\ \A k \in Nodes : s.rx[k] \in Seq(OnAir(D1))
    BY <1>1, <1>2, <2>1, MoreIds
  <2> QED
    BY <1>1, <1>4, <2>2, <2>3
<1>6. ScopeInv(t)
  BY <1>1, <1>2, <1>3, <1>4 DEF AddStep, MacInv, ScopeInv
<1>7. ASSUME NEW k \in Nodes, NEW id \in Ids
      PROVE  PlacesOf(t.mac[k], id) = IF id \in IssuedBy(t, k) THEN 1 ELSE 0
  <2>1. PlacesOf(s.mac[k], id) = IF id \in IssuedBy(s, k) THEN 1 ELSE 0
    BY DEF MacInv, PlacesInv
  <2>2. CASE id \in D \/ id \notin D1
    <3>1. id \in IssuedBy(t, k) <=> id \in IssuedBy(s, k)
      BY <1>2, <2>2 DEF IssuedBy, AddStep
    <3>2. PlacesOf(t.mac[k], id) = PlacesOf(s.mac[k], id)
      <4>1. CASE k = p
        BY <1>4, <4>1
      <4>2. CASE k = n
        BY <2>1, <2>2, <4>2 DEF AddStep
      <4> QED
        BY <1>1, <4>1, <4>2
    <3> QED
      BY <2>1, <3>1, <3>2
  <2>3. CASE id \in D1 \ D
    <3>1. id \notin IssuedBy(s, k) /\ (id \in IssuedBy(t, k) <=> k = n)
      BY <2>3 DEF IssuedBy, AddStep
    <3>2. CASE k = p
      BY <1>1, <1>4, <2>1, <3>1, <3>2
    <3>3. CASE k = n
      BY <2>1, <2>3, <3>1, <3>3 DEF AddStep
    <3> QED
      BY <1>1, <3>2, <3>3
  <2> QED
    BY <2>2, <2>3
<1> QED
  BY <1>5, <1>6, <1>7 DEF MacInv, PlacesInv

LEMMA AddKeepsReceipt ==
    ASSUME NoWrap, NEW s, NEW t, NEW n \in Nodes, NEW F, ReceiptInv(s), AddStep(s, t, n, F)
    PROVE  ReceiptInv(t)
<1> DEFINE p == Peer(n)
           d == s.mac[n].dsn
<1>1. p \in Nodes /\ Peer(p) = n /\ Nodes = {n, p} /\ p # n /\ Peer(n) = p
  BY PeerOfPeer
<1> HIDE DEF p
<1>2. MacInv(s) /\ MacInv(t)
  BY AddKeepsMac DEF ReceiptInv
<1>3. /\ t.mac[p] = s.mac[p] /\ t.rx = s.rx /\ t.received = s.received
      /\ Built(t.mac[n]) \subseteq Built(s.mac[n]) \cup F
      /\ t.mac[n].actions = s.mac[n].actions
      /\ \A k \in Nodes : t.mac[k].confirms = s.mac[k].confirms
  BY <1>1 DEF AddStep, p
<1>4. \A k \in Nodes : /\ Reserved(s.mac[k]) \in Nat /\ Reserved(t.mac[k]) \in Nat
                       /\ s.mac[k].dsn \in Nat /\ t.mac[k].dsn \in Nat
  <2>1. \A k \in Nodes : Reserved(s.mac[k]) \in Nat /\ Reserved(t.mac[k]) \in Nat
    BY <1>2, CountsType DEF MacInv
  <2>2. \A k \in Nodes : s.mac[k].dsn \in Nat /\ t.mac[k].dsn \in Nat
    <3>1. \A k \in Nodes : s.mac[k].dsn \in Seqs /\ t.mac[k].dsn \in Seqs
      BY <1>2 DEF MacInv, ServiceInv
    <3>2. \A d1 \in Seqs : d1 \in Nat
      BY ConstantsType DEF Seqs
    <3> QED
      BY <3>1, <3>2
  <2> QED
    BY <2>1, <2>2
<1>5. /\ s.calls \in Nat /\ t.calls \in s.calls .. MaxIds
      /\ s.attempts \in Nat /\ t.attempts \in s.attempts .. MaxAttempts
  BY <1>2, ConstantsType DEF MacInv, ScopeInv, AddStep
<1>6. \A k \in Nodes : s.mac[k].dsn + Reserved(s.mac[k]) <= s.calls + 2 * s.attempts
  BY DEF ReceiptInv, BudgetInv
<1>7. d + Reserved(s.mac[n]) <= s.calls + 2 * s.attempts
  BY <1>1, <1>6
<1>8. \/ F = {} /\ t.mac[n].dsn = d /\ Reserved(t.mac[n]) = Reserved(s.mac[n])
      \/ /\ t.mac[n].dsn = d + 1
         /\ 1 + Reserved(t.mac[n]) <= Reserved(s.mac[n]) + (t.calls - s.calls)
                                      + 2 * (t.attempts - s.attempts)
  <2> DEFINE r == Reserved(s.mac[n])
             r1 == Reserved(t.mac[n])
  <2>1. \/ F = {} /\ t.mac[n].dsn = d /\ r1 = r
        \/ /\ t.mac[n].dsn = (d + 1) % SeqModulus
           /\ 1 + r1 <= r + (t.calls - s.calls) + 2 * (t.attempts - s.attempts)
    BY DEF AddStep
  <2>2. r \in Nat /\ r1 \in Nat /\ d \in Nat /\ d + r <= s.calls + 2 * s.attempts
    BY <1>1, <1>4, <1>7
  <2> HIDE DEF r, r1, d
  <2>3. 1 + r1 <= r + (t.calls - s.calls) + 2 * (t.attempts - s.attempts)
            => (d + 1) \in 0 .. SeqModulus - 1
    BY <1>5, <2>2, ConstantsType DEF NoWrap
  <2>4. (d + 1) \in 0 .. SeqModulus - 1 => (d + 1) % SeqModulus = d + 1
    BY <2>2, ConstantsType
  <2> QED
    BY <2>1, <2>3, <2>4 DEF r, r1
<1>9. BudgetInv(t)
  <2>1. t.mac[n].dsn + Reserved(t.mac[n]) <= t.calls + 2 * t.attempts
    BY <1>1, <1>4, <1>5, <1>7, <1>8
  <2>2. t.mac[p].dsn + Reserved(t.mac[p]) <= t.calls + 2 * t.attempts
    BY <1>1, <1>3, <1>4, <1>5, <1>6
  <2> QED
    BY <1>1, <2>1, <2>2 DEF BudgetInv
<1>10. /\ FramesOf(t, n) \subseteq FramesOf(s, n) \cup F
       /\ FramesOf(t, p) = FramesOf(s, p)
       /\ \A k \in Nodes : AcksTo(t, k) = AcksTo(s, k)
  <2>1. \A k \in Nodes : Air(t, k) = Air(s, k)
    BY <1>1, <1>3 DEF Air
  <2>2. \A k \in Nodes : AcksTo(t, k) = AcksTo(s, k)
    BY <1>1, <2>1 DEF AcksTo
  <2> QED
    BY <1>1, <1>3, <2>1, <2>2 DEF FramesOf
<1>11. F # {} => t.mac[n].dsn = d + 1
  BY <1>8
<1>12. \A f \in F : f.seq = d /\ \A g \in F : f = g
  BY DEF AddStep
<1>13. \A k \in Nodes :
        /\ \A f \in FramesOf(s, k) \cup AcksTo(s, k) : f.seq < s.mac[k].dsn
        /\ \A f, g \in FramesOf(s, k) : f.seq = g.seq => f.id = g.id
        /\ \A a \in AcksTo(s, k), f \in FramesOf(s, k) :
               a.seq = f.seq /\ f.id # NoId => f.id \in s.received
  BY DEF ReceiptInv, SeqInv
<1>14. SeqInv(t)
  <2>1. /\ \A f \in FramesOf(t, p) \cup AcksTo(t, p) : f.seq < t.mac[p].dsn
        /\ \A f, g \in FramesOf(t, p) : f.seq = g.seq => f.id = g.id
        /\ \A a \in AcksTo(t, p), f \in FramesOf(t, p) :
               a.seq = f.seq /\ f.id # NoId => f.id \in t.received
    BY <1>1, <1>3, <1>10, <1>13
  <2>2. \A f \in FramesOf(s, n) \cup AcksTo(s, n) : f.seq # d
    BY <1>1, <1>4, <1>13
  <2>3. \A f \in FramesOf(t, n) \cup AcksTo(t, n) : f.seq < t.mac[n].dsn
    <3>1. \A f \in FramesOf(s, n) \cup AcksTo(s, n) : f.seq < d
      BY <1>1, <1>13
    <3>2. \A f \in FramesOf(t, n) \cup AcksTo(t, n) : f.seq < d \/ f \in F
      BY <1>1, <1>10, <3>1
    <3>3. d \in Nat
      BY <1>1, <1>4
    <3>4. ASSUME NEW f \in FramesOf(t, n) \cup AcksTo(t, n)
          PROVE  f.seq < t.mac[n].dsn
      <4>1. CASE f \in F
        <5>1. f.seq = d /\ t.mac[n].dsn = d + 1
          BY <1>11, <1>12, <4>1
        <5> QED
          BY <3>3, <5>1
      <4>2. CASE f \notin F
        <5>1. f.seq < d /\ f \in FramesOf(s, n) \cup AcksTo(s, n)
          BY <1>1, <1>10, <3>1, <4>2
        <5>2. f.seq \in Nat
          <6>1. f \in Sendable(DOMAIN s.issued) \cup Holdable(DOMAIN s.issued) \cup Acks
            BY <1>1, <1>2, <5>1, FramesType
          <6> QED
            BY <6>1, ConstantsType DEF Sendable, Holdable, Frames, Acks, Seqs
        <5> HIDE DEF d
        <5> QED
          BY <1>8, <3>3, <5>1, <5>2
      <4> QED
        BY <4>1, <4>2
    <3> QED
      BY <3>4
  <2>4. \A f, g \in FramesOf(t, n) : f.seq = g.seq => f.id = g.id
    BY <1>1, <1>10, <1>12, <1>13, <2>2
  <2>5. \A a \in AcksTo(t, n), f \in FramesOf(t, n) :
            a.seq = f.seq /\ f.id # NoId => f.id \in t.received
    BY <1>1, <1>3, <1>10, <1>12, <1>13, <2>2
  <2> QED
    BY <1>1, <2>1, <2>3, <2>4, <2>5 DEF SeqInv
<1>15. \A k \in Nodes : \A f \in FramesOf(s, k) : f.id # NoId => f.id \in DOMAIN s.issued
  <2> SUFFICES ASSUME NEW k \in Nodes, NEW f \in FramesOf(s, k)
               PROVE  f.id # NoId => f.id \in DOMAIN s.issued
    OBVIOUS
  <2>1. f \in Sendable(DOMAIN s.issued) \cup Holdable(DOMAIN s.issued)
    BY <1>2, FramesType
  <2> QED
    BY <2>1 DEF Sendable, Holdable
<1>16. FrameInv(t)
  <2> SUFFICES ASSUME NEW k \in Nodes, NEW f \in FramesOf(t, k)
               PROVE  /\ f.id # NoId /\ t.issued[f.id].ack => f.ack
                      /\ k = Parent => f.kind # "AssocRequest"
    BY DEF FrameInv
  <2>1. CASE f \in FramesOf(s, k)
    <3>1. /\ f.id # NoId /\ s.issued[f.id].ack => f.ack
          /\ k = Parent => f.kind # "AssocRequest"
      BY <2>1 DEF ReceiptInv, FrameInv
    <3>2. f.id # NoId => t.issued[f.id] = s.issued[f.id]
      BY <1>15, <2>1 DEF AddStep
    <3> QED
      BY <3>1, <3>2
  <2>2. CASE f \notin FramesOf(s, k)
    <3>1. k = n /\ f \in F
      BY <1>1, <1>10, <2>2
    <3> QED
      BY <3>1 DEF AddStep
  <2> QED
    BY <2>1, <2>2
<1>17. SuccessInv(t)
  <2> SUFFICES ASSUME NEW k \in Nodes, NEW id \in DOMAIN t.issued, t.issued[id].ack,
                      "Success" \in Range(s.mac[k].confirms[id])
               PROVE  id \in s.received
    BY <1>3 DEF SuccessInv
  <2>1. CASE id \in DOMAIN s.issued
    <3>1. t.issued[id] = s.issued[id]
      BY <2>1 DEF AddStep
    <3> QED
      BY <2>1, <3>1 DEF ReceiptInv, SuccessInv
  <2>2. CASE id \notin DOMAIN s.issued
    <3>1. id \in Ids
      <4>1. DOMAIN t.issued \subseteq 1 .. t.calls /\ t.calls \in 0 .. MaxIds
        BY <1>2 DEF MacInv, ScopeInv
      <4> QED
        BY <4>1, ConstantsType DEF Ids
    <3>2. PlacesOf(s.mac[k], id) = 0
      BY <1>2, <2>2, <3>1 DEF MacInv, PlacesInv, IssuedBy
    <3>3. /\ CountIn(s.mac[k].queue, ById(id)) \in Nat
          /\ CountIn(s.mac[k].indirect, ById(id)) \in Nat
          /\ FlightCount(s.mac[k], ById(id)) \in {0, 1} /\ Len(s.mac[k].confirms[id]) \in Nat
      <4>1. ServiceInv(s.mac[k], DOMAIN s.issued)
        BY <1>2 DEF MacInv
      <4> QED
        BY <3>1, <4>1, CountsType
    <3>4. Len(s.mac[k].confirms[id]) = 0
      <4> DEFINE q == CountIn(s.mac[k].queue, ById(id))
                 h == CountIn(s.mac[k].indirect, ById(id))
                 c == Len(s.mac[k].confirms[id])
                 g == FlightCount(s.mac[k], ById(id))
                 u == IF id \in s.mac[k].taken THEN 1 ELSE 0
      <4>1. q + h + c + g + u = 0 /\ u \in Nat
        BY <3>2 DEF PlacesOf
      <4>2. q \in Nat /\ h \in Nat /\ c \in Nat /\ g \in {0, 1}
        BY <3>3
      <4> HIDE DEF q, h, c, g, u
      <4>3. c = 0
        BY <4>1, <4>2
      <4> QED
        BY <4>3 DEF c
    <3>5. s.mac[k].confirms[id] \in Seq(Statuses)
      BY <1>2, <3>1 DEF MacInv, ServiceInv
    <3> QED
      BY <3>4, <3>5 DEF Range
  <2> QED
    BY <2>1, <2>2
<1> QED
  BY <1>2, <1>9, <1>14, <1>16, <1>17 DEF ReceiptInv

-----------------------------------------------------------------------------
(* What the actions do                                                     *)

\* The acknowledgements in K answer what was received, and so did those that
\* report success for the ids in R.
Justified(s, t, n, K, R) ==
    /\ R \subseteq t.received
    /\ \A a \in K : /\ a.kind = "Ack" /\ a.seq < s.mac[Peer(n)].dsn
                    /\ \A g \in FramesOf(s, Peer(n)) :
                           g.seq = a.seq /\ g.id # NoId => g.id \in t.received

Handled(s, t, n) ==
    \E K, R : HandleStep(s, t, n, K, R) /\ (ReceiptInv(s) => Justified(s, t, n, K, R))

Added(s, t, n) == \E F : AddStep(s, t, n, F)

Change(s, t) == \E n \in Nodes : Handled(s, t, n) \/ Added(s, t, n)

LEMMA ChangeKeeps ==
    ASSUME NEW s, NEW t, Change(s, t)
    PROVE  /\ MacInv(s) => MacInv(t)
           /\ NoWrap /\ ReceiptInv(s) => ReceiptInv(t)
<1>1. PICK n \in Nodes : Handled(s, t, n) \/ Added(s, t, n)
  BY DEF Change
<1>2. CASE Handled(s, t, n)
  <2>1. PICK K, R : /\ HandleStep(s, t, n, K, R)
                    /\ ReceiptInv(s) => Justified(s, t, n, K, R)
    BY <1>2 DEF Handled
  <2>2. MacInv(s) => MacInv(t)
    BY <2>1, HandleKeepsMac
  <2>3. ReceiptInv(s) => ReceiptInv(t)
    BY <2>1, HandleKeepsReceipt DEF Justified
  <2> QED
    BY <2>2, <2>3
<1>3. CASE Added(s, t, n)
  <2>1. PICK F : AddStep(s, t, n, F)
    BY <1>3 DEF Added
  <2> QED
    BY <2>1, AddKeepsMac, AddKeepsReceipt
<1> QED
  BY <1>1, <1>2, <1>3

LEMMA MacFacts ==
    ASSUME MacInv(Now), NEW n \in Nodes
    PROVE  /\ ServiceInv(mac[n], DOMAIN issued) /\ Once(mac[n])
           /\ DOMAIN issued \subseteq Ids
           /\ DOMAIN mac = Nodes /\ DOMAIN rx = Nodes
           /\ \A k \in Nodes : rx[k] \in Seq(OnAir(DOMAIN issued))
<1>1. /\ ServiceInv(mac[n], DOMAIN issued) /\ PlacesInv(mac[n], IssuedBy(Now, n))
      /\ DOMAIN mac = Nodes /\ DOMAIN rx = Nodes
      /\ \A k \in Nodes : rx[k] \in Seq(OnAir(DOMAIN issued))
  BY DEF MacInv, ScopeInv, Now
<1>2. Once(mac[n])
  BY <1>1 DEF Once, PlacesInv
<1>3. calls \in 0 .. MaxIds /\ DOMAIN issued \subseteq 1 .. calls
  BY DEF MacInv, ScopeInv, Now
<1>4. DOMAIN issued \subseteq Ids
  BY <1>3, ConstantsType DEF Ids
<1> QED
  BY <1>1, <1>2, <1>4

\* A step of one node, of what its radio received and of what it sends.
LEMMA Handling ==
    ASSUME MacInv(Now), NEW n \in Nodes, NEW m1, NEW K, NEW R,
           Step(mac[n], m1, DOMAIN issued, K, R),
           mac' = [mac EXCEPT ![n] = m1],
           UNCHANGED <<calls, issued, attempts>>,
           received \subseteq received', received' \subseteq DOMAIN issued,
           DOMAIN rx' = Nodes, \A k \in Nodes : rx'[k] \in Seq(OnAir(DOMAIN issued)),
           Range(rx'[n]) \subseteq Range(rx[n]),
           Range(rx'[Peer(n)]) \subseteq Range(rx[Peer(n)]) \cup Range(mac[n].actions)
                                         \cup Built(mac[n])
    PROVE  HandleStep(Now, Now', n, K, R)
<1>1. Peer(n) \in Nodes /\ Peer(n) # n
  BY PeerOfPeer
<1>2. DOMAIN mac = Nodes
  BY DEF MacInv, ScopeInv, Now
<1>3. mac'[n] = m1 /\ mac'[Peer(n)] = mac[Peer(n)] /\ DOMAIN mac' = Nodes
  BY <1>1, <1>2
<1>4. /\ Now.mac = mac /\ Now.rx = rx /\ Now.calls = calls /\ Now.issued = issued
      /\ Now.attempts = attempts /\ Now.received = received
  BY DEF Now
<1>5. /\ Now'.mac = mac' /\ Now'.rx = rx' /\ Now'.calls = calls' /\ Now'.issued = issued'
      /\ Now'.attempts = attempts' /\ Now'.received = received'
  BY DEF Now
<1> QED
  BY <1>3, <1>4, <1>5 DEF HandleStep

\* The same when nothing is sent or received.
LEMMA QuietHandling ==
    ASSUME MacInv(Now), NEW n \in Nodes, NEW m1,
           Step(mac[n], m1, DOMAIN issued, {}, {}),
           mac' = [mac EXCEPT ![n] = m1],
           UNCHANGED <<rx, calls, issued, attempts, received>>
    PROVE  Change(Now, Now')
<1>1. DOMAIN rx = Nodes /\ \A k \in Nodes : rx[k] \in Seq(OnAir(DOMAIN issued))
  BY MacFacts
<1>2. received \subseteq DOMAIN issued
  BY DEF MacInv, ScopeInv, Now
<1>3. HandleStep(Now, Now', n, {}, {})
  BY <1>1, <1>2, Handling
<1>4. Justified(Now, Now', n, {}, {})
  BY DEF Justified
<1> QED
  BY <1>3, <1>4 DEF Change, Handled

LEMMA RadioStepChange ==
    ASSUME MacInv(Now), NEW n \in Nodes, NEW result \in Results, NEW arrives \in BOOLEAN,
           RadioStep(n, result, arrives)
    PROVE  Change(Now, Now')
<1> DEFINE D == DOMAIN issued
           m == StartNext(mac[n])
           f == Head(m.actions)
           m2 == [m EXCEPT !.actions = Tail(@)]
           m3 == OnTxComplete(m2, result)
           p == Peer(n)
<1>1. /\ ServiceInv(mac[n], D) /\ D \subseteq Ids /\ DOMAIN rx = Nodes
      /\ \A k \in Nodes : rx[k] \in Seq(OnAir(D))
  BY MacFacts
<1>2. /\ m.actions # <<>>
      /\ mac' = [mac EXCEPT ![n] = m3]
      /\ rx' = IF arrives THEN [rx EXCEPT ![p] = Append(rx[p], f)] ELSE rx
      /\ UNCHANGED <<calls, issued, attempts, received>>
  BY DEF RadioStep
<1>3. Step(mac[n], m, D, {}, {})
  BY <1>1, StartNextStep
<1> HIDE DEF m
<1>4. ServiceInv(m, D)
  BY <1>3 DEF Step
<1>5. Step(m, m2, D, {}, {}) /\ f \in OnAir(D) /\ f \in Range(m.actions)
  BY <1>2, <1>4, TakeAction
<1> HIDE DEF m2, f
<1>6. Step(m2, m3, D, {}, {})
  <2>1. ServiceInv(m2, D)
    BY <1>5 DEF Step
  <2> QED
    BY <1>1, <2>1, OnTxCompleteStep
<1> HIDE DEF m3
<1>7. Step(mac[n], m3, D, {}, {})
  BY <1>1, <1>3, <1>4, <1>5, <1>6, StepTransitive
<1>8. f \in Range(mac[n].actions) \cup Built(mac[n])
  BY <1>3, <1>5 DEF Step
<1>9. p \in Nodes /\ p # n
  BY PeerOfPeer
<1>10. /\ Append(rx[p], f) \in Seq(OnAir(D)) /\ Range(Append(rx[p], f)) = Range(rx[p]) \cup {f}
  BY <1>1, <1>5, <1>9, Appended
<1> DEFINE q == Append(rx[p], f)
<1> HIDE DEF q
<1>11. /\ DOMAIN rx' = Nodes /\ rx'[n] = rx[n] /\ (rx'[p] = rx[p] \/ rx'[p] = q)
       /\ \A k \in Nodes : rx'[k] = rx[k] \/ rx'[k] = q
  BY <1>1, <1>2, <1>9 DEF q
<1>12. /\ \A k \in Nodes : rx'[k] \in Seq(OnAir(D))
       /\ Range(rx'[n]) \subseteq Range(rx[n])
       /\ Range(rx'[p]) \subseteq Range(rx[p]) \cup Range(mac[n].actions) \cup Built(mac[n])
  BY <1>1, <1>8, <1>10, <1>11 DEF q
<1>13. received \subseteq received' /\ received' \subseteq D
  BY <1>2 DEF MacInv, ScopeInv, Now
<1>14. HandleStep(Now, Now', n, {}, {})
  BY <1>2, <1>7, <1>11, <1>12, <1>13, Handling
<1>15. Justified(Now, Now', n, {}, {})
  BY DEF Justified
<1> QED
  BY <1>14, <1>15 DEF Change, Handled

LEMMA AckTimeoutChange ==
    ASSUME MacInv(Now), NEW n \in Nodes, AckTimeout(n)
    PROVE  Change(Now, Now')
<1>1. ServiceInv(mac[n], DOMAIN issued) /\ DOMAIN issued \subseteq Ids /\ n \in DOMAIN mac
  BY MacFacts
<1>2. PICK status \in Statuses : status = "NoAck"
  BY DEF Statuses
<1>3. /\ mac[n].flight # NoFlight
      /\ mac' = [mac EXCEPT ![n] = RetryOr(mac[n], status)]
      /\ UNCHANGED <<rx, calls, issued, attempts, received>>
  BY <1>1, <1>2 DEF AckTimeout
<1>4. Step(mac[n], RetryOr(mac[n], status), DOMAIN issued, {}, {})
  BY <1>1, <1>2, <1>3, RetryOrStep
<1> QED
  BY <1>3, <1>4, QuietHandling

LEMMA LeaveChange ==
    ASSUME MacInv(Now), NEW i, IndirectExpiry(i) \/ Purge(i)
    PROVE  Change(Now, Now')
<1> DEFINE D == DOMAIN issued
           m == mac[Parent]
           e == m.indirect[i]
           r == RemoveAt(m.indirect, i)
           m1 == mac'[Parent]
<1>1. Parent \in Nodes
  BY DEF Nodes
<1>2. ServiceInv(m, D) /\ D \subseteq Ids /\ Once(m) /\ DOMAIN mac = Nodes
  BY <1>1, MacFacts
<1>3. i \in DOMAIN m.indirect /\ UNCHANGED <<rx, calls, issued, attempts, received>>
  BY DEF IndirectExpiry, Purge
<1>4. \/ m1 = [m EXCEPT !.indirect = r, !.taken = m.taken \cup {e.id}]
      \/ m1 = Confirm([m EXCEPT !.indirect = r], e.id, "TransactionExpired")
  BY <1>1, <1>2 DEF IndirectExpiry, Purge
<1>5. mac' = [mac EXCEPT ![Parent] = m1]
  BY <1>1, <1>2 DEF IndirectExpiry, Purge
<1>6. Removed(m, i, r, D)
  BY <1>2, <1>3, BothRemove
<1> HIDE DEF m1, r, m
<1>7. \/ m1 = [m EXCEPT !.indirect = r, !.taken = m.taken \cup {e.id}]
      \/ m1 = [m EXCEPT !.indirect = r,
                        !.confirms = Report(m.confirms, e.id, "TransactionExpired")]
  <2>1. CASE m1 = Confirm([m EXCEPT !.indirect = r], e.id, "TransactionExpired")
    <3> DEFINE n == [m EXCEPT !.indirect = r]
    <3>1. n.confirms = m.confirms
      BY <1>2 DEF ServiceInv, IsService
    <3>2. m1 = [n EXCEPT !.confirms = Report(n.confirms, e.id, "TransactionExpired")]
      BY <2>1 DEF Confirm, Report
    <3> QED
      BY <3>1, <3>2
  <2> QED
    BY <1>4, <2>1
<1> HIDE DEF e
<1>8. /\ IsService(m1)
      /\ m1.dsn = m.dsn /\ m1.flight = m.flight /\ m1.assoc = m.assoc
      /\ m1.actions = m.actions /\ m1.indirect = r /\ m1.queue = m.queue
      /\ \/ /\ m1.taken = m.taken \cup {e.id} /\ m1.confirms = m.confirms
         \/ /\ m1.taken = m.taken
            /\ m1.confirms = Report(m.confirms, e.id, "TransactionExpired")
  BY <1>2, <1>7 DEF ServiceInv, IsService
<1>9. Step(m, m1, D, {}, {})
  BY <1>2, <1>3, <1>6, <1>8, RemovalStep DEF Report, e
<1> QED
  BY <1>1, <1>3, <1>5, <1>9, QuietHandling DEF m

LEMMA AssocDeadlineChange ==
    ASSUME MacInv(Now), AssocDeadline
    PROVE  Change(Now, Now')
<1> DEFINE m == mac[Child]
           m1 == [m EXCEPT !.assoc = "None"]
<1>1. Child \in Nodes
  BY DEF Nodes
<1>2. ServiceInv(m, DOMAIN issued) /\ DOMAIN mac = Nodes
  BY <1>1, MacFacts
<1>3. mac' = [mac EXCEPT ![Child] = m1] /\ UNCHANGED <<rx, calls, issued, attempts, received>>
  BY <1>1, <1>2 DEF AssocDeadline, AssociateConfirm
<1>4. Step(m, m1, DOMAIN issued, {}, {})
  <2>1. m1 = [m EXCEPT !.assoc = "None"]
    OBVIOUS
  <2> HIDE DEF m, m1
  <2>2. /\ IsService(m1)
        /\ m1.dsn = m.dsn /\ m1.queue = m.queue /\ m1.indirect = m.indirect
        /\ m1.confirms = m.confirms /\ m1.taken = m.taken /\ m1.flight = m.flight
        /\ m1.actions = m.actions /\ m1.assoc = "None"
    BY <1>2, <2>1 DEF ServiceInv, IsService
  <2>3. m1.actions \in Seq(OnAir(DOMAIN issued))
    BY <1>2, <2>2 DEF ServiceInv
  <2> QED
    BY <1>2, <2>2, <2>3, QuietStep
<1> HIDE DEF m1
<1> QED
  BY <1>1, <1>3, <1>4, QuietHandling

\* The child leaves the network: nothing that is queued or in flight changes.
LEMMA LeaveNetworkChange ==
    ASSUME MacInv(Now), LeaveNetwork
    PROVE  Change(Now, Now')
<1> DEFINE m == mac[Child]
           n == [m EXCEPT !.short = FALSE]
           m1 == [n EXCEPT !.pan = FALSE]
<1>1. Child \in Nodes
  BY DEF Nodes
<1>2. ServiceInv(m, DOMAIN issued) /\ DOMAIN mac = Nodes
  BY <1>1, MacFacts
<1>3. mac' = [mac EXCEPT ![Child] = m1] /\ UNCHANGED <<rx, calls, issued, attempts, received>>
  BY <1>1, <1>2 DEF LeaveNetwork
<1>4. Step(m, m1, DOMAIN issued, {}, {})
  <2>1. \E a, b : m1 = [[m EXCEPT !.short = a] EXCEPT !.pan = b]
    OBVIOUS
  <2> HIDE DEF m, m1
  <2>2. /\ IsService(m1)
        /\ m1.dsn = m.dsn /\ m1.queue = m.queue /\ m1.indirect = m.indirect
        /\ m1.confirms = m.confirms /\ m1.taken = m.taken /\ m1.flight = m.flight
        /\ m1.actions = m.actions /\ m1.assoc = m.assoc
    BY <1>2, <2>1 DEF ServiceInv, IsService
  <2>3. m1.actions \in Seq(OnAir(DOMAIN issued))
    BY <1>2, <2>2 DEF ServiceInv
  <2> QED
    BY <1>2, <2>2, <2>3, QuietStep
<1> HIDE DEF m1
<1> QED
  BY <1>1, <1>3, <1>4, QuietHandling

-----------------------------------------------------------------------------
(* Requests                                                                *)

\* Nothing is sent or reported, and what is in flight stays.
Keeps(m, m1) ==
    /\ m1.flight = m.flight /\ m1.actions = m.actions
    /\ m1.confirms = m.confirms /\ m1.taken = m.taken

\* The association requests on their way.
Requested(m) == CountIn(m.queue, Requests) + FlightCount(m, Requests)

\* The requests in N are held in one more place.
Grows(m, m1, N) ==
    \A id \in Ids : PlacesOf(m1, id) = PlacesOf(m, id) + IF id \in N THEN 1 ELSE 0

\* What a new frame in the queue changes.
LEMMA Enqueued ==
    ASSUME NEW m, NEW m1, NEW D, NEW f \in Sendable(D), ServiceInv(m, D), IsService(m1),
           Len(m.queue) < QueueCapacity, m1.queue = Append(m.queue, f),
           m1.indirect = m.indirect, Keeps(m, m1), m1.dsn \in Seqs, m1.assoc \in Phases
    PROVE  /\ ServiceInv(m1, D) /\ Grows(m, m1, {f.id})
           /\ Built(m1) = Built(m) \cup {f}
<1>1. /\ m.queue \in Seq(Sendable(D)) /\ Len(m.queue) \in Nat /\ f \in Frames
  BY DEF ServiceInv, Sendable
<1>2. /\ m1.queue \in Seq(Sendable(D)) /\ Len(m1.queue) = Len(m.queue) + 1
      /\ Range(m1.queue) = Range(m.queue) \cup {f}
  BY <1>1, Appended
<1>3. Len(m1.queue) <= QueueCapacity
  BY <1>1, <1>2, ConstantsType
<1>4. ServiceInv(m1, D)
  BY <1>2, <1>3 DEF ServiceInv, Keeps
<1>5. Built(m1) = Built(m) \cup {f}
  BY <1>2 DEF Built, Keeps
<1>6. \A X : FlightCount(m1, X) = FlightCount(m, X)
  BY DEF FlightCount, Keeps
<1>7. \A X : CountIn(m1.queue, X) = CountIn(m.queue, X) + IF f \in X THEN 1 ELSE 0
  BY <1>1, CountAppend
<1>8. ASSUME NEW id \in Ids
      PROVE  PlacesOf(m1, id) = PlacesOf(m, id) + IF id \in {f.id} THEN 1 ELSE 0
  <2> DEFINE x == IF id \in {f.id} THEN 1 ELSE 0
             u == IF id \in m.taken THEN 1 ELSE 0
             q == CountIn(m.queue, ById(id))
             q1 == CountIn(m1.queue, ById(id))
             h == CountIn(m.indirect, ById(id))
             c == Len(m.confirms[id])
             g == FlightCount(m, ById(id))
  <2>1. f \in ById(id) <=> f.id = id
    BY <1>1 DEF ById
  <2>2. q1 = q + x
    BY <1>7, <2>1
  <2>3. q \in Nat /\ h \in Nat /\ g \in Nat /\ c \in Nat
    BY CountsType
  <2>4. x \in Nat /\ u \in Nat
    OBVIOUS
  <2>5. PlacesOf(m, id) = q + h + c + g + u
    BY DEF PlacesOf
  <2>6. PlacesOf(m1, id) = q1 + h + c + g + u
    BY <1>6 DEF PlacesOf, Keeps
  <2> HIDE DEF x, u, q, q1, h, c, g
  <2>7. PlacesOf(m1, id) = PlacesOf(m, id) + x
    BY <2>2, <2>3, <2>4, <2>5, <2>6
  <2> QED
    BY <2>7 DEF x
<1> QED
  BY <1>4, <1>5, <1>8 DEF Grows

LEMMA EnqueuedRequests ==
    ASSUME NEW m, NEW m1, NEW D, NEW f \in Sendable(D), ServiceInv(m, D),
           m1.queue = Append(m.queue, f), Keeps(m, m1)
    PROVE  Requested(m1) = Requested(m) + IF f \in Requests THEN 1 ELSE 0
<1>1. m.queue \in Seq(Sendable(D))
  BY DEF ServiceInv
<1>2. CountIn(m1.queue, Requests) = CountIn(m.queue, Requests) + IF f \in Requests THEN 1 ELSE 0
  BY <1>1, CountAppend
<1>3. FlightCount(m1, Requests) = FlightCount(m, Requests)
  BY DEF FlightCount, Keeps
<1>4. CountIn(m.queue, Requests) \in Nat /\ FlightCount(m, Requests) \in Nat
  BY CountsType
<1> QED
  BY <1>2, <1>3, <1>4 DEF Requested

\* What a new transaction in the table changes.
LEMMA Held ==
    ASSUME NEW m, NEW m1, NEW D, NEW f \in Holdable(D), ServiceInv(m, D), IsService(m1),
           Len(m.indirect) < IndirectCapacity, m1.indirect = Append(m.indirect, f),
           m1.queue = m.queue, Keeps(m, m1), m1.dsn \in Seqs, m1.assoc = m.assoc
    PROVE  /\ ServiceInv(m1, D) /\ Grows(m, m1, {f.id})
           /\ Built(m1) \subseteq Built(m) \cup {g \in {f} : g.kind # "DeferredData"}
           /\ Reserved(m1) = Reserved(m)
<1>1. /\ m.indirect \in Seq(Holdable(D)) /\ Len(m.indirect) \in Nat /\ f \in Frames
  BY DEF ServiceInv, Holdable
<1>2. /\ m1.indirect \in Seq(Holdable(D)) /\ Len(m1.indirect) = Len(m.indirect) + 1
      /\ Range(m1.indirect) = Range(m.indirect) \cup {f}
  BY <1>1, Appended
<1>3. Len(m1.indirect) <= IndirectCapacity
  BY <1>1, <1>2, ConstantsType
<1>4. ServiceInv(m1, D)
  BY <1>2, <1>3 DEF ServiceInv, Keeps
<1>5. Built(m1) \subseteq Built(m) \cup {g \in {f} : g.kind # "DeferredData"}
  BY <1>2 DEF Built, Keeps
<1>6. \A X : FlightCount(m1, X) = FlightCount(m, X)
  BY DEF FlightCount, Keeps
<1>7. \A X : CountIn(m1.indirect, X) = CountIn(m.indirect, X) + IF f \in X THEN 1 ELSE 0
  BY <1>1, CountAppend
<1>8. Reserved(m1) = Reserved(m)
  BY <1>6 DEF Reserved
<1>9. ASSUME NEW id \in Ids
      PROVE  PlacesOf(m1, id) = PlacesOf(m, id) + IF id \in {f.id} THEN 1 ELSE 0
  <2> DEFINE x == IF id \in {f.id} THEN 1 ELSE 0
             u == IF id \in m.taken THEN 1 ELSE 0
             q == CountIn(m.queue, ById(id))
             h == CountIn(m.indirect, ById(id))
             h1 == CountIn(m1.indirect, ById(id))
             c == Len(m.confirms[id])
             g == FlightCount(m, ById(id))
  <2>1. f \in ById(id) <=> f.id = id
    BY <1>1 DEF ById
  <2>2. h1 = h + x
    BY <1>7, <2>1
  <2>3. q \in Nat /\ h \in Nat /\ g \in Nat /\ c \in Nat
    BY CountsType
  <2>4. x \in Nat /\ u \in Nat
    OBVIOUS
  <2>5. PlacesOf(m, id) = q + h + c + g + u
    BY DEF PlacesOf
  <2>6. PlacesOf(m1, id) = q + h1 + c + g + u
    BY <1>6 DEF PlacesOf, Keeps
  <2> HIDE DEF x, u, q, h, h1, c, g
  <2>7. PlacesOf(m1, id) = PlacesOf(m, id) + x
    BY <2>2, <2>3, <2>4, <2>5, <2>6
  <2> QED
    BY <2>7 DEF x
<1> QED
  BY <1>4, <1>5, <1>8, <1>9 DEF Grows

\* What a used sequence number and the end of an association change.
LEMMA Refused ==
    ASSUME NEW m, NEW m1, NEW D, ServiceInv(m, D), IsService(m1),
           m1.indirect = m.indirect, m1.queue = m.queue, Keeps(m, m1),
           m1.dsn \in Seqs, m1.assoc \in Phases
    PROVE  /\ ServiceInv(m1, D)
           /\ Grows(m, m1, {})
           /\ Built(m1) = Built(m)
           /\ Requested(m1) = Requested(m)
<1>1. ServiceInv(m1, D)
  BY DEF ServiceInv, Keeps
<1>2. \A X : FlightCount(m1, X) = FlightCount(m, X)
  BY DEF FlightCount, Keeps
<1>3. \A id \in Ids : PlacesOf(m1, id) = PlacesOf(m, id)
  BY <1>2 DEF PlacesOf, Keeps
<1>4. Built(m1) = Built(m)
  BY DEF Built, Keeps
<1>5. \A id \in Ids : PlacesOf(m, id) \in Nat
  BY CountsType
<1>6. Grows(m, m1, {})
  BY <1>3, <1>5 DEF Grows
<1>7. Requested(m1) = Requested(m)
  BY <1>2 DEF Requested
<1> QED
  BY <1>1, <1>4, <1>6, <1>7

LEMMA NextSeq ==
    ASSUME NEW d \in Seqs
    PROVE  (d + 1) % SeqModulus \in Seqs
  BY ConstantsType DEF Seqs

\* A request of n is made; it gets the ids in N, none if it is refused.
Issues(s, t, n, ack, N) ==
    /\ s.calls < MaxIds /\ t.calls = s.calls + 1
    /\ t.attempts = s.attempts /\ t.rx = s.rx /\ t.received = s.received
    /\ N \subseteq {t.calls} /\ DOMAIN t.issued = DOMAIN s.issued \cup N
    /\ \A id \in DOMAIN s.issued : t.issued[id] = s.issued[id]
    /\ \A id \in N : t.issued[id].node = n /\ t.issued[id].ack = ack

LEMMA IssueFacts ==
    ASSUME NEW s, NEW t, MacInv(s), NEW n \in Nodes, NEW ack, NEW N, Issues(s, t, n, ack, N)
    PROVE  /\ t.calls \in s.calls .. MaxIds /\ t.attempts \in s.attempts .. MaxAttempts
           /\ t.calls - s.calls = 1 /\ t.attempts - s.attempts = 0
           /\ t.calls \in Ids /\ t.calls # NoId
           /\ DOMAIN s.issued \subseteq DOMAIN t.issued
           /\ \A id : id \in DOMAIN t.issued \ DOMAIN s.issued <=> id \in N
<1>1. /\ s.calls \in Nat /\ s.calls < MaxIds /\ t.calls = s.calls + 1
      /\ s.attempts \in 0 .. MaxAttempts /\ t.attempts = s.attempts
  BY ConstantsType DEF Issues, MacInv, ScopeInv
<1>2. t.calls \notin DOMAIN s.issued
  <2>1. DOMAIN s.issued \subseteq 1 .. s.calls
    BY DEF MacInv, ScopeInv
  <2> QED
    BY <1>1, <2>1
<1>3. /\ t.calls \in s.calls .. MaxIds /\ t.attempts \in s.attempts .. MaxAttempts
      /\ t.calls - s.calls = 1 /\ t.attempts - s.attempts = 0
      /\ t.calls \in Ids /\ t.calls # NoId
  BY <1>1, ConstantsType DEF Ids, NoId
<1> QED
  BY <1>2, <1>3 DEF Issues

\* The service of n becomes m1, which has built the frames in F.
Asks(s, t, n, ack, N, m1, F) ==
    /\ t.mac = [s.mac EXCEPT ![n] = m1]
    /\ ServiceInv(m1, DOMAIN t.issued)
    /\ Grows(s.mac[n], m1, N) /\ Keeps(s.mac[n], m1)
    /\ n = Child => m1.indirect = s.mac[n].indirect
    /\ m1.assoc = s.mac[n].assoc
    /\ Built(m1) \subseteq Built(s.mac[n]) \cup F
    /\ \A f \in F : /\ f.id \in N /\ f.seq = s.mac[n].dsn /\ f.ack = ack
                    /\ f.kind # "AssocRequest" /\ \A g \in F : f = g
    /\ Reserved(m1) = Reserved(s.mac[n])
    /\ \/ F = {} /\ m1.dsn = s.mac[n].dsn
       \/ m1.dsn = (s.mac[n].dsn + 1) % SeqModulus

LEMMA Asking ==
    ASSUME NEW s, NEW t, MacInv(s), NEW n \in Nodes, NEW ack, NEW N,
           Issues(s, t, n, ack, N), NEW m1, NEW F, Asks(s, t, n, ack, N, m1, F)
    PROVE  Change(s, t)
<1>1. /\ t.calls \in s.calls .. MaxIds /\ t.attempts \in s.attempts .. MaxAttempts
      /\ t.calls - s.calls = 1 /\ t.attempts - s.attempts = 0
      /\ t.calls \in Ids /\ t.calls # NoId
      /\ DOMAIN s.issued \subseteq DOMAIN t.issued
      /\ DOMAIN t.issued \ DOMAIN s.issued = N
  <2>1. /\ t.calls \in s.calls .. MaxIds /\ t.attempts \in s.attempts .. MaxAttempts
        /\ t.calls - s.calls = 1 /\ t.attempts - s.attempts = 0
    BY IssueFacts
  <2>2. t.calls \in Ids /\ t.calls # NoId /\ DOMAIN s.issued \subseteq DOMAIN t.issued
    BY IssueFacts
  <2>3. \A id : id \in DOMAIN t.issued \ DOMAIN s.issued <=> id \in N
    BY IssueFacts
  <2> QED
    BY <2>1, <2>2, <2>3
<1>2. /\ s.calls \in Nat /\ t.calls = s.calls + 1 /\ t.rx = s.rx /\ t.received = s.received
      /\ N \subseteq {t.calls}
      /\ \A id \in DOMAIN s.issued : t.issued[id] = s.issued[id]
      /\ \A id \in N : t.issued[id].node = n /\ t.issued[id].ack = ack
  BY ConstantsType DEF Issues, MacInv, ScopeInv
<1>3. DOMAIN s.mac = Nodes
  BY DEF MacInv, ScopeInv
<1>4. DOMAIN t.mac = Nodes /\ t.mac[n] = m1 /\ t.mac[Peer(n)] = s.mac[Peer(n)]
  BY <1>3, PeerOfPeer DEF Asks
<1>5. \A id \in DOMAIN t.issued \ DOMAIN s.issued :
          id = t.calls /\ t.calls = s.calls + 1 /\ t.issued[id].node = n
  BY <1>1, <1>2
<1>6. ASSUME NEW id \in Ids
      PROVE  PlacesOf(m1, id) = PlacesOf(s.mac[n], id)
                 + IF id \in DOMAIN t.issued \ DOMAIN s.issued THEN 1 ELSE 0
  BY <1>1 DEF Grows, Asks
<1>7. \A f \in F : /\ f.seq = s.mac[n].dsn
                   /\ f.id # NoId => /\ f.id \in DOMAIN t.issued
                                     /\ t.issued[f.id].ack => f.ack
                   /\ n = Parent => f.kind # "AssocRequest"
                   /\ \A g \in F : f = g
  BY <1>1, <1>2 DEF Asks
<1>8. 1 + Reserved(m1) <= Reserved(s.mac[n]) + (t.calls - s.calls)
                          + 2 * (t.attempts - s.attempts)
  <2>1. Reserved(s.mac[n]) \in Nat
    BY CountsType DEF MacInv
  <2> DEFINE r == Reserved(s.mac[n])
             a == t.calls - s.calls
             b == t.attempts - s.attempts
  <2> HIDE DEF r, a, b
  <2>2. a = 1 /\ b = 0 /\ r \in Nat
    BY <1>1, <2>1 DEF a, b, r
  <2>3. 1 + r <= r + a + 2 * b
    BY <2>2
  <2> QED
    BY <2>3 DEF r, a, b, Asks
<1>9. AddStep(s, t, n, F)
  BY <1>1, <1>2, <1>4, <1>5, <1>6, <1>7, <1>8 DEF AddStep, Asks, Keeps
<1> QED
  BY <1>9 DEF Change, Added


\* A request that is refused uses a sequence number, or not even that.
LEMMA RefusedRequest ==
    ASSUME NEW s, NEW t, MacInv(s), NEW n \in Nodes, NEW ack, Issues(s, t, n, ack, {}),
           NEW m1, t.mac = [s.mac EXCEPT ![n] = m1], IsService(m1), Keeps(s.mac[n], m1),
           m1.queue = s.mac[n].queue, m1.indirect = s.mac[n].indirect,
           m1.assoc = s.mac[n].assoc,
           m1.dsn = s.mac[n].dsn \/ m1.dsn = (s.mac[n].dsn + 1) % SeqModulus
    PROVE  Change(s, t)
<1> DEFINE m == s.mac[n]
           D1 == DOMAIN t.issued
<1>1. ServiceInv(m, D1) /\ m.dsn \in Seqs /\ m.assoc \in Phases
  <2>1. ServiceInv(m, DOMAIN s.issued)
    BY DEF MacInv
  <2>2. DOMAIN s.issued \subseteq D1
    BY IssueFacts
  <2>3. ServiceInv(m, D1)
    BY <2>1, <2>2, MoreIds
  <2> QED
    BY <2>3 DEF ServiceInv
<1>2. m1.dsn \in Seqs /\ m1.assoc \in Phases
  BY <1>1, NextSeq
<1>3. /\ ServiceInv(m1, D1) /\ Built(m1) = Built(m) /\ Grows(m, m1, {})
      /\ Requested(m1) = Requested(m)
  BY <1>1, <1>2, Refused
<1>4. Reserved(m1) = Reserved(m)
  BY <1>3 DEF Reserved, Requested
<1>5. Built(m1) \subseteq Built(m) \cup {}
  BY <1>3
<1>6. Asks(s, t, n, ack, {}, m1, {})
  BY <1>3, <1>4, <1>5 DEF Asks
<1> QED
  BY <1>6, Asking

\* The frames of requests that are queued at once.
Queueable == {f \in Frames : f.kind \notin Associating /\ f.kind # "DeferredData"}

\* The frame f of a request is queued.
Queues(m, m1, f) ==
    /\ f.seq = m.dsn /\ IsService(m1) /\ Keeps(m, m1)
    /\ Len(m.queue) < QueueCapacity /\ m1.queue = Append(m.queue, f)
    /\ m1.indirect = m.indirect /\ m1.assoc = m.assoc
    /\ m1.dsn = (m.dsn + 1) % SeqModulus

LEMMA QueuedRequest ==
    ASSUME NEW s, NEW t, MacInv(s), NEW n \in Nodes, NEW f \in Queueable,
           Issues(s, t, n, f.ack, {f.id}),
           NEW m1, t.mac = [s.mac EXCEPT ![n] = m1], Queues(s.mac[n], m1, f)
    PROVE  Change(s, t)
<1> DEFINE m == s.mac[n]
           D1 == DOMAIN t.issued
<1>1. ServiceInv(m, D1) /\ m.dsn \in Seqs /\ m.assoc \in Phases
  <2>1. ServiceInv(m, DOMAIN s.issued)
    BY DEF MacInv
  <2>2. DOMAIN s.issued \subseteq D1
    BY IssueFacts
  <2>3. ServiceInv(m, D1)
    BY <2>1, <2>2, MoreIds
  <2> QED
    BY <2>3 DEF ServiceInv
<1>2. m1.dsn \in Seqs /\ m1.assoc \in Phases
  BY <1>1, NextSeq DEF Queues
<1>3. f \in Sendable(D1)
  BY DEF Sendable, Issues, Queueable
<1>4. /\ ServiceInv(m1, D1) /\ Grows(m, m1, {f.id}) /\ Built(m1) = Built(m) \cup {f}
  <2>1. IsService(m1) /\ Keeps(m, m1) /\ Len(m.queue) < QueueCapacity
    BY DEF Queues
  <2>2. m1.queue = Append(m.queue, f) /\ m1.indirect = m.indirect
    BY DEF Queues
  <2> HIDE DEF m, D1
  <2>3. ServiceInv(m1, D1)
    BY <1>1, <1>2, <1>3, <2>1, <2>2, Enqueued
  <2>4. Grows(m, m1, {f.id})
    BY <1>1, <1>2, <1>3, <2>1, <2>2, Enqueued
  <2>5. Built(m1) = Built(m) \cup {f}
    BY <1>1, <1>2, <1>3, <2>1, <2>2, Enqueued
  <2> QED
    BY <2>3, <2>4, <2>5
<1>5. Reserved(m1) = Reserved(m)
  <2>1. f \notin Requests
    BY DEF Requests, Associating, Queueable
  <2>2. Requested(m1) = Requested(m) + IF f \in Requests THEN 1 ELSE 0
    BY <1>1, <1>3, EnqueuedRequests DEF Queues
  <2>3. Requested(m) \in Nat
    <3>1. CountIn(m.queue, Requests) \in Nat /\ FlightCount(m, Requests) \in {0, 1}
      BY <1>1, CountsType
    <3> QED
      BY <3>1 DEF Requested
  <2>4. Requested(m1) = Requested(m)
    BY <2>1, <2>2, <2>3
  <2> QED
    BY <2>4 DEF Reserved, Requested, Queues
<1>6. \A g \in {f} : /\ g.id \in {f.id} /\ g.seq = m.dsn /\ g.ack = f.ack
                     /\ g.kind # "AssocRequest" /\ \A h \in {f} : g = h
  BY DEF Associating, Queueable, Queues
<1>7. Built(m1) \subseteq Built(m) \cup {f}
  BY <1>4
<1>8. Asks(s, t, n, f.ack, {f.id}, m1, {f})
  BY <1>4, <1>5, <1>6, <1>7 DEF Asks, Queues
<1> QED
  BY <1>8, Asking

\* The frame f of a request is held for the child.
Holds(m, m1, f) ==
    /\ f.seq = m.dsn /\ f.ack = TRUE /\ f.kind \notin Associating
    /\ IsService(m1) /\ Keeps(m, m1)
    /\ Len(m.indirect) < IndirectCapacity /\ m1.indirect = Append(m.indirect, f)
    /\ m1.queue = m.queue /\ m1.assoc = m.assoc
    /\ \/ m1.dsn = (m.dsn + 1) % SeqModulus
       \/ f.kind = "DeferredData" /\ m1.dsn = m.dsn

LEMMA HeldRequest ==
    ASSUME NEW s, NEW t, MacInv(s), NEW f \in Frames, Issues(s, t, Parent, TRUE, {f.id}),
           NEW m1, t.mac = [s.mac EXCEPT ![Parent] = m1], Holds(s.mac[Parent], m1, f)
    PROVE  Change(s, t)
<1> DEFINE m == s.mac[Parent]
           D1 == DOMAIN t.issued
           F == {g \in {f} : g.kind # "DeferredData"}
<1>1. Parent \in Nodes /\ Parent # Child
  BY ConstantsType DEF Nodes
<1>2. ServiceInv(m, D1) /\ m.dsn \in Seqs /\ m.assoc \in Phases
  <2>1. ServiceInv(m, DOMAIN s.issued)
    BY <1>1 DEF MacInv
  <2>2. DOMAIN s.issued \subseteq D1
    BY <1>1, IssueFacts
  <2>3. ServiceInv(m, D1)
    BY <2>1, <2>2, MoreIds
  <2> QED
    BY <2>3 DEF ServiceInv
<1>3. m1.dsn \in Seqs
  BY <1>2, NextSeq DEF Holds
<1>4. f \in Holdable(D1)
  BY DEF Holdable, Issues, Holds
<1>5. /\ ServiceInv(m1, D1) /\ Grows(m, m1, {f.id}) /\ Built(m1) \subseteq Built(m) \cup F
      /\ Reserved(m1) = Reserved(m)
  <2>1. /\ IsService(m1) /\ Keeps(m, m1) /\ Len(m.indirect) < IndirectCapacity
        /\ m1.indirect = Append(m.indirect, f) /\ m1.queue = m.queue /\ m1.assoc = m.assoc
    BY DEF Holds
  <2> QED
    BY <1>2, <1>3, <1>4, <2>1, Held
<1>6. \A g \in F : /\ g.id \in {f.id} /\ g.seq = m.dsn /\ g.ack = TRUE
                   /\ g.kind # "AssocRequest" /\ \A h \in F : g = h
  BY DEF Associating, Holds
<1>7. \/ F = {} /\ m1.dsn = m.dsn
      \/ m1.dsn = (m.dsn + 1) % SeqModulus
  BY DEF Holds
<1> HIDE DEF F
<1>8. Asks(s, t, Parent, TRUE, {f.id}, m1, F)
  BY <1>1, <1>5, <1>6, <1>7 DEF Asks, Holds
<1> QED
  BY <1>1, <1>8, Asking

\* The child or the parent asks for a frame to be sent.
LEMMA PlaceQueued ==
    ASSUME MacInv(Now), NEW n \in Nodes,
           NEW f \in Queueable, f.id = calls + 1, f.seq = mac[n].dsn,
           NEW m, m = NextDsn(mac[n]), Place(n, f, m, QueueFull(m), Enqueue(m, f))
    PROVE  Change(Now, Now')
<1> DEFINE m0 == mac[n]
<1>1. PICK s : s = Now
  OBVIOUS
<1>2. PICK t : t = Now'
  OBVIOUS
<1>3. /\ s.mac = mac /\ s.rx = rx /\ s.calls = calls /\ s.issued = issued
      /\ s.attempts = attempts /\ s.received = received
  BY <1>1 DEF Now
<1>4. /\ t.mac = mac' /\ t.rx = rx' /\ t.calls = calls' /\ t.issued = issued'
      /\ t.attempts = attempts' /\ t.received = received'
  BY <1>2 DEF Now
<1>5. MacInv(s)
  BY <1>1
<1>6. /\ ServiceInv(m0, DOMAIN issued) /\ calls \in Nat
  BY ConstantsType, MacFacts DEF MacInv, ScopeInv, Now
<1>7. m0.dsn \in Seqs /\ Len(m0.queue) \in Nat /\ IsService(m0)
  BY <1>6 DEF ServiceInv
<1>8. /\ calls < MaxIds /\ calls' = calls + 1 /\ UNCHANGED <<rx, attempts, received>>
  BY DEF Place, Issue
<1>9. f.seq = m0.dsn
  OBVIOUS
<1>10. m = [m0 EXCEPT !.dsn = (m0.dsn + 1) % SeqModulus]
  BY DEF NextDsn
<1> HIDE DEF m0
<1>11. /\ IsService(m) /\ Keeps(m0, m) /\ m.queue = m0.queue /\ m.indirect = m0.indirect
       /\ m.assoc = m0.assoc /\ m.dsn = (m0.dsn + 1) % SeqModulus
  BY <1>7, <1>10 DEF IsService, Keeps
<1>12. CASE QueueFull(m)
  <2>1. issued' = issued /\ mac' = [mac EXCEPT ![n] = m]
    BY <1>12 DEF Place, Issue
  <2>2. Issues(s, t, n, f.ack, {})
    BY <1>3, <1>4, <1>8, <2>1 DEF Issues
  <2>3. t.mac = [s.mac EXCEPT ![n] = m] /\ s.mac[n] = m0
    BY <1>3, <1>4, <2>1 DEF m0
  <2>4. Change(s, t)
    BY <1>5, <1>11, <2>2, <2>3, RefusedRequest
  <2> QED
    BY <1>1, <1>2, <2>4
<1>13. CASE ~QueueFull(m)
  <2> DEFINE m1 == [m EXCEPT !.queue = Append(m.queue, f)]
  <2>1. /\ mac' = [mac EXCEPT ![n] = m1]
        /\ issued' = [i \in DOMAIN issued \cup {calls + 1} |->
                         IF i = calls + 1 THEN [node |-> n, ack |-> f.ack] ELSE issued[i]]
    BY <1>13 DEF Place, Issue, NextId, Enqueue
  <2>2. calls + 1 \notin DOMAIN issued
    <3>1. DOMAIN issued \subseteq 1 .. calls
      BY DEF MacInv, ScopeInv, Now
    <3> QED
      BY <1>6, <3>1
  <2>3. /\ DOMAIN t.issued = DOMAIN s.issued \cup {f.id}
        /\ \A id \in DOMAIN s.issued : t.issued[id] = s.issued[id]
        /\ t.issued[f.id] = [node |-> n, ack |-> f.ack]
    BY <1>3, <1>4, <2>1, <2>2
  <2>4. Issues(s, t, n, f.ack, {f.id})
    BY <1>3, <1>4, <1>8, <2>3 DEF Issues
  <2>5. t.mac = [s.mac EXCEPT ![n] = m1] /\ s.mac[n] = m0
    BY <1>3, <1>4, <2>1 DEF m0
  <2>6. m1 = [m EXCEPT !.queue = Append(m.queue, f)]
    OBVIOUS
  <2> HIDE DEF m1
  <2>7. /\ IsService(m1) /\ Keeps(m0, m1) /\ m1.queue = Append(m0.queue, f)
        /\ m1.indirect = m0.indirect
        /\ m1.assoc = m0.assoc /\ m1.dsn = (m0.dsn + 1) % SeqModulus
    BY <1>11, <2>6 DEF IsService, Keeps
  <2>8. Len(m0.queue) < QueueCapacity
    BY <1>7, <1>11, <1>13, ConstantsType DEF QueueFull
  <2>9. Queues(s.mac[n], m1, f)
    BY <1>9, <2>5, <2>7, <2>8 DEF Queues
  <2>10. Change(s, t)
    BY ONLY <1>5, <2>4, <2>5, <2>9, QueuedRequest, n \in Nodes, f \in Queueable
  <2> QED
    BY <1>1, <1>2, <2>10
<1> QED
  BY <1>12, <1>13

LEMMA IndirectRequestChange ==
    ASSUME MacInv(Now), NEW kind \in {"IndirectData", "DeferredData"}, IndirectRequest(kind)
    PROVE  Change(Now, Now')
<1> DEFINE m0 == mac[Parent]
           f == NewFrame(m0, kind, NextId, TRUE, "short", FALSE)
           m == IF kind = "DeferredData" THEN m0 ELSE NextDsn(m0)
<1>1. PICK s : s = Now
  OBVIOUS
<1>2. PICK t : t = Now'
  OBVIOUS
<1>3. /\ s.mac = mac /\ s.rx = rx /\ s.calls = calls /\ s.issued = issued
      /\ s.attempts = attempts /\ s.received = received
  BY <1>1 DEF Now
<1>4. /\ t.mac = mac' /\ t.rx = rx' /\ t.calls = calls' /\ t.issued = issued'
      /\ t.attempts = attempts' /\ t.received = received'
  BY <1>2 DEF Now
<1>5. MacInv(s) /\ Parent \in Nodes
  BY <1>1 DEF Nodes
<1>6. /\ ServiceInv(m0, DOMAIN issued) /\ calls \in Nat
  BY <1>5, ConstantsType, MacFacts DEF MacInv, ScopeInv, Now
<1>7. m0.dsn \in Seqs /\ Len(m0.indirect) \in Nat /\ IsService(m0)
  BY <1>6 DEF ServiceInv
<1>8. Place(Parent, f, m, IndirectFull(m), AddIndirect(m, f))
  BY DEF IndirectRequest
<1>9. /\ calls < MaxIds /\ calls' = calls + 1 /\ UNCHANGED <<rx, attempts, received>>
  BY <1>8 DEF Place, Issue
<1>10. /\ f.id = calls + 1 /\ f.seq = m0.dsn /\ f.ack = TRUE /\ f \in Frames
       /\ f.kind \notin Associating /\ f.kind = kind
  BY <1>6, <1>7, <1>9, ConstantsType DEF NewFrame, NextId, Frames, Kinds, Seqs, Ids, Associating
<1>11. \/ m = m0 /\ kind = "DeferredData"
       \/ m = [m0 EXCEPT !.dsn = (m0.dsn + 1) % SeqModulus]
  BY DEF NextDsn
<1> HIDE DEF m0, m, f
<1>12. /\ IsService(m) /\ Keeps(m0, m) /\ m.queue = m0.queue /\ m.indirect = m0.indirect
       /\ m.assoc = m0.assoc
       /\ \/ m.dsn = (m0.dsn + 1) % SeqModulus
          \/ f.kind = "DeferredData" /\ m.dsn = m0.dsn
  BY <1>7, <1>10, <1>11 DEF IsService, Keeps
<1>13. CASE IndirectFull(m)
  <2>1. issued' = issued /\ mac' = [mac EXCEPT ![Parent] = m]
    BY <1>8, <1>13 DEF Place, Issue
  <2>2. Issues(s, t, Parent, TRUE, {})
    BY <1>3, <1>4, <1>9, <2>1 DEF Issues
  <2>3. t.mac = [s.mac EXCEPT ![Parent] = m] /\ s.mac[Parent] = m0
    BY <1>3, <1>4, <2>1 DEF m0
  <2>4. Change(s, t)
    BY <1>5, <1>12, <2>2, <2>3, RefusedRequest
  <2> QED
    BY <1>1, <1>2, <2>4
<1>14. CASE ~IndirectFull(m)
  <2> DEFINE m1 == [m EXCEPT !.indirect = Append(m.indirect, f)]
  <2>1. /\ mac' = [mac EXCEPT ![Parent] = m1]
        /\ issued' = [i \in DOMAIN issued \cup {calls + 1} |->
                         IF i = calls + 1 THEN [node |-> Parent, ack |-> TRUE] ELSE issued[i]]
    BY <1>8, <1>10, <1>14 DEF Place, Issue, NextId, AddIndirect
  <2>2. calls + 1 \notin DOMAIN issued
    <3>1. DOMAIN issued \subseteq 1 .. calls
      BY DEF MacInv, ScopeInv, Now
    <3> QED
      BY <1>6, <3>1
  <2>3. /\ DOMAIN t.issued = DOMAIN s.issued \cup {f.id}
        /\ \A id \in DOMAIN s.issued : t.issued[id] = s.issued[id]
        /\ t.issued[f.id] = [node |-> Parent, ack |-> TRUE]
    BY <1>3, <1>4, <1>10, <2>1, <2>2
  <2>4. Issues(s, t, Parent, TRUE, {f.id})
    BY <1>3, <1>4, <1>9, <1>10, <2>3 DEF Issues
  <2>5. t.mac = [s.mac EXCEPT ![Parent] = m1] /\ s.mac[Parent] = m0
    BY <1>3, <1>4, <2>1 DEF m0
  <2>6. m1 = [m EXCEPT !.indirect = Append(m.indirect, f)]
    OBVIOUS
  <2> HIDE DEF m1
  <2>7. /\ IsService(m1) /\ Keeps(m0, m1) /\ m1.indirect = Append(m0.indirect, f)
        /\ m1.queue = m0.queue /\ m1.assoc = m0.assoc
        /\ \/ m1.dsn = (m0.dsn + 1) % SeqModulus
           \/ f.kind = "DeferredData" /\ m1.dsn = m0.dsn
    BY <1>12, <2>6 DEF IsService, Keeps
  <2>8. Len(m0.indirect) < IndirectCapacity
    BY <1>7, <1>12, <1>14, ConstantsType DEF IndirectFull
  <2>9. Holds(s.mac[Parent], m1, f)
    BY <1>10, <2>5, <2>7, <2>8 DEF Holds
  <2>10. Change(s, t)
    BY <1>5, <1>10, <2>4, <2>5, <2>9, HeldRequest
  <2> QED
    BY <1>1, <1>2, <2>10
<1> QED
  BY <1>13, <1>14

LEMMA DataRequestChange ==
    ASSUME MacInv(Now), NEW n \in Nodes, NEW ack \in BOOLEAN, DataRequest(n, ack)
    PROVE  Change(Now, Now')
<1> DEFINE f == NewFrame(mac[n], "Data", NextId, ack, "short", FALSE)
           m == NextDsn(mac[n])
<1>1. Place(n, f, m, QueueFull(m), Enqueue(m, f))
  BY DEF DataRequest
<1>2. calls < MaxIds /\ calls \in Nat /\ mac[n].dsn \in Seqs
  <2>1. ServiceInv(mac[n], DOMAIN issued)
    BY MacFacts
  <2>2. calls \in Nat
    BY ConstantsType DEF MacInv, ScopeInv, Now
  <2> QED
    BY <1>1, <2>1, <2>2 DEF Place, Issue, ServiceInv
<1>3. f \in Queueable /\ f.id = calls + 1 /\ f.seq = mac[n].dsn
  <2>1. calls + 1 \in Ids
    BY <1>2, ConstantsType DEF Ids
  <2> QED
    BY <1>2, <2>1 DEF NewFrame, NextId, Queueable, Frames, Kinds, Seqs, Associating
<1> HIDE DEF f, m
<1> QED
  BY <1>1, <1>3, PlaceQueued DEF m

LEMMA PollChange ==
    ASSUME MacInv(Now), Poll
    PROVE  Change(Now, Now')
<1> DEFINE f == NewFrame(mac[Child], "Poll", NextId, TRUE, "short", FALSE)
           m == NextDsn(mac[Child])
<1>1. Child \in Nodes
  BY DEF Nodes
<1>2. Place(Child, f, m, QueueFull(m), Enqueue(m, f))
  BY DEF Poll
<1>3. calls < MaxIds /\ calls \in Nat /\ mac[Child].dsn \in Seqs
  <2>1. ServiceInv(mac[Child], DOMAIN issued)
    BY <1>1, MacFacts
  <2>2. calls \in Nat
    BY ConstantsType DEF MacInv, ScopeInv, Now
  <2> QED
    BY <1>2, <2>1, <2>2 DEF Place, Issue, ServiceInv
<1>4. f \in Queueable /\ f.id = calls + 1 /\ f.seq = mac[Child].dsn
  <2>1. calls + 1 \in Ids
    BY <1>3, ConstantsType DEF Ids
  <2> QED
    BY <1>3, <2>1 DEF NewFrame, NextId, Queueable, Frames, Kinds, Seqs, Associating
<1> HIDE DEF f, m
<1> QED
  BY <1>1, <1>2, <1>4, PlaceQueued DEF m

\* The child takes a sequence number for its association, which may have one
\* frame more and is in another phase.
LEMMA AssociationAdds ==
    ASSUME MacInv(Now), NEW m1, mac' = [mac EXCEPT ![Child] = m1],
           UNCHANGED <<rx, calls, issued, received>>,
           attempts' \in attempts .. MaxAttempts,
           NEW F, ServiceInv(m1, DOMAIN issued), Grows(mac[Child], m1, {}),
           Keeps(mac[Child], m1), m1.indirect = mac[Child].indirect,
           Built(m1) \subseteq Built(mac[Child]) \cup F,
           \A f \in F : /\ f.seq = mac[Child].dsn /\ f.id = NoId
                        /\ \A g \in F : f = g,
           m1.dsn = (mac[Child].dsn + 1) % SeqModulus,
           1 + Reserved(m1) <= Reserved(mac[Child]) + 2 * (attempts' - attempts)
    PROVE  Change(Now, Now')
<1>1. PICK s : s = Now
  OBVIOUS
<1>2. PICK t : t = Now'
  OBVIOUS
<1>3. /\ s.mac = mac /\ s.rx = rx /\ s.calls = calls /\ s.issued = issued
      /\ s.attempts = attempts /\ s.received = received
  BY <1>1 DEF Now
<1>4. /\ t.mac = mac' /\ t.rx = rx' /\ t.calls = calls' /\ t.issued = issued'
      /\ t.attempts = attempts' /\ t.received = received'
  BY <1>2 DEF Now
<1>5. Child \in Nodes /\ Child # Parent
  BY ConstantsType DEF Nodes
<1>6. DOMAIN mac = Nodes /\ calls \in 0 .. MaxIds
  BY <1>5 DEF MacInv, ScopeInv, Now
<1>7. DOMAIN t.mac = Nodes /\ t.mac[Child] = m1 /\ t.mac[Peer(Child)] = s.mac[Peer(Child)]
  BY <1>3, <1>4, <1>5, <1>6, PeerOfPeer
<1>8. t.calls = s.calls /\ t.calls - s.calls = 0 /\ t.calls \in s.calls .. MaxIds
  BY <1>3, <1>4, <1>6, ConstantsType
<1>9. t.issued = s.issued /\ DOMAIN t.issued \ DOMAIN s.issued = {}
  BY <1>3, <1>4
<1>10. \A id \in Ids : PlacesOf(m1, id) = PlacesOf(s.mac[Child], id)
                           + IF id \in DOMAIN t.issued \ DOMAIN s.issued THEN 1 ELSE 0
  BY <1>3, <1>9 DEF Grows
<1>11. 1 + Reserved(m1) <= Reserved(s.mac[Child]) + (t.calls - s.calls)
                           + 2 * (t.attempts - s.attempts)
  <2>1. Reserved(mac[Child]) \in Nat
    <3>1. ServiceInv(mac[Child], DOMAIN issued)
      BY <1>5, MacFacts
    <3> QED
      BY <3>1, CountsType
  <2> DEFINE r == Reserved(mac[Child])
             r1 == Reserved(m1)
             a == attempts' - attempts
             b == t.calls - s.calls
  <2>2. 1 + r1 <= r + 2 * a /\ r \in Nat /\ b = 0
    BY <1>8, <2>1
  <2> HIDE DEF r, r1, a, b
  <2>3. 1 + r1 <= r + b + 2 * a
    BY <2>2
  <2> QED
    BY <1>3, <1>4, <2>3 DEF r, r1, a, b
<1>12. AddStep(s, t, Child, F)
  BY <1>3, <1>4, <1>5, <1>7, <1>8, <1>9, <1>10, <1>11 DEF AddStep, Keeps
<1> QED
  BY <1>1, <1>2, <1>5, <1>12 DEF Change, Added

LEMMA ReservedType ==
    ASSUME NEW m, NEW D, ServiceInv(m, D)
    PROVE  /\ Requested(m) \in Nat
           /\ Reserved(m) = Requested(m) + IF m.assoc = "WaitingResponseTime" THEN 1 ELSE 0
<1>1. CountIn(m.queue, Requests) \in Nat /\ FlightCount(m, Requests) \in {0, 1}
  BY CountsType
<1> QED
  BY <1>1 DEF Requested, Reserved

\* A frame of the association is queued.
LEMMA AssociationQueues ==
    ASSUME NEW m, NEW m1, NEW D, NEW f \in Frames, f.kind \in Associating, f.id = NoId,
           ServiceInv(m, D), IsService(m1), Len(m.queue) < QueueCapacity,
           m1.queue = Append(m.queue, f), m1.indirect = m.indirect, Keeps(m, m1),
           m1.dsn = (m.dsn + 1) % SeqModulus, m1.assoc \in Phases
    PROVE  /\ ServiceInv(m1, D) /\ Grows(m, m1, {}) /\ Built(m1) \subseteq Built(m) \cup {f}
           /\ Requested(m1) = Requested(m) + IF f.kind = "AssocRequest" THEN 1 ELSE 0
<1>1. f \in Sendable(D) /\ (f \in Requests <=> f.kind = "AssocRequest")
  BY DEF Sendable, Associating, Requests
<1>2. m1.dsn \in Seqs
  BY NextSeq DEF ServiceInv
<1>3. ServiceInv(m1, D)
  BY <1>1, <1>2, Enqueued
<1>4. Grows(m, m1, {f.id})
  BY <1>1, <1>2, Enqueued
<1>5. Built(m1) = Built(m) \cup {f}
  BY <1>1, <1>2, Enqueued
<1>6. Requested(m1) = Requested(m) + IF f \in Requests THEN 1 ELSE 0
  BY <1>1, EnqueuedRequests
<1>7. f.id \notin Ids
  BY DEF Ids, NoId
<1>8. Grows(m, m1, {})
  BY <1>4, <1>7 DEF Grows
<1> QED
  BY <1>1, <1>3, <1>5, <1>6, <1>8

LEMMA AssociateChange ==
    ASSUME MacInv(Now), Associate
    PROVE  Change(Now, Now')
<1> DEFINE m == mac[Child]
           f == NewFrame(m, "AssocRequest", NoId, TRUE, "extended", FALSE)
           n == [m EXCEPT !.dsn = (m.dsn + 1) % SeqModulus]
           e == [n EXCEPT !.queue = Append(n.queue, f)]
<1>1. Child \in Nodes
  BY DEF Nodes
<1>2. ServiceInv(m, DOMAIN issued)
  BY <1>1, MacFacts
<1>3. m.dsn \in Seqs /\ Len(m.queue) \in Nat /\ IsService(m) /\ m.assoc \in Phases
  BY <1>2 DEF ServiceInv
<1>4. n = NextDsn(m) /\ e = Enqueue(n, f)
  BY DEF NextDsn, Enqueue
<1>5. /\ attempts < MaxAttempts /\ attempts' = attempts + 1 /\ attempts \in Nat
      /\ UNCHANGED <<rx, calls, issued, received>>
      /\ mac' = [mac EXCEPT ![Child] = IF QueueFull(n) THEN n
                                       ELSE [e EXCEPT !.assoc = "Requesting", !.pan = TRUE]]
  <2>1. attempts \in Nat
    BY ConstantsType DEF MacInv, ScopeInv, Now
  <2> QED
    BY <1>4, <2>1 DEF Associate
<1>6. /\ f \in Frames /\ f.kind = "AssocRequest" /\ f.id = NoId /\ f.seq = m.dsn
  BY <1>3 DEF NewFrame, Frames, Kinds, Seqs
<1>7. PICK m1 : m1 = IF QueueFull(n) THEN n
                     ELSE [e EXCEPT !.assoc = "Requesting", !.pan = TRUE]
  OBVIOUS
<1>8. mac' = [mac EXCEPT ![Child] = m1]
  BY <1>5, <1>7
<1> HIDE DEF m, f
<1>9. /\ IsService(n) /\ Keeps(m, n) /\ n.dsn = (m.dsn + 1) % SeqModulus
      /\ n.indirect = m.indirect /\ n.queue = m.queue /\ n.assoc = m.assoc
  BY <1>3 DEF IsService, Keeps
<1> HIDE DEF n
<1>10. /\ IsService(e) /\ Keeps(m, e) /\ e.dsn = (m.dsn + 1) % SeqModulus
       /\ e.indirect = m.indirect /\ e.queue = Append(m.queue, f)
  BY <1>9 DEF IsService, Keeps
<1> HIDE DEF e
<1>11. ASSUME NEW F, ServiceInv(m1, DOMAIN issued), Grows(m, m1, {}),
              Keeps(m, m1), m1.indirect = m.indirect, Built(m1) \subseteq Built(m) \cup F,
              F \subseteq {f}, m1.dsn = (m.dsn + 1) % SeqModulus,
              \/ Requested(m1) = Requested(m) /\ m1.assoc = m.assoc
              \/ Requested(m1) = Requested(m) + 1 /\ m1.assoc = "Requesting"
       PROVE  Change(Now, Now')
  <2>1. 1 + Reserved(m1) <= Reserved(m) + 2 * (attempts' - attempts)
    <3> DEFINE r == Requested(m)
               r1 == Requested(m1)
    <3>1. /\ r \in Nat /\ r1 \in Nat
          /\ Reserved(m) = r + IF m.assoc = "WaitingResponseTime" THEN 1 ELSE 0
          /\ Reserved(m1) = r1 + IF m1.assoc = "WaitingResponseTime" THEN 1 ELSE 0
      BY <1>2, <1>11, ReservedType
    <3>2. \/ r1 = r /\ m1.assoc = m.assoc
          \/ r1 = r + 1 /\ m1.assoc = "Requesting"
      BY <1>11
    <3> HIDE DEF r, r1
    <3>3. Reserved(m1) <= Reserved(m) + 1 /\ Reserved(m) \in Nat /\ Reserved(m1) \in Nat
      BY <3>1, <3>2
    <3>4. attempts' - attempts = 1
      BY <1>5
    <3> QED
      BY <3>3, <3>4
  <2>2. \A g \in F : g.seq = m.dsn /\ g.id = NoId /\ \A h \in F : g = h
    BY <1>6, <1>11
  <2>3. attempts' \in attempts .. MaxAttempts
    BY <1>5, ConstantsType
  <2> QED
    BY <1>5, <1>8, <1>11, <2>1, <2>2, <2>3, AssociationAdds DEF m
<1>12. CASE QueueFull(n)
  <2>1. m1 = n
    BY <1>7, <1>12
  <2>2. m1.dsn \in Seqs /\ m1.assoc \in Phases
    BY <1>3, <1>9, <2>1, NextSeq
  <2>3. /\ ServiceInv(m1, DOMAIN issued) /\ Grows(m, m1, {})
        /\ Built(m1) = Built(m) /\ Requested(m1) = Requested(m)
    BY <1>2, <1>9, <2>1, <2>2, Refused
  <2>4. Built(m1) \subseteq Built(m) \cup {}
    BY <2>3
  <2> QED
    BY <1>9, <1>11, <2>1, <2>3, <2>4
<1>13. CASE ~QueueFull(n)
  <2>1. PICK pan : m1 = [e EXCEPT !.assoc = "Requesting", !.pan = pan]
    BY <1>7, <1>13
  <2>2. /\ IsService(m1) /\ Keeps(m, m1) /\ m1.dsn = (m.dsn + 1) % SeqModulus
        /\ m1.indirect = m.indirect /\ m1.queue = Append(m.queue, f)
        /\ m1.assoc = "Requesting"
    BY <1>10, <2>1 DEF IsService, Keeps
  <2>3. m1.assoc \in Phases /\ f.kind \in Associating
    BY <1>6, <2>2 DEF Phases, Associating
  <2>4. Len(m.queue) < QueueCapacity
    BY <1>3, <1>9, <1>13, ConstantsType DEF QueueFull
  <2>5. /\ ServiceInv(m1, DOMAIN issued) /\ Grows(m, m1, {})
        /\ Built(m1) \subseteq Built(m) \cup {f}
        /\ Requested(m1) = Requested(m) + IF f.kind = "AssocRequest" THEN 1 ELSE 0
    BY <1>2, <1>6, <2>2, <2>3, <2>4, AssociationQueues
  <2> QED
    BY <1>6, <1>11, <2>2, <2>5
<1> QED
  BY <1>12, <1>13

LEMMA FetchResponseChange ==
    ASSUME MacInv(Now), FetchResponse
    PROVE  Change(Now, Now')
<1> DEFINE m == mac[Child]
           f == NewFrame(m, "AssocDataRequest", NoId, TRUE, "extended", FALSE)
           e == [m EXCEPT !.queue = Append(m.queue, f)]
<1>1. Child \in Nodes
  BY DEF Nodes
<1>2. ServiceInv(m, DOMAIN issued)
  BY <1>1, MacFacts
<1>3. m.dsn \in Seqs /\ Len(m.queue) \in Nat /\ IsService(m)
  BY <1>2 DEF ServiceInv
<1>4. /\ UNCHANGED <<rx, calls, issued, attempts, received>>
      /\ m.assoc = "WaitingResponseTime"
      /\ mac' = [mac EXCEPT ![Child] = IF QueueFull(m) THEN AssociateConfirm(NextDsn(m))
                                       ELSE Enter(NextDsn(e), "Polling")]
  BY DEF FetchResponse, Enqueue
<1>5. /\ f \in Frames /\ f.kind = "AssocDataRequest" /\ f.id = NoId /\ f.seq = m.dsn
  BY <1>3 DEF NewFrame, Frames, Kinds, Seqs
<1>6. attempts \in attempts .. MaxAttempts /\ attempts - attempts = 0
  BY ConstantsType DEF MacInv, ScopeInv, Now
<1>7. PICK m1 : m1 = IF QueueFull(m) THEN AssociateConfirm(NextDsn(m))
                     ELSE Enter(NextDsn(e), "Polling")
  OBVIOUS
<1>8. mac' = [mac EXCEPT ![Child] = m1]
  BY <1>4, <1>7
<1> HIDE DEF m, f
<1>9. /\ IsService(e) /\ Keeps(m, e) /\ e.dsn = m.dsn /\ e.indirect = m.indirect
      /\ e.queue = Append(m.queue, f) /\ e.assoc = m.assoc
  BY <1>3 DEF IsService, Keeps
<1> HIDE DEF e
<1>10. ASSUME NEW F, ServiceInv(m1, DOMAIN issued), Grows(m, m1, {}),
              Keeps(m, m1), m1.indirect = m.indirect, Built(m1) \subseteq Built(m) \cup F,
              F \subseteq {f}, m1.dsn = (m.dsn + 1) % SeqModulus,
              Requested(m1) = Requested(m), m1.assoc \in {"None", "Polling"}
       PROVE  Change(Now, Now')
  <2>1. 1 + Reserved(m1) <= Reserved(m) + 2 * (attempts' - attempts)
    <3> DEFINE r == Requested(m)
    <3>1. /\ r \in Nat
          /\ Reserved(m) = r + IF m.assoc = "WaitingResponseTime" THEN 1 ELSE 0
          /\ Reserved(m1) = r + IF m1.assoc = "WaitingResponseTime" THEN 1 ELSE 0
      BY <1>2, <1>10, ReservedType
    <3> HIDE DEF r
    <3>2. Reserved(m1) = r /\ Reserved(m) = r + 1
      BY <1>4, <1>10, <3>1 DEF m
    <3>3. attempts' - attempts = 0
      BY <1>4, <1>6
    <3> QED
      BY <3>1, <3>2, <3>3
  <2>2. \A g \in F : g.seq = m.dsn /\ g.id = NoId /\ \A h \in F : g = h
    BY <1>5, <1>10
  <2>3. attempts' \in attempts .. MaxAttempts
    BY <1>4, <1>6
  <2> QED
    BY <1>4, <1>8, <1>10, <2>1, <2>2, <2>3, AssociationAdds DEF m
<1>11. CASE QueueFull(m)
  <2> DEFINE n == [m EXCEPT !.dsn = (m.dsn + 1) % SeqModulus]
  <2>1. m1 = [n EXCEPT !.assoc = "None"]
    BY <1>7, <1>11 DEF AssociateConfirm, NextDsn
  <2>2. /\ IsService(n) /\ Keeps(m, n) /\ n.dsn = (m.dsn + 1) % SeqModulus
        /\ n.indirect = m.indirect /\ n.queue = m.queue
    BY <1>3 DEF IsService, Keeps
  <2> HIDE DEF n
  <2>3. /\ IsService(m1) /\ Keeps(m, m1) /\ m1.dsn = (m.dsn + 1) % SeqModulus
        /\ m1.indirect = m.indirect /\ m1.queue = m.queue /\ m1.assoc = "None"
    BY <2>1, <2>2 DEF IsService, Keeps
  <2>4. m1.dsn \in Seqs /\ m1.assoc \in Phases
    BY <1>3, <2>3, NextSeq DEF Phases
  <2>5. /\ ServiceInv(m1, DOMAIN issued) /\ Grows(m, m1, {})
        /\ Built(m1) = Built(m) /\ Requested(m1) = Requested(m)
    BY <1>2, <2>3, <2>4, Refused
  <2>6. Built(m1) \subseteq Built(m) \cup {}
    BY <2>5
  <2> QED
    BY <1>10, <2>3, <2>5, <2>6
<1>12. CASE ~QueueFull(m)
  <2> DEFINE n == [e EXCEPT !.dsn = (e.dsn + 1) % SeqModulus]
  <2>1. n = NextDsn(e)
    BY DEF NextDsn
  <2>2. /\ IsService(n) /\ Keeps(m, n) /\ n.dsn = (m.dsn + 1) % SeqModulus
        /\ n.indirect = m.indirect /\ n.queue = Append(m.queue, f)
        /\ n.assoc = "WaitingResponseTime"
    BY <1>4, <1>9 DEF IsService, Keeps, m
  <2> HIDE DEF n
  <2>3. m1 = [n EXCEPT !.assoc = "Polling"]
    BY <1>7, <1>12, <2>1, <2>2 DEF Enter
  <2>4. /\ IsService(m1) /\ Keeps(m, m1) /\ m1.dsn = (m.dsn + 1) % SeqModulus
        /\ m1.indirect = m.indirect /\ m1.queue = Append(m.queue, f) /\ m1.assoc = "Polling"
    BY <2>2, <2>3 DEF IsService, Keeps
  <2>5. m1.assoc \in Phases /\ f.kind \in Associating
    BY <1>5, <2>4 DEF Phases, Associating
  <2>6. Len(m.queue) < QueueCapacity
    BY <1>3, <1>12, ConstantsType DEF QueueFull
  <2>7. /\ ServiceInv(m1, DOMAIN issued) /\ Grows(m, m1, {})
        /\ Built(m1) \subseteq Built(m) \cup {f}
        /\ Requested(m1) = Requested(m) + IF f.kind = "AssocRequest" THEN 1 ELSE 0
    BY <1>2, <1>5, <2>4, <2>5, <2>6, AssociationQueues
  <2>8. Requested(m1) = Requested(m)
    <3>1. Requested(m) \in Nat
      BY <1>2, ReservedType
    <3> QED
      BY <1>5, <2>7, <3>1
  <2> QED
    BY <1>10, <2>4, <2>7, <2>8
<1> QED
  BY <1>11, <1>12

-----------------------------------------------------------------------------
(* Reception                                                               *)

LEMMA Taken ==
    ASSUME MacInv(Now), NEW n \in Nodes, rx[n] # <<>>, rx' = [rx EXCEPT ![n] = Tail(@)]
    PROVE  /\ DOMAIN rx' = Nodes
           /\ \A k \in Nodes : /\ rx'[k] \in Seq(OnAir(DOMAIN issued))
                               /\ Range(rx'[k]) \subseteq Range(rx[k])
           /\ Head(rx[n]) \in OnAir(DOMAIN issued) /\ Head(rx[n]) \in Range(rx[n])
<1> DEFINE q == rx[n]
           A == OnAir(DOMAIN issued)
<1>1. DOMAIN rx = Nodes /\ \A k \in Nodes : rx[k] \in Seq(A)
  BY MacFacts
<1>2. /\ Tail(q) \in Seq(A) /\ Head(q) \in A /\ Head(q) \in Range(q)
      /\ Range(Tail(q)) \subseteq Range(q)
  <2>1. q \in Seq(A) /\ q # <<>>
    BY <1>1
  <2> HIDE DEF q, A
  <2>2. Tail(q) \in Seq(A) /\ Head(q) = q[1] /\ 1 \in DOMAIN q
    BY <2>1
  <2>3. \A i \in DOMAIN Tail(q) : i + 1 \in DOMAIN q /\ Tail(q)[i] = q[i + 1]
    BY <2>1
  <2> QED
    BY <2>1, <2>2, <2>3 DEF Range
<1>3. \A k \in Nodes : rx'[k] = IF k = n THEN Tail(q) ELSE rx[k]
  BY <1>1
<1>4. DOMAIN rx' = Nodes
  BY <1>1
<1> HIDE DEF A
<1> QED
  BY <1>1, <1>2, <1>3, <1>4 DEF A

\* What n received was sent by the other node.
LEMMA OnItsWay ==
    ASSUME NEW n \in Nodes, NEW f \in Range(rx[n])
    PROVE  /\ f.kind = "Ack" => f \in AcksTo(Now, n)
           /\ f.kind # "Ack" => f \in FramesOf(Now, Peer(n))
<1>1. Peer(Peer(n)) = n
  BY PeerOfPeer
<1>2. f \in Air(Now, Peer(n))
  BY <1>1 DEF Air, Now
<1> QED
  BY <1>2 DEF AcksTo, FramesOf

\* Acknowledging what was received is justified.
LEMMA AckJustified ==
    ASSUME ReceiptInv(Now), NEW n \in Nodes, NEW f \in FramesOf(Now, Peer(n)), NEW t,
           f.id = NoId \/ f.id \in t.received
    PROVE  Justified(Now, t, n, AcksFor(f), {})
<1>1. Peer(n) \in Nodes
  BY PeerOfPeer
<1>2. /\ f.seq < Now.mac[Peer(n)].dsn
      /\ \A g \in FramesOf(Now, Peer(n)) : f.seq = g.seq => f.id = g.id
  BY <1>1 DEF ReceiptInv, SeqInv
<1>3. \A a \in AcksFor(f) : a.kind = "Ack" /\ a.seq = f.seq
  BY DEF AcksFor, AckOf
<1> QED
  BY <1>2, <1>3 DEF Justified

LEMMA ReceiveAckChange ==
    ASSUME MacInv(Now), NEW n \in Nodes, rx[n] # <<>>, rx' = [rx EXCEPT ![n] = Tail(@)],
           NEW f, f = Head(rx[n]), f.kind = "Ack",
           mac' = [mac EXCEPT ![n] = OnAck(mac[n], f)],
           UNCHANGED <<calls, issued, attempts, received>>
    PROVE  Change(Now, Now')
<1> DEFINE R == {g.id : g \in {h \in Built(mac[n]) : h.seq = f.seq /\ h.id # NoId}}
<1>1. ServiceInv(mac[n], DOMAIN issued) /\ DOMAIN issued \subseteq Ids
  BY MacFacts
<1>2. /\ DOMAIN rx' = Nodes
      /\ \A k \in Nodes : /\ rx'[k] \in Seq(OnAir(DOMAIN issued))
                          /\ Range(rx'[k]) \subseteq Range(rx[k])
      /\ f \in Range(rx[n])
  BY Taken
<1>3. \A g \in Built(mac[n]) : g.seq = f.seq /\ g.id # NoId => g.id \in R
  OBVIOUS
<1>4. ReceiptInv(Now) => R \subseteq received
  <2> SUFFICES ASSUME ReceiptInv(Now), NEW g \in Built(mac[n]), g.seq = f.seq, g.id # NoId
               PROVE  g.id \in received
    OBVIOUS
  <2>1. g \in FramesOf(Now, n) /\ f \in AcksTo(Now, n)
    BY <1>2, OnItsWay DEF FramesOf, Now
  <2>2. Now.received = received
    BY DEF Now
  <2> QED
    BY <2>1, <2>2 DEF ReceiptInv, SeqInv
<1> HIDE DEF R
<1>5. Step(mac[n], OnAck(mac[n], f), DOMAIN issued, {}, R)
  BY <1>1, <1>3, OnAckStep
<1>6. received \subseteq received' /\ received' \subseteq DOMAIN issued
  BY DEF MacInv, ScopeInv, Now
<1>7. HandleStep(Now, Now', n, {}, R)
  <2>1. Peer(n) \in Nodes
    BY PeerOfPeer
  <2> QED
    BY <1>2, <1>5, <1>6, <2>1, Handling
<1>8. ReceiptInv(Now) => Justified(Now, Now', n, {}, R)
  <2>1. Now'.received = received
    BY DEF Now
  <2> QED
    BY <1>4, <2>1 DEF Justified
<1> QED
  BY <1>7, <1>8 DEF Change, Handled

LEMMA ReceiveOtherChange ==
    ASSUME MacInv(Now), NEW n \in Nodes, rx[n] # <<>>, rx' = [rx EXCEPT ![n] = Tail(@)],
           UNCHANGED <<mac, calls, issued, attempts, received>>
    PROVE  Change(Now, Now')
<1>1. ServiceInv(mac[n], DOMAIN issued) /\ DOMAIN mac = Nodes
  BY MacFacts
<1>2. /\ DOMAIN rx' = Nodes
      /\ \A k \in Nodes : /\ rx'[k] \in Seq(OnAir(DOMAIN issued))
                          /\ Range(rx'[k]) \subseteq Range(rx[k])
  BY Taken
<1>3. Step(mac[n], mac[n], DOMAIN issued, {}, {})
  BY <1>1, NoStep
<1>4. received \subseteq received' /\ received' \subseteq DOMAIN issued
  BY DEF MacInv, ScopeInv, Now
<1>5. HandleStep(Now, Now', n, {}, {})
  <2>1. Peer(n) \in Nodes /\ Peer(n) # n
    BY PeerOfPeer
  <2>2. /\ Now.mac = mac /\ Now.rx = rx /\ Now.calls = calls /\ Now.issued = issued
        /\ Now.attempts = attempts /\ Now.received = received
    BY DEF Now
  <2>3. /\ Now'.mac = mac' /\ Now'.rx = rx' /\ Now'.calls = calls' /\ Now'.issued = issued'
        /\ Now'.attempts = attempts' /\ Now'.received = received'
    BY DEF Now
  <2> QED
    BY <1>1, <1>2, <1>3, <1>4, <2>1, <2>2, <2>3 DEF HandleStep
<1>6. Justified(Now, Now', n, {}, {})
  BY DEF Justified
<1> QED
  BY <1>5, <1>6 DEF Change, Handled

LEMMA ReceiveFrameChange ==
    ASSUME MacInv(Now), NEW n \in Nodes, rx[n] # <<>>, rx' = [rx EXCEPT ![n] = Tail(@)],
           NEW f, f = Head(rx[n]), f.kind \notin {"Ack", "AssocRequest"},
           mac' = [mac EXCEPT ![n] = OnFrame(mac[n], f)],
           received' = received \cup ({f.id} \ {NoId}),
           UNCHANGED <<calls, issued, attempts>>
    PROVE  Change(Now, Now')
<1>1. ServiceInv(mac[n], DOMAIN issued) /\ DOMAIN issued \subseteq Ids /\ Once(mac[n])
  BY MacFacts
<1>2. /\ DOMAIN rx' = Nodes
      /\ \A k \in Nodes : /\ rx'[k] \in Seq(OnAir(DOMAIN issued))
                          /\ Range(rx'[k]) \subseteq Range(rx[k])
      /\ f \in OnAir(DOMAIN issued) /\ f \in Range(rx[n])
  BY Taken
<1>3. f \in Sendable(DOMAIN issued) /\ (f.id = NoId \/ f.id \in DOMAIN issued)
  BY <1>2 DEF OnAir, Acks, Sendable
<1>4. PICK K : K = AcksFor(f)
  OBVIOUS
<1>5. Step(mac[n], OnFrame(mac[n], f), DOMAIN issued, K, {})
  <2>1. f.kind # "AssocRequest" /\ AcksFor(f) \subseteq K
    BY <1>4
  <2> QED
    BY <1>1, <1>3, <2>1, OnFrameStep
<1>6. received \subseteq received' /\ received' \subseteq DOMAIN issued
  BY <1>3 DEF MacInv, ScopeInv, Now
<1>7. HandleStep(Now, Now', n, K, {})
  <2>1. Peer(n) \in Nodes
    BY PeerOfPeer
  <2> QED
    BY <1>2, <1>5, <1>6, <2>1, Handling
<1>8. ReceiptInv(Now) => Justified(Now, Now', n, K, {})
  <2>1. f.id = NoId \/ f.id \in Now'.received
    BY DEF Now
  <2>2. f \in FramesOf(Now, Peer(n))
    BY <1>2, OnItsWay
  <2> QED
    BY <1>4, <2>1, <2>2, AckJustified
<1> QED
  BY <1>7, <1>8 DEF Change, Handled

\* The response f is held for the child, or refused.
Responds(s, t, m, f) ==
    /\ s.calls < MaxIds /\ t.calls = s.calls + 1 /\ t.attempts = s.attempts
    /\ t.rx = s.rx /\ t.received = s.received
    /\ IF IndirectFull(m) THEN t.issued = s.issued
       ELSE t.issued = [i \in DOMAIN s.issued \cup {s.calls + 1} |->
                           IF i = s.calls + 1 THEN [node |-> Parent, ack |-> TRUE]
                           ELSE s.issued[i]]
    /\ t.mac = [s.mac EXCEPT ![Parent] =
                   NextDsn(IF IndirectFull(m) THEN m ELSE AddIndirect(m, f))]

\* The answer to an association request follows its acknowledgement, m being
\* the service of the parent between the two.
LEMMA ResponseChange ==
    ASSUME NEW s, NEW t, MacInv(s), NEW m, m = s.mac[Parent],
           NEW f \in Frames, f.id = s.calls + 1, f.seq = m.dsn, f.ack = TRUE,
           f.kind \notin Associating, Responds(s, t, m, f)
    PROVE  Change(s, t)
<1>1. Parent \in Nodes
  BY DEF Nodes
<1>2. ServiceInv(m, DOMAIN s.issued) /\ s.calls \in Nat
  BY <1>1, ConstantsType DEF MacInv, ScopeInv
<1>3. m.dsn \in Seqs /\ Len(m.indirect) \in Nat /\ IsService(m)
  BY <1>2 DEF ServiceInv
<1>4. /\ s.calls < MaxIds /\ t.calls = s.calls + 1 /\ t.attempts = s.attempts
      /\ t.rx = s.rx /\ t.received = s.received
  BY DEF Responds
<1>5. CASE IndirectFull(m)
  <2> DEFINE m1 == [m EXCEPT !.dsn = (m.dsn + 1) % SeqModulus]
  <2>1. t.issued = s.issued /\ t.mac = [s.mac EXCEPT ![Parent] = m1]
    BY <1>5 DEF NextDsn, Responds
  <2>2. Issues(s, t, Parent, TRUE, {})
    BY <1>4, <2>1 DEF Issues
  <2>3. /\ IsService(m1) /\ Keeps(m, m1) /\ m1.queue = m.queue /\ m1.indirect = m.indirect
        /\ m1.assoc = m.assoc /\ m1.dsn = (m.dsn + 1) % SeqModulus
    BY <1>3 DEF IsService, Keeps
  <2> HIDE DEF m1
  <2> QED
    BY <1>1, <2>1, <2>2, <2>3, RefusedRequest
<1>6. CASE ~IndirectFull(m)
  <2> DEFINE e == [m EXCEPT !.indirect = Append(m.indirect, f)]
             m1 == [e EXCEPT !.dsn = (e.dsn + 1) % SeqModulus]
  <2>1. /\ t.mac = [s.mac EXCEPT ![Parent] = m1]
        /\ t.issued = [i \in DOMAIN s.issued \cup {s.calls + 1} |->
                          IF i = s.calls + 1 THEN [node |-> Parent, ack |-> TRUE]
                          ELSE s.issued[i]]
    BY <1>6 DEF NextDsn, AddIndirect, Responds
  <2>2. s.calls + 1 \notin DOMAIN s.issued
    <3>1. DOMAIN s.issued \subseteq 1 .. s.calls
      BY DEF MacInv, ScopeInv
    <3> QED
      BY <1>2, <3>1
  <2>3. /\ DOMAIN t.issued = DOMAIN s.issued \cup {f.id}
        /\ \A id \in DOMAIN s.issued : t.issued[id] = s.issued[id]
        /\ t.issued[f.id] = [node |-> Parent, ack |-> TRUE]
    BY <2>1, <2>2
  <2>4. Issues(s, t, Parent, TRUE, {f.id})
    BY <1>4, <2>3 DEF Issues
  <2>5. /\ IsService(e) /\ Keeps(m, e) /\ e.indirect = Append(m.indirect, f)
        /\ e.queue = m.queue /\ e.assoc = m.assoc /\ e.dsn = m.dsn
    <3>1. PICK q : q = Append(m.indirect, f)
      OBVIOUS
    <3>2. e = [m EXCEPT !.indirect = q]
      BY <3>1
    <3> HIDE DEF e
    <3>3. /\ IsService(e) /\ Keeps(m, e) /\ e.indirect = q
          /\ e.queue = m.queue /\ e.assoc = m.assoc /\ e.dsn = m.dsn
      BY <1>3, <3>2 DEF IsService, Keeps
    <3> QED
      BY <3>1, <3>3
  <2> HIDE DEF e
  <2>6. /\ IsService(m1) /\ Keeps(m, m1) /\ m1.indirect = Append(m.indirect, f)
        /\ m1.queue = m.queue /\ m1.assoc = m.assoc /\ m1.dsn = (m.dsn + 1) % SeqModulus
    BY <2>5 DEF IsService, Keeps
  <2> HIDE DEF m1
  <2>7. Len(m.indirect) < IndirectCapacity
    BY <1>3, <1>6, ConstantsType DEF IndirectFull
  <2>8. Holds(m, m1, f)
    BY <2>6, <2>7 DEF Holds
  <2> QED
    BY <2>1, <2>4, <2>8, HeldRequest
<1> QED
  BY <1>5, <1>6

LEMMA ReceiveAssocChange ==
    ASSUME MacInv(Now), NEW n \in Nodes, rx[n] # <<>>, rx' = [rx EXCEPT ![n] = Tail(@)],
           NEW f, f = Head(rx[n]), f.kind = "AssocRequest", OnAssocRequest(f),
           UNCHANGED <<attempts, received>>
    PROVE  \E s : Change(Now, s) /\ (Now' = s \/ Change(s, Now'))
<1> DEFINE m == SendAck(mac[Parent], f, FALSE)
           D == DOMAIN issued
<1>1. PICK s : s = [mac |-> [mac EXCEPT ![Parent] = m], rx |-> rx', calls |-> calls,
                    issued |-> issued, attempts |-> attempts, received |-> received]
  OBVIOUS
<1>2. PICK t : t = Now'
  OBVIOUS
<1>3. Parent \in Nodes /\ Peer(Parent) \in Nodes /\ Peer(Parent) # Parent
  BY PeerOfPeer DEF Nodes
<1>4. ServiceInv(mac[Parent], D) /\ DOMAIN mac = Nodes
  BY <1>3, MacFacts
<1>5. /\ DOMAIN rx' = Nodes
      /\ \A k \in Nodes : /\ rx'[k] \in Seq(OnAir(D)) /\ Range(rx'[k]) \subseteq Range(rx[k])
      /\ f \in OnAir(D) /\ f \in Range(rx[n])
  BY Taken
<1>6. f.seq \in Seqs /\ f.id = NoId
  BY <1>5 DEF OnAir, Acks, Sendable, Frames, Seqs, Associating
<1>7. PICK K : K = AcksFor(f)
  OBVIOUS
<1>8. Step(mac[Parent], m, D, K, {})
  <2>1. FALSE \in BOOLEAN /\ AckOf(f, FALSE) \in K
    BY <1>7 DEF AcksFor
  <2> QED
    BY <1>4, <1>6, <2>1, SendAckStep
<1> HIDE DEF m
<1>9. /\ Now.mac = mac /\ Now.rx = rx /\ Now.calls = calls /\ Now.issued = issued
      /\ Now.attempts = attempts /\ Now.received = received
  BY DEF Now
<1>10. /\ s.mac = [mac EXCEPT ![Parent] = m] /\ s.rx = rx' /\ s.calls = calls
       /\ s.issued = issued /\ s.attempts = attempts /\ s.received = received
  BY <1>1
<1>11. s.mac[Parent] = m /\ s.mac[Peer(Parent)] = mac[Peer(Parent)] /\ DOMAIN s.mac = Nodes
  BY <1>3, <1>4, <1>10
<1>12. HandleStep(Now, s, Parent, K, {})
  <2>1. received \subseteq D
    BY DEF MacInv, ScopeInv, Now
  <2> QED
    BY <1>3, <1>5, <1>8, <1>9, <1>10, <1>11, <2>1 DEF HandleStep
<1>13. ReceiptInv(Now) => Justified(Now, s, Parent, K, {})
  <2> SUFFICES ASSUME ReceiptInv(Now)
               PROVE  Justified(Now, s, Parent, K, {})
    OBVIOUS
  <2>1. f \in FramesOf(Now, Peer(n)) /\ Peer(n) \in Nodes
    BY <1>5, OnItsWay, PeerOfPeer
  <2>2. Peer(n) # Parent
    BY <2>1 DEF ReceiptInv, FrameInv
  <2>3. n = Parent
    BY <2>2 DEF Nodes, Peer
  <2> QED
    BY <1>3, <1>6, <1>7, <2>1, <2>3, AckJustified
<1>14. Change(Now, s)
  BY <1>3, <1>12, <1>13 DEF Change, Handled
<1>15. MacInv(s)
  BY <1>14, ChangeKeeps
<1>16. /\ t.mac = mac' /\ t.rx = rx' /\ t.calls = calls' /\ t.issued = issued'
       /\ t.attempts = attempts' /\ t.received = received'
  BY <1>2 DEF Now
<1>17. CASE mac' = [mac EXCEPT ![Parent] = m] /\ UNCHANGED <<calls, issued>>
  <2>1. Now' = s
    BY <1>1, <1>17 DEF Now
  <2> QED
    BY <1>14, <2>1
<1>18. CASE AssociateResponse(m)
  <2>1. PICK accept \in BOOLEAN :
            mac' = [mac EXCEPT ![Parent] =
                       NextDsn(IF IndirectFull(m) THEN m
                               ELSE AddIndirect(m, NewFrame(m, "AssocResponse", NextId, TRUE,
                                                            "extended", accept)))]
    BY <1>18 DEF AssociateResponse
  <2>2. PICK g : g = NewFrame(m, "AssocResponse", calls + 1, TRUE, "extended", accept)
    OBVIOUS
  <2>3. PICK m1 : m1 = NextDsn(IF IndirectFull(m) THEN m ELSE AddIndirect(m, g))
    OBVIOUS
  <2>4. mac' = [mac EXCEPT ![Parent] = m1]
    BY <2>1, <2>2, <2>3 DEF NextId
  <2>5. t.mac = [s.mac EXCEPT ![Parent] = m1]
    BY <1>10, <1>16, <2>4
  <2>6. /\ calls < MaxIds /\ calls' = calls + 1
        /\ IF IndirectFull(m) THEN issued' = issued
           ELSE issued' = [i \in DOMAIN issued \cup {calls + 1} |->
                               IF i = calls + 1 THEN [node |-> Parent, ack |-> TRUE]
                               ELSE issued[i]]
    BY <1>18 DEF AssociateResponse, Issue, NextId
  <2>7. Responds(s, t, m, g)
    BY <1>10, <1>16, <2>3, <2>5, <2>6 DEF Responds
  <2>8. m.dsn \in Seqs /\ calls + 1 \in Ids
    <3>1. ServiceInv(m, D)
      BY <1>8 DEF Step
    <3>2. calls \in Nat
      BY ConstantsType DEF MacInv, ScopeInv, Now
    <3> QED
      BY <2>6, <3>1, <3>2, ConstantsType DEF ServiceInv, Ids
  <2>9. /\ g \in Frames /\ g.id = s.calls + 1 /\ g.seq = m.dsn /\ g.ack = TRUE
        /\ g.kind \notin Associating
    BY <1>10, <2>2, <2>8 DEF NewFrame, Frames, Kinds, Seqs, Associating
  <2>10. Change(s, t)
    BY <1>11, <1>15, <2>7, <2>9, ResponseChange
  <2> QED
    BY <1>2, <1>14, <2>10
<1> QED
  BY <1>17, <1>18 DEF OnAssocRequest, m

LEMMA ReceiveChange ==
    ASSUME MacInv(Now), NEW n \in Nodes, Receive(n)
    PROVE  \E s : Change(Now, s) /\ (Now' = s \/ Change(s, Now'))
<1> DEFINE f == Head(rx[n])
           m == mac[n]
<1>1. /\ rx[n] # <<>> /\ rx' = [rx EXCEPT ![n] = Tail(@)] /\ UNCHANGED attempts
      /\ \/ /\ f.kind = "Ack"
            /\ mac' = [mac EXCEPT ![n] = OnAck(m, f)]
            /\ UNCHANGED <<calls, issued, received>>
         \/ UNCHANGED <<mac, calls, issued, received>>
         \/ f.kind = "AssocRequest" /\ OnAssocRequest(f) /\ UNCHANGED received
         \/ /\ f.kind \notin {"Ack", "AssocRequest"}
            /\ mac' = [mac EXCEPT ![n] = OnFrame(m, f)]
            /\ received' = received \cup ({f.id} \ {NoId})
            /\ UNCHANGED <<calls, issued>>
  BY DEF Receive
<1>2. CASE /\ f.kind = "Ack"
           /\ mac' = [mac EXCEPT ![n] = OnAck(m, f)]
           /\ UNCHANGED <<calls, issued, received>>
  <2>1. Change(Now, Now')
    BY <1>1, <1>2, ReceiveAckChange
  <2> QED
    BY <2>1
<1>3. CASE UNCHANGED <<mac, calls, issued, received>>
  <2>1. Change(Now, Now')
    BY <1>1, <1>3, ReceiveOtherChange
  <2> QED
    BY <2>1
<1>4. CASE f.kind = "AssocRequest" /\ OnAssocRequest(f) /\ UNCHANGED received
  BY <1>1, <1>4, ReceiveAssocChange
<1>5. CASE /\ f.kind \notin {"Ack", "AssocRequest"}
           /\ mac' = [mac EXCEPT ![n] = OnFrame(m, f)]
           /\ received' = received \cup ({f.id} \ {NoId})
           /\ UNCHANGED <<calls, issued>>
  <2>1. Change(Now, Now')
    BY <1>1, <1>5, ReceiveFrameChange
  <2> QED
    BY <2>1
<1> QED
  BY <1>1, <1>2, <1>3, <1>4, <1>5

\* Every step is one change of the state, or two.
LEMMA NextChange ==
    ASSUME MacInv(Now), Next
    PROVE  \E s : Change(Now, s) /\ (Now' = s \/ Change(s, Now'))
<1>1. SUFFICES ASSUME ~ \E n \in Nodes : Receive(n)
               PROVE  Change(Now, Now')
  BY ReceiveChange
<1>2. CASE \E n \in Nodes : Transmissions(n)
  BY <1>2, RadioStepChange DEF Transmissions, Results
<1>3. CASE \E n \in Nodes : AckTimeout(n)
  BY <1>3, AckTimeoutChange
<1>4. CASE \E i \in 1 .. IndirectCapacity : IndirectExpiry(i) \/ Purge(i)
  BY <1>4, LeaveChange
<1>5. CASE FetchResponse
  BY <1>5, FetchResponseChange
<1>6. CASE AssocDeadline
  BY <1>6, AssocDeadlineChange
<1>7. CASE \E n \in Nodes, ack \in BOOLEAN : DataRequest(n, ack)
  BY <1>7, DataRequestChange
<1>8. CASE \E kind \in {"IndirectData", "DeferredData"} : IndirectRequest(kind)
  BY <1>8, IndirectRequestChange
<1>9. CASE Poll
  BY <1>9, PollChange
<1>10. CASE Associate
  BY <1>10, AssociateChange
<1>11. CASE LeaveNetwork
  BY <1>11, LeaveNetworkChange
<1> QED
  BY <1>1, <1>2, <1>3, <1>4, <1>5, <1>6, <1>7, <1>8, <1>9, <1>10, <1>11 DEF Next, Host, Timers

LEMMA InitStart ==
    ASSUME Init
    PROVE  ReceiptInv(Now)
<1>1. PICK joined \in BOOLEAN : mac = [n \in Nodes |-> Start(n = Parent \/ joined)]
  BY DEF Init
<1>2. /\ rx = [n \in Nodes |-> <<>>] /\ calls = 0 /\ issued = <<>> /\ attempts = 0
      /\ received = {}
  BY DEF Init
<1>3. Child \in Nodes /\ Parent \in Nodes
  BY DEF Nodes
<1>4. /\ Now.mac = mac /\ Now.rx = rx /\ Now.calls = calls /\ Now.issued = issued
      /\ Now.attempts = attempts /\ Now.received = received
  BY DEF Now
<1>5. DOMAIN issued = {}
  BY <1>2
<1>6. ASSUME NEW n \in Nodes
      PROVE  /\ mac[n].dsn = 0 /\ mac[n].queue = <<>> /\ mac[n].flight = NoFlight
             /\ mac[n].actions = <<>> /\ mac[n].indirect = <<>> /\ mac[n].assoc = "None"
             /\ mac[n].confirms = [i \in Ids |-> <<>>] /\ mac[n].taken = {}
             /\ IsService(mac[n])
  <2>1. PICK j : mac[n] = Start(j)
    BY <1>1
  <2> QED
    BY <2>1 DEF Start, IsService
<1>7. ASSUME NEW n \in Nodes
      PROVE  ServiceInv(mac[n], {})
  <2>1. \A S : <<>> \in Seq(S)
    OBVIOUS
  <2>2. mac[n].confirms \in [Ids -> Seq(Statuses)]
    BY <1>6, <2>1
  <2>3. 0 \in Seqs /\ "None" \in Phases /\ Len(<<>>) = 0
    BY ConstantsType DEF Seqs, Phases
  <2>4. Len(mac[n].queue) <= QueueCapacity /\ Len(mac[n].indirect) <= IndirectCapacity
    BY <1>6, <2>3, ConstantsType
  <2>5. /\ mac[n].queue \in Seq(Sendable({})) /\ mac[n].indirect \in Seq(Holdable({}))
        /\ mac[n].actions \in Seq(OnAir({}))
    BY <1>6, <2>1
  <2> QED
    BY <1>6, <2>2, <2>3, <2>4, <2>5 DEF ServiceInv
<1>8. ASSUME NEW n \in Nodes
      PROVE  PlacesInv(mac[n], {}) /\ Reserved(mac[n]) = 0
  <2>1. \A X : /\ CountIn(mac[n].queue, X) = 0 /\ CountIn(mac[n].indirect, X) = 0
               /\ FlightCount(mac[n], X) = 0
    BY <1>6, CountEmpty DEF FlightCount
  <2>2. \A id \in Ids : Len(mac[n].confirms[id]) = 0 /\ id \notin mac[n].taken
    BY <1>6
  <2> QED
    BY <1>6, <2>1, <2>2 DEF PlacesInv, PlacesOf, Reserved
<1>9. ScopeInv(Now)
  BY <1>1, <1>2, <1>3, <1>4, <1>5, <1>6, ConstantsType DEF ScopeInv
<1>10. \A n \in Nodes : IssuedBy(Now, n) = {}
  BY <1>4, <1>5 DEF IssuedBy
<1>11. MacInv(Now)
  <2>1. \A n \in Nodes : rx[n] \in Seq(OnAir({}))
    BY <1>2
  <2> QED
    BY <1>4, <1>5, <1>7, <1>8, <1>9, <1>10, <2>1 DEF MacInv
<1>12. \A n \in Nodes : FramesOf(Now, n) = {} /\ AcksTo(Now, n) = {}
  <2>1. \A n \in Nodes : Air(Now, n) = {}
    BY <1>2, <1>4, <1>6, PeerOfPeer DEF Air, Range
  <2>2. \A n \in Nodes : Built(mac[n]) = {}
    BY <1>6 DEF Built, Range
  <2> QED
    BY <1>4, <2>1, <2>2, PeerOfPeer DEF FramesOf, AcksTo
<1>13. BudgetInv(Now)
  BY <1>2, <1>4, <1>6, <1>8 DEF BudgetInv
<1>14. SeqInv(Now) /\ FrameInv(Now)
  BY <1>12 DEF SeqInv, FrameInv
<1>15. SuccessInv(Now)
  BY <1>4, <1>5 DEF SuccessInv
<1> QED
  BY <1>11, <1>13, <1>14, <1>15 DEF ReceiptInv

-----------------------------------------------------------------------------
(* The theorems                                                            *)

LEMMA FaultStutter ==
    ASSUME UNCHANGED vars
    PROVE  Now' = Now
  BY DEF vars, Now

\* MacInv, for any range of the sequence numbers.
LEMMA MacInductive ==
    Spec => []MacInv(Now)
<1>1. Init => MacInv(Now)
  BY InitStart DEF ReceiptInv
<1>2. MacInv(Now) /\ [Next]_vars => MacInv(Now)'
  <2> SUFFICES ASSUME MacInv(Now), [Next]_vars
               PROVE  MacInv(Now')
    OBVIOUS
  <2>1. CASE Next
    <3>1. PICK s : Change(Now, s) /\ (Now' = s \/ Change(s, Now'))
      BY <2>1, NextChange
    <3>2. MacInv(s)
      BY <3>1, ChangeKeeps
    <3> QED
      BY <3>1, <3>2, ChangeKeeps
  <2>2. CASE UNCHANGED vars
    BY <2>2, FaultStutter
  <2> QED
    BY <2>1, <2>2
<1> QED
  BY <1>1, <1>2, PTL DEF Spec

\* ReceiptInv, as long as no sequence number comes again.
LEMMA ReceiptInductive ==
    ASSUME NoWrap
    PROVE  Spec => []ReceiptInv(Now)
<1>1. Init => ReceiptInv(Now)
  BY InitStart
<1>2. ReceiptInv(Now) /\ [Next]_vars => ReceiptInv(Now)'
  <2> SUFFICES ASSUME ReceiptInv(Now), [Next]_vars
               PROVE  ReceiptInv(Now')
    OBVIOUS
  <2>1. CASE Next
    <3>1. PICK s : Change(Now, s) /\ (Now' = s \/ Change(s, Now'))
      BY <2>1, NextChange DEF ReceiptInv
    <3>2. ReceiptInv(s)
      BY <3>1, ChangeKeeps
    <3> QED
      BY <3>1, <3>2, ChangeKeeps
  <2>2. CASE UNCHANGED vars
    BY <2>2, FaultStutter
  <2> QED
    BY <2>1, <2>2
<1> QED
  BY <1>1, <1>2, PTL DEF Spec

\* Type correctness: the queue and the table of transactions keep to their
\* capacities, only the parent holds transactions, only the child associates,
\* and only requests that were accepted are ever received.
THEOREM TypeCorrect == Spec => []TypeInvariant
<1>1. MacInv(Now) => TypeInvariant
  <2> SUFFICES ASSUME MacInv(Now)
               PROVE  TypeInvariant
    OBVIOUS
  <2>1. Child \in Nodes /\ Parent \in Nodes
    BY DEF Nodes
  <2>2. ASSUME NEW n \in Nodes
        PROVE  /\ mac[n].dsn \in 0 .. SeqModulus - 1
               /\ Range(mac[n].queue) \cup Range(mac[n].indirect) \subseteq Frames
               /\ Len(mac[n].queue) <= QueueCapacity
               /\ Len(mac[n].indirect) <= IndirectCapacity
               /\ \/ mac[n].flight = NoFlight
                  \/ mac[n].flight \in [frame : Frames, waiting : {"tx", "ack"},
                                        retries : 0 .. MaxRetries]
               /\ mac[n].assoc \in Phases
               /\ \A id \in Ids : Range(mac[n].confirms[id]) \subseteq Statuses
    <3> DEFINE D == DOMAIN issued
    <3>1. ServiceInv(mac[n], D)
      BY MacFacts
    <3>2. Sendable(D) \subseteq Frames /\ Holdable(D) \subseteq Frames
      BY DEF Sendable, Holdable
    <3>3. Range(mac[n].queue) \cup Range(mac[n].indirect) \subseteq Frames
      BY <3>1, <3>2 DEF ServiceInv, Range
    <3>4. InFlight(D) \subseteq [frame : Frames, waiting : {"tx", "ack"},
                                 retries : 0 .. MaxRetries]
      BY <3>2 DEF InFlight
    <3>5. \A id \in Ids : Range(mac[n].confirms[id]) \subseteq Statuses
      BY <3>1 DEF ServiceInv, Range
    <3> QED
      BY <3>1, <3>3, <3>4, <3>5 DEF ServiceInv, Seqs
  <2>3. mac[Child].indirect = <<>> /\ mac[Parent].assoc = "None" /\ received \subseteq DOMAIN issued
    BY DEF MacInv, ScopeInv, Now
  <2>4. DOMAIN issued \subseteq Ids
    BY <2>1, MacFacts
  <2> QED
    BY <2>2, <2>3, <2>4 DEF TypeInvariant
<1> QED
  BY <1>1, MacInductive, PTL

\* Every accepted request waits in one place, or was confirmed once, or was
\* taken back: retries, polls, expiry and full queues neither lose it nor
\* report it twice, whatever the sizes of the queues and the faults.
THEOREM OneConfirm == Spec => []ConfirmedOnce
<1>1. MacInv(Now) => ConfirmedOnce
  <2> SUFFICES ASSUME MacInv(Now), NEW id \in Ids, NEW n \in Nodes
               PROVE  Places(mac[n], id) =
                          IF id \in DOMAIN issued /\ issued[id].node = n THEN 1 ELSE 0
    BY DEF ConfirmedOnce
  <2>1. ServiceInv(mac[n], DOMAIN issued)
    BY MacFacts
  <2>2. ASSUME NEW S, S \subseteq Frames, NEW q \in Seq(S)
        PROVE  Count(q, id) = CountIn(q, ById(id))
    <3>1. \A i \in DOMAIN q : q[i] \in Frames
      BY <2>2
    <3>2. {i \in DOMAIN q : q[i].id = id} = Positions(q, ById(id))
      BY <3>1 DEF Positions, ById
    <3> QED
      BY <3>2 DEF Count, CountIn
  <2>3. /\ Count(mac[n].queue, id) = CountIn(mac[n].queue, ById(id))
        /\ Count(mac[n].indirect, id) = CountIn(mac[n].indirect, ById(id))
    <3>1. Sendable(DOMAIN issued) \subseteq Frames /\ Holdable(DOMAIN issued) \subseteq Frames
      BY DEF Sendable, Holdable
    <3> QED
      BY <2>1, <2>2, <3>1 DEF ServiceInv
  <2>4. (IF mac[n].flight # NoFlight /\ mac[n].flight.frame.id = id THEN 1 ELSE 0)
            = FlightCount(mac[n], ById(id))
    BY <2>1 DEF FlightCount, ById, ServiceInv, InFlight, Sendable
  <2>5. Places(mac[n], id) = PlacesOf(mac[n], id)
    BY <2>3, <2>4 DEF Places, PlacesOf
  <2>6. PlacesOf(mac[n], id) = IF id \in IssuedBy(Now, n) THEN 1 ELSE 0
    BY DEF MacInv, PlacesInv, Now
  <2>7. id \in IssuedBy(Now, n) <=> id \in DOMAIN issued /\ issued[id].node = n
    BY DEF IssuedBy, Now
  <2> QED
    BY <2>5, <2>6, <2>7
<1> QED
  BY <1>1, MacInductive, PTL

\* As long as no sequence number comes again, success reported for a request
\* with an acknowledgement means that the other node received it: the
\* acknowledgement of an earlier frame, or the completion of another
\* transmission, is never taken for it.
THEOREM SuccessIsReceipt ==
    ASSUME NoWrap
    PROVE  Spec => []SuccessMeansReceived
<1>1. ReceiptInv(Now) => SuccessMeansReceived
  <2> SUFFICES ASSUME ReceiptInv(Now), NEW id \in DOMAIN issued, issued[id].ack,
                      "Success" \in Range(mac[issued[id].node].confirms[id])
               PROVE  id \in received
    BY DEF SuccessMeansReceived
  <2>1. Now.mac = mac /\ Now.issued = issued /\ Now.received = received
    BY DEF Now
  <2>2. issued[id].node \in Nodes
    BY <2>1 DEF ReceiptInv, MacInv, ScopeInv
  <2> QED
    BY <2>1, <2>2 DEF ReceiptInv, SuccessInv
<1> QED
  BY <1>1, ReceiptInductive, PTL
=============================================================================
