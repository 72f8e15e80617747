--------------------------- MODULE BroadcastProofs ---------------------------
(***************************************************************************)
(* Proofs about Broadcast, for every topology, table size and timing: type *)
(* correctness, and that a router that stops retransmitting early leaves   *)
(* nobody it waited for without the broadcast; and, where records outlive  *)
(* every relay and retransmission, that a broadcast is delivered once and  *)
(* how often a router transmits it.                                        *)
(***************************************************************************)
EXTENDS Broadcast, FunctionTheorems, FiniteSetTheorems, TLAPS

-----------------------------------------------------------------------------
(* The inductive invariant, by parts                                       *)

\* Those a router may wait for.
Others(n) == Nodes \ {n}

\* Types, for a router that may wait for N.
Records(N) ==
    [asked : SUBSET N, awaiting : SUBSET N, retries : 0 .. MaxRetries, first : BOOLEAN,
     parked : BOOLEAN, next : {None} \cup Nat, radius : Int, life : 0 .. DeliveryTime]

IsTable(t, N) ==
    /\ t \in [DOMAIN t -> Records(N)]
    /\ DOMAIN t \subseteq Broadcasts
    /\ IsFiniteSet(DOMAIN t)
    /\ Cardinality(DOMAIN t) <= TableSize

IsBuffer(s) == s \in Seq(Broadcasts) /\ Len(s) <= Buffers

Message == [to : Nodes, from : Nodes, b : Broadcasts, radius : Int]

TypeInv ==
    /\ links \in Topologies
    /\ DOMAIN table = Nodes /\ \A n \in Nodes : IsTable(table[n], Others(n))
    /\ DOMAIN bufs = Nodes /\ \A n \in Nodes : IsBuffer(bufs[n])
    /\ air \subseteq Message
    /\ faults \in 0 .. MaxFaults
    /\ delivered \in [Nodes -> [Broadcasts -> 0 .. 2]]

\* Router n has the broadcast b, as d counts deliveries.
Knows(d, n, b) == n = Source(b) \/ d[n][b] > 0

\* Why record r, which was transmitted, is idle or not: it is idle when
\* everyone was heard or the retries are used up, and otherwise the frame is
\* there to be sent again.
Justified(r, buffered) ==
    ~r.parked /\ r.radius > 0 =>
        IF r.next = None THEN r.retries < MaxRetries => r.awaiting = {}
        ELSE buffered

\* Record r of broadcast b at router n, which may wait for N, with the buffered
\* broadcasts B, the evicted ones ev and the deliveries d.
RecordInv(n, N, b, r, B, ev, d) ==
    /\ Knows(d, n, b)
    /\ r.asked \in SUBSET N /\ r.awaiting \subseteq r.asked
    /\ \A m \in r.asked \ r.awaiting : Knows(d, m, b)
    /\ <<n, b>> \notin ev => Justified(r, b \in B)

RouterInv(n, N, t, B, ev, d) == \A b \in DOMAIN t : RecordInv(n, N, b, t[b], B, ev, d)

AirInv(a, d) == \A m \in a : Knows(d, m.from, m.b)

BroadcastInv ==
    /\ TypeInv
    /\ \A n \in Nodes :
          RouterInv(n, Others(n), table[n], Range(bufs[n]), evicted, delivered)
    /\ AirInv(air, delivered)

-----------------------------------------------------------------------------
(* The buffer                                                              *)

\* retain keeps the wanted frames, each in a place of its own, and no other.
LEMMA KeptFacts ==
    ASSUME NEW s \in Seq(Broadcasts), NEW bs
    PROVE  /\ Kept(s, bs) \in Seq(Broadcasts)
           /\ Len(Kept(s, bs)) <= Len(s)
           /\ \A b \in bs : b \in Range(s) => b \in Range(Kept(s, bs))
<1> DEFINE K == {j \in 1 .. Len(s) : s[j] \in bs}
           U(i) == {j \in 1 .. i : s[j] \in bs}
           f == [j \in K |-> Place(s, bs, j)]
           n == Cardinality(K)
<1>0. Len(s) \in Nat /\ \A i \in 1 .. Len(s) : s[i] \in Broadcasts
  OBVIOUS
<1>1. IsFiniteSet(K) /\ n \in Nat /\ n <= Len(s)
  <2> DEFINE len == Len(s)
  <2>0. len \in Int /\ 1 \in Int /\ len >= 0
    BY <1>0
  <2>3. /\ IsFiniteSet(1 .. len)
        /\ Cardinality(1 .. len) = IF 1 > len THEN 0 ELSE len - 1 + 1
    <3> HIDE DEF len
    <3> QED
      BY <2>0, FS_Interval
  <2>1. IsFiniteSet(1 .. Len(s)) /\ Cardinality(1 .. Len(s)) = Len(s)
    BY <2>0, <2>3
  <2>2. K \in SUBSET (1 .. Len(s))
    OBVIOUS
  <2> HIDE DEF K
  <2> QED
    BY <2>1, <2>2, FS_Subset, FS_CardinalityType
<1>2. n = Place(s, bs, Len(s)) /\ \A i : Place(s, bs, i) = Cardinality(U(i))
  BY DEF Place
<1>3. ASSUME NEW i \in K
      PROVE  IsFiniteSet(U(i)) /\ Cardinality(U(i)) \in 1 .. n
  <2>1. U(i) \in SUBSET K /\ i \in U(i)
    BY <1>0
  <2> HIDE DEF K, U
  <2>2. IsFiniteSet(U(i)) /\ Cardinality(U(i)) \in Nat /\ Cardinality(U(i)) <= n
    BY <1>1, <2>1, FS_Subset, FS_CardinalityType
  <2>3. Cardinality(U(i)) # 0
    BY <2>1, <2>2, FS_EmptySet
  <2> QED
    BY <1>1, <2>2, <2>3
<1>4. ASSUME NEW i \in K, NEW j \in K, i < j
      PROVE  Cardinality(U(i)) # Cardinality(U(j))
  <2>1. U(i) \in SUBSET U(j) /\ j \in U(j) /\ j \notin U(i)
    BY <1>0, <1>4
  <2> HIDE DEF U, K
  <2> QED
    BY <1>3, <2>1, FS_Subset
<1>5. \A i, j \in K : f[i] = f[j] => i = j
  <2>1. \A i, j \in K : i < j \/ j < i \/ i = j
    OBVIOUS
  <2> HIDE DEF U, K
  <2> QED
    BY <1>2, <1>4, <2>1
<1>6. f \in Injection(K, 1 .. n)
  <2>1. f \in [K -> 1 .. n]
    <3> HIDE DEF U, K, n
    <3> QED
      BY <1>2, <1>3
  <2> HIDE DEF f, K, n
  <2> QED
    BY <2>1, <1>5, Fun_IsInj
<1>7. \A i \in 1 .. n : \E j \in K : Place(s, bs, j) = i
  <2>1. IsFiniteSet(1 .. n) /\ Cardinality(1 .. n) = n
    BY <1>1, FS_Interval
  <2>2. f \in Surjection(K, 1 .. n)
    <3> HIDE DEF f, K
    <3> QED
      BY <1>1, <1>6, <2>1, FS_Injection
  <2>3. \A i \in 1 .. n : \E j \in K : f[j] = i
    <3> HIDE DEF f, K, n
    <3> QED
      BY <2>2, Fun_SurjectionProperties
  <2> QED
    BY <2>3
<1> DEFINE At(i) == CHOOSE j \in 1 .. Len(s) : s[j] \in bs /\ Place(s, bs, j) = i
<1>8. \A i \in 1 .. n : At(i) \in K /\ Place(s, bs, At(i)) = i
  <2>1. ASSUME NEW i \in 1 .. n
        PROVE  At(i) \in K /\ Place(s, bs, At(i)) = i
    <3>1. \E j \in 1 .. Len(s) : s[j] \in bs /\ Place(s, bs, j) = i
      BY <1>7
    <3> QED
      BY <3>1
  <2> QED
    BY <2>1
<1>9. \A j \in K : Place(s, bs, j) \in 1 .. n /\ At(Place(s, bs, j)) = j
  <2> HIDE DEF K, U, At, n
  <2> QED
    BY <1>2, <1>3, <1>5, <1>8
<1>10. Kept(s, bs) = [i \in 1 .. n |-> s[At(i)]]
  BY <1>2 DEF Kept
<1> HIDE DEF n, At
<1>11. Kept(s, bs) \in Seq(Broadcasts) /\ Len(Kept(s, bs)) = n
  <2>1. \A i \in 1 .. n : s[At(i)] \in Broadcasts
    BY <1>0, <1>8
  <2> QED
    BY <1>1, <1>10, <2>1
<1>12. ASSUME NEW b \in bs, b \in Range(s)
       PROVE  b \in Range(Kept(s, bs))
  <2>1. PICK j \in 1 .. Len(s) : s[j] = b
    BY <1>0, <1>12 DEF Range
  <2>2. j \in K
    BY <2>1, <1>12
  <2>3. Place(s, bs, j) \in 1 .. n /\ Kept(s, bs)[Place(s, bs, j)] = b
    BY <1>9, <1>10, <2>1, <2>2
  <2> QED
    BY <1>10, <2>3 DEF Range
<1> QED
  BY <1>1, <1>11, <1>12

\* store_broadcast_buf keeps the buffer within its size and has the frame in
\* it afterwards.
LEMMA StoredFacts ==
    ASSUME NEW s, IsBuffer(s), NEW b \in Broadcasts
    PROVE  IsBuffer(Stored(s, b)) /\ b \in Range(Stored(s, b))
<1>1. s \in Seq(Broadcasts) /\ Len(s) \in Nat /\ Len(s) <= Buffers
  BY DEF IsBuffer
<1>2. CASE Contains(s, b)
  <2>1. Stored(s, b) = s
    BY <1>2 DEF Stored
  <2>2. \E i \in 1 .. Len(s) : s[i] = b
    BY <1>2 DEF Contains
  <2> QED
    BY <1>1, <2>1, <2>2 DEF IsBuffer, Range
<1>3. CASE ~Contains(s, b)
  <2> DEFINE q == IF Len(s) >= Buffers THEN Tail(s) ELSE s
  <2>1. Buffers \in Nat \ {0}
    BY BroadcastAssumption
  <2>2. q \in Seq(Broadcasts) /\ Len(q) \in Nat /\ Len(q) < Buffers
    BY <1>1, <2>1
  <2>3. Stored(s, b) = Append(q, b)
    BY <1>3 DEF Stored
  <2> HIDE DEF q
  <2>4. /\ Append(q, b) \in Seq(Broadcasts) /\ Len(Append(q, b)) = Len(q) + 1
        /\ Append(q, b)[Len(q) + 1] = b
    BY <2>2
  <2> QED
    BY <2>1, <2>2, <2>3, <2>4 DEF IsBuffer, Range
<1> QED
  BY <1>2, <1>3

-----------------------------------------------------------------------------
(* The table of records                                                    *)

LEMMA Constants ==
    /\ Radius \in Nat \ {0} /\ Timeout \in Nat \ {0} /\ RetryDelay \in Nat \ {0}
    /\ DeliveryTime \in Nat \ {0} /\ TableSize \in Nat \ {0} /\ Buffers \in Nat \ {0}
    /\ MaxRetries \in Nat /\ MaxJitter \in Nat /\ MaxFaults \in Nat
  BY BroadcastAssumption

\* insert does not let the table grow beyond its size.
LEMMA ReplacedFacts ==
    ASSUME NEW N, NEW t, IsTable(t, N), NEW b \in Broadcasts, b \notin DOMAIN t,
           NEW gone \in Reused(t), NEW r \in Records(N)
    PROVE  /\ IsTable(Replaced(t, gone, b, r), N)
           /\ Replaced(t, gone, b, r)[b] = r
           /\ \A c \in DOMAIN Replaced(t, gone, b, r) :
                 c # b => c \in DOMAIN t /\ Replaced(t, gone, b, r)[c] = t[c]
<1> DEFINE u == Replaced(t, gone, b, r)
           D == DOMAIN t
           E == D \ gone
<1>1. /\ DOMAIN u = E \cup {b} /\ u[b] = r
      /\ \A c \in DOMAIN u : c # b => c \in D /\ u[c] = t[c]
  BY DEF Replaced
<1>2. IsFiniteSet(D) /\ Cardinality(D) \in Nat /\ Cardinality(D) <= TableSize
  BY FS_CardinalityType DEF IsTable
<1>3. IsFiniteSet(E) /\ Cardinality(E) \in Nat /\ Cardinality(E) + 1 <= TableSize
  <2>1. CASE Cardinality(D) < TableSize
    <3>1. gone = {}
      BY <2>1 DEF Reused
    <3>2. E = D
      BY <3>1
    <3> QED
      BY <1>2, <2>1, <3>2, Constants
  <2>2. CASE ~(Cardinality(D) < TableSize)
    <3>1. PICK c \in D : gone = {c}
      BY <2>2 DEF Reused
    <3>2. IsFiniteSet(D \ {c}) /\ Cardinality(D \ {c}) = Cardinality(D) - 1
      BY <1>2, FS_RemoveElement
    <3>3. Cardinality(D \ {c}) \in Nat
      BY <3>2, FS_CardinalityType
    <3> QED
      BY <1>2, <3>1, <3>2, <3>3
  <2> QED
    BY <2>1, <2>2
<1>4. IsFiniteSet(E \cup {b}) /\ Cardinality(E \cup {b}) <= TableSize
  <2> HIDE DEF E
  <2>1. /\ IsFiniteSet(E \cup {b})
        /\ Cardinality(E \cup {b}) = IF b \in E THEN Cardinality(E) ELSE Cardinality(E) + 1
    BY <1>3, FS_AddElement
  <2> QED
    BY <1>3, <2>1, Constants
<1>5. u \in [DOMAIN u -> Records(N)]
  <2>1. \A c \in E \cup {b} : (IF c = b THEN r ELSE t[c]) \in Records(N)
    BY DEF IsTable
  <2>2. u = [c \in E \cup {b} |-> IF c = b THEN r ELSE t[c]]
    BY DEF Replaced
  <2> HIDE DEF E
  <2> QED
    BY <2>1, <2>2
<1>6. DOMAIN u \subseteq Broadcasts
  BY <1>1 DEF IsTable
<1> HIDE DEF u, E, D
<1> QED
  <2>1. IsTable(u, N)
    BY <1>1, <1>4, <1>5, <1>6 DEF IsTable
  <2> QED
    BY <1>1, <2>1 DEF u, E, D

\* A table with some of its records taken away and others updated.
LEMMA UpdatedFacts ==
    ASSUME NEW N, NEW t, IsTable(t, N), NEW D \in SUBSET DOMAIN t,
           NEW u, u \in [D -> Records(N)]
    PROVE  IsTable(u, N)
<1>1. DOMAIN u = D
  OBVIOUS
<1>2. IsFiniteSet(D) /\ Cardinality(D) \in Nat /\ Cardinality(D) <= Cardinality(DOMAIN t)
      /\ Cardinality(DOMAIN t) \in Nat
  BY FS_Subset, FS_CardinalityType DEF IsTable
<1>3. Cardinality(D) <= TableSize
  BY <1>2, Constants DEF IsTable
<1> QED
  BY <1>1, <1>2, <1>3 DEF IsTable

-----------------------------------------------------------------------------
(* Transmissions                                                           *)

\* What is sent comes from router n, and the faults stay within their bound.
LEMMA Sending ==
    ASSUME TypeInv, NEW n \in Nodes, NEW bs \in SUBSET Broadcasts, IsFiniteSet(bs), NEW t,
           \A b \in bs : t[b].radius \in Int,
           NEW lost, NEW pending \in Nat, Transmissions(n, bs, t, lost, pending)
    PROVE  /\ air' \subseteq Message
           /\ faults' \in 0 .. MaxFaults
           /\ \A m \in air' : m \in air \/ (m.from = n /\ m.b \in bs)
<1> DEFINE msg(m, b) == [to |-> m, from |-> n, b |-> b, radius |-> t[b].radius]
           heard == {msg(m, b) : m \in Neighbours(n), b \in bs}
           S == Neighbours(n) \X bs
           f == [x \in S |-> msg(x[1], x[2])]
<1>1. /\ lost \subseteq heard
      /\ faults + (Cardinality(lost) + pending) <= MaxFaults
      /\ faults' = faults + (Cardinality(lost) + pending)
      /\ air' = air \cup (heard \ lost)
  BY DEF Transmissions
<1>2. IsFiniteSet(heard)
  <2>1. IsFiniteSet(Neighbours(n))
    BY FS_Subset, BroadcastAssumption DEF Neighbours
  <2>2. IsFiniteSet(S)
    BY <2>1, FS_Product
  <2>3. f \in Surjection(S, heard)
    <3>1. f \in [S -> heard]
      OBVIOUS
    <3>2. ASSUME NEW h \in heard PROVE \E x \in S : f[x] = h
      <4>1. PICK m \in Neighbours(n), b \in bs : h = msg(m, b)
        OBVIOUS
      <4>2. <<m, b>> \in S /\ f[<<m, b>>] = h
        BY <4>1
      <4> QED
        BY <4>2
    <3> HIDE DEF f, S, heard
    <3> QED
      BY <3>1, <3>2 DEF Surjection
  <2> HIDE DEF f, S, heard
  <2> QED
    BY <2>2, <2>3, FS_Surjection
<1>3. Cardinality(lost) \in Nat
  <2> HIDE DEF heard
  <2>1. lost \in SUBSET heard
    BY <1>1
  <2> QED
    BY <1>2, <2>1, FS_Subset, FS_CardinalityType
<1>4. faults' \in 0 .. MaxFaults
  BY <1>1, <1>3, Constants DEF TypeInv
<1>5. \A h \in heard : h \in Message /\ h.from = n /\ h.b \in bs
  <2>1. ASSUME NEW m \in Neighbours(n), NEW b \in bs
        PROVE  msg(m, b) \in Message /\ msg(m, b).from = n /\ msg(m, b).b \in bs
    <3>1. m \in Nodes /\ b \in Broadcasts /\ t[b].radius \in Int
      BY DEF Neighbours
    <3> QED
      BY <3>1 DEF Message
  <2> HIDE DEF msg
  <2> QED
    BY <2>1
<1>6. air \subseteq Message
  BY DEF TypeInv
<1> HIDE DEF heard
<1> QED
  BY <1>1, <1>4, <1>5, <1>6

-----------------------------------------------------------------------------
(* One router takes a step                                                 *)

\* What is known stays known, what was evicted stays so.
Since(d, e, ev, fv) ==
    /\ \A m \in Nodes, b \in Broadcasts : Knows(d, m, b) => Knows(e, m, b)
    /\ ev \subseteq fv

\* A frame of router n leaves the buffer only by eviction.
Retained(n, B, C, fv) == \A c \in B : c \in C \/ <<n, c>> \in fv

LEMMA RecordStays ==
    ASSUME NEW n \in Nodes, NEW N \in SUBSET Nodes, NEW b \in Broadcasts, NEW r,
           NEW B, NEW C, NEW ev, NEW fv, NEW d, NEW e,
           RecordInv(n, N, b, r, B, ev, d), Since(d, e, ev, fv), Retained(n, B, C, fv)
    PROVE  RecordInv(n, N, b, r, C, fv, e)
<1>1. /\ Knows(e, n, b) /\ r.asked \in SUBSET N /\ r.awaiting \subseteq r.asked
      /\ \A m \in r.asked \ r.awaiting : Knows(e, m, b)
  BY DEF RecordInv, Since
<1>2. ASSUME <<n, b>> \notin fv PROVE Justified(r, b \in C)
  <2>1. Justified(r, b \in B) /\ (b \in B => b \in C)
    BY <1>2 DEF RecordInv, Since, Retained
  <2> QED
    BY <2>1 DEF Justified
<1> QED
  BY <1>1, <1>2 DEF RecordInv

\* Router n inserts the record r of broadcast b.
LEMMA Inserted ==
    ASSUME NEW n \in Nodes, NEW N \in SUBSET Nodes, NEW t, IsTable(t, N),
           NEW b \in Broadcasts, b \notin DOMAIN t, NEW gone \in Reused(t), NEW r \in Records(N),
           NEW B, NEW C, NEW ev, NEW fv, NEW d, NEW e,
           RouterInv(n, N, t, B, ev, d), Since(d, e, ev, fv), Retained(n, B, C, fv),
           RecordInv(n, N, b, r, C, fv, e)
    PROVE  RouterInv(n, N, Replaced(t, gone, b, r), C, fv, e)
<1> DEFINE u == Replaced(t, gone, b, r)
<1>0. /\ u[b] = r /\ IsTable(u, N)
      /\ \A c \in DOMAIN u : c # b => c \in DOMAIN t /\ u[c] = t[c]
  BY ReplacedFacts
<1> HIDE DEF u
<1>1. /\ u[b] = r /\ DOMAIN u \subseteq Broadcasts
      /\ \A c \in DOMAIN u : c # b => c \in DOMAIN t /\ u[c] = t[c]
  BY <1>0 DEF IsTable
<1> SUFFICES ASSUME NEW c \in DOMAIN u
             PROVE  RecordInv(n, N, c, u[c], C, fv, e)
  BY DEF RouterInv, u
<1>2. CASE c = b
  BY <1>1, <1>2
<1>3. CASE c # b
  <2>1. c \in Broadcasts /\ u[c] = t[c] /\ RecordInv(n, N, c, t[c], B, ev, d)
    BY <1>1, <1>3 DEF RouterInv
  <2> QED
    BY <2>1, RecordStays
<1> QED
  BY <1>2, <1>3

\* Of the routers, only n changes f to g, which is x there.
Only(f, g, n, x) ==
    DOMAIN g = Nodes /\ g[n] = x /\ \A m \in Nodes : m # n => g[m] = f[m]

\* The invariant after a step of router n, from what it leaves behind.
LEMMA Assemble ==
    ASSUME BroadcastInv, links' = links, NEW n \in Nodes, NEW t, NEW s,
           Only(table, table', n, t), Only(bufs, bufs', n, s),
           IsTable(t, Others(n)), IsBuffer(s),
           RouterInv(n, Others(n), t, Range(s), evicted', delivered'),
           Since(delivered, delivered', evicted, evicted'),
           air' \subseteq Message, AirInv(air', delivered'), faults' \in 0 .. MaxFaults,
           delivered' \in [Nodes -> [Broadcasts -> 0 .. 2]]
    PROVE  BroadcastInv'
<1>1. \A m : Others(m) \in SUBSET Nodes
  BY DEF Others
<1>2. DOMAIN table' = Nodes /\ DOMAIN bufs' = Nodes
      /\ table'[n] = t /\ bufs'[n] = s
      /\ \A m \in Nodes : m # n => table'[m] = table[m] /\ bufs'[m] = bufs[m]
  BY DEF Only
<1>3. \A m \in Nodes : IsTable(table'[m], Others(m)) /\ IsBuffer(bufs'[m])
  BY <1>2 DEF BroadcastInv, TypeInv
<1>4. TypeInv'
  <2>1. \A m \in Nodes : IsTable(table[m], Others(m))'
    BY <1>1, <1>3 DEF IsTable, Records
  <2>2. \A m \in Nodes : IsBuffer(bufs[m])'
    BY <1>3 DEF IsBuffer
  <2> QED
    BY <1>2, <2>1, <2>2 DEF BroadcastInv, TypeInv
<1>5. ASSUME NEW m \in Nodes
      PROVE  RouterInv(m, Others(m), table'[m], Range(bufs'[m]), evicted', delivered')
  <2>1. CASE m = n
    BY <1>2, <2>1
  <2>2. CASE m # n
    <3>1. /\ RouterInv(m, Others(m), table[m], Range(bufs[m]), evicted, delivered)
          /\ DOMAIN table[m] \subseteq Broadcasts
      BY DEF BroadcastInv, TypeInv, IsTable
    <3>2. Retained(m, Range(bufs[m]), Range(bufs[m]), evicted')
      BY DEF Retained
    <3>3. \A b \in DOMAIN table[m] :
             RecordInv(m, Others(m), b, table[m][b], Range(bufs[m]), evicted', delivered')
      BY <1>1, <3>1, <3>2, RecordStays DEF RouterInv
    <3> QED
      BY <1>2, <2>2, <3>3 DEF RouterInv
  <2> QED
    BY <2>1, <2>2
<1>6. \A m \in Nodes :
         RouterInv(m, Others(m), table'[m], Range(bufs'[m]), evicted', delivered')
  BY <1>5
<1> QED
  BY <1>4, <1>6 DEF BroadcastInv

-----------------------------------------------------------------------------
(* The actions                                                             *)

LEMMA InitHolds == Init => BroadcastInv
<1> SUFFICES ASSUME Init
             PROVE  BroadcastInv
  OBVIOUS
<1>1. DOMAIN <<>> = {} /\ Range(<<>>) = {} /\ IsBuffer(<<>>)
  BY Constants DEF Range, IsBuffer
<1>2. \A N : IsTable(<<>>, N)
  <2> SUFFICES ASSUME NEW N PROVE IsTable(<<>>, N)
    OBVIOUS
  <2>1. <<>> \in [DOMAIN <<>> -> Records(N)]
    BY <1>1
  <2> QED
    BY <1>1, <2>1, FS_EmptySet, Constants DEF IsTable
<1>3. TypeInv
  <2>1. faults \in 0 .. MaxFaults
    BY Constants DEF Init
  <2>2. delivered \in [Nodes -> [Broadcasts -> 0 .. 2]]
    BY DEF Init
  <2> QED
    BY <1>1, <1>2, <2>1, <2>2 DEF Init, TypeInv
<1>4. \A n \in Nodes : RouterInv(n, Others(n), table[n], Range(bufs[n]), evicted, delivered)
  BY <1>1 DEF Init, RouterInv
<1> QED
  BY <1>3, <1>4 DEF BroadcastInv, AirInv, Init

\* What every step starts from.
LEMMA Before ==
    ASSUME BroadcastInv, NEW n \in Nodes
    PROVE  /\ IsTable(table[n], Others(n)) /\ IsBuffer(bufs[n])
           /\ RouterInv(n, Others(n), table[n], Range(bufs[n]), evicted, delivered)
           /\ Others(n) \in SUBSET Nodes
           /\ TypeInv /\ AirInv(air, delivered) /\ air \subseteq Message
  BY DEF BroadcastInv, TypeInv, Others

\* passive_ack_set: whom a router may wait for.
LEMMA AckSets ==
    ASSUME NEW n, NEW exclude, NEW asked \in PassiveAckSets(n, exclude), n \in Nodes
    PROVE  asked \in SUBSET Others(n)
<1>1. PICK neighbors \in NeighborTables : asked = neighbors[n] \ {n, exclude}
  BY DEF PassiveAckSets
<1>2. neighbors[n] \in SUBSET Nodes
  BY BroadcastAssumption
<1> QED
  BY <1>1, <1>2 DEF Others

\* store_broadcast_buf at router n.
LEMMA StoreFacts ==
    ASSUME BroadcastInv, NEW n \in Nodes, NEW b \in Broadcasts, Store(n, b)
    PROVE  /\ Only(bufs, bufs', n, Stored(bufs[n], b))
           /\ IsBuffer(Stored(bufs[n], b)) /\ b \in Range(Stored(bufs[n], b))
           /\ evicted \subseteq evicted'
           /\ Retained(n, Range(bufs[n]), Range(Stored(bufs[n], b)), evicted')
<1>1. IsBuffer(Stored(bufs[n], b)) /\ b \in Range(Stored(bufs[n], b))
  BY Before, StoredFacts
<1>2. Only(bufs, bufs', n, Stored(bufs[n], b)) /\ bufs'[n] = Stored(bufs[n], b)
  BY DEF Store, BroadcastInv, TypeInv, Only
<1>3. \A c \in Range(bufs[n]) \ Range(bufs'[n]) : <<n, c>> \in evicted'
  BY DEF Store
<1> QED
  BY <1>1, <1>2, <1>3 DEF Store, Retained

LEMMA OriginateStep ==
    ASSUME BroadcastInv, NEW b \in Broadcasts, Originate(b)
    PROVE  BroadcastInv'
<1> DEFINE n == Source(b)
           N == Others(n)
           s == Stored(bufs[n], b)
           fresh(asked) == Record(asked, TRUE, FALSE, None, Radius)
           sending(asked) == [fresh(asked) EXCEPT !.next = Rearmed(fresh(asked))]
           parking(asked) == [fresh(asked) EXCEPT !.parked = TRUE, !.next = RetryDelay]
<1>0. n \in Nodes
  BY BroadcastAssumption
<1>1. /\ b \notin DOMAIN table[n] /\ Store(n, b) /\ links' = links /\ delivered' = delivered
      /\ \E gone \in Reused(table[n]), asked \in PassiveAckSets(n, n) :
            \/ /\ Only(table, table', n, Replaced(table[n], gone, b, sending(asked)))
               /\ \E lost : Transmissions(n, {b}, Replaced(table[n], gone, b, sending(asked)),
                                          lost, 0)
            \/ /\ Only(table, table', n, Replaced(table[n], gone, b, parking(asked)))
               /\ Transmissions(n, {}, table[n], {}, 1)
  BY <1>0 DEF Originate, Has, BroadcastInv, TypeInv, Only
<1>2. /\ IsTable(table[n], N)
      /\ RouterInv(n, N, table[n], Range(bufs[n]), evicted, delivered)
      /\ N \in SUBSET Nodes /\ TypeInv /\ AirInv(air, delivered) /\ air \subseteq Message
  BY <1>0, Before
<1>3. /\ Only(bufs, bufs', n, s) /\ IsBuffer(s) /\ b \in Range(s)
      /\ evicted \subseteq evicted' /\ Retained(n, Range(bufs[n]), Range(s), evicted')
  BY <1>0, <1>1, StoreFacts
<1>4. Since(delivered, delivered', evicted, evicted')
  BY <1>1, <1>3 DEF Since
<1>5. PICK gone \in Reused(table[n]), asked \in PassiveAckSets(n, n) :
            \/ /\ Only(table, table', n, Replaced(table[n], gone, b, sending(asked)))
               /\ \E lost : Transmissions(n, {b}, Replaced(table[n], gone, b, sending(asked)),
                                          lost, 0)
            \/ /\ Only(table, table', n, Replaced(table[n], gone, b, parking(asked)))
               /\ Transmissions(n, {}, table[n], {}, 1)
  BY <1>1
<1> DEFINE r == fresh(asked)
           sentNow == sending(asked)
           parkedNow == parking(asked)
<1>10. asked \in SUBSET N
  BY <1>0, AckSets
<1>6. Knows(delivered', n, b) /\ delivered' \in [Nodes -> [Broadcasts -> 0 .. 2]]
  BY <1>1, <1>2 DEF Knows, TypeInv
<1>9. r \in Records(N) /\ r.radius = Radius
  BY <1>10, Constants DEF Record, Records
<1>7. CASE /\ Only(table, table', n, Replaced(table[n], gone, b, sentNow))
           /\ \E lost : Transmissions(n, {b}, Replaced(table[n], gone, b, sentNow), lost, 0)
  <2> DEFINE t == Replaced(table[n], gone, b, sentNow)
  <2>1. sentNow \in Records(N) /\ sentNow.radius = Radius
    <3>1. Rearmed(r) \in {None} \cup Nat
      BY Constants DEF Rearmed, Record
    <3> QED
      BY <1>9, <3>1 DEF Records
  <2>2. RecordInv(n, N, b, sentNow, Range(s), evicted', delivered')
    <3>1. sentNow.asked = asked /\ sentNow.awaiting = asked
          /\ (sentNow.next = None => ~(sentNow.retries < MaxRetries))
      BY Constants DEF Record, Rearmed, None
    <3> HIDE DEF sentNow, N, s
    <3> QED
      BY <1>3, <1>6, <1>10, <3>1 DEF RecordInv, Justified
  <2> HIDE DEF sentNow, N, s, n
  <2>3. IsTable(t, N) /\ t[b] = sentNow
    BY <1>1, <1>2, <2>1, ReplacedFacts
  <2>4. RouterInv(n, N, t, Range(s), evicted', delivered')
    BY <1>0, <1>1, <1>2, <1>3, <1>4, <2>1, <2>2, Inserted
  <2>5. PICK lost : Transmissions(n, {b}, t, lost, 0)
    BY <1>7
  <2>6. /\ air' \subseteq Message /\ faults' \in 0 .. MaxFaults
        /\ \A m \in air' : m \in air \/ (m.from = n /\ m.b \in {b})
    <3>1. /\ {b} \in SUBSET Broadcasts /\ IsFiniteSet({b}) /\ 0 \in Nat
          /\ \A c \in {b} : t[c].radius \in Int
      <4>1. t[b].radius \in Int
        BY <2>1, <2>3, Constants
      <4> QED
        BY <4>1, FS_Singleton
    <3> HIDE DEF t
    <3> QED
      BY <1>0, <1>2, <2>5, <3>1, Sending
  <2>7. AirInv(air', delivered')
    BY <1>1, <1>2, <1>6, <2>6 DEF AirInv
  <2> HIDE DEF t
  <2> QED
    BY <1>0, <1>1, <1>3, <1>4, <1>6, <1>7, <2>3, <2>4, <2>6, <2>7, Assemble DEF t, N
<1>8. CASE /\ Only(table, table', n, Replaced(table[n], gone, b, parkedNow))
           /\ Transmissions(n, {}, table[n], {}, 1)
  <2> DEFINE t == Replaced(table[n], gone, b, parkedNow)
  <2>1. parkedNow \in Records(N)
    BY <1>9, Constants DEF Records
  <2>2. RecordInv(n, N, b, parkedNow, Range(s), evicted', delivered')
    <3>1. parkedNow.asked = asked /\ parkedNow.awaiting = asked /\ parkedNow.parked
      BY DEF Record
    <3> HIDE DEF parkedNow, N, s
    <3> QED
      BY <1>3, <1>6, <1>10, <3>1 DEF RecordInv, Justified
  <2> HIDE DEF parkedNow, N, s, n
  <2>3. IsTable(t, N)
    BY <1>1, <1>2, <2>1, ReplacedFacts
  <2>4. RouterInv(n, N, t, Range(s), evicted', delivered')
    BY <1>0, <1>1, <1>2, <1>3, <1>4, <2>1, <2>2, Inserted
  <2>6. /\ air' \subseteq Message /\ faults' \in 0 .. MaxFaults
        /\ \A m \in air' : m \in air \/ (m.from = n /\ m.b \in {})
    <3>1. {} \in SUBSET Broadcasts /\ IsFiniteSet({}) /\ 1 \in Nat
          /\ \A c \in {} : table[n][c].radius \in Int
      BY FS_EmptySet
    <3> QED
      BY <1>0, <1>2, <1>8, <3>1, Sending
  <2>7. AirInv(air', delivered')
    BY <1>1, <1>2, <2>6 DEF AirInv
  <2> HIDE DEF t
  <2> QED
    BY <1>0, <1>1, <1>3, <1>4, <1>6, <1>8, <2>3, <2>4, <2>6, <2>7, Assemble DEF t, N
<1> QED
  BY <1>5, <1>7, <1>8

\* A reception that changes nothing at its router.
LEMMA Ignored ==
    ASSUME BroadcastInv, NEW n \in Nodes, links' = links, table' = table, bufs' = bufs,
           evicted' = evicted, delivered' = delivered, faults' = faults, air' \subseteq air
    PROVE  BroadcastInv'
<1>1. /\ IsTable(table[n], Others(n)) /\ IsBuffer(bufs[n])
      /\ RouterInv(n, Others(n), table[n], Range(bufs[n]), evicted, delivered)
      /\ TypeInv /\ AirInv(air, delivered) /\ air \subseteq Message
  BY Before
<1>2. Only(table, table', n, table[n]) /\ Only(bufs, bufs', n, bufs[n])
  BY <1>1 DEF TypeInv, Only
<1>3. Since(delivered, delivered', evicted, evicted')
  BY DEF Since
<1>4. /\ air' \subseteq Message /\ AirInv(air', delivered') /\ faults' \in 0 .. MaxFaults
      /\ delivered' \in [Nodes -> [Broadcasts -> 0 .. 2]]
  BY <1>1 DEF AirInv, TypeInv
<1> QED
  BY <1>1, <1>2, <1>3, <1>4, Assemble

\* passive_ack: the sender of m has the broadcast.
LEMMA HeardStep ==
    ASSUME BroadcastInv, NEW m \in air, m.b \in DOMAIN table[m.to],
           table' = [table EXCEPT ![m.to][m.b] = Heard(@, m.from)],
           links' = links, bufs' = bufs, evicted' = evicted, delivered' = delivered,
           faults' = faults, air' \subseteq air
    PROVE  BroadcastInv'
<1> DEFINE n == m.to
           N == Others(n)
           b == m.b
           old == table[n][b]
           r == Heard(old, m.from)
           t == [table[n] EXCEPT ![b] = r]
<1>0. n \in Nodes /\ b \in Broadcasts /\ m.from \in Nodes /\ Knows(delivered, m.from, b)
  BY DEF BroadcastInv, TypeInv, Message, AirInv
<1>1. /\ IsTable(table[n], N) /\ IsBuffer(bufs[n])
      /\ RouterInv(n, N, table[n], Range(bufs[n]), evicted, delivered)
      /\ TypeInv /\ AirInv(air, delivered) /\ air \subseteq Message
  BY <1>0, Before
<1>2. Only(table, table', n, t) /\ Only(bufs, bufs', n, bufs[n])
  BY <1>0, <1>1 DEF TypeInv, Only
<1>3. Since(delivered, delivered', evicted, evicted')
  BY DEF Since
<1>4. /\ air' \subseteq Message /\ AirInv(air', delivered') /\ faults' \in 0 .. MaxFaults
      /\ delivered' \in [Nodes -> [Broadcasts -> 0 .. 2]]
  BY <1>1 DEF AirInv, TypeInv
<1>5. old \in Records(N)
  BY <1>1 DEF IsTable
<1> HIDE DEF n, N, old
<1>6. /\ r \in Records(N) /\ r.asked = old.asked /\ r.awaiting = old.awaiting \ {m.from}
      /\ r.parked = old.parked /\ r.radius = old.radius /\ r.next = old.next
      /\ r.retries = old.retries
  BY <1>5 DEF Heard, Records
<1> HIDE DEF r
<1>7. /\ DOMAIN t = DOMAIN table[n] /\ t[b] = r
      /\ \A c \in DOMAIN t : c # b => t[c] = table[n][c]
  BY DEF n
<1>8. IsTable(t, N)
  <2>1. t \in [DOMAIN table[n] -> Records(N)]
    BY <1>1, <1>6, <1>7 DEF IsTable
  <2> HIDE DEF t, b
  <2> QED
    BY <1>1, <2>1, UpdatedFacts
<1>9. RouterInv(n, N, t, Range(bufs[n]), evicted, delivered)
  <2>1. RecordInv(n, N, b, old, Range(bufs[n]), evicted, delivered)
    BY <1>1 DEF RouterInv, old, n
  <2>2. RecordInv(n, N, b, r, Range(bufs[n]), evicted, delivered)
    <3>1. /\ r.asked \in SUBSET N /\ r.awaiting \subseteq r.asked
          /\ \A k \in r.asked \ r.awaiting : Knows(delivered, k, b)
      BY <1>0, <1>6, <2>1 DEF RecordInv
    <3>2. ASSUME <<n, b>> \notin evicted PROVE Justified(r, b \in Range(bufs[n]))
      BY <1>6, <2>1, <3>2 DEF RecordInv, Justified
    <3> QED
      BY <2>1, <3>1, <3>2 DEF RecordInv
  <2> HIDE DEF b, t
  <2> QED
    BY <1>1, <1>7, <2>2 DEF RouterInv
<1> HIDE DEF t
<1> QED
  BY <1>0, <1>1, <1>2, <1>3, <1>4, <1>8, <1>9, Assemble DEF N

\* The first reception of a broadcast: a record, a buffered frame when it is
\* to be relayed, and a delivery.
LEMMA FreshStep ==
    ASSUME BroadcastInv, NEW m \in air, m.b \notin DOMAIN table[m.to],
           NEW next \in IF m.radius > 1 THEN 0 .. MaxJitter ELSE {None},
           NEW gone \in Reused(table[m.to]), NEW asked \in PassiveAckSets(m.to, m.from),
           table' = [table EXCEPT ![m.to] =
                        Replaced(@, gone, m.b,
                                 Record(asked, m.radius > 1, m.radius > 1,
                                        next, m.radius - 1))],
           IF m.radius > 1 THEN Store(m.to, m.b) ELSE UNCHANGED <<bufs, evicted>>,
           delivered' = [delivered EXCEPT ![m.to][m.b] = IF @ < 2 THEN @ + 1 ELSE 2],
           links' = links, faults' = faults, air' \subseteq air
    PROVE  BroadcastInv'
<1> DEFINE n == m.to
           N == Others(n)
           b == m.b
           r == Record(asked, m.radius > 1, m.radius > 1, next, m.radius - 1)
           t == Replaced(table[n], gone, b, r)
           s == IF m.radius > 1 THEN Stored(bufs[n], b) ELSE bufs[n]
<1>0. n \in Nodes /\ b \in Broadcasts /\ m.from \in Nodes /\ Knows(delivered, m.from, b)
      /\ m.radius \in Int
  BY DEF BroadcastInv, TypeInv, Message, AirInv
<1>1. /\ IsTable(table[n], N) /\ IsBuffer(bufs[n])
      /\ RouterInv(n, N, table[n], Range(bufs[n]), evicted, delivered)
      /\ N \in SUBSET Nodes /\ TypeInv /\ AirInv(air, delivered) /\ air \subseteq Message
  BY <1>0, Before
<1>2. Only(table, table', n, t)
  BY <1>0, <1>1 DEF TypeInv, Only
<1>3. /\ Only(bufs, bufs', n, s) /\ IsBuffer(s) /\ evicted \subseteq evicted'
      /\ Retained(n, Range(bufs[n]), Range(s), evicted')
  <2>1. CASE m.radius > 1
    BY <1>0, <2>1, StoreFacts
  <2>2. CASE ~(m.radius > 1)
    BY <1>0, <1>1, <2>2 DEF Only, Retained, TypeInv
  <2> QED
    BY <2>1, <2>2
<1>4. delivered' \in [Nodes -> [Broadcasts -> 0 .. 2]] /\ Knows(delivered', n, b)
      /\ Since(delivered, delivered', evicted, evicted')
  <2>1. delivered[n][b] \in 0 .. 2
    BY <1>0, <1>1 DEF TypeInv
  <2>2. /\ delivered' \in [Nodes -> [Broadcasts -> 0 .. 2]]
        /\ delivered'[n][b] > 0
        /\ \A k \in Nodes, c \in Broadcasts : delivered'[k][c] >= delivered[k][c]
    <3> DEFINE x == IF delivered[n][b] < 2 THEN delivered[n][b] + 1 ELSE 2
    <3>1. x \in 0 .. 2 /\ x > 0 /\ x >= delivered[n][b]
      BY <2>1
    <3>2. delivered' = [delivered EXCEPT ![n][b] = x]
      OBVIOUS
    <3>3. delivered \in [Nodes -> [Broadcasts -> 0 .. 2]]
      BY <1>1 DEF TypeInv
    <3> HIDE DEF x, n, b
    <3> DEFINE row == [delivered[n] EXCEPT ![b] = x]
    <3>6. row \in [Broadcasts -> 0 .. 2] /\ row[b] = x
      BY <1>0, <3>1, <3>3
    <3>7. delivered' = [delivered EXCEPT ![n] = row]
      BY <3>2
    <3> HIDE DEF row
    <3>8. n \in Nodes
      BY <1>0
    <3>9. delivered' \in [Nodes -> [Broadcasts -> 0 .. 2]]
      <4> DEFINE R == [Broadcasts -> 0 .. 2]
      <4>1. row \in R /\ delivered \in [Nodes -> R]
        BY <3>3, <3>6
      <4> HIDE DEF R
      <4>2. delivered' \in [Nodes -> R]
        BY <3>7, <4>1
      <4> QED
        BY <4>2 DEF R
    <3>4. delivered'[n][b] = x
      BY <3>3, <3>6, <3>7, <3>8
    <3>5. ASSUME NEW k \in Nodes, NEW c \in Broadcasts
          PROVE  delivered'[k][c] >= delivered[k][c]
      <4>1. delivered[k][c] \in 0 .. 2
        BY <3>3
      <4>2. delivered'[k][c] = IF k = n /\ c = b THEN x ELSE delivered[k][c]
        BY <1>0, <3>2, <3>3
      <4> QED
        BY <3>1, <4>1, <4>2
    <3> QED
      BY <3>1, <3>4, <3>5, <3>9
  <2>3. \A k \in Nodes, c \in Broadcasts : delivered[k][c] \in Int /\ delivered'[k][c] \in Int
    BY <1>1, <2>2 DEF TypeInv
  <2>4. \A k \in Nodes, c \in Broadcasts : Knows(delivered, k, c) => Knows(delivered', k, c)
    BY <2>2, <2>3 DEF Knows
  <2> QED
    BY <1>3, <2>2, <2>4 DEF Knows, Since
<1>5. r \in Records(N)
  <2>1. next \in {None} \cup Nat
    BY Constants
  <2>2. m.radius - 1 \in Int /\ (m.radius > 1) \in BOOLEAN
    BY <1>0
  <2>3. /\ asked \in SUBSET N /\ 0 \in 0 .. MaxRetries
        /\ DeliveryTime \in 0 .. DeliveryTime
    BY <1>0, AckSets, Constants
  <2> HIDE DEF N
  <2> QED
    BY <2>1, <2>2, <2>3 DEF Record, Records
<1>6. RecordInv(n, N, b, r, Range(s), evicted', delivered')
  <2>1. /\ r.asked = asked /\ r.awaiting = asked /\ r.parked = (m.radius > 1)
        /\ r.radius = m.radius - 1
    BY DEF Record
  <2>2. asked \in SUBSET N
    BY <1>0, AckSets
  <2>3. ~(~r.parked /\ r.radius > 0)
    <3>1. CASE m.radius > 1
      BY <2>1, <3>1
    <3>2. CASE ~(m.radius > 1)
      <4>1. ~(m.radius - 1 > 0)
        BY <1>0, <3>2
      <4> QED
        BY <2>1, <4>1
    <3> QED
      BY <3>1, <3>2
  <2> HIDE DEF r, n, N, b, s
  <2> QED
    BY <1>4, <2>1, <2>2, <2>3 DEF RecordInv, Justified
<1> HIDE DEF r, N, s
<1>7. IsTable(t, N)
  BY <1>0, <1>1, <1>5, ReplacedFacts
<1>8. RouterInv(n, N, t, Range(s), evicted', delivered')
  BY <1>0, <1>1, <1>3, <1>4, <1>5, <1>6, Inserted
<1>9. /\ air' \subseteq Message /\ AirInv(air', delivered') /\ faults' \in 0 .. MaxFaults
  <2>1. \A k \in air : k.from \in Nodes /\ k.b \in Broadcasts
    BY <1>1 DEF Message
  <2> QED
    BY <1>1, <1>4, <2>1 DEF AirInv, TypeInv, Since
<1> HIDE DEF t, n
<1> QED
  BY <1>0, <1>1, <1>2, <1>3, <1>4, <1>7, <1>8, <1>9, Assemble DEF N

LEMMA ReceiveStep ==
    ASSUME BroadcastInv, NEW m \in air, Receive(m)
    PROVE  BroadcastInv'
<1>0. m.to \in Nodes
  BY DEF BroadcastInv, TypeInv, Message
<1>1. links' = links /\ faults' = faults /\ air' \subseteq air
  BY DEF Receive
<1>2. CASE /\ Has(m.to, m.b)
           /\ table' = [table EXCEPT ![m.to][m.b] = Heard(@, m.from)]
           /\ UNCHANGED <<bufs, evicted, delivered, conflicts>>
  BY <1>1, <1>2, HeardStep DEF Has
<1>3. CASE UNCHANGED <<table, bufs, evicted, delivered>>
  BY <1>0, <1>1, <1>3, Ignored
<1>4. CASE /\ ~Has(m.to, m.b) /\ m.to # Source(m.b) /\ ~Full(m.to)
           /\ \E next \in IF m.radius > 1 THEN 0 .. MaxJitter ELSE {None},
                 gone \in Reused(table[m.to]),
                 asked \in PassiveAckSets(m.to, m.from) :
                  table' = [table EXCEPT ![m.to] =
                     Replaced(@, gone, m.b,
                              Record(asked, m.radius > 1, m.radius > 1,
                                     next, m.radius - 1))]
           /\ IF m.radius > 1 THEN Store(m.to, m.b) ELSE UNCHANGED <<bufs, evicted>>
           /\ delivered' = [delivered EXCEPT ![m.to][m.b] = IF @ < 2 THEN @ + 1 ELSE 2]
  BY <1>1, <1>4, FreshStep DEF Has
<1> QED
  BY <1>2, <1>3, <1>4 DEF Receive

-----------------------------------------------------------------------------
(* service_broadcasts and time                                             *)

Outcome == {"Ok", "CounterPending", "Error"}

\* The frame of record r stays in the buffer.
Stays(r, outcome, buffered) == buffered /\ ~Finished(r) /\ outcome # "Error"

\* A due record stays justified: what is idle was heard by everyone, has no
\* retries left or was never sent, and what is not has its frame.
LEMMA ServicedFacts ==
    ASSUME NEW N, NEW r \in Records(N), r.next = 0, NEW outcome \in Outcome,
           NEW buffered \in BOOLEAN, outcome = "Ok" \/ (r.parked /\ buffered)
    PROVE  /\ Serviced(r, outcome, buffered) \in Records(N)
           /\ Serviced(r, outcome, buffered).asked = r.asked
           /\ Serviced(r, outcome, buffered).awaiting = r.awaiting
           /\ Serviced(r, outcome, buffered).radius = r.radius
           /\ Justified(r, buffered) =>
                 Justified(Serviced(r, outcome, buffered), Stays(r, outcome, buffered))
<1> DEFINE q == Serviced(r, outcome, buffered)
           Goal == /\ q \in Records(N) /\ q.asked = r.asked /\ q.awaiting = r.awaiting /\ q.radius = r.radius
                   /\ Justified(r, buffered) => Justified(q, Stays(r, outcome, buffered))
<1>0. /\ r.retries \in 0 .. MaxRetries /\ r.first \in BOOLEAN /\ r.parked \in BOOLEAN
      /\ r.radius \in Int /\ r.awaiting \in SUBSET N /\ None \in {None} \cup Nat /\ None # 0
  BY DEF Records, None
<1>1. ~Finished(r) => /\ Begun(r) \in Records(N) /\ Begun(r).asked = r.asked
                      /\ Begun(r).awaiting = r.awaiting
                      /\ Begun(r).radius = r.radius /\ Begun(r).parked = r.parked
                      /\ Begun(r).next = 0
  <2> SUFFICES ASSUME ~Finished(r)
               PROVE  /\ Begun(r) \in Records(N) /\ Begun(r).asked = r.asked
                      /\ Begun(r).awaiting = r.awaiting
                      /\ Begun(r).radius = r.radius /\ Begun(r).parked = r.parked
                      /\ Begun(r).next = 0
    OBVIOUS
  <2> DEFINE k == IF r.first THEN r.retries ELSE r.retries + 1
  <2>1. k \in 0 .. MaxRetries
    BY <1>0, Constants DEF Finished
  <2>2. Begun(r) = [r EXCEPT !.first = FALSE, !.retries = k]
    BY DEF Begun
  <2> HIDE DEF k
  <2> QED
    BY <2>1, <2>2 DEF Records
<1>2. CASE Finished(r)
  <2>1. q = [r EXCEPT !.next = None]
    BY <1>2 DEF Serviced, Idle
  <2>2. /\ q \in Records(N) /\ q.asked = r.asked /\ q.awaiting = r.awaiting /\ q.radius = r.radius
        /\ q.next = None /\ q.retries = r.retries
    BY <1>0, <2>1 DEF Records
  <2>3. q.retries < MaxRetries => q.awaiting = {}
    BY <1>0, <1>2, <2>2, Constants DEF Finished
  <2> HIDE DEF q
  <2> QED
    BY <2>2, <2>3 DEF Justified, q
<1>3. CASE ~Finished(r) /\ ~buffered
  <2>1. q = [Begun(r) EXCEPT !.next = None]
    BY <1>3 DEF Serviced, Idle
  <2>2. /\ q \in Records(N) /\ q.asked = r.asked /\ q.awaiting = r.awaiting /\ q.radius = r.radius
        /\ q.parked = r.parked
    BY <1>0, <1>1, <1>3, <2>1 DEF Records
  <2>3. Justified(r, buffered) => ~(~r.parked /\ r.radius > 0)
    BY <1>0, <1>3 DEF Justified
  <2> HIDE DEF q
  <2> QED
    BY <2>2, <2>3 DEF Justified, q
<1>4. CASE ~Finished(r) /\ buffered /\ outcome = "Ok"
  <2>1. q = [Begun(r) EXCEPT !.parked = FALSE, !.next = Rearmed(Begun(r))]
    BY <1>4 DEF Serviced, Transmitted
  <2>2. Begun(r).retries \in 0 .. MaxRetries
    BY <1>1, <1>4 DEF Records
  <2>3. /\ Rearmed(Begun(r)) \in {None} \cup Nat
        /\ Rearmed(Begun(r)) = None => ~(Begun(r).retries < MaxRetries)
    BY <2>2, Constants DEF Rearmed, None
  <2> DEFINE z == Begun(r)
             x == Rearmed(z)
  <2>5. z \in Records(N) /\ z.asked = r.asked /\ z.awaiting = r.awaiting /\ z.radius = r.radius
    BY <1>1, <1>4
  <2> HIDE DEF z, x
  <2>4. /\ q \in Records(N) /\ q.asked = r.asked /\ q.awaiting = r.awaiting /\ q.radius = r.radius
        /\ q.next = x /\ q.retries = z.retries
    BY <2>1, <2>3, <2>5 DEF Records, z, x
  <2>6. Stays(r, outcome, buffered)
    BY <1>4 DEF Stays
  <2>7. q.next = None => ~(q.retries < MaxRetries)
    BY <2>3, <2>4 DEF z, x
  <2> HIDE DEF q
  <2> QED
    BY <2>4, <2>6, <2>7 DEF Justified, q
<1>5. CASE ~Finished(r) /\ buffered /\ outcome = "CounterPending"
  <2>1. q = [r EXCEPT !.first = TRUE, !.next = RetryDelay]
    BY <1>5 DEF Serviced
  <2>2. /\ q \in Records(N) /\ q.asked = r.asked /\ q.awaiting = r.awaiting /\ q.radius = r.radius
        /\ q.parked = r.parked
    BY <1>0, <2>1, Constants DEF Records
  <2>3. r.parked
    BY <1>5
  <2> HIDE DEF q
  <2> QED
    BY <2>2, <2>3 DEF Justified, q
<1>6. CASE ~Finished(r) /\ buffered /\ outcome = "Error"
  <2>1. q = Begun(r)
    BY <1>6 DEF Serviced
  <2>2. r.parked
    BY <1>6
  <2>3. /\ q \in Records(N) /\ q.asked = r.asked /\ q.awaiting = r.awaiting /\ q.radius = r.radius
        /\ q.parked = r.parked
    BY <1>1, <1>6, <2>1
  <2> HIDE DEF q
  <2> QED
    BY <2>2, <2>3 DEF Justified, q
<1> QED
  BY <1>2, <1>3, <1>4, <1>5, <1>6 DEF Outcome

\* The parts of Service.
ServicedTable(n, o) ==
    [b \in DOMAIN table[n] |->
        IF b \in Due(n) THEN Serviced(table[n][b], o[b], Contains(bufs[n], b)) ELSE table[n][b]]
Live(t) == {b \in DOMAIN t : ~Expired(t[b])}
Out(n, o) == {b \in Due(n) : ~Finished(table[n][b]) /\ Contains(bufs[n], b) /\ o[b] = "Ok"}
Unsecured(n, o) == {b \in Due(n) : o[b] = "CounterPending"} \cup {b \in Due(n) : o[b] = "Error"}
Gone(n, o) == {b \in Due(n) : Finished(table[n][b])} \cup {b \in Due(n) : o[b] = "Error"}

LEMMA ServiceStep ==
    ASSUME BroadcastInv, NEW n \in Nodes, Service(n)
    PROVE  BroadcastInv'
<1> DEFINE N == Others(n)
           B == Range(bufs[n])
<1>1. /\ IsTable(table[n], N) /\ IsBuffer(bufs[n])
      /\ RouterInv(n, N, table[n], B, evicted, delivered)
      /\ N \in SUBSET Nodes /\ TypeInv /\ AirInv(air, delivered) /\ air \subseteq Message
  BY Before
<1>2. PICK o \in Outcomes(n) :
         /\ table' = [table EXCEPT ![n] = [b \in Live(ServicedTable(n, o)) |->
                                              ServicedTable(n, o)[b]]]
         /\ bufs' = [bufs EXCEPT ![n] = Kept(@, Live(ServicedTable(n, o)) \ Gone(n, o))]
         /\ \E lost : Transmissions(n, Out(n, o), ServicedTable(n, o), lost,
                                    Cardinality(Unsecured(n, o)))
  BY DEF Service, ServicedTable, Live, Gone, Out, Unsecured
<1> DEFINE t == ServicedTable(n, o)
           L == Live(t)
           u == [b \in L |-> t[b]]
           s == Kept(bufs[n], L \ Gone(n, o))
<1>3. links' = links /\ delivered' = delivered /\ evicted' = evicted
  BY DEF Service
<1>4. \A b : Contains(bufs[n], b) <=> b \in B
  BY <1>1 DEF Contains, Range, IsBuffer
<1>5. Only(table, table', n, u) /\ Only(bufs, bufs', n, s)
  BY <1>1, <1>2 DEF TypeInv, Only
<1>6. IsBuffer(s) /\ \A b \in L \ Gone(n, o) : b \in B => b \in Range(s)
  <2>1. bufs[n] \in Seq(Broadcasts) /\ Len(bufs[n]) \in Nat /\ Len(bufs[n]) <= Buffers
    BY <1>1 DEF IsBuffer
  <2>2. /\ s \in Seq(Broadcasts) /\ Len(s) <= Len(bufs[n])
        /\ \A b \in L \ Gone(n, o) : b \in B => b \in Range(s)
    BY <2>1, KeptFacts
  <2> HIDE DEF s
  <2> QED
    BY <2>1, <2>2, Constants DEF IsBuffer
<1>7. /\ DOMAIN t = DOMAIN table[n] /\ L \in SUBSET DOMAIN table[n]
      /\ \A b \in DOMAIN table[n] :
            t[b] = IF b \in Due(n)
                   THEN Serviced(table[n][b], o[b], Contains(bufs[n], b)) ELSE table[n][b]
  BY DEF ServicedTable, Live
<1> HIDE DEF t, s
<1>8. ASSUME NEW b \in DOMAIN table[n]
      PROVE  /\ t[b] \in Records(N) /\ t[b].asked = table[n][b].asked
             /\ t[b].awaiting = table[n][b].awaiting
             /\ t[b].radius = table[n][b].radius
             /\ b \in L => RecordInv(n, N, b, t[b], Range(s), evicted, delivered)
  <2> DEFINE r == table[n][b]
             buffered == Contains(bufs[n], b)
  <2>1. r \in Records(N) /\ RecordInv(n, N, b, r, B, evicted, delivered)
    BY <1>1 DEF IsTable, RouterInv
  <2>2. CASE b \notin Due(n)
    <3>1. t[b] = r /\ b \notin Gone(n, o)
      BY <1>7, <2>2 DEF Gone
    <3>2. b \in L => (b \in B => b \in Range(s))
      BY <1>6, <3>1
    <3> HIDE DEF r, L, B
    <3>3. b \in L => RecordInv(n, N, b, r, Range(s), evicted, delivered)
      BY <2>1, <3>2 DEF RecordInv, Justified
    <3> QED
      BY <2>1, <3>1, <3>3 DEF r
  <2>3. CASE b \in Due(n)
    <3>1. t[b] = Serviced(r, o[b], buffered) /\ r.next = 0 /\ buffered \in BOOLEAN
      BY <1>7, <2>3 DEF Due, Contains
    <3>2. o[b] \in Outcome /\ (o[b] = "Ok" \/ (r.parked /\ buffered))
      BY <2>3 DEF Outcomes, Outcome
    <3> DEFINE x == o[b]
    <3> HIDE DEF r, buffered, x
    <3>3. /\ Serviced(r, x, buffered) \in Records(N)
          /\ Serviced(r, x, buffered).asked = r.asked
          /\ Serviced(r, x, buffered).awaiting = r.awaiting
          /\ Serviced(r, x, buffered).radius = r.radius
          /\ Justified(r, buffered) =>
                Justified(Serviced(r, x, buffered), Stays(r, x, buffered))
      BY <2>1, <3>1, <3>2, ServicedFacts DEF x
    <3> DEFINE q == Serviced(r, x, buffered)
    <3>4. t[b] = q
      BY <3>1 DEF x
    <3> HIDE DEF q
    <3>5. /\ q \in Records(N) /\ q.asked = r.asked /\ q.awaiting = r.awaiting /\ q.radius = r.radius
          /\ Justified(r, buffered) => Justified(q, Stays(r, x, buffered))
      BY <3>3 DEF q
    <3>6. b \in L /\ Stays(r, x, buffered) => b \in Range(s)
      <4> SUFFICES ASSUME b \in L, Stays(r, x, buffered) PROVE b \in Range(s)
        OBVIOUS
      <4>1. b \notin Gone(n, o)
        BY DEF Stays, Gone, r, x
      <4>2. b \in B
        BY <1>4 DEF Stays, buffered
      <4> QED
        BY <1>6, <4>1, <4>2
    <3>7. (b \in B) = buffered
      BY <1>4, <3>1 DEF buffered
    <3>8. b \in L => RecordInv(n, N, b, q, Range(s), evicted, delivered)
      <4> SUFFICES ASSUME b \in L PROVE RecordInv(n, N, b, q, Range(s), evicted, delivered)
        OBVIOUS
      <4>1. ASSUME <<n, b>> \notin evicted PROVE Justified(q, b \in Range(s))
        <5>1. Justified(r, b \in B)
          BY <2>1, <4>1 DEF RecordInv
        <5>2. Justified(r, buffered)
          BY <3>7, <5>1
        <5>3. Justified(q, Stays(r, x, buffered))
          BY <3>5, <5>2
        <5> QED
          BY <3>6, <5>3 DEF Justified
      <4>2. /\ Knows(delivered, n, b) /\ q.asked \in SUBSET N /\ q.awaiting \subseteq q.asked
            /\ \A m \in q.asked \ q.awaiting : Knows(delivered, m, b)
        BY <2>1, <3>5 DEF RecordInv
      <4> QED
        BY <4>1, <4>2 DEF RecordInv
    <3> QED
      BY <3>4, <3>5, <3>8 DEF r
  <2> QED
    BY <2>2, <2>3
<1>9. IsTable(u, N) /\ RouterInv(n, N, u, Range(s), evicted, delivered)
  <2>1. u \in [L -> Records(N)]
    BY <1>7, <1>8
  <2>2. DOMAIN u = L /\ \A b \in L : u[b] = t[b]
    OBVIOUS
  <2> HIDE DEF u, L
  <2>3. IsTable(u, N)
    BY <1>1, <1>7, <2>1, UpdatedFacts
  <2>4. RouterInv(n, N, u, Range(s), evicted, delivered)
    BY <1>7, <1>8, <2>2 DEF RouterInv
  <2> QED
    BY <2>3, <2>4
<1>10. /\ air' \subseteq Message /\ faults' \in 0 .. MaxFaults
       /\ \A m \in air' : m \in air \/ (m.from = n /\ m.b \in Out(n, o))
  <2>1. /\ Out(n, o) \in SUBSET DOMAIN table[n] /\ Unsecured(n, o) \in SUBSET DOMAIN table[n]
        /\ IsFiniteSet(DOMAIN table[n]) /\ DOMAIN table[n] \subseteq Broadcasts
    BY <1>1 DEF Out, Unsecured, Due, IsTable
  <2>2. IsFiniteSet(Out(n, o)) /\ Cardinality(Unsecured(n, o)) \in Nat
    BY <2>1, FS_Subset, FS_CardinalityType
  <2>3. \A b \in Out(n, o) : t[b].radius \in Int
    BY <1>1, <1>8, <2>1 DEF IsTable, Records
  <2>4. PICK lost : Transmissions(n, Out(n, o), t, lost, Cardinality(Unsecured(n, o)))
    BY <1>2 DEF t
  <2>5. Out(n, o) \in SUBSET Broadcasts
    BY <2>1
  <2> QED
    BY <1>1, <2>2, <2>3, <2>4, <2>5, Sending
<1>11. AirInv(air', delivered')
  <2>1. \A b \in Out(n, o) : Knows(delivered, n, b)
    BY <1>1 DEF Out, Due, RouterInv, RecordInv
  <2> QED
    BY <1>1, <1>3, <1>10, <2>1 DEF AirInv
<1>12. Since(delivered, delivered', evicted, evicted')
       /\ delivered' \in [Nodes -> [Broadcasts -> 0 .. 2]]
  BY <1>1, <1>3 DEF Since, TypeInv
<1> HIDE DEF u
<1> QED
  BY <1>3, <1>5, <1>6, <1>9, <1>10, <1>11, <1>12, Assemble

\* A record that is neither due nor expired, one tick later.
Later(r) == [r EXCEPT !.next = Down(@), !.life = @ - 1]

LEMMA LaterFacts ==
    ASSUME NEW N, NEW r \in Records(N), r.next # 0, r.life # 0
    PROVE  /\ Later(r) \in Records(N) /\ Later(r).asked = r.asked /\ Later(r).awaiting = r.awaiting
           /\ \A buffered : Justified(r, buffered) => Justified(Later(r), buffered)
<1>1. /\ Down(r.next) \in {None} \cup Nat /\ r.life - 1 \in 0 .. DeliveryTime
      /\ Down(r.next) = None <=> r.next = None
  BY Constants DEF Records, Down, None
<1>2. /\ Later(r) \in Records(N) /\ Later(r).asked = r.asked /\ Later(r).awaiting = r.awaiting
      /\ Later(r).parked = r.parked /\ Later(r).radius = r.radius
      /\ Later(r).retries = r.retries /\ Later(r).next = Down(r.next)
  BY <1>1 DEF Later, Records
<1> QED
  BY <1>1, <1>2 DEF Justified

LEMMA TickStep ==
    ASSUME BroadcastInv, Tick
    PROVE  BroadcastInv'
<1> DEFINE u(n) == [b \in DOMAIN table[n] |-> Later(table[n][b])]
<1>1. /\ links' = links /\ bufs' = bufs /\ air' = air /\ faults' = faults
      /\ delivered' = delivered /\ evicted' = evicted
      /\ table' = [n \in Nodes |-> u(n)]
      /\ \A n \in Nodes : \A b \in DOMAIN table[n] : table[n][b].next # 0 /\ table[n][b].life # 0
  BY DEF Tick, Later, Due, Expired
<1>3. ASSUME NEW n \in Nodes
      PROVE  /\ IsTable(u(n), Others(n))
             /\ RouterInv(n, Others(n), u(n), Range(bufs[n]), evicted, delivered)
  <2> DEFINE N == Others(n)
             t == table[n]
             B == Range(bufs[n])
             v == u(n)
  <2>1. IsTable(t, N) /\ RouterInv(n, N, t, B, evicted, delivered)
    BY Before
  <2>2. ASSUME NEW b \in DOMAIN t
        PROVE  /\ Later(t[b]) \in Records(N)
               /\ RecordInv(n, N, b, Later(t[b]), B, evicted, delivered)
    <3> DEFINE r == t[b]
    <3>1. r \in Records(N) /\ r.next # 0 /\ r.life # 0
      BY <1>1, <2>1 DEF IsTable
    <3>2. RecordInv(n, N, b, r, B, evicted, delivered)
      BY <2>1 DEF RouterInv
    <3> HIDE DEF r, B, N
    <3>3. /\ Later(r) \in Records(N) /\ Later(r).asked = r.asked /\ Later(r).awaiting = r.awaiting
          /\ Justified(r, b \in B) => Justified(Later(r), b \in B)
      BY <3>1, LaterFacts
    <3>4. RecordInv(n, N, b, Later(r), B, evicted, delivered)
      BY <3>2, <3>3 DEF RecordInv
    <3> QED
      BY <3>3, <3>4 DEF r
  <2>3. v \in [DOMAIN t -> Records(N)] /\ \A b \in DOMAIN t : v[b] = Later(t[b])
    BY <2>2
  <2> HIDE DEF v, t, N, B
  <2>4. IsTable(v, N)
    BY <2>1, <2>3, UpdatedFacts
  <2>5. RouterInv(n, N, v, B, evicted, delivered)
    BY <2>2, <2>3 DEF RouterInv
  <2> QED
    BY <2>4, <2>5 DEF v, N, B
<1> HIDE DEF u
<1>4. DOMAIN table' = Nodes /\ \A n \in Nodes : table'[n] = u(n)
  BY <1>1
<1>5. \A n \in Nodes : IsTable(table'[n], Others(n))
  BY <1>3, <1>4
<1>6. TypeInv'
  <2>1. \A n \in Nodes : IsTable(table[n], Others(n))'
    BY <1>5 DEF IsTable, Records
  <2>2. \A n \in Nodes : IsBuffer(bufs[n])'
    BY <1>1 DEF IsBuffer, BroadcastInv, TypeInv
  <2> QED
    BY <1>1, <1>4, <2>1, <2>2 DEF BroadcastInv, TypeInv
<1>7. \A n \in Nodes :
         RouterInv(n, Others(n), table'[n], Range(bufs'[n]), evicted', delivered')
  BY <1>1, <1>3, <1>4
<1> QED
  BY <1>1, <1>6, <1>7 DEF BroadcastInv

LEMMA BroadcastInductive == BroadcastInv /\ [Next]_vars => BroadcastInv'
<1> SUFFICES ASSUME BroadcastInv, [Next]_vars
             PROVE  BroadcastInv'
  OBVIOUS
<1>1. CASE \E b \in Broadcasts : Originate(b)
  BY <1>1, OriginateStep
<1>2. CASE \E m \in air : Receive(m)
  BY <1>2, ReceiveStep
<1>3. CASE \E n \in Nodes : Service(n)
  BY <1>3, ServiceStep
<1>4. CASE Tick
  BY <1>4, TickStep
<1>5. CASE UNCHANGED vars
  <2>2. /\ links' = links /\ table' = table /\ bufs' = bufs /\ air' = air /\ faults' = faults
        /\ delivered' = delivered /\ evicted' = evicted
    BY <1>5 DEF vars
  <2>3. TypeInv'
    BY <2>2 DEF BroadcastInv, TypeInv, IsTable, Records, IsBuffer
  <2> QED
    BY <2>2, <2>3 DEF BroadcastInv
<1> QED
  BY <1>1, <1>2, <1>3, <1>4, <1>5 DEF Next, Proceed

-----------------------------------------------------------------------------
(* The theorems                                                            *)

\* Every reachable state is well typed: the tables and buffers of every
\* router stay within their sizes, no record exceeds its retries or its
\* life, and only other routers are waited for, those it began with at most.
THEOREM TypeCorrect == Spec => []TypeInvariant
<1>1. BroadcastInv => TypeInvariant
  <2> SUFFICES ASSUME BroadcastInv PROVE TypeInvariant
    OBVIOUS
  <2>1. ASSUME NEW n \in Nodes
        PROVE  /\ Cardinality(DOMAIN table[n]) <= TableSize /\ Len(bufs[n]) <= Buffers
               /\ Range(bufs[n]) \subseteq Broadcasts
               /\ \A b \in DOMAIN table[n] :
                     /\ b \in Broadcasts
                     /\ table[n][b].asked \subseteq Nodes \ {n}
                     /\ table[n][b].awaiting \subseteq table[n][b].asked
                     /\ table[n][b].retries \in 0 .. MaxRetries
                     /\ table[n][b].life \in 0 .. DeliveryTime
                     /\ table[n][b].next \in {None} \cup Nat
    <3>1. IsTable(table[n], Others(n)) /\ IsBuffer(bufs[n])
      BY Before
    <3>2. Range(bufs[n]) \subseteq Broadcasts /\ Len(bufs[n]) <= Buffers
      BY <3>1 DEF IsBuffer, Range
    <3>3. \A b \in DOMAIN table[n] : b \in Broadcasts /\ table[n][b] \in Records(Others(n))
      BY <3>1 DEF IsTable
    <3>4. \A b \in DOMAIN table[n] : /\ table[n][b].asked \in SUBSET Others(n)
                                     /\ table[n][b].awaiting \subseteq table[n][b].asked
      BY DEF BroadcastInv, RouterInv, RecordInv
    <3> QED
      BY <3>1, <3>2, <3>3, <3>4 DEF IsTable, Records, Others
  <2> QED
    BY <2>1 DEF TypeInvariant, BroadcastInv, TypeInv
<1> QED
  BY <1>1, InitHolds, BroadcastInductive, PTL DEF Spec

\* A router that stops before its retries are used up, having transmitted
\* the broadcast and not dropped its frame, leaves nobody it was to wait for
\* without it, whatever its neighbour table said and whoever hears it, whatever
\* is lost and in whatever order relays are heard.
THEOREM NobodyLeftOut == Spec => []StopsWhenHeard
<1>1. BroadcastInv => StopsWhenHeard
  <2> SUFFICES ASSUME BroadcastInv, NEW n \in Nodes, NEW b \in DOMAIN table[n],
                      table[n][b].next = None, table[n][b].retries < MaxRetries,
                      ~table[n][b].parked, table[n][b].radius > 0, <<n, b>> \notin evicted
               PROVE  \A m \in table[n][b].asked : m = Source(b) \/ delivered[m][b] > 0
    BY DEF StopsWhenHeard
  <2>1. RecordInv(n, Others(n), b, table[n][b], Range(bufs[n]), evicted, delivered)
    BY DEF BroadcastInv, RouterInv
  <2>2. table[n][b].awaiting = {}
    BY <2>1 DEF RecordInv, Justified
  <2> QED
    BY <2>1, <2>2 DEF RecordInv, Knows
<1> QED
  BY <1>1, InitHolds, BroadcastInductive, PTL DEF Spec

-----------------------------------------------------------------------------
(* The age of a broadcast and what its routers may still transmit          *)

\* k waits for a passive acknowledgement.
Waits(k) == k * Timeout

\* Ticks until the last transmission that record r may cause, if it causes
\* one, and how many it may cause.
Remaining(r) == r.next + Waits(IF r.first THEN MaxRetries ELSE MaxRetries - r.retries - 1)
Left(r) == IF r.first THEN 1 + MaxRetries ELSE MaxRetries - r.retries

Bound(n, b) == 1 + MaxRetries + (IF n = Source(b) THEN 1 ELSE 0)

\* The record of the source tells the age, as long as it lives.
AgeOf(T, b) ==
    IF b \in DOMAIN T[Source(b)] THEN DeliveryTime - T[Source(b)][b].life ELSE DeliveryTime

\* Routers that have the broadcast b.
ReachedBy(d, b) == {n \in Nodes : Knows(d, n, b)}

\* A radius that a broadcast may have when it reached k routers.
NearEnough(radius, k) == radius \in 0 .. Radius /\ Radius - radius < k

\* Record r of a broadcast of age a that reached k routers.
TimedRecord(r, a, k) ==
    /\ NearEnough(r.radius, k)
    /\ r.life >= DeliveryTime - a
    /\ r.next # None => r.radius >= 1 /\ a + Remaining(r) <= Span(Radius - r.radius)

\* Router n and the broadcast b: its table t, its deliveries d and
\* transmissions s, and the conflicts C.
TimedRouter(n, b, t, a, k, d, s, C) ==
    /\ d <= 1 /\ (n = Source(b) => d = 0)
    /\ a < DeliveryTime /\ (n = Source(b) \/ d > 0) => b \in DOMAIN t
    /\ s \in 0 .. Bound(n, b)
    /\ ~(n = Source(b) \/ d > 0) => s = 0
    /\ <<n, b>> \notin C
    /\ b \in DOMAIN t => TimedRecord(t[b], a, k) /\ s + Left(t[b]) <= Bound(n, b)

\* A reception m of a broadcast of age a that reached k routers.
TimedMessage(m, a, k) ==
    m.radius >= 1 /\ NearEnough(m.radius, k) /\ a <= Span(Radius - m.radius)

Started(b, T, A, d, s, C) ==
    LET a == AgeOf(T, b)
        k == Cardinality(ReachedBy(d, b))
    IN  /\ a \in 0 .. DeliveryTime
        /\ \A n \in Nodes : TimedRouter(n, b, T[n], a, k, d[n][b], s[n][b], C)
        /\ \A m \in A : m.b = b => TimedMessage(m, a, k)

NotStarted(b, T, A, d, s, C) ==
    /\ \A m \in A : m.b # b
    /\ \A n \in Nodes : /\ b \notin DOMAIN T[n] /\ d[n][b] = 0 /\ s[n][b] = 0
                        /\ <<n, b>> \notin C

Timely(b, T, A, d, s, C) ==
    IF s[Source(b)][b] = 0 THEN NotStarted(b, T, A, d, s, C) ELSE Started(b, T, A, d, s, C)

TimelyInv ==
    /\ sent \in [Nodes -> [Broadcasts -> Nat]]
    /\ \A b \in Broadcasts \ stalled : Timely(b, table, air, delivered, sent, conflicts)

-----------------------------------------------------------------------------
(* Ages and times                                                          *)

\* Waits are counted one by one.
LEMMA WaitsFacts ==
    ASSUME NEW x \in Int
    PROVE  /\ Waits(x) \in Int /\ Waits(x - 1) + Timeout = Waits(x)
           /\ x >= 0 => Waits(x) >= 0
           /\ \A y \in Int : x <= y => Waits(x) <= Waits(y)
  BY Constants DEF Waits

\* Every hop adds a jitter and all the retries.
LEMMA SpanFacts ==
    ASSUME NEW d \in Nat
    PROVE  /\ Span(d) \in Nat
           /\ Span(d + 1) = Span(d) + MaxJitter + Waits(MaxRetries)
           /\ Span(0) = Waits(1 + MaxRetries)
           /\ \A e \in Nat : d <= e => Span(d) <= Span(e)
<1> DEFINE x == MaxJitter + MaxRetries * Timeout
           y == (1 + MaxRetries) * Timeout
<1>1. x \in Nat /\ y \in Nat
  BY Constants
<1>2. \A e : Span(e) = y + e * x
  BY DEF Span
<1>3. MaxJitter + Waits(MaxRetries) = x /\ Waits(1 + MaxRetries) = y
      /\ Waits(MaxRetries) \in Nat /\ MaxJitter \in Nat
  BY Constants DEF Waits
<1> HIDE DEF x, y
<1>4. d * x \in Nat /\ (d + 1) * x = d * x + x /\ 0 * x = 0
  BY <1>1
<1>5. \A e \in Nat : d <= e => d * x <= e * x
  BY <1>1
<1>6. \A e \in Nat : e * x \in Nat
  BY <1>1
<1> QED
  BY <1>1, <1>2, <1>3, <1>4, <1>5, <1>6

\* A broadcast reaches a number of routers.
LEMMA ReachedFacts ==
    ASSUME NEW d, NEW b
    PROVE  /\ IsFiniteSet(ReachedBy(d, b)) /\ Cardinality(ReachedBy(d, b)) \in Nat
           /\ Cardinality(ReachedBy(d, b)) <= Cardinality(Nodes)
           /\ Cardinality(Nodes) \in Nat
<1>1. ReachedBy(d, b) \in SUBSET Nodes
  BY DEF ReachedBy
<1> QED
  BY <1>1, BroadcastAssumption, FS_Subset, FS_CardinalityType

\* What is transmitted or received is younger than any record.
LEMMA InTime ==
    ASSUME RecordsOutlive, NEW d, NEW b, NEW radius,
           NearEnough(radius, Cardinality(ReachedBy(d, b))), radius >= 1
    PROVE  Span(Radius - radius) < DeliveryTime
<1>1. PICK hops \in 0 .. Radius - 1 : /\ hops + 1 = Radius \/ hops + 1 >= Cardinality(Nodes)
                                      /\ Span(hops) < DeliveryTime
  BY DEF RecordsOutlive
<1>2. Radius - radius \in Nat /\ Radius - radius <= hops /\ hops \in Nat
  <2> DEFINE k == Cardinality(ReachedBy(d, b))
  <2>1. radius \in 0 .. Radius /\ Radius - radius < k
    BY DEF NearEnough
  <2>2. k \in Nat /\ k <= Cardinality(Nodes) /\ Cardinality(Nodes) \in Nat
    BY ReachedFacts
  <2> HIDE DEF k
  <2> QED
    BY <1>1, <2>1, <2>2, Constants
<1>3. Span(Radius - radius) <= Span(hops) /\ Span(hops) \in Nat
  BY <1>2, SpanFacts
<1>4. Span(Radius - radius) \in Nat
  BY <1>2, SpanFacts
<1> QED
  BY <1>1, <1>3, <1>4, Constants

-----------------------------------------------------------------------------
(* A record that is serviced                                               *)

\* Record r becomes q while k transmissions are made.
Advances(r, q, k) ==
    /\ q.life = r.life /\ q.radius = r.radius
    /\ q.next # None => r.next # None /\ Remaining(q) <= Remaining(r)
    /\ Left(q) + k <= Left(r)

\* The frame of record r can be transmitted now.
MayTransmit(r) == r.next = 0 /\ Left(r) >= 1

\* What a record may still cause are numbers.
LEMMA RecordNumbers ==
    ASSUME NEW N, NEW r \in Records(N)
    PROVE  /\ Left(r) \in Nat /\ Remaining(r) \in Int /\ r.life \in 0 .. DeliveryTime
           /\ r.radius \in Int /\ r.next \in Int
           /\ MayTransmit(r) => Remaining(r) >= 0
<1> DEFINE x == IF r.first THEN MaxRetries ELSE MaxRetries - r.retries - 1
<1>1. /\ x \in Int /\ r.next \in Int /\ Left(r) \in Nat /\ x + 1 = Left(r)
      /\ r.life \in 0 .. DeliveryTime /\ r.radius \in Int
  BY Constants DEF Records, Left, None
<1>2. Remaining(r) = r.next + Waits(x)
  BY DEF Remaining
<1> HIDE DEF x
<1>3. Waits(x) \in Int /\ (x >= 0 => Waits(x) >= 0)
  BY <1>1, WaitsFacts
<1> QED
  BY <1>1, <1>2, <1>3 DEF MayTransmit

\* A due record advances, whatever becomes of its frame.
LEMMA ServicedAdvances ==
    ASSUME NEW N, NEW r \in Records(N), r.next = 0, NEW outcome \in {"Ok", "Error"},
           NEW buffered \in BOOLEAN
    PROVE  IF ~Finished(r) /\ buffered /\ outcome = "Ok"
           THEN MayTransmit(r) /\ Advances(r, Serviced(r, outcome, buffered), 1)
           ELSE Advances(r, Serviced(r, outcome, buffered), 0)
<1> DEFINE q == Serviced(r, outcome, buffered)
<1>0. /\ r.retries \in 0 .. MaxRetries /\ r.first \in BOOLEAN /\ r.life \in 0 .. DeliveryTime
      /\ r.radius \in Int /\ Left(r) \in Nat /\ Remaining(r) \in Int
      /\ r = [asked |-> r.asked, awaiting |-> r.awaiting, retries |-> r.retries, first |-> r.first,
              parked |-> r.parked, next |-> r.next, radius |-> r.radius, life |-> r.life]
  BY RecordNumbers DEF Records
<1>1. CASE Finished(r)
  <2>1. q = Idle(r)
    BY <1>1 DEF Serviced
  <2>2. q.life = r.life /\ q.radius = r.radius /\ q.next = None /\ Left(q) = Left(r)
    BY <1>0, <2>1 DEF Idle, Left
  <2> HIDE DEF q
  <2> QED
    BY <1>0, <1>1, <2>2 DEF Advances, q
<1>2. CASE ~Finished(r)
  <2> DEFINE s == Begun(r)
  <2>1. r.first \/ r.retries < MaxRetries
    BY <1>0, <1>2, Constants DEF Finished
  <2>2. /\ s.first = FALSE /\ s.retries = (IF r.first THEN r.retries ELSE r.retries + 1)
        /\ s.next = r.next /\ s.life = r.life /\ s.radius = r.radius
        /\ s = [asked |-> s.asked, awaiting |-> s.awaiting, retries |-> s.retries, first |-> s.first,
                parked |-> s.parked, next |-> s.next, radius |-> s.radius, life |-> s.life]
    <3> DEFINE k == IF r.first THEN r.retries ELSE r.retries + 1
    <3>1. s = [r EXCEPT !.first = FALSE, !.retries = k]
      BY DEF Begun
    <3> HIDE DEF k, s
    <3>2. s = [asked |-> r.asked, awaiting |-> r.awaiting, retries |-> k, first |-> FALSE,
               parked |-> r.parked, next |-> r.next, radius |-> r.radius, life |-> r.life]
      BY <1>0, <3>1
    <3> QED
      BY <3>2 DEF k
  <2> HIDE DEF s
  <2>3. s.retries \in 0 .. MaxRetries
    BY <1>0, <2>1, <2>2, Constants
  <2>4. Left(r) >= 1 /\ Left(s) + 1 <= Left(r) /\ Left(s) \in Nat
    BY <1>0, <2>1, <2>2, <2>3, Constants DEF Left
  <2> DEFINE x == IF r.first THEN MaxRetries ELSE MaxRetries - r.retries - 1
             y == MaxRetries - s.retries
  <2>5. x \in Int /\ y \in Int /\ y <= x /\ Remaining(r) = Waits(x)
    <3>1. x \in Int /\ y \in Int /\ y <= x
      BY <1>0, <2>1, <2>2, <2>3, Constants
    <3>2. Remaining(r) = 0 + Waits(x)
      BY DEF Remaining
    <3> HIDE DEF x, y
    <3> QED
      BY <3>1, <3>2, WaitsFacts
  <2> HIDE DEF x, y
  <2>6. Waits(y - 1) + Timeout = Waits(y) /\ Waits(y) <= Waits(x) /\ Waits(y - 1) \in Int
        /\ Waits(y) \in Int /\ Waits(x) \in Int
    <3>1. y - 1 \in Int
      BY <2>5
    <3> QED
      BY <2>5, <3>1, WaitsFacts
  <2>7. CASE ~buffered
    <3>1. q = Idle(s)
      BY <1>2, <2>7 DEF Serviced, s
    <3>2. q.life = r.life /\ q.radius = r.radius /\ q.next = None /\ Left(q) = Left(s)
      BY <2>2, <3>1 DEF Idle, Left
    <3> HIDE DEF q
    <3> QED
      BY <1>0, <2>4, <2>7, <3>2 DEF Advances, q
  <2>8. CASE buffered /\ outcome = "Ok"
    <3>1. q = [s EXCEPT !.parked = FALSE, !.next = Rearmed(s)]
      BY <1>2, <2>8 DEF Serviced, Transmitted, s
    <3>2. /\ q.life = r.life /\ q.radius = r.radius /\ q.next = Rearmed(s) /\ Left(q) = Left(s)
          /\ q.first = FALSE /\ q.retries = s.retries
      BY <2>2, <3>1 DEF Left
    <3> HIDE DEF q
    <3>3. q.next # None => q.next = Timeout
      BY <3>2 DEF Rearmed
    <3>4. Remaining(q) = q.next + Waits(y - 1)
      BY <3>2 DEF Remaining, y
    <3>5. q.next # None => Remaining(q) <= Remaining(r)
      BY <2>5, <2>6, <3>3, <3>4, Constants
    <3>6. Advances(r, q, 1)
      BY <1>0, <2>4, <3>2, <3>5, Constants DEF Advances, None
    <3> QED
      BY <1>2, <2>4, <2>8, <3>6 DEF MayTransmit, q
  <2>9. CASE buffered /\ outcome = "Error"
    <3>1. q = s
      BY <1>2, <2>9 DEF Serviced, s
    <3>2. Remaining(s) = 0 + Waits(y - 1)
      BY <2>2 DEF Remaining, y
    <3>3. Remaining(s) <= Remaining(r)
      BY <2>5, <2>6, <3>2, Constants
    <3> HIDE DEF q
    <3>4. Advances(r, q, 0)
      BY <1>0, <2>2, <2>4, <3>1, <3>3 DEF Advances
    <3> QED
      BY <2>9, <3>4 DEF q
  <2> QED
    BY <2>7, <2>8, <2>9
<1> QED
  BY <1>1, <1>2

-----------------------------------------------------------------------------
(* A broadcast whose records advance                                       *)

\* The routers go on with broadcast b: records advance or expire, and what is
\* new on the air was due.
Moves(b, T, U, A, B, s, u) ==
    /\ \A n \in Nodes :
          /\ b \in DOMAIN U[n] => b \in DOMAIN T[n]
          /\ b \in DOMAIN T[n] /\ b \notin DOMAIN U[n] => T[n][b].life = 0
          /\ \E k \in {0, 1} :
                /\ u[n][b] = s[n][b] + k
                /\ k = 1 => b \in DOMAIN T[n] /\ MayTransmit(T[n][b])
                /\ b \in DOMAIN U[n] => Advances(T[n][b], U[n][b], k)
    /\ \A m \in B : m.b = b =>
          \/ m \in A
          \/ \E n \in Nodes : /\ b \in DOMAIN T[n] /\ MayTransmit(T[n][b])
                              /\ m.radius = T[n][b].radius

\* What the step does to the histories of b.
SameHistory(b, d, e, C, D) ==
    \A n \in Nodes : e[n][b] = d[n][b] /\ (<<n, b>> \in D => <<n, b>> \in C)

\* A record belongs to a broadcast that its router has.
LEMMA RecordTypes ==
    ASSUME BroadcastInv, NEW n \in Nodes, NEW b \in DOMAIN table[n]
    PROVE  /\ table[n][b] \in Records(Others(n))
           /\ Knows(delivered, n, b)
           /\ b \in Broadcasts
  BY DEF BroadcastInv, TypeInv, IsTable, RouterInv, RecordInv

\* The same after a step.
LEMMA RecordTypesNext ==
    ASSUME BroadcastInv', NEW n \in Nodes, NEW b \in DOMAIN table'[n]
    PROVE  \E N : table'[n][b] \in Records(N)
<1>1. IsTable(table[n], Others(n))'
  BY DEF BroadcastInv, TypeInv
<1>2. table'[n][b] \in Records(Others(n))
  BY <1>1 DEF IsTable
<1> QED
  BY <1>2

\* A broadcast is not older than its record can tell.
LEMMA AgeType ==
    ASSUME BroadcastInv, NEW b \in Broadcasts
    PROVE  AgeOf(table, b) \in 0 .. DeliveryTime
<1>1. Source(b) \in Nodes
  BY BroadcastAssumption
<1>2. b \in DOMAIN table[Source(b)] => table[Source(b)][b].life \in 0 .. DeliveryTime
  BY <1>1, RecordTypes DEF Records
<1> QED
  BY <1>2, Constants DEF AgeOf

\* Records that advance keep to their times and to their transmissions.
LEMMA MovesTimely ==
    ASSUME BroadcastInv, BroadcastInv', NEW b \in Broadcasts,
           sent \in [Nodes -> [Broadcasts -> Nat]],
           Timely(b, table, air, delivered, sent, conflicts),
           Moves(b, table, table', air, air', sent, sent'),
           SameHistory(b, delivered, delivered', conflicts, conflicts')
    PROVE  Timely(b, table', air', delivered', sent', conflicts')
<1> DEFINE src == Source(b)
           a == AgeOf(table, b)
           k == Cardinality(ReachedBy(delivered, b))
<1>0. src \in Nodes /\ \A n \in Nodes : sent[n][b] \in Nat
  BY BroadcastAssumption
<1>1. ASSUME NEW n \in Nodes
      PROVE  /\ b \in DOMAIN table'[n] => b \in DOMAIN table[n]
             /\ b \in DOMAIN table[n] /\ b \notin DOMAIN table'[n] => table[n][b].life = 0
             /\ \E i \in {0, 1} :
                   /\ sent'[n][b] = sent[n][b] + i
                   /\ i = 1 => b \in DOMAIN table[n] /\ MayTransmit(table[n][b])
                   /\ b \in DOMAIN table'[n] => Advances(table[n][b], table'[n][b], i)
             /\ delivered'[n][b] = delivered[n][b]
             /\ <<n, b>> \in conflicts' => <<n, b>> \in conflicts
  BY DEF Moves, SameHistory
<1>2. \A m \in air' : m.b = b =>
          \/ m \in air
          \/ \E n \in Nodes : /\ b \in DOMAIN table[n] /\ MayTransmit(table[n][b])
                              /\ m.radius = table[n][b].radius
  BY DEF Moves
<1>3. CASE sent[src][b] = 0
  <2>1. NotStarted(b, table, air, delivered, sent, conflicts)
    BY <1>3 DEF Timely
  <2>2. \A n \in Nodes : b \notin DOMAIN table[n] /\ delivered[n][b] = 0 /\ sent[n][b] = 0
                         /\ <<n, b>> \notin conflicts
    BY <2>1 DEF NotStarted
  <2>3. \A n \in Nodes : b \notin DOMAIN table'[n] /\ delivered'[n][b] = 0 /\ sent'[n][b] = 0
                         /\ <<n, b>> \notin conflicts'
    BY <1>1, <2>2
  <2>4. \A m \in air' : m.b # b
    BY <1>2, <2>1, <2>2 DEF NotStarted
  <2> QED
    BY <1>0, <2>3, <2>4 DEF Timely, NotStarted
<1>4. CASE sent[src][b] # 0
  <2>1. /\ a \in 0 .. DeliveryTime
        /\ \A n \in Nodes :
              TimedRouter(n, b, table[n], a, k, delivered[n][b], sent[n][b], conflicts)
        /\ \A m \in air : m.b = b => TimedMessage(m, a, k)
    BY <1>4 DEF Timely, Started
  <2>2. AgeOf(table', b) = a
    <3>1. CASE b \in DOMAIN table'[src]
      BY <1>0, <1>1, <3>1 DEF AgeOf, Advances
    <3>2. CASE b \notin DOMAIN table'[src] /\ b \in DOMAIN table[src]
      <4>1. table[src][b].life = 0
        BY <1>0, <1>1, <3>2
      <4> QED
        BY <3>2, <4>1, Constants DEF AgeOf
    <3>3. CASE b \notin DOMAIN table'[src] /\ b \notin DOMAIN table[src]
      BY <3>3 DEF AgeOf
    <3> QED
      BY <3>1, <3>2, <3>3
  <2>3. ReachedBy(delivered', b) = ReachedBy(delivered, b)
    BY <1>1 DEF ReachedBy, Knows
  <2>4. k \in Nat
    BY ReachedFacts
  <2> HIDE DEF a, k
  <2>5. ASSUME NEW n \in Nodes
        PROVE  TimedRouter(n, b, table'[n], a, k, delivered'[n][b], sent'[n][b], conflicts')
    <3> DEFINE r == table[n][b]
               q == table'[n][b]
               B == Bound(n, b)
    <3>1. PICK i \in {0, 1} :
             /\ sent'[n][b] = sent[n][b] + i
             /\ i = 1 => b \in DOMAIN table[n] /\ MayTransmit(r)
             /\ b \in DOMAIN table'[n] => Advances(r, q, i)
      BY <1>1
    <3>2. /\ delivered[n][b] <= 1 /\ (n = src => delivered[n][b] = 0)
          /\ a < DeliveryTime /\ (n = src \/ delivered[n][b] > 0) => b \in DOMAIN table[n]
          /\ sent[n][b] \in 0 .. B
          /\ ~(n = src \/ delivered[n][b] > 0) => sent[n][b] = 0
          /\ <<n, b>> \notin conflicts
          /\ b \in DOMAIN table[n] => TimedRecord(r, a, k) /\ sent[n][b] + Left(r) <= B
      BY <2>1 DEF TimedRouter
    <3>3. b \in DOMAIN table[n] =>
             /\ Left(r) \in Nat /\ Remaining(r) \in Int /\ r.life \in 0 .. DeliveryTime
             /\ r.radius \in Int /\ (n = src \/ delivered[n][b] > 0)
      BY RecordTypes, RecordNumbers DEF Knows
    <3>4. b \in DOMAIN table'[n] => Left(q) \in Nat /\ Remaining(q) \in Int
      BY RecordTypesNext, RecordNumbers
    <3>5. B \in Nat
      BY Constants DEF Bound
    <3>6. b \in DOMAIN table'[n] => b \in DOMAIN table[n] /\ Advances(r, q, i)
      BY <1>1, <3>1
    <3>7. b \in DOMAIN table[n] /\ b \notin DOMAIN table'[n] => r.life = 0
      BY <1>1
    <3>8. delivered'[n][b] = delivered[n][b] /\ <<n, b>> \notin conflicts'
      BY <1>1, <3>2
    <3> HIDE DEF r, q, B
    <3>9. a < DeliveryTime /\ (n = src \/ delivered[n][b] > 0) => b \in DOMAIN table'[n]
      <4> SUFFICES ASSUME a < DeliveryTime, b \in DOMAIN table[n], b \notin DOMAIN table'[n]
                   PROVE  FALSE
        BY <3>2
      <4>1. r.life >= DeliveryTime - a /\ r.life = 0
        BY <3>2, <3>7 DEF TimedRecord
      <4> QED
        BY <2>1, <4>1, Constants
    <3>10. sent'[n][b] \in 0 .. B
      <4>1. CASE i = 0
        BY <3>1, <3>2, <3>5, <4>1
      <4>2. CASE i = 1
        <5>1. Left(r) >= 1 /\ sent[n][b] + Left(r) <= B /\ Left(r) \in Nat
          BY <3>1, <3>2, <3>3, <4>2 DEF MayTransmit
        <5> QED
          BY <3>1, <3>2, <3>5, <4>2, <5>1
      <4> QED
        BY <4>1, <4>2
    <3>11. ~(n = src \/ delivered[n][b] > 0) => sent'[n][b] = 0
      BY <3>1, <3>2, <3>3
    <3>12. ASSUME b \in DOMAIN table'[n]
           PROVE  TimedRecord(q, a, k) /\ sent'[n][b] + Left(q) <= B
      <4>1. /\ Left(r) \in Nat /\ Left(q) \in Nat /\ Remaining(r) \in Int /\ Remaining(q) \in Int
            /\ r.radius \in Int /\ Advances(r, q, i) /\ TimedRecord(r, a, k)
            /\ sent[n][b] + Left(r) <= B
        BY <3>2, <3>3, <3>4, <3>6, <3>12
      <4>2. sent'[n][b] + Left(q) <= B
        BY <3>1, <3>2, <3>5, <4>1 DEF Advances
      <4>3. q.radius = r.radius /\ q.life = r.life
        BY <4>1 DEF Advances
      <4>4. q.next # None => r.radius >= 1 /\ a + Remaining(q) <= Span(Radius - r.radius)
        <5> SUFFICES ASSUME q.next # None
                     PROVE  r.radius >= 1 /\ a + Remaining(q) <= Span(Radius - r.radius)
          OBVIOUS
        <5>1. r.radius >= 1 /\ a + Remaining(r) <= Span(Radius - r.radius)
              /\ Remaining(q) <= Remaining(r) /\ Radius - r.radius \in Nat
          BY <4>1, Constants DEF Advances, TimedRecord, NearEnough
        <5>2. Span(Radius - r.radius) \in Nat
          BY <5>1, SpanFacts
        <5> QED
          BY <2>1, <4>1, <5>1, <5>2
      <4> QED
        BY <4>1, <4>2, <4>3, <4>4 DEF TimedRecord
    <3> QED
      BY <3>2, <3>8, <3>9, <3>10, <3>11, <3>12 DEF TimedRouter, q, B
  <2>6. ASSUME NEW m \in air', m.b = b
        PROVE  TimedMessage(m, a, k)
    <3>1. CASE m \in air
      BY <2>1, <2>6, <3>1
    <3>2. CASE \E n \in Nodes : /\ b \in DOMAIN table[n] /\ MayTransmit(table[n][b])
                                /\ m.radius = table[n][b].radius
      <4>1. PICK n \in Nodes : /\ b \in DOMAIN table[n] /\ MayTransmit(table[n][b])
                               /\ m.radius = table[n][b].radius
        BY <3>2
      <4> DEFINE r == table[n][b]
      <4>2. TimedRecord(r, a, k)
        BY <2>1, <4>1 DEF TimedRouter
      <4>3. Remaining(r) \in Int /\ Remaining(r) >= 0 /\ r.next = 0
        BY <4>1, RecordTypes, RecordNumbers DEF MayTransmit
      <4> HIDE DEF r
      <4>4. /\ r.radius >= 1 /\ NearEnough(r.radius, k) /\ a + Remaining(r) <= Span(Radius - r.radius)
            /\ Radius - r.radius \in Nat
        BY <4>2, <4>3, Constants DEF TimedRecord, NearEnough, None
      <4>5. Span(Radius - r.radius) \in Nat
        BY <4>4, SpanFacts
      <4>6. a <= Span(Radius - r.radius)
        BY <2>1, <4>3, <4>4, <4>5
      <4> QED
        BY <4>1, <4>4, <4>6 DEF TimedMessage, r
    <3> QED
      BY <1>2, <2>6, <3>1, <3>2
  <2>7. sent'[src][b] # 0
    <3>1. \E i \in {0, 1} : sent'[src][b] = sent[src][b] + i
      BY <1>0, <1>1
    <3>2. sent[src][b] \in Nat
      BY <1>0
    <3> QED
      BY <1>4, <3>1, <3>2
  <2>8. Started(b, table', air', delivered', sent', conflicts')
    BY <2>1, <2>2, <2>3, <2>5, <2>6 DEF Started, k
  <2> QED
    BY <2>7, <2>8 DEF Timely
<1> QED
  BY <1>3, <1>4

-----------------------------------------------------------------------------
(* A new reception, and a tick                                             *)

\* Reception m reaches a router for the first time.
LEMMA FreshTimely ==
    ASSUME BroadcastInv, RecordsOutlive, NEW m \in air, NEW n \in Nodes, n # Source(m.b),
           m.b \in Broadcasts, m.b \notin DOMAIN table[n],
           sent \in [Nodes -> [Broadcasts -> Nat]],
           Timely(m.b, table, air, delivered, sent, conflicts),
           NEW N, NEW next \in IF m.radius > 1 THEN 0 .. MaxJitter ELSE {None},
           \A i \in Nodes : i # n => table'[i] = table[i],
           m.b \in DOMAIN table'[n],
           table'[n][m.b] = Record(N, m.radius > 1, m.radius > 1, next, m.radius - 1),
           air' \subseteq air, sent' = sent, conflicts' = conflicts,
           delivered'[n][m.b] = IF delivered[n][m.b] < 2 THEN delivered[n][m.b] + 1 ELSE 2,
           \A i \in Nodes : i # n => delivered'[i][m.b] = delivered[i][m.b]
    PROVE  Timely(m.b, table', air', delivered', sent', conflicts')
<1> DEFINE b == m.b
           src == Source(b)
           a == AgeOf(table, b)
           R == ReachedBy(delivered, b)
           k == Cardinality(R)
           r == table'[n][b]
<1>0. src \in Nodes /\ n # src /\ \A i \in Nodes : sent[i][b] \in Nat
  BY BroadcastAssumption
<1>1. sent[src][b] # 0
  BY DEF Timely, NotStarted
<1>2. /\ a \in 0 .. DeliveryTime
      /\ \A i \in Nodes :
            TimedRouter(i, b, table[i], a, k, delivered[i][b], sent[i][b], conflicts)
      /\ \A x \in air : x.b = b => TimedMessage(x, a, k)
  BY <1>1 DEF Timely, Started
<1>3. AgeOf(table', b) = a
  BY <1>0 DEF AgeOf
<1>4. /\ m.radius >= 1 /\ m.radius \in 0 .. Radius /\ Radius - m.radius < k
      /\ a <= Span(Radius - m.radius) /\ NearEnough(m.radius, k)
  BY <1>2 DEF TimedMessage, NearEnough
<1>5. a < DeliveryTime
  <2>1. Span(Radius - m.radius) < DeliveryTime
    BY <1>4, InTime
  <2>2. Span(Radius - m.radius) \in Nat
    BY <1>4, SpanFacts, Constants
  <2> QED
    BY <1>2, <1>4, <2>1, <2>2, Constants
<1>6. delivered[n][b] \in Nat /\ ~(delivered[n][b] > 0) /\ sent[n][b] = 0
      /\ <<n, b>> \notin conflicts
  <2>1. delivered[n][b] \in Nat
    BY DEF BroadcastInv, TypeInv
  <2>2. ~(delivered[n][b] > 0) /\ <<n, b>> \notin conflicts
    BY <1>2, <1>5 DEF TimedRouter
  <2> QED
    BY <1>0, <1>2, <2>1, <2>2 DEF TimedRouter
<1>7. delivered'[n][b] = 1
  BY <1>6
<1>8. Cardinality(ReachedBy(delivered', b)) = k + 1 /\ k \in Nat
  <2>1. n \notin R /\ ReachedBy(delivered', b) = R \cup {n}
    BY <1>0, <1>6, <1>7 DEF ReachedBy, Knows
  <2>2. IsFiniteSet(R) /\ k \in Nat
    BY ReachedFacts
  <2> HIDE DEF R
  <2> QED
    BY <2>1, <2>2, FS_AddElement
<1>9. r = [asked |-> N, awaiting |-> N, retries |-> 0, first |-> (m.radius > 1), parked |-> (m.radius > 1),
           next |-> next, radius |-> m.radius - 1, life |-> DeliveryTime]
  BY DEF Record
<1> HIDE DEF a, k, r, R
<1>10. \A radius : NearEnough(radius, k) => NearEnough(radius, k + 1)
  BY <1>8, Constants DEF NearEnough
<1>11. NearEnough(m.radius - 1, k + 1)
  BY <1>4, <1>8, Constants DEF NearEnough
<1>12. TimedRecord(r, a, k + 1)
  <2>1. r.life >= DeliveryTime - a /\ r.radius = m.radius - 1
    BY <1>2, <1>9, Constants
  <2>2. ASSUME r.next # None
        PROVE  m.radius - 1 >= 1 /\ a + Remaining(r) <= Span(Radius - (m.radius - 1))
    <3>1. m.radius > 1 /\ next \in 0 .. MaxJitter
      BY <1>9, <2>2
    <3>2. Remaining(r) = next + Waits(MaxRetries)
      BY <1>9, <3>1 DEF Remaining
    <3> DEFINE e == Radius - m.radius
    <3>3. e \in Nat /\ Radius - (m.radius - 1) = e + 1
      BY <1>4, Constants
    <3>4. a <= Span(e)
      BY <1>4
    <3> HIDE DEF e
    <3>5. Span(e) \in Nat /\ Span(e + 1) = Span(e) + MaxJitter + Waits(MaxRetries)
          /\ Waits(MaxRetries) \in Int
      BY <3>3, SpanFacts, WaitsFacts, Constants
    <3>6. a + Remaining(r) <= Span(e + 1)
      BY <1>2, <3>1, <3>2, <3>4, <3>5, Constants
    <3> QED
      BY <1>4, <3>1, <3>3, <3>6
  <2> QED
    BY <1>11, <2>1, <2>2 DEF TimedRecord
<1>13. Left(r) <= Bound(n, b) /\ Left(r) \in Nat
  BY <1>0, <1>9, Constants DEF Left, Bound
<1>14. ASSUME NEW i \in Nodes
       PROVE  TimedRouter(i, b, table'[i], a, k + 1, delivered'[i][b], sent'[i][b], conflicts')
  <2>1. CASE i = n
    <3>1. Bound(n, b) \in Nat
      BY Constants DEF Bound
    <3> QED
      BY <1>0, <1>6, <1>7, <1>12, <1>13, <2>1, <3>1 DEF TimedRouter, r
  <2>2. CASE i # n
    <3>1. TimedRouter(i, b, table[i], a, k, delivered[i][b], sent[i][b], conflicts)
      BY <1>2
    <3> QED
      BY <1>10, <2>2, <3>1 DEF TimedRouter, TimedRecord
  <2> QED
    BY <2>1, <2>2
<1>15. \A x \in air' : x.b = b => TimedMessage(x, a, k + 1)
  BY <1>2, <1>10 DEF TimedMessage
<1>16. Started(b, table', air', delivered', sent', conflicts')
  BY <1>2, <1>3, <1>8, <1>14, <1>15 DEF Started, a
<1> QED
  BY <1>1, <1>16 DEF Timely

\* A tick makes broadcast b older, and its timers shorter by as much.
LEMMA TickTimely ==
    ASSUME BroadcastInv, NEW b \in Broadcasts, Tick, sent \in [Nodes -> [Broadcasts -> Nat]],
           Timely(b, table, air, delivered, sent, conflicts)
    PROVE  Timely(b, table', air', delivered', sent', conflicts')
<1> DEFINE src == Source(b)
           a == AgeOf(table, b)
           k == Cardinality(ReachedBy(delivered, b))
<1>0. src \in Nodes
  BY BroadcastAssumption
<1>1. /\ air' = air /\ air = {} /\ sent' = sent /\ delivered' = delivered
      /\ conflicts' = conflicts
  BY DEF Tick
<1>2. ASSUME NEW n \in Nodes
      PROVE  /\ DOMAIN table'[n] = DOMAIN table[n]
             /\ b \in DOMAIN table[n] => /\ table'[n][b] = Later(table[n][b])
                                         /\ table[n][b].next # 0 /\ table[n][b].life # 0
  BY DEF Tick, Later, Due, Expired
<1>3. CASE sent[src][b] = 0
  BY <1>0, <1>1, <1>2, <1>3 DEF Timely, NotStarted
<1>4. CASE sent[src][b] # 0
  <2>1. /\ a \in 0 .. DeliveryTime
        /\ \A n \in Nodes :
              TimedRouter(n, b, table[n], a, k, delivered[n][b], sent[n][b], conflicts)
    BY <1>4 DEF Timely, Started
  <2> DEFINE a1 == AgeOf(table', b)
  <2>2. /\ a1 \in 0 .. DeliveryTime /\ a <= a1 /\ a1 <= a + 1
        /\ a1 = a => a = DeliveryTime
    <3>1. CASE b \in DOMAIN table[src]
      <4> DEFINE r == table[src][b]
      <4>1. r.life \in 0 .. DeliveryTime /\ r.life # 0 /\ r \in Records(Others(src))
        BY <1>0, <1>2, <3>1, RecordTypes DEF Records
      <4>2. Later(r).life = r.life - 1
        BY <4>1 DEF Later, Records
      <4>3. a = DeliveryTime - r.life
        BY <3>1 DEF AgeOf
      <4>4. a1 = DeliveryTime - (r.life - 1)
        BY <1>0, <1>2, <3>1, <4>2 DEF AgeOf
      <4> HIDE DEF a, a1, r
      <4> QED
        BY <4>1, <4>3, <4>4, Constants
    <3>2. CASE b \notin DOMAIN table[src]
      <4>1. a = DeliveryTime /\ a1 = DeliveryTime
        BY <1>0, <1>2, <3>2 DEF AgeOf
      <4> QED
        BY <4>1, Constants
    <3> QED
      BY <3>1, <3>2
  <2> HIDE DEF a, a1, k
  <2>3. ASSUME NEW n \in Nodes
        PROVE  TimedRouter(n, b, table'[n], a1, k, delivered'[n][b], sent'[n][b], conflicts')
    <3> DEFINE r == table[n][b]
               q == table'[n][b]
    <3>1. TimedRouter(n, b, table[n], a, k, delivered[n][b], sent[n][b], conflicts)
      BY <2>1
    <3>2. a1 < DeliveryTime => a < DeliveryTime
      BY <2>1, <2>2, Constants
    <3>3. ASSUME b \in DOMAIN table[n]
          PROVE  TimedRecord(q, a1, k) /\ Left(q) = Left(r)
      <4>1. /\ q = Later(r) /\ r.next # 0 /\ r.life # 0
            /\ r \in Records(Others(n)) /\ TimedRecord(r, a, k)
            /\ Remaining(r) \in Int /\ r.life \in 0 .. DeliveryTime
        BY <1>2, <3>1, <3>3, RecordTypes, RecordNumbers DEF TimedRouter
      <4> HIDE DEF q, r
      <4>2. /\ q.next = Down(r.next) /\ q.life = r.life - 1 /\ q.first = r.first
            /\ q.retries = r.retries /\ q.radius = r.radius
        BY <4>1 DEF Later, Records
      <4>3. /\ q.next = None <=> r.next = None
            /\ r.next # None => q.next = r.next - 1 /\ r.next \in Nat
        BY <4>1, <4>2 DEF Down, Records, None
      <4> DEFINE x == IF r.first THEN MaxRetries ELSE MaxRetries - r.retries - 1
      <4>4. x \in Int
        BY <4>1, Constants DEF Records
      <4>5. Remaining(r) = r.next + Waits(x) /\ Remaining(q) = q.next + Waits(x)
        BY <4>2 DEF Remaining
      <4> HIDE DEF x
      <4>6. ASSUME q.next # None
            PROVE  r.radius >= 1 /\ a1 + Remaining(q) <= Span(Radius - r.radius)
        <5>1. r.radius >= 1 /\ a + Remaining(r) <= Span(Radius - r.radius)
              /\ Radius - r.radius \in Nat
          BY <4>1, <4>3, <4>6, Constants DEF TimedRecord, NearEnough
        <5>2. Span(Radius - r.radius) \in Nat /\ Waits(x) \in Int
          BY <4>4, <5>1, SpanFacts, WaitsFacts
        <5> QED
          BY <2>1, <2>2, <4>3, <4>5, <4>6, <5>1, <5>2
      <4>7. q.life >= DeliveryTime - a1
        <5>1. r.life >= DeliveryTime - a
          BY <4>1 DEF TimedRecord
        <5>2. CASE a1 = a
          BY <2>1, <2>2, <4>1, <4>2, <5>2, Constants
        <5>3. CASE a1 = a + 1
          BY <2>1, <2>2, <4>1, <4>2, <5>1, <5>3, Constants
        <5> QED
          BY <2>1, <2>2, <5>2, <5>3
      <4> QED
        BY <4>1, <4>2, <4>6, <4>7 DEF TimedRecord, Left
    <3> HIDE DEF q, r
    <3> QED
      BY <1>1, <1>2, <3>1, <3>2, <3>3 DEF TimedRouter, q, r
  <2>4. Started(b, table', air', delivered', sent', conflicts')
    BY <1>1, <2>2, <2>3 DEF Started, a1, k
  <2> QED
    BY <1>1, <1>4, <2>4 DEF Timely
<1> QED
  BY <1>3, <1>4

-----------------------------------------------------------------------------
(* Every step                                                              *)

\* Transmissions are counted, and carry the radius of their record.
LEMMA SendingCounts ==
    ASSUME sent \in [Nodes -> [Broadcasts -> Nat]], NEW n \in Nodes, NEW bs, NEW t,
           NEW lost, NEW pending, Transmissions(n, bs, t, lost, pending)
    PROVE  /\ sent' \in [Nodes -> [Broadcasts -> Nat]]
           /\ \A i \in Nodes, b \in Broadcasts :
                 sent'[i][b] = sent[i][b] + IF i = n /\ b \in bs THEN 1 ELSE 0
           /\ \A m \in air' : m \in air \/ (m.b \in bs /\ m.radius = t[m.b].radius)
<1> DEFINE row == [b \in Broadcasts |-> sent[n][b] + IF b \in bs THEN 1 ELSE 0]
           heard == {[to |-> m, from |-> n, b |-> b, radius |-> t[b].radius] :
                        m \in Neighbours(n), b \in bs}
<1>1. sent' = [sent EXCEPT ![n] = row] /\ air' = air \cup (heard \ lost)
  BY DEF Transmissions
<1>2. row \in [Broadcasts -> Nat]
      /\ \A b \in Broadcasts : row[b] = sent[n][b] + IF b \in bs THEN 1 ELSE 0
  BY DEF row
<1>3. \A m \in heard : m.b \in bs /\ m.radius = t[m.b].radius
  OBVIOUS
<1> HIDE DEF row, heard
<1>4. sent' \in [Nodes -> [Broadcasts -> Nat]] /\ sent'[n] = row
      /\ \A i \in Nodes : i # n => sent'[i] = sent[i]
  BY <1>1, <1>2
<1>5. \A i \in Nodes, b \in Broadcasts :
         sent'[i][b] = sent[i][b] + IF i = n /\ b \in bs THEN 1 ELSE 0
  <2>1. \A i \in Nodes, b \in Broadcasts : sent[i][b] \in Nat
    OBVIOUS
  <2> QED
    BY <1>2, <1>4, <2>1
<1> QED
  BY <1>1, <1>3, <1>4, <1>5

\* Records r and q tell the same about the future.
Alike(r, q) ==
    /\ q.life = r.life /\ q.radius = r.radius /\ q.next = r.next
    /\ q.first = r.first /\ q.retries = r.retries

\* Nothing happens to broadcast b but that records of it expire.
Rests(b, T, U) ==
    \A n \in Nodes :
        /\ b \in DOMAIN U[n] => b \in DOMAIN T[n] /\ Alike(T[n][b], U[n][b])
        /\ b \in DOMAIN T[n] /\ b \notin DOMAIN U[n] => T[n][b].life = 0

\* Records that do not change advance.
LEMMA RestsMoves ==
    ASSUME BroadcastInv, NEW b \in Broadcasts, sent \in [Nodes -> [Broadcasts -> Nat]],
           Rests(b, table, table'), \A n \in Nodes : sent'[n][b] = sent[n][b],
           \A m \in air' : m.b = b => m \in air
    PROVE  Moves(b, table, table', air, air', sent, sent')
<1>1. ASSUME NEW n \in Nodes, b \in DOMAIN table'[n]
      PROVE  Advances(table[n][b], table'[n][b], 0)
  <2> DEFINE r == table[n][b]
             q == table'[n][b]
  <2>1. b \in DOMAIN table[n] /\ Alike(r, q)
    BY <1>1 DEF Rests
  <2>2. Left(r) \in Nat /\ Remaining(r) \in Int
    BY <2>1, RecordTypes, RecordNumbers
  <2> HIDE DEF r, q
  <2>3. Left(q) = Left(r) /\ Remaining(q) = Remaining(r)
    BY <2>1 DEF Alike, Left, Remaining
  <2> QED
    BY <2>1, <2>2, <2>3 DEF Alike, Advances, r, q
<1>2. ASSUME NEW n \in Nodes
      PROVE  \E k \in {0, 1} :
                /\ sent'[n][b] = sent[n][b] + k
                /\ k = 1 => b \in DOMAIN table[n] /\ MayTransmit(table[n][b])
                /\ b \in DOMAIN table'[n] => Advances(table[n][b], table'[n][b], k)
  <2>1. sent'[n][b] = sent[n][b] + 0 /\ 0 # 1
    OBVIOUS
  <2> QED
    BY <1>1, <2>1
<1> QED
  BY <1>2 DEF Moves, Rests

\* insert of another broadcast leaves b alone.
LEMMA ReplacedRests ==
    ASSUME NEW n \in Nodes, NEW c, NEW b, b # c, NEW gone \in Reused(table[n]), NEW r,
           Only(table, table', n, Replaced(table[n], gone, c, r))
    PROVE  Rests(b, table, table')
<1>1. /\ b \in DOMAIN table'[n] <=> b \in DOMAIN table[n] \ gone
      /\ b \in DOMAIN table'[n] => table'[n][b] = table[n][b]
  BY DEF Only, Replaced
<1>2. b \in DOMAIN table[n] /\ b \in gone => table[n][b].life = 0
  BY DEF Reused, Expired
<1>3. \A i \in Nodes : i # n => table'[i] = table[i]
  BY DEF Only
<1> QED
  BY <1>1, <1>2, <1>3 DEF Rests, Alike

\* A broadcast starts with age 0, and leaves the others alone.
LEMMA OriginateTimely ==
    ASSUME BroadcastInv, BroadcastInv', TimelyInv, NEW c \in Broadcasts, Originate(c)
    PROVE  TimelyInv'
<1> DEFINE n == Source(c)
           fresh(asked) == Record(asked, TRUE, FALSE, None, Radius)
           sending(asked) == [fresh(asked) EXCEPT !.next = Rearmed(fresh(asked))]
           parking(asked) == [fresh(asked) EXCEPT !.parked = TRUE, !.next = RetryDelay]
<1>0. n \in Nodes /\ sent \in [Nodes -> [Broadcasts -> Nat]]
  BY BroadcastAssumption DEF TimelyInv
<1>1. /\ delivered' = delivered /\ conflicts' = conflicts /\ sent[n][c] = 0
      /\ c \notin DOMAIN table[n] /\ c \notin stalled
  BY DEF Originate, Has
<1>2. PICK gone \in Reused(table[n]), asked \in PassiveAckSets(n, n) :
            \/ /\ Only(table, table', n, Replaced(table[n], gone, c, sending(asked)))
               /\ \E lost : Transmissions(n, {c}, Replaced(table[n], gone, c, sending(asked)),
                                          lost, 0)
               /\ stalled' = stalled
            \/ /\ Only(table, table', n, Replaced(table[n], gone, c, parking(asked)))
               /\ Transmissions(n, {}, table[n], {}, 1)
               /\ stalled' = stalled \cup {c}
  BY <1>0 DEF Originate, Has, BroadcastInv, TypeInv, Only
<1> DEFINE r == fresh(asked)
           sentNow == sending(asked)
<1>3. \A b \in Broadcasts \ {c} : Rests(b, table, table')
  BY <1>0, <1>2, ReplacedRests
<1>4. /\ sent' \in [Nodes -> [Broadcasts -> Nat]]
      /\ \A i \in Nodes, b \in Broadcasts \ {c} : sent'[i][b] = sent[i][b]
      /\ \A m \in air' : m.b # c => m \in air
      /\ stalled \subseteq stalled'
  <2>1. PICK bs \in SUBSET {c} : \E t, lost, pending : Transmissions(n, bs, t, lost, pending)
    <3>1. {c} \in SUBSET {c} /\ {} \in SUBSET {c}
      OBVIOUS
    <3> QED
      BY <1>2, <3>1
  <2>2. /\ sent' \in [Nodes -> [Broadcasts -> Nat]]
        /\ \A i \in Nodes, b \in Broadcasts :
              sent'[i][b] = sent[i][b] + IF i = n /\ b \in bs THEN 1 ELSE 0
        /\ \A m \in air' : m \in air \/ m.b \in bs
    BY <1>0, <2>1, SendingCounts
  <2>3. \A i \in Nodes, b \in Broadcasts : sent[i][b] \in Nat
    BY <1>0
  <2>4. stalled \subseteq stalled'
    BY <1>2
  <2> QED
    BY <2>2, <2>3, <2>4
<1>5. ASSUME NEW b \in Broadcasts \ stalled', b # c
      PROVE  Timely(b, table', air', delivered', sent', conflicts')
  <2>1. Timely(b, table, air, delivered, sent, conflicts)
    BY <1>4 DEF TimelyInv
  <2>2. Moves(b, table, table', air, air', sent, sent')
    BY <1>0, <1>3, <1>4, <1>5, RestsMoves
  <2>3. SameHistory(b, delivered, delivered', conflicts, conflicts')
    BY <1>1 DEF SameHistory
  <2> QED
    BY <1>0, <2>1, <2>2, <2>3, MovesTimely
<1>6. ASSUME c \notin stalled'
      PROVE  Timely(c, table', air', delivered', sent', conflicts')
  <2> DEFINE t == Replaced(table[n], gone, c, sentNow)
  <2>1. PICK lost : Only(table, table', n, t) /\ Transmissions(n, {c}, t, lost, 0)
    BY <1>2, <1>6
  <2>2. NotStarted(c, table, air, delivered, sent, conflicts)
    BY <1>1 DEF TimelyInv, Timely
  <2>3. c \in DOMAIN table'[n] /\ table'[n][c] = sentNow /\ t[c] = sentNow
    BY <2>1 DEF Only, Replaced
  <2>4. \A i \in Nodes : i # n => c \notin DOMAIN table'[i]
    BY <2>1, <2>2 DEF Only, NotStarted
  <2>5. /\ sentNow.life = DeliveryTime /\ sentNow.radius = Radius /\ sentNow.first
        /\ sentNow.next = Rearmed(r) /\ Rearmed(r) \in {None, Timeout}
    BY DEF Record, Rearmed
  <2>6. /\ \A i \in Nodes : sent'[i][c] = IF i = n THEN 1 ELSE 0
        /\ \A m \in air' : m.b = c => m.radius = Radius
    <3>1. /\ \A i \in Nodes : sent'[i][c] = sent[i][c] + IF i = n /\ c \in {c} THEN 1 ELSE 0
          /\ \A m \in air' : m \in air \/ (m.b \in {c} /\ m.radius = t[m.b].radius)
      BY <1>0, <2>1, SendingCounts
    <3>2. \A i \in Nodes : sent[i][c] = 0
      BY <2>2 DEF NotStarted
    <3> HIDE DEF t, sentNow
    <3> QED
      BY <2>2, <2>3, <2>5, <3>1, <3>2 DEF NotStarted
  <2> HIDE DEF t, sentNow
  <2>7. AgeOf(table', c) = 0
    BY <2>3, <2>5, Constants DEF AgeOf
  <2>8. Cardinality(ReachedBy(delivered', c)) = 1
    <3>1. ReachedBy(delivered', c) = {n}
      <4>1. \A i \in Nodes : delivered'[i][c] = 0
        BY <1>1, <2>2 DEF NotStarted
      <4>2. \A i \in Nodes : Knows(delivered', i, c) <=> i = n
        BY <4>1 DEF Knows
      <4> HIDE DEF n
      <4> QED
        BY <1>0, <4>2 DEF ReachedBy
    <3> QED
      BY <3>1, FS_Singleton
  <2>9. NearEnough(Radius, 1) /\ Radius >= 1 /\ Radius - Radius = 0
    BY Constants DEF NearEnough
  <2>10. Span(0) \in Nat /\ Span(0) = Waits(1 + MaxRetries) /\ Waits(MaxRetries) \in Int
         /\ Waits(MaxRetries) + Timeout = Waits(1 + MaxRetries)
    <3>1. 1 + MaxRetries \in Int /\ 1 + MaxRetries - 1 = MaxRetries /\ MaxRetries \in Int
      BY Constants
    <3>2. Waits(1 + MaxRetries - 1) + Timeout = Waits(1 + MaxRetries) /\ Waits(MaxRetries) \in Int
      BY <3>1, WaitsFacts
    <3> QED
      BY <3>1, <3>2, SpanFacts
  <2>11. TimedRecord(sentNow, 0, 1)
    <3>1. sentNow.next # None => 0 + Remaining(sentNow) <= Span(0)
      <4> SUFFICES ASSUME sentNow.next # None PROVE 0 + Remaining(sentNow) <= Span(0)
        OBVIOUS
      <4>1. Remaining(sentNow) = Timeout + Waits(MaxRetries)
        BY <2>5 DEF Remaining
      <4> QED
        BY <2>10, <4>1, Constants
    <3>2. NearEnough(sentNow.radius, 1) /\ sentNow.radius >= 1
      BY <2>5, <2>9
    <3>3. sentNow.life >= DeliveryTime - 0
      BY <2>5, Constants
    <3>4. Radius - sentNow.radius = 0
      BY <2>5, <2>9
    <3> QED
      BY <3>1, <3>2, <3>3, <3>4 DEF TimedRecord
  <2>12. 1 + Left(sentNow) <= Bound(n, c) /\ Bound(n, c) \in Nat /\ 1 \in 0 .. Bound(n, c)
    BY <2>5, Constants DEF Left, Bound
  <2>13. ASSUME NEW i \in Nodes
         PROVE  TimedRouter(i, c, table'[i], 0, 1, delivered'[i][c], sent'[i][c], conflicts')
    <3>1. delivered'[i][c] = 0 /\ <<i, c>> \notin conflicts'
      BY <1>1, <2>2 DEF NotStarted
    <3>2. CASE i = n
      BY <2>3, <2>6, <2>11, <2>12, <3>1, <3>2 DEF TimedRouter
    <3>3. CASE i # n
      <4>1. 0 \in 0 .. Bound(i, c)
        BY Constants DEF Bound
      <4> QED
        BY <2>4, <2>6, <3>1, <3>3, <4>1 DEF TimedRouter
    <3> QED
      BY <3>2, <3>3
  <2>14. \A m \in air' : m.b = c => TimedMessage(m, 0, 1)
    BY <2>6, <2>9, <2>10 DEF TimedMessage
  <2>15. Started(c, table', air', delivered', sent', conflicts')
    BY <2>7, <2>8, <2>13, <2>14, Constants DEF Started
  <2> QED
    BY <1>0, <2>6, <2>15 DEF Timely
<1> QED
  BY <1>4, <1>5, <1>6 DEF TimelyInv

\* A reception makes a record only where there was none before.
LEMMA ReceiveTimely ==
    ASSUME BroadcastInv, BroadcastInv', TimelyInv, RecordsOutlive, NEW m \in air, Receive(m)
    PROVE  TimelyInv'
<1> DEFINE n == m.to
           c == m.b
<1>0. n \in Nodes /\ c \in Broadcasts /\ sent \in [Nodes -> [Broadcasts -> Nat]]
      /\ DOMAIN table = Nodes /\ delivered \in [Nodes -> [Broadcasts -> 0 .. 2]]
  BY DEF BroadcastInv, TypeInv, Message, TimelyInv
<1>1. air' \subseteq air /\ sent' = sent /\ stalled' = stalled
  BY DEF Receive
<1>2. ASSUME NEW b \in Broadcasts \ stalled, Rests(b, table, table'),
             SameHistory(b, delivered, delivered', conflicts, conflicts')
      PROVE  Timely(b, table', air', delivered', sent', conflicts')
  <2>1. Timely(b, table, air, delivered, sent, conflicts)
    BY DEF TimelyInv
  <2>2. Moves(b, table, table', air, air', sent, sent')
    BY <1>0, <1>1, <1>2, RestsMoves
  <2> QED
    BY <1>0, <1>2, <2>1, <2>2, MovesTimely
<1>3. CASE /\ Has(n, c)
           /\ table' = [table EXCEPT ![n][c] = Heard(@, m.from)]
           /\ UNCHANGED <<delivered, conflicts>>
  <2>1. ASSUME NEW b \in Broadcasts
        PROVE  Rests(b, table, table')
    <3>1. Alike(table[n][c], Heard(table[n][c], m.from))
      <4>1. table[n][c] \in Records(Others(n))
        BY <1>0, <1>3, RecordTypes DEF Has
      <4> QED
        BY <4>1 DEF Alike, Heard, Records
    <3>2. /\ DOMAIN table' = Nodes /\ DOMAIN table'[n] = DOMAIN table[n]
          /\ table'[n][c] = Heard(table[n][c], m.from)
          /\ \A x \in DOMAIN table[n] : x # c => table'[n][x] = table[n][x]
          /\ \A i \in Nodes : i # n => table'[i] = table[i]
      BY <1>0, <1>3 DEF Has
    <3>3. \A r : Alike(r, r)
      BY DEF Alike
    <3> QED
      BY <3>1, <3>2, <3>3 DEF Rests
  <2>2. \A b : SameHistory(b, delivered, delivered', conflicts, conflicts')
    BY <1>3 DEF SameHistory
  <2> QED
    BY <1>0, <1>1, <1>2, <2>1, <2>2 DEF TimelyInv
<1>4. \A b : table' = table => Rests(b, table, table')
  BY DEF Rests, Alike
<1>5. CASE /\ ~Has(n, c) /\ n = Source(c)
           /\ conflicts' = conflicts \cup {<<n, c>>}
           /\ UNCHANGED <<table, delivered>>
  <2>1. c \in stalled
    <3> SUFFICES ASSUME c \notin stalled PROVE FALSE
      OBVIOUS
    <3>1. Timely(c, table, air, delivered, sent, conflicts)
      BY <1>0 DEF TimelyInv
    <3>2. Started(c, table, air, delivered, sent, conflicts)
      BY <3>1 DEF Timely, NotStarted
    <3>3. /\ TimedMessage(m, AgeOf(table, c), Cardinality(ReachedBy(delivered, c)))
          /\ AgeOf(table, c) = DeliveryTime
      BY <1>5, <3>2 DEF Started, AgeOf, Has
    <3>4. /\ DeliveryTime <= Span(Radius - m.radius) /\ m.radius >= 1
          /\ NearEnough(m.radius, Cardinality(ReachedBy(delivered, c)))
      BY <3>3 DEF TimedMessage
    <3>5. Span(Radius - m.radius) < DeliveryTime
      BY <3>4, InTime
    <3>6. Span(Radius - m.radius) \in Nat
      <4>1. Radius - m.radius \in Nat
        BY <3>4, Constants DEF NearEnough
      <4> QED
        BY <4>1, SpanFacts
    <3> QED
      BY <3>4, <3>5, <3>6, Constants
  <2>2. \A b \in Broadcasts \ stalled :
           SameHistory(b, delivered, delivered', conflicts, conflicts')
    BY <1>5, <2>1 DEF SameHistory
  <2> QED
    BY <1>0, <1>1, <1>2, <1>4, <1>5, <2>2 DEF TimelyInv
<1>6. CASE UNCHANGED <<table, delivered, conflicts>>
  <2>1. \A b : SameHistory(b, delivered, delivered', conflicts, conflicts')
    BY <1>6 DEF SameHistory
  <2> QED
    BY <1>0, <1>1, <1>2, <1>4, <1>6, <2>1 DEF TimelyInv
<1>7. CASE /\ ~Has(n, c) /\ n # Source(c)
           /\ \E next \in IF m.radius > 1 THEN 0 .. MaxJitter ELSE {None},
                 gone \in Reused(table[n]), asked \in PassiveAckSets(n, m.from) :
                  table' = [table EXCEPT ![n] =
                     Replaced(@, gone, c,
                              Record(asked, m.radius > 1, m.radius > 1,
                                     next, m.radius - 1))]
           /\ delivered' = [delivered EXCEPT ![n][c] = IF @ < 2 THEN @ + 1 ELSE 2]
           /\ UNCHANGED conflicts
  <2>1. PICK next \in IF m.radius > 1 THEN 0 .. MaxJitter ELSE {None},
             gone \in Reused(table[n]), asked \in PassiveAckSets(n, m.from) :
                  table' = [table EXCEPT ![n] =
                     Replaced(@, gone, c,
                              Record(asked, m.radius > 1, m.radius > 1,
                                     next, m.radius - 1))]
    BY <1>7
  <2> DEFINE N == asked
             r == Record(N, m.radius > 1, m.radius > 1, next, m.radius - 1)
             x == IF delivered[n][c] < 2 THEN delivered[n][c] + 1 ELSE 2
  <2>2. Only(table, table', n, Replaced(table[n], gone, c, r))
    BY <1>0, <2>1 DEF Only
  <2> HIDE DEF r
  <2>3. \A b \in Broadcasts : b # c => Rests(b, table, table')
    BY <1>0, <2>2, ReplacedRests
  <2>4. /\ delivered'[n][c] = x
        /\ \A b \in Broadcasts : b # c => delivered'[n][b] = delivered[n][b]
        /\ \A i \in Nodes : i # n => delivered'[i] = delivered[i]
    BY <1>0, <1>7
  <2>5. \A b \in Broadcasts : b # c =>
           SameHistory(b, delivered, delivered', conflicts, conflicts')
    BY <1>7, <2>4 DEF SameHistory
  <2>6. c \in DOMAIN table'[n] /\ table'[n][c] = r
        /\ \A i \in Nodes : i # n => table'[i] = table[i]
    BY <2>2 DEF Only, Replaced
  <2>7. ASSUME c \notin stalled
        PROVE  Timely(c, table', air', delivered', sent', conflicts')
    <3>1. Timely(c, table, air, delivered, sent, conflicts)
      BY <1>0, <2>7 DEF TimelyInv
    <3>2. /\ c \notin DOMAIN table[n] /\ n # Source(c) /\ conflicts' = conflicts
          /\ \A i \in Nodes : i # n => delivered'[i][c] = delivered[i][c]
          /\ table'[n][c] = Record(N, m.radius > 1, m.radius > 1, next, m.radius - 1)
      BY <1>7, <2>4, <2>6 DEF Has, r
    <3>3. delivered'[n][c] = IF delivered[n][c] < 2 THEN delivered[n][c] + 1 ELSE 2
      BY <2>4
    <3>4. next \in IF m.radius > 1 THEN 0 .. MaxJitter ELSE {None}
      BY <2>1
    <3>5. /\ n \in Nodes /\ c \in Broadcasts /\ sent \in [Nodes -> [Broadcasts -> Nat]]
          /\ \A i \in Nodes : i # n => table'[i] = table[i]
          /\ c \in DOMAIN table'[n]
      BY <1>0, <2>6
    <3> HIDE DEF N, n
    <3> QED
      BY <1>1, <3>1, <3>2, <3>3, <3>4, <3>5, FreshTimely, Zenon
  <2> QED
    BY <1>0, <1>1, <1>2, <2>3, <2>5, <2>7 DEF TimelyInv
<1> QED
  BY <1>3, <1>5, <1>6, <1>7 DEF Receive

\* service_broadcasts transmits what is due, and records advance.
LEMMA ServiceTimely ==
    ASSUME BroadcastInv, BroadcastInv', TimelyInv, NEW n \in Nodes, Service(n)
    PROVE  TimelyInv'
<1>0. sent \in [Nodes -> [Broadcasts -> Nat]] /\ DOMAIN table = Nodes
  BY DEF TimelyInv, BroadcastInv, TypeInv
<1>1. delivered' = delivered /\ conflicts' = conflicts
  BY DEF Service
<1>2. PICK o \in Outcomes(n) :
         /\ table' = [table EXCEPT ![n] = [b \in Live(ServicedTable(n, o)) |->
                                              ServicedTable(n, o)[b]]]
         /\ \E lost : Transmissions(n, Out(n, o), ServicedTable(n, o), lost,
                                    Cardinality(Unsecured(n, o)))
         /\ stalled' = stalled \cup {b \in Due(n) : o[b] = "CounterPending"}
  BY DEF Service, ServicedTable, Live, Out, Unsecured
<1> DEFINE t == ServicedTable(n, o)
<1>3. /\ sent' \in [Nodes -> [Broadcasts -> Nat]]
      /\ \A i \in Nodes, b \in Broadcasts :
            sent'[i][b] = sent[i][b] + IF i = n /\ b \in Out(n, o) THEN 1 ELSE 0
      /\ \A m \in air' : m \in air \/ (m.b \in Out(n, o) /\ m.radius = t[m.b].radius)
  BY <1>0, <1>2, SendingCounts
<1>4. /\ table'[n] = [b \in Live(t) |-> t[b]]
      /\ \A i \in Nodes : i # n => table'[i] = table[i]
  BY <1>0, <1>2
<1>5. /\ DOMAIN t = DOMAIN table[n]
      /\ \A b \in DOMAIN table[n] :
            t[b] = IF b \in Due(n)
                   THEN Serviced(table[n][b], o[b], Contains(bufs[n], b)) ELSE table[n][b]
  BY DEF ServicedTable
<1> HIDE DEF t
<1>6. ASSUME NEW b \in Broadcasts \ stalled'
      PROVE  Timely(b, table', air', delivered', sent', conflicts')
  <2> DEFINE r == table[n][b]
             k == IF b \in Out(n, o) THEN 1 ELSE 0
  <2>1. Timely(b, table, air, delivered, sent, conflicts)
    BY <1>2 DEF TimelyInv
  <2>2. SameHistory(b, delivered, delivered', conflicts, conflicts')
    BY <1>1 DEF SameHistory
  <2>3. ASSUME b \in DOMAIN table[n]
        PROVE  /\ Advances(r, t[b], k) /\ r.life = t[b].life /\ r.radius = t[b].radius
               /\ k = 1 => MayTransmit(r)
    <3>1. r \in Records(Others(n)) /\ Left(r) \in Nat /\ Remaining(r) \in Int
      BY <2>3, RecordTypes, RecordNumbers
    <3>2. CASE b \notin Due(n)
      <4>1. t[b] = r /\ k = 0
        BY <1>5, <2>3, <3>2 DEF Out
      <4> HIDE DEF r, k
      <4> QED
        BY <3>1, <4>1 DEF Advances
    <3>3. CASE b \in Due(n)
      <4> DEFINE buffered == Contains(bufs[n], b)
                 x == o[b]
      <4>1. t[b] = Serviced(r, x, buffered) /\ r.next = 0 /\ buffered \in BOOLEAN
        BY <1>5, <2>3, <3>3 DEF Due, Contains
      <4>2. x \in {"Ok", "Error"}
        BY <1>2, <3>3 DEF Outcomes
      <4>3. k = IF ~Finished(r) /\ buffered /\ x = "Ok" THEN 1 ELSE 0
        BY <3>3 DEF Out
      <4> HIDE DEF r, k, buffered, x
      <4>4. IF ~Finished(r) /\ buffered /\ x = "Ok"
            THEN MayTransmit(r) /\ Advances(r, Serviced(r, x, buffered), 1)
            ELSE Advances(r, Serviced(r, x, buffered), 0)
        BY <3>1, <4>1, <4>2, ServicedAdvances
      <4>5. Advances(r, t[b], k) /\ (k = 1 => MayTransmit(r))
        BY <4>1, <4>3, <4>4
      <4> QED
        BY <4>5 DEF Advances
    <3> QED
      BY <3>2, <3>3
  <2>4. Out(n, o) \subseteq DOMAIN table[n]
    BY DEF Out, Due
  <2>5. ASSUME NEW i \in Nodes
        PROVE  /\ b \in DOMAIN table'[i] => b \in DOMAIN table[i]
               /\ b \in DOMAIN table[i] /\ b \notin DOMAIN table'[i] => table[i][b].life = 0
               /\ \E j \in {0, 1} :
                     /\ sent'[i][b] = sent[i][b] + j
                     /\ j = 1 => b \in DOMAIN table[i] /\ MayTransmit(table[i][b])
                     /\ b \in DOMAIN table'[i] => Advances(table[i][b], table'[i][b], j)
    <3>1. CASE i = n
      <4>1. /\ b \in DOMAIN table'[n] <=> b \in DOMAIN table[n] /\ ~(t[b].life = 0)
            /\ b \in DOMAIN table'[n] => table'[n][b] = t[b]
        BY <1>4, <1>5 DEF Live, Expired
      <4>2. sent'[n][b] = sent[n][b] + k /\ k \in {0, 1} /\ (k = 1 => b \in DOMAIN table[n])
        BY <1>3, <2>4
      <4> HIDE DEF k
      <4> QED
        BY <2>3, <3>1, <4>1, <4>2
    <3>2. CASE i # n
      <4>1. sent'[i][b] = sent[i][b] + 0 /\ table'[i] = table[i] /\ 0 # 1
        BY <1>3, <1>4, <3>2
      <4>2. b \in DOMAIN table[i] => Advances(table[i][b], table[i][b], 0)
        BY RecordTypes, RecordNumbers DEF Advances
      <4> QED
        BY <4>1, <4>2
    <3> QED
      BY <3>1, <3>2
  <2>6. ASSUME NEW m \in air', m.b = b, m \notin air
        PROVE  \E i \in Nodes : /\ b \in DOMAIN table[i] /\ MayTransmit(table[i][b])
                                /\ m.radius = table[i][b].radius
    <3>1. b \in Out(n, o) /\ m.radius = t[b].radius
      BY <1>3, <2>6
    <3> QED
      BY <2>3, <2>4, <3>1
  <2>7. Moves(b, table, table', air, air', sent, sent')
    BY <2>5, <2>6 DEF Moves
  <2> QED
    BY <1>0, <2>1, <2>2, <2>7, MovesTimely
<1> QED
  BY <1>3, <1>6 DEF TimelyInv

\* Nothing was sent in the initial state.
LEMMA TimelyInit == Init => TimelyInv
<1> SUFFICES ASSUME Init PROVE TimelyInv
  OBVIOUS
<1>1. /\ table = [n \in Nodes |-> <<>>] /\ air = {} /\ conflicts = {}
      /\ sent = [n \in Nodes |-> [b \in Broadcasts |-> 0]]
      /\ delivered = [n \in Nodes |-> [b \in Broadcasts |-> 0]]
  BY DEF Init
<1>2. DOMAIN <<>> = {}
  OBVIOUS
<1>3. \A b \in Broadcasts : Source(b) \in Nodes
  BY BroadcastAssumption
<1> QED
  BY <1>1, <1>2, <1>3 DEF TimelyInv, Timely, NotStarted

\* Every step keeps every broadcast timely.
LEMMA TimelyInductive ==
    ASSUME RecordsOutlive
    PROVE  BroadcastInv /\ TimelyInv /\ [Next]_vars => TimelyInv'
<1> SUFFICES ASSUME BroadcastInv, TimelyInv, [Next]_vars
             PROVE  TimelyInv'
  OBVIOUS
<1>0. BroadcastInv'
  BY BroadcastInductive
<1>1. CASE \E b \in Broadcasts : Originate(b)
  BY <1>0, <1>1, OriginateTimely
<1>2. CASE \E m \in air : Receive(m)
  BY <1>0, <1>2, ReceiveTimely
<1>3. CASE \E n \in Nodes : Service(n)
  BY <1>0, <1>3, ServiceTimely
<1>4. CASE Tick
  <2>1. sent' = sent /\ stalled' = stalled
    BY <1>4 DEF Tick
  <2> QED
    BY <1>4, <2>1, TickTimely DEF TimelyInv
<1>5. CASE UNCHANGED vars
  BY <1>5 DEF vars, TimelyInv
<1> QED
  BY <1>1, <1>2, <1>3, <1>4, <1>5 DEF Next, Proceed

\* Where records outlive every relay and retransmission, no router delivers a
\* broadcast twice or takes its own for that of another, in every topology
\* and for every pattern of losses, unless a frame counter was awaited.
THEOREM DeliveredOnce ==
    ASSUME RecordsOutlive
    PROVE  Spec => []SeenOnce
<1>1. TimelyInv => SeenOnce
  <2> SUFFICES ASSUME TimelyInv, NEW b \in Broadcasts \ stalled, NEW n \in Nodes
               PROVE  delivered[n][b] <= 1 /\ <<n, b>> \notin conflicts
    BY DEF SeenOnce
  <2>1. Timely(b, table, air, delivered, sent, conflicts)
    BY DEF TimelyInv
  <2>2. CASE NotStarted(b, table, air, delivered, sent, conflicts)
    BY <2>2 DEF NotStarted
  <2>3. CASE Started(b, table, air, delivered, sent, conflicts)
    BY <2>3 DEF Started, TimedRouter
  <2> QED
    BY <2>1, <2>2, <2>3 DEF Timely
<1> QED
  BY <1>1, InitHolds, TimelyInit, BroadcastInductive, TimelyInductive, PTL DEF Spec

\* There, a router transmits a broadcast 1 + MaxRetries times at most, and
\* its source once more: no record is made twice and none is retried too often.
THEOREM BoundedTransmissions ==
    ASSUME RecordsOutlive
    PROVE  Spec => []TransmissionsBounded
<1>1. TimelyInv => TransmissionsBounded
  <2> SUFFICES ASSUME TimelyInv, NEW b \in Broadcasts \ stalled, NEW n \in Nodes
               PROVE  sent[n][b] <= Bound(n, b)
    BY DEF TransmissionsBounded, Bound
  <2>1. Timely(b, table, air, delivered, sent, conflicts)
    BY DEF TimelyInv
  <2>2. CASE NotStarted(b, table, air, delivered, sent, conflicts)
    <3>1. sent[n][b] = 0
      BY <2>2 DEF NotStarted
    <3> QED
      BY <3>1, Constants DEF Bound
  <2>3. CASE Started(b, table, air, delivered, sent, conflicts)
    <3>1. sent[n][b] \in 0 .. Bound(n, b)
      BY <2>3 DEF Started, TimedRouter
    <3> QED
      BY <3>1
  <2> QED
    BY <2>1, <2>2, <2>3 DEF Timely
<1> QED
  BY <1>1, InitHolds, TimelyInit, BroadcastInductive, TimelyInductive, PTL DEF Spec
=============================================================================
