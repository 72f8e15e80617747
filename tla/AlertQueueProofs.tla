-------------------------- MODULE AlertQueueProofs --------------------------
(***************************************************************************)
(* Proofs about AlertQueue: type correctness, and that as long as writes   *)
(* succeed no stored event is lost, no acknowledged one is sent again,     *)
(* repeats are marked, losses are reported, and an attempt is scheduled    *)
(* whenever events are pending.                                            *)
(***************************************************************************)
EXTENDS AlertQueue, FunctionTheorems, FiniteSetTheorems, TLAPS

-----------------------------------------------------------------------------
(* The inductive invariant, by parts                                       *)

Write == [type : {"meta"}, boot : 1 .. MaxBoots, overflow : 0 .. MaxEvents]
         \cup [type : {"ack"}, ids : SUBSET EventId, taken : SUBSET Event]
         \cup [type : {"slot"}, slot : Slot, value : AlertEvent]
         \cup [type : {"erase"}, slot : Slot, value : {NoEvent}, taken : SUBSET Event]

\* Each record of a queue or of the flash has one identifier, and an
\* identifier names one event.
Consistent(a, b) ==
    \A s, t \in Slot :
        a[s] # NoEvent /\ b[t] # NoEvent => (a[s].id = b[t].id <=> a[s].event = b[t].event)

\* What is known of the running program, whether or not a write has failed.
RunInv ==
    /\ todo \in Seq(Write)
    /\ job # NoJob => /\ todo = <<>> /\ queue # NoQueue
                      /\ job.overflow \in {0, queue.overflow}
                      /\ \A x \in job.sent : \E s \in Slot :
                            /\ queue.slots[s] # NoEvent
                            /\ queue.slots[s].id = x.id /\ queue.slots[s].event = x.event
    /\ todo # <<>> => queue # NoQueue
    /\ queue # NoQueue => queue.seq <= events /\ queue.overflow <= events
    /\ nv.overflow <= events /\ ledger.refused <= events
    /\ \A i \in DOMAIN todo :
          /\ todo[i].type = "meta" => todo[i].overflow <= events
          /\ todo[i].type = "ack" => i = 1

\* The records, as a restart finds them.
FlashInv(n, l, ev) ==
    /\ \A s \in Slot : n.slots[s] # NoEvent =>
          /\ n.slots[s].id.boot <= n.boot /\ n.slots[s].event <= ev
          /\ n.slots[s].id \in n.ack => n.slots[s].event \in l.published
          /\ n.slots[s].event \in l.settled => n.slots[s].id \in n.ack
    /\ \A id \in n.ack : id.boot <= n.boot
    /\ Consistent(n.slots, n.slots)
    /\ l.stored \subseteq EventsIn(n.slots) \cup l.published
    /\ l.published \cup l.settled \subseteq 1 .. ev

\* While the queue is closed: the records alone.
ClosedInv(n, l) ==
    /\ l.refused <= l.reported + n.overflow
    /\ \A s \in Slot :
          n.slots[s] # NoEvent /\ n.slots[s].event \in l.published \ l.cut => n.slots[s].ambiguous

\* While it is open, the queue is ahead of the records by the writes W that
\* are left. The boot counter and the losses:
Fresh(q) == [boot |-> q.boot, seq |-> q.seq]
MetaInv(n, q, W, l) ==
    /\ l.refused <= l.reported + q.overflow
    /\ n.boot <= q.boot
    /\ n.boot # q.boot => \A w \in W : w.type \in {"meta", "erase"}
    /\ (n.boot = q.boot /\ n.overflow = q.overflow) \/ \E w \in W : w.type = "meta"
    /\ \A w \in W : w.type = "meta" => w.boot = q.boot /\ w.overflow = q.overflow

\* The slots: what is written over is not needed any more.
SlotInv(n, q, W, l) ==
    /\ \A s \in Slot :
          n.slots[s] = q.slots[s] \/ \E w \in W : w.type \in {"slot", "erase"} /\ w.slot = s
    /\ \A w \in W : w.type \in {"slot", "erase"} =>
          /\ w.value = q.slots[w.slot]
          /\ \/ n.slots[w.slot] = NoEvent
             \/ n.slots[w.slot].event \in l.published
             \/ w.type = "slot" /\ n.slots[w.slot].event = w.value.event

\* The acknowledgement record comes before the erasures it covers.
AckInv(n, q, W, l, ev) ==
    /\ \A w \in W : w.type = "erase" =>
          w.taken \subseteq l.settled \/ \E a \in W : a.type = "ack" /\ w.taken \subseteq a.taken
    /\ \A w \in W : w.type = "ack" =>
          /\ \A id \in w.ids : Older(id, Fresh(q))
          /\ w.taken \subseteq 1 .. ev
          /\ \A s \in Slot :
                /\ q.slots[s] # NoEvent => q.slots[s].id \notin w.ids
                                           /\ q.slots[s].event \notin w.taken
                /\ n.slots[s] # NoEvent =>
                      /\ n.slots[s].event \in l.settled \cup w.taken => n.slots[s].id \in w.ids
                      /\ n.slots[s].id \in w.ids => n.slots[s].event \in l.published

\* The identifiers: the next one is new, pending events are not settled, and
\* those that may have been published are marked.
PendingInv(n, q, l, ev) ==
    /\ \A id \in n.ack : Older(id, Fresh(q))
    /\ \A s \in Slot : n.slots[s] # NoEvent => Older(n.slots[s].id, Fresh(q))
    /\ \A s \in Slot : q.slots[s] # NoEvent =>
          /\ Older(q.slots[s].id, Fresh(q)) /\ q.slots[s].event <= ev
          /\ q.slots[s].id \notin n.ack /\ q.slots[s].event \notin l.settled
          /\ q.slots[s].event \in l.published \ l.cut => q.slots[s].ambiguous
    /\ Consistent(q.slots, q.slots) /\ Consistent(q.slots, n.slots)

OpenInv(n, q, W, l, ev) ==
    MetaInv(n, q, W, l) /\ SlotInv(n, q, W, l) /\ AckInv(n, q, W, l, ev) /\ PendingInv(n, q, l, ev)

TrustInv ==
    ledger.trusted =>
        /\ FlashInv(nv, ledger, events)
        /\ IF queue = NoQueue THEN ClosedInv(nv, ledger)
           ELSE OpenInv(nv, queue, Range(todo), ledger, events)

QueueInv == TypeInvariant /\ RunInv /\ ScheduledWhilePending /\ TrustInv

-----------------------------------------------------------------------------
(* Writes in order                                                         *)

\* The slots of a set are gone through one by one, and no other.
LEMMA InOrderFacts ==
    ASSUME NEW S \in SUBSET Slot
    PROVE  /\ IsFiniteSet(S) /\ Cardinality(S) \in Nat
           /\ DOMAIN InOrder(S) = 1 .. Cardinality(S)
           /\ \A i \in 1 .. Cardinality(S) : InOrder(S)[i] \in S
           /\ \A s \in S : \E i \in 1 .. Cardinality(S) : InOrder(S)[i] = s
<1> DEFINE n == Cardinality(S)
           f == [s \in S |-> Rank(S, s)]
<1>1. IsFiniteSet(S) /\ n \in Nat
  <2>1. IsFiniteSet(Slot)
    BY FS_Interval, QueueAssumption DEF Slot
  <2> QED
    BY <2>1, FS_Subset, FS_CardinalityType
<1>2. ASSUME NEW s \in S
      PROVE  Rank(S, s) \in 1 .. n /\ IsFiniteSet({t \in S : t <= s})
  <2> DEFINE T == {t \in S : t <= s}
  <2>1. T \in SUBSET S /\ s \in T
    BY DEF Slot
  <2>2. IsFiniteSet(T) /\ Cardinality(T) \in Nat /\ Cardinality(T) <= n
    BY <1>1, <2>1, FS_Subset, FS_CardinalityType
  <2>3. Cardinality(T) # 0
    BY <2>1, <2>2, FS_EmptySet
  <2> QED
    BY <1>1, <2>2, <2>3 DEF Rank
<1>3. ASSUME NEW s \in S, NEW t \in S, s < t
      PROVE  Rank(S, s) # Rank(S, t)
  <2> DEFINE A == {u \in S : u <= s}
             B == {u \in S : u <= t}
  <2>0. \A u \in S : u \in Int
    BY QueueAssumption DEF Slot
  <2>1. A \in SUBSET B /\ t \in B /\ t \notin A
    BY <1>3, <2>0
  <2>2. Cardinality(B) = Cardinality(A) => B = A
    BY <1>2, <2>1, FS_Subset
  <2> QED
    BY <2>1, <2>2 DEF Rank
<1>4. \A s, t \in S : f[s] = f[t] => s = t
  <2>1. \A s, t \in S : s < t \/ t < s \/ s = t
    BY DEF Slot
  <2> QED
    BY <1>3, <2>1
<1>5. f \in Injection(S, 1 .. n)
  BY <1>2, <1>4, Fun_IsInj
<1>6. IsFiniteSet(1 .. n) /\ Cardinality(1 .. n) = n
  BY <1>1, FS_Interval
<1>7. \A i \in 1 .. n : \E s \in S : Rank(S, s) = i
  <2>1. f \in Surjection(S, 1 .. n)
    BY <1>5, <1>6, FS_Injection
  <2>2. \A i \in 1 .. n : \E s \in S : f[s] = i
    <3> HIDE DEF f, n
    <3> QED
      BY <2>1, Fun_SurjectionProperties
  <2> QED
    BY <2>2
<1>8. \A i \in 1 .. n : InOrder(S)[i] \in S /\ Rank(S, InOrder(S)[i]) = i
  BY <1>7 DEF InOrder
<1>9. \A s \in S : InOrder(S)[Rank(S, s)] = s
  BY <1>2, <1>4, <1>8
<1>10. DOMAIN InOrder(S) = 1 .. n
  BY DEF InOrder
<1> QED
  BY <1>1, <1>2, <1>8, <1>9, <1>10

\* The first free slot, when there is one.
LEMMA FirstFree ==
    ASSUME NEW slots, Free(slots) # {}
    PROVE  InOrder(Free(slots))[1] \in Free(slots) /\ Free(slots) \subseteq Slot
<1> DEFINE S == Free(slots)
<1>1. S \in SUBSET Slot
  BY DEF Free
<1> HIDE DEF S
<1>2. /\ IsFiniteSet(S) /\ Cardinality(S) \in Nat
      /\ \A i \in 1 .. Cardinality(S) : InOrder(S)[i] \in S
  BY <1>1, InOrderFacts
<1>3. Cardinality(S) # 0
  BY <1>2, FS_EmptySet DEF S
<1> QED
  BY <1>1, <1>2, <1>3 DEF S

\* What is in the sequences of writes.
LEMMA RangeOne ==
    ASSUME NEW T, NEW x \in T
    PROVE  <<x>> \in Seq(T) /\ Range(<<x>>) = {x}
  BY DEF Range

\* A concatenation holds the elements of both sequences.
LEMMA RangeConcat ==
    ASSUME NEW T, NEW a \in Seq(T), NEW b \in Seq(T)
    PROVE  a \o b \in Seq(T) /\ Range(a \o b) = Range(a) \cup Range(b)
<1>1. a \o b \in Seq(T) /\ Len(a \o b) = Len(a) + Len(b) /\ Len(a) \in Nat /\ Len(b) \in Nat
  OBVIOUS
<1>2. Range(a \o b) \subseteq Range(a) \cup Range(b)
  <2> SUFFICES ASSUME NEW i \in 1 .. Len(a \o b)
               PROVE  (a \o b)[i] \in Range(a) \cup Range(b)
    BY <1>1 DEF Range
  <2>1. CASE i <= Len(a)
    BY <1>1, <2>1 DEF Range
  <2>2. CASE i > Len(a)
    <3>1. (a \o b)[i] = b[i - Len(a)] /\ i - Len(a) \in 1 .. Len(b)
      BY <1>1, <2>2
    <3> QED
      BY <3>1 DEF Range
  <2> QED
    BY <1>1, <2>1, <2>2
<1>3. \A i \in 1 .. Len(a) : (a \o b)[i] = a[i] /\ i \in 1 .. Len(a \o b)
  BY <1>1
<1>4. \A i \in 1 .. Len(b) : (a \o b)[Len(a) + i] = b[i] /\ Len(a) + i \in 1 .. Len(a \o b)
  BY <1>1
<1>5. \A i \in 1 .. Len(a \o b) : (a \o b)[i] \in Range(a \o b)
  BY <1>1 DEF Range
<1>6. Range(a) = {a[i] : i \in 1 .. Len(a)} /\ Range(b) = {b[i] : i \in 1 .. Len(b)}
  BY DEF Range
<1>7. \A i \in 1 .. Len(a) : a[i] \in Range(a \o b)
  BY <1>3, <1>5
<1>8. ASSUME NEW i \in 1 .. Len(b) PROVE b[i] \in Range(a \o b)
  <2>1. (a \o b)[Len(a) + i] = b[i] /\ Len(a) + i \in 1 .. Len(a \o b)
    BY <1>4
  <2> QED
    BY <1>5, <2>1
<1> QED
  BY <1>1, <1>2, <1>6, <1>7, <1>8

\* After the first element come those of the second sequence.
LEMMA AfterFirst ==
    ASSUME NEW T, NEW x \in T, NEW b \in Seq(T), NEW i \in DOMAIN (<<x>> \o b), i # 1
    PROVE  (<<x>> \o b)[i] \in Range(b)
<1>1. <<x>> \o b \in Seq(T) /\ Len(<<x>> \o b) = 1 + Len(b) /\ Len(b) \in Nat
  OBVIOUS
<1>2. i \in 1 .. (1 + Len(b))
  BY <1>1
<1>3. (<<x>> \o b)[i] = b[i - 1] /\ i - 1 \in 1 .. Len(b)
  BY <1>1, <1>2
<1> QED
  BY <1>1, <1>3 DEF Range

\* The first element and the others.
LEMMA RangeTail ==
    ASSUME NEW T, NEW s \in Seq(T), s # <<>>
    PROVE  /\ Tail(s) \in Seq(T) /\ Head(s) \in T /\ Head(s) = s[1] /\ Len(s) >= 1
           /\ Range(s) = {Head(s)} \cup Range(Tail(s))
           /\ Len(Tail(s)) = Len(s) - 1
           /\ \A i \in 1 .. Len(Tail(s)) : Tail(s)[i] = s[i + 1] /\ i + 1 \in 1 .. Len(s)
<1>1. /\ Tail(s) \in Seq(T) /\ Head(s) \in T /\ Head(s) = s[1] /\ Len(s) >= 1 /\ Len(s) \in Nat
      /\ Len(Tail(s)) = Len(s) - 1
      /\ \A i \in 1 .. Len(Tail(s)) : Tail(s)[i] = s[i + 1] /\ i + 1 \in 1 .. Len(s)
  OBVIOUS
<1>2. Range(Tail(s)) \subseteq Range(s)
  BY <1>1 DEF Range
<1>3. ASSUME NEW i \in 1 .. Len(s)
      PROVE  s[i] \in {Head(s)} \cup Range(Tail(s))
  <2>1. CASE i = 1
    BY <1>1, <2>1
  <2>2. CASE i # 1
    <3>1. i - 1 \in 1 .. Len(Tail(s)) /\ (i - 1) + 1 = i
      BY <1>1, <2>2
    <3>2. Tail(s)[i - 1] = s[i]
      BY <1>1, <3>1
    <3>3. i - 1 \in DOMAIN Tail(s)
      BY <1>1, <3>1
    <3> QED
      BY <3>2, <3>3 DEF Range
  <2> QED
    BY <2>1, <2>2
<1>4. Range(s) \subseteq {Head(s)} \cup Range(Tail(s))
  BY <1>3 DEF Range
<1>5. Head(s) \in Range(s)
  BY <1>1 DEF Range
<1> QED
  BY <1>1, <1>2, <1>4, <1>5

\* The erasures of a set of slots.
LEMMA ErasuresFacts ==
    ASSUME NEW S \in SUBSET Slot, NEW taken \in SUBSET Event
    PROVE  /\ Erasures(S, taken) \in Seq(Write)
           /\ Range(Erasures(S, taken)) = {EraseSlot(s, taken) : s \in S}
<1> DEFINE n == Cardinality(S)
<1>1. \A s \in S : EraseSlot(s, taken) \in Write
  BY DEF EraseSlot, Write
<1>2. /\ n \in Nat /\ \A i \in 1 .. n : InOrder(S)[i] \in S
      /\ \A s \in S : \E i \in 1 .. n : InOrder(S)[i] = s
  BY InOrderFacts
<1>3. Erasures(S, taken) = [i \in 1 .. n |-> EraseSlot(InOrder(S)[i], taken)]
  BY DEF Erasures
<1>4. Erasures(S, taken) \in [1 .. n -> Write]
  BY <1>1, <1>2, <1>3
<1> HIDE DEF n
<1>5. Erasures(S, taken) \in Seq(Write)
  BY <1>2, <1>4
<1>6. Range(Erasures(S, taken)) = {EraseSlot(InOrder(S)[i], taken) : i \in 1 .. n}
  BY <1>3 DEF Range
<1> QED
  BY <1>2, <1>5, <1>6

\* The writes of the slots that are marked now.
LEMMA MarkWritesFacts ==
    ASSUME NEW slots \in [Slot -> AlertEvent \cup {NoEvent}], NEW ids
    PROVE  /\ MarkWrites(slots, ids) \in Seq(Write)
           /\ Range(MarkWrites(slots, ids)) =
                 {WriteSlot(s, Marked(slots, ids)[s]) : s \in NewlyMarked(slots, ids)}
           /\ Marked(slots, ids) \in [Slot -> AlertEvent \cup {NoEvent}]
           /\ \A s \in Slot :
                 /\ Marked(slots, ids)[s] = NoEvent <=> slots[s] = NoEvent
                 /\ slots[s] # NoEvent =>
                       /\ Marked(slots, ids)[s].id = slots[s].id
                       /\ Marked(slots, ids)[s].event = slots[s].event
                       /\ slots[s].ambiguous => Marked(slots, ids)[s].ambiguous
                       /\ slots[s].id \in ids => Marked(slots, ids)[s].ambiguous
                 /\ s \notin NewlyMarked(slots, ids) => Marked(slots, ids)[s] = slots[s]
<1> DEFINE S == NewlyMarked(slots, ids)
           n == Cardinality(S)
           M == Marked(slots, ids)
<1>0. S \in SUBSET Slot
  BY DEF NewlyMarked, Taken
<1>1. \A s \in Slot : slots[s] # NoEvent => slots[s] \in AlertEvent
  OBVIOUS
<1>2. ASSUME NEW s \in Slot
      PROVE  /\ M[s] \in AlertEvent \cup {NoEvent}
             /\ M[s] = NoEvent <=> slots[s] = NoEvent
             /\ slots[s] # NoEvent =>
                   /\ M[s].id = slots[s].id /\ M[s].event = slots[s].event
                   /\ slots[s].ambiguous => M[s].ambiguous
                   /\ slots[s].id \in ids => M[s].ambiguous
             /\ s \notin S => M[s] = slots[s]
  <2>1. M[s] = IF s \in Taken(slots, ids)
               THEN [slots[s] EXCEPT !.ambiguous = TRUE] ELSE slots[s]
    BY DEF Marked
  <2>2. CASE s \notin Taken(slots, ids)
    BY <2>1, <2>2 DEF Taken
  <2>3. CASE s \in Taken(slots, ids)
    <3>1. slots[s] \in AlertEvent /\ slots[s] # NoEvent
      BY <1>1, <2>3 DEF Taken
    <3> DEFINE e == slots[s]
    <3>2. /\ M[s] = [id |-> e.id, event |-> e.event, ambiguous |-> TRUE]
          /\ e = [id |-> e.id, event |-> e.event, ambiguous |-> e.ambiguous]
          /\ e.ambiguous \in BOOLEAN /\ e.id \in EventId /\ e.event \in Event
      BY <2>1, <2>3, <3>1 DEF AlertEvent
    <3>3. e.event # 0
      BY <3>2 DEF Event
    <3>4. M[s] \in AlertEvent /\ M[s] # NoEvent
      BY <3>2, <3>3 DEF AlertEvent, NoEvent
    <3>5. s \notin S => e.ambiguous
      BY <2>3 DEF NewlyMarked
    <3>6. e.ambiguous = TRUE => M[s] = e
      BY <3>2
    <3> QED
      BY <3>1, <3>2, <3>4, <3>5, <3>6
  <2> QED
    BY <2>2, <2>3
<1>3. M \in [Slot -> AlertEvent \cup {NoEvent}]
  BY <1>2 DEF Marked
<1>4. \A s \in S : WriteSlot(s, M[s]) \in Write
  <2>1. \A s \in S : M[s] \in AlertEvent /\ s \in Slot
    BY <1>2 DEF NewlyMarked, Taken
  <2> QED
    BY <2>1 DEF WriteSlot, Write
<1>5. /\ n \in Nat /\ DOMAIN InOrder(S) = 1 .. n /\ \A i \in 1 .. n : InOrder(S)[i] \in S
      /\ \A s \in S : \E i \in 1 .. n : InOrder(S)[i] = s
  BY <1>0, InOrderFacts
<1>6. MarkWrites(slots, ids) = [i \in 1 .. n |-> WriteSlot(InOrder(S)[i], M[InOrder(S)[i]])]
  BY <1>5 DEF MarkWrites
<1> HIDE DEF n, M, S
<1>7. MarkWrites(slots, ids) \in Seq(Write)
  <2>1. MarkWrites(slots, ids) \in [1 .. n -> Write]
    BY <1>4, <1>5, <1>6
  <2> QED
    BY <1>5, <2>1
<1>8. Range(MarkWrites(slots, ids)) =
         {WriteSlot(InOrder(S)[i], M[InOrder(S)[i]]) : i \in 1 .. n}
  BY <1>6 DEF Range
<1>9. Range(MarkWrites(slots, ids)) = {WriteSlot(s, M[s]) : s \in S}
  BY <1>5, <1>8
<1> QED
  BY <1>2, <1>3, <1>7, <1>9 DEF M, S

-----------------------------------------------------------------------------
(* Operators of the model                                                  *)

\* Losing trust in the records empties the history and nothing else does.
LEMMA KeptFacts ==
    ASSUME NEW l \in Ledger
    PROVE  /\ Kept(l) \in Ledger /\ Kept(l).trusted = l.trusted
           /\ l.trusted => Kept(l) = l
           /\ Kept(l).refused <= l.refused
<1>0. 0 \in 0 .. MaxEvents /\ l.refused \in 0 .. MaxEvents /\ l.refused <= l.refused
      /\ 0 <= l.refused
  BY QueueAssumption DEF Ledger
<1>1. [NewLedger EXCEPT !.trusted = FALSE] \in Ledger
  <2>1. NewLedger \in Ledger
    BY <1>0 DEF NewLedger, Ledger
  <2> QED
    BY <2>1 DEF Ledger
<1>2. CASE l.trusted
  <2>1. Kept(l) = l
    BY <1>2 DEF Kept
  <2> QED
    BY <1>0, <2>1
<1>3. CASE ~l.trusted
  <2>1. l.trusted = FALSE
    BY <1>3 DEF Ledger
  <2>2. Kept(l) = [NewLedger EXCEPT !.trusted = FALSE]
    BY <1>3 DEF Kept
  <2>3. Kept(l).trusted = FALSE /\ Kept(l).refused = 0
    BY <2>2 DEF NewLedger
  <2> QED
    BY <1>0, <1>1, <1>3, <2>1, <2>2, <2>3
<1> QED
  BY <1>2, <1>3

\* The queue that open makes of the records, and what it writes.
LEMMA Opened ==
    ASSUME nv \in Records, nv.boot < MaxBoots
    PROVE  /\ OpenedQueue \in Queue /\ OpenedQueue # NoQueue
           /\ OpenedQueue.boot = nv.boot + 1 /\ OpenedQueue.seq = 0
           /\ OpenedQueue.overflow = nv.overflow
           /\ \A s \in Slot : OpenedQueue.slots[s] =
                 IF s \in Taken(nv.slots, nv.ack) THEN NoEvent ELSE nv.slots[s]
           /\ OpenWrites(OpenedQueue) \in Seq(Write)
           /\ Range(OpenWrites(OpenedQueue)) =
                 {WriteMeta(OpenedQueue)}
                 \cup {EraseSlot(s, {}) : s \in Taken(nv.slots, nv.ack)}
<1> DEFINE q == OpenedQueue
           T == Taken(nv.slots, nv.ack)
<1>1. /\ q.boot = nv.boot + 1 /\ q.seq = 0 /\ q.overflow = nv.overflow
      /\ q.slots = [s \in Slot |-> IF s \in T THEN NoEvent ELSE nv.slots[s]]
      /\ q = [slots |-> q.slots, boot |-> q.boot, seq |-> q.seq, overflow |-> q.overflow]
  BY DEF OpenedQueue
<1>2. /\ nv.boot + 1 \in 1 .. MaxBoots /\ 0 \in 0 .. MaxEvents /\ nv.overflow \in 0 .. MaxEvents
      /\ nv.slots \in [Slot -> AlertEvent \cup {NoEvent}]
  BY QueueAssumption DEF Records
<1> HIDE DEF q
<1>3. q \in Queue
  BY <1>1, <1>2 DEF Queue
<1>4. q # NoQueue
  BY <1>1, <1>2 DEF NoQueue
<1>5. WriteMeta(q) \in Write
  BY <1>1, <1>2 DEF WriteMeta, Write
<1>6. T \in SUBSET Slot /\ {} \in SUBSET Event
  BY DEF Taken
<1>7. <<WriteMeta(q)>> \in Seq(Write) /\ Range(<<WriteMeta(q)>>) = {WriteMeta(q)}
  BY <1>5, RangeOne
<1>8. Erasures(T, {}) \in Seq(Write) /\ Range(Erasures(T, {})) = {EraseSlot(s, {}) : s \in T}
  BY <1>6, ErasuresFacts
<1>9. OpenWrites(q) = <<WriteMeta(q)>> \o Erasures(T, {})
  BY DEF OpenWrites
<1>10. /\ OpenWrites(q) \in Seq(Write)
       /\ Range(OpenWrites(q)) = {WriteMeta(q)} \cup {EraseSlot(s, {}) : s \in T}
  <2> DEFINE a == <<WriteMeta(q)>>
             b == Erasures(T, {})
  <2>1. a \in Seq(Write) /\ b \in Seq(Write)
    BY <1>7, <1>8
  <2> HIDE DEF a, b
  <2>2. a \o b \in Seq(Write) /\ Range(a \o b) = Range(a) \cup Range(b)
    BY <2>1, RangeConcat
  <2> QED
    BY <1>7, <1>8, <1>9, <2>2 DEF a, b
<1> QED
  BY <1>1, <1>3, <1>4, <1>10 DEF q

\* The writes of finish_alert_with after a delivery.
DeliveryTodo(done, ids, taken, lost, q, kept, left) ==
    AcknowledgeWrites(done, ids, taken)
       \o (IF lost > 0 THEN <<WriteMeta(q)>> ELSE <<>>)
       \o MarkWrites(kept, left)
DeliverySet(done, ids, taken, lost, q, kept, left) ==
    {WriteAck(ids, taken)} \cup {EraseSlot(s, taken) : s \in done}
       \cup (IF lost > 0 THEN {WriteMeta(q)} ELSE {})
       \cup {WriteSlot(s, Marked(kept, left)[s]) : s \in NewlyMarked(kept, left)}

\* They are a sequence of writes with the acknowledgement first.
LEMMA DeliveryWrites ==
    ASSUME NEW done \in SUBSET Slot, NEW ids \in SUBSET EventId, NEW taken \in SUBSET Event,
           NEW q \in Queue, NEW lost,
           NEW kept \in [Slot -> AlertEvent \cup {NoEvent}], NEW left
    PROVE  LET td == DeliveryTodo(done, ids, taken, lost, q, kept, left)
           IN  /\ td \in Seq(Write)
               /\ Range(td) = DeliverySet(done, ids, taken, lost, q, kept, left)
               /\ \A i \in DOMAIN td : td[i].type = "ack" => i = 1
<1> DEFINE a == <<WriteAck(ids, taken)>>
           e == Erasures(done, taken)
           m == IF lost > 0 THEN <<WriteMeta(q)>> ELSE <<>>
           k == MarkWrites(kept, left)
           rest == e \o m \o k
           td == (a \o e) \o m \o k
<1>1. WriteAck(ids, taken) \in Write /\ WriteMeta(q) \in Write
  BY DEF WriteAck, WriteMeta, Write, Queue
<1>2. a \in Seq(Write) /\ Range(a) = {WriteAck(ids, taken)} /\ Len(a) = 1
  BY <1>1, RangeOne
<1>3. e \in Seq(Write) /\ Range(e) = {EraseSlot(s, taken) : s \in done}
  BY ErasuresFacts
<1>4. m \in Seq(Write) /\ Range(m) = IF lost > 0 THEN {WriteMeta(q)} ELSE {}
  <2>1. CASE lost > 0
    BY <1>1, <2>1, RangeOne
  <2>2. CASE ~(lost > 0)
    BY <2>2 DEF Range
  <2> QED
    BY <2>1, <2>2
<1>5. k \in Seq(Write) /\ Range(k) = {WriteSlot(s, Marked(kept, left)[s]) :
                                         s \in NewlyMarked(kept, left)}
  BY MarkWritesFacts
<1> HIDE DEF a, e, m, k
<1>6. e \o m \in Seq(Write) /\ Range(e \o m) = Range(e) \cup Range(m)
  BY <1>3, <1>4, RangeConcat
<1>7. rest \in Seq(Write) /\ Range(rest) = Range(e \o m) \cup Range(k)
  <2> DEFINE em == e \o m
  <2>1. em \in Seq(Write)
    BY <1>6
  <2> HIDE DEF em
  <2>2. em \o k \in Seq(Write) /\ Range(em \o k) = Range(em) \cup Range(k)
    BY <1>5, <2>1, RangeConcat
  <2> QED
    BY <2>2 DEF em
<1>8. td = a \o rest
  BY <1>2, <1>3, <1>4, <1>5, <1>6, SMTT(30)
<1> HIDE DEF rest, td
<1>9. td \in Seq(Write) /\ Range(td) = Range(a) \cup Range(rest)
  BY <1>2, <1>7, <1>8, RangeConcat
<1>10. \A w \in Range(rest) : w.type # "ack"
  BY <1>3, <1>4, <1>5, <1>6, <1>7 DEF EraseSlot, WriteMeta, WriteSlot
<1>11. ASSUME NEW i \in DOMAIN td, i # 1
       PROVE  td[i].type # "ack"
  <2> DEFINE x == WriteAck(ids, taken)
  <2>1. a = <<x>> /\ x \in Write
    BY <1>1 DEF a
  <2> HIDE DEF x
  <2>2. i \in DOMAIN (<<x>> \o rest) /\ td = <<x>> \o rest
    BY <1>8, <2>1
  <2>3. (<<x>> \o rest)[i] \in Range(rest)
    BY <1>7, <1>11, <2>1, <2>2, AfterFirst
  <2> QED
    BY <1>10, <2>2, <2>3
<1>12. td = DeliveryTodo(done, ids, taken, lost, q, kept, left)
  BY DEF DeliveryTodo, AcknowledgeWrites, a, e, m, k, td
<1>13. Range(td) = DeliverySet(done, ids, taken, lost, q, kept, left)
  BY <1>2, <1>3, <1>4, <1>5, <1>6, <1>7, <1>9 DEF DeliverySet
<1> QED
  BY <1>9, <1>11, <1>12, <1>13

\* A write, by its type.
LEMMA WriteFacts ==
    ASSUME NEW w \in Write
    PROVE  /\ w.type \in {"meta", "ack", "slot", "erase"}
           /\ w.type = "meta" => w.boot \in 1 .. MaxBoots /\ w.overflow \in 0 .. MaxEvents
           /\ w.type = "ack" => w.ids \in SUBSET EventId /\ w.taken \in SUBSET Event
           /\ w.type = "slot" => w.slot \in Slot /\ w.value \in AlertEvent /\ w.value # NoEvent
           /\ w.type = "erase" => /\ w.slot \in Slot /\ w.value = NoEvent
                                  /\ w.taken \in SUBSET Event
<1>1. \A e \in AlertEvent : e # NoEvent
  BY DEF AlertEvent, NoEvent, Event
<1> QED
  BY <1>1 DEF Write

\* The elements of a sequence are its range.
LEMMA InRange ==
    ASSUME NEW s, NEW i \in DOMAIN s
    PROVE  s[i] \in Range(s)
  BY DEF Range

-----------------------------------------------------------------------------
(* The program's state, whether or not its writes succeed                  *)

BaseInv == TypeInvariant /\ RunInv /\ ScheduledWhilePending

\* Types follow from the parts that say more.
LEMMA BaseFacts ==
    ASSUME BaseInv
    PROVE  /\ queue # NoQueue => queue \in Queue
           /\ events \in Nat /\ nv \in Records /\ ledger \in Ledger
           /\ todo # <<>> => job = NoJob
  BY QueueAssumption DEF BaseInv, TypeInvariant, RunInv

\* What a sequence of writes must satisfy, by its range.
LEMMA TodoByRange ==
    ASSUME NEW td \in Seq(Write), NEW ev,
           \A w \in Range(td) : w.type # "ack" /\ (w.type = "meta" => w.overflow <= ev)
    PROVE  \A i \in DOMAIN td :
              /\ td[i].type = "meta" => td[i].overflow <= ev
              /\ td[i].type = "ack" => i = 1
  BY InRange

\* set_alert_config.
LEMMA BaseSet ==
    ASSUME BaseInv, NEW on \in BOOLEAN, NEW again \in BOOLEAN,
           SetAlertConfig(on, again)
    PROVE  BaseInv'
<1>1. /\ job = NoJob /\ todo = <<>> /\ job' = NoJob /\ events' = events /\ ledger' = ledger
      /\ enabled' = on /\ nv' = [nv EXCEPT !.enabled = on]
  BY DEF SetAlertConfig, Ready
<1>2. nv' \in Records /\ nv'.overflow = nv.overflow
  BY <1>1, BaseFacts DEF Records
<1>3. CASE on /\ queue = NoQueue
  <2>0. again
    BY <1>3 DEF SetAlertConfig, BaseInv, TypeInvariant
  <2>1. /\ nv.boot < MaxBoots /\ queue' = OpenedQueue /\ todo' = OpenWrites(OpenedQueue)
        /\ due' = (Pending(queue'.slots) # {}) /\ restoreFailed' = FALSE
    BY <1>3, <2>0 DEF SetAlertConfig
  <2>2. /\ queue' \in Queue /\ queue' # NoQueue /\ queue'.seq = 0 /\ queue'.overflow = nv.overflow
        /\ todo' \in Seq(Write)
        /\ Range(todo') = {WriteMeta(queue')}
                          \cup {EraseSlot(s, {}) : s \in Taken(nv.slots, nv.ack)}
    BY <2>1, BaseFacts, Opened
  <2>3. nv.overflow <= events /\ 0 <= events
    BY BaseFacts DEF BaseInv, RunInv
  <2>4. \A w \in Range(todo') : w.type # "ack" /\ (w.type = "meta" => w.overflow <= events)
    BY <2>2, <2>3 DEF WriteMeta, EraseSlot
  <2>5. \A i \in DOMAIN todo' : /\ todo'[i].type = "meta" => todo'[i].overflow <= events
                                /\ todo'[i].type = "ack" => i = 1
    BY <2>2, <2>4, TodoByRange
  <2>6. TypeInvariant'
    BY <1>1, <1>2, <2>1, <2>2 DEF BaseInv, TypeInvariant
  <2>7. RunInv'
    BY <1>1, <1>2, <2>2, <2>3, <2>5 DEF BaseInv, RunInv
  <2>8. ScheduledWhilePending'
    BY <2>1 DEF ScheduledWhilePending
  <2> QED
    BY <2>6, <2>7, <2>8 DEF BaseInv
<1>4. CASE on /\ queue # NoQueue
  <2>1. /\ queue' = queue /\ todo' = <<>> /\ restoreFailed' = FALSE
        /\ due' = IF again THEN Pending(queue'.slots) # {} ELSE due
        /\ ~enabled => again
    BY <1>4 DEF SetAlertConfig
  <2>2. TypeInvariant'
    <3>1. due' \in BOOLEAN
      BY <2>1 DEF BaseInv, TypeInvariant
    <3> QED
      BY <1>1, <1>2, <1>4, <2>1, <3>1 DEF BaseInv, TypeInvariant
  <2>3. RunInv'
    BY <1>1, <1>2, <2>1 DEF BaseInv, RunInv
  <2>4. ScheduledWhilePending'
    BY <1>4, <2>1 DEF ScheduledWhilePending, BaseInv
  <2> QED
    BY <2>2, <2>3, <2>4 DEF BaseInv
<1>5. CASE ~on
  <2>1. UNCHANGED <<queue, todo, due, restoreFailed>>
    BY <1>5 DEF SetAlertConfig
  <2>2. TypeInvariant'
    BY <1>1, <1>2, <1>5, <2>1 DEF BaseInv, TypeInvariant
  <2>3. RunInv'
    BY <1>1, <1>2, <2>1 DEF BaseInv, RunInv
  <2>4. ScheduledWhilePending'
    BY <1>1, <1>5 DEF ScheduledWhilePending
  <2> QED
    BY <2>2, <2>3, <2>4 DEF BaseInv
<1> QED
  BY <1>3, <1>4, <1>5

\* Hub::factory_reset.
LEMMA BaseReset ==
    ASSUME BaseInv, FactoryReset
    PROVE  BaseInv'
<1>1. /\ nv' = NoRecords /\ ledger' = Kept([ledger EXCEPT !.trusted = FALSE])
      /\ UNCHANGED <<enabled, queue, due, restoreFailed, job, todo, events>>
  BY DEF FactoryReset
<1>2. nv' \in Records /\ nv'.overflow = 0
  BY <1>1, QueueAssumption DEF NoRecords, Records, Empty
<1>3. ledger' \in Ledger /\ ledger'.refused <= events
  <2> DEFINE l == [ledger EXCEPT !.trusted = FALSE]
  <2>0. ledger \in Ledger
    BY BaseFacts
  <2>1. l \in Ledger /\ l.refused = ledger.refused
    BY <2>0 DEF Ledger
  <2> HIDE DEF l
  <2>2. Kept(l) \in Ledger /\ Kept(l).refused <= l.refused /\ Kept(l).refused \in Int
    BY <2>1, KeptFacts DEF Ledger
  <2>3. ledger.refused <= events /\ events \in Int /\ ledger.refused \in Int
    BY <2>0, BaseFacts DEF BaseInv, RunInv, Ledger
  <2> QED
    BY <1>1, <2>1, <2>2, <2>3 DEF l
<1>4. TypeInvariant'
  BY <1>1, <1>2, <1>3 DEF BaseInv, TypeInvariant
<1>5. RunInv'
  <2>1. 0 <= events
    BY BaseFacts
  <2> QED
    BY <1>1, <1>2, <1>3, <2>1 DEF BaseInv, RunInv
<1>6. ScheduledWhilePending'
  BY <1>1 DEF BaseInv, ScheduledWhilePending
<1> QED
  BY <1>4, <1>5, <1>6 DEF BaseInv

\* queue_alert.
LEMMA BaseQueue ==
    ASSUME BaseInv, QueueAlert
    PROVE  BaseInv'
<1>1. /\ job = NoJob /\ todo = <<>> /\ job' = NoJob /\ events' = events + 1 /\ enabled
      /\ nv' = nv /\ enabled' = enabled /\ restoreFailed' = restoreFailed /\ events < MaxEvents
  BY DEF QueueAlert, Ready
<1>2. /\ queue # NoQueue /\ queue \in Queue /\ events \in Nat /\ events' \in 0 .. MaxEvents
      /\ events + 1 \in Event /\ nv \in Records /\ ledger \in Ledger
  BY <1>1, BaseFacts, QueueAssumption DEF BaseInv, TypeInvariant, Event
<1>3. /\ queue.boot \in 1 .. MaxBoots /\ queue.seq \in Nat /\ queue.overflow \in Nat
      /\ nv.overflow \in Nat /\ ledger.refused \in Nat
      /\ queue.slots \in [Slot -> AlertEvent \cup {NoEvent}]
      /\ queue = [slots |-> queue.slots, boot |-> queue.boot, seq |-> queue.seq,
                  overflow |-> queue.overflow]
  BY <1>2, QueueAssumption DEF Queue, Records, Ledger
<1>4. /\ queue.seq <= events /\ queue.overflow <= events /\ nv.overflow <= events
      /\ ledger.refused <= events
  BY <1>2 DEF BaseInv, RunInv
<1>5. /\ queue.seq + 1 \in 0 .. MaxEvents /\ queue.overflow + 1 \in 0 .. MaxEvents
      /\ queue.seq + 1 <= events + 1 /\ queue.overflow <= events + 1
      /\ queue.overflow + 1 <= events + 1 /\ nv.overflow <= events + 1
      /\ ledger.refused <= events + 1 /\ ledger.refused + 1 <= events + 1
      /\ ledger.refused + 1 \in 0 .. MaxEvents
  <2>1. \A a \in Nat : a <= events =>
           a + 1 \in 0 .. MaxEvents /\ a + 1 <= events + 1 /\ a <= events + 1
    BY <1>1, <1>2, QueueAssumption
  <2> QED
    BY <1>3, <1>4, <2>1
<1>6. CASE PushFull
  <2>1. /\ queue' = [queue EXCEPT !.seq = @ + 1, !.overflow = @ + 1]
        /\ todo' = <<WriteMeta(queue')>> /\ due' = due
        /\ ledger' = Kept([ledger EXCEPT !.refused = @ + 1])
    BY <1>6 DEF PushFull
  <2>2. /\ queue' \in Queue /\ queue'.slots = queue.slots /\ queue'.boot = queue.boot
        /\ queue'.seq = queue.seq + 1 /\ queue'.overflow = queue.overflow + 1
    BY <1>2, <1>5, <2>1 DEF Queue
  <2>3. queue' # NoQueue
    BY <1>3, <2>2 DEF NoQueue
  <2>4. WriteMeta(queue') \in Write
    BY <1>3, <1>5, <2>2 DEF WriteMeta, Write
  <2>5. todo' \in Seq(Write) /\ Range(todo') = {WriteMeta(queue')}
    BY <2>1, <2>4, RangeOne
  <2>6. \A w \in Range(todo') : w.type # "ack" /\ (w.type = "meta" => w.overflow <= events')
    BY <1>1, <1>5, <2>2, <2>5 DEF WriteMeta
  <2>7. ledger' \in Ledger /\ ledger'.refused <= events'
    <3> DEFINE l == [ledger EXCEPT !.refused = @ + 1]
    <3>1. l \in Ledger /\ l.refused = ledger.refused + 1
      BY <1>2, <1>5 DEF Ledger
    <3> HIDE DEF l
    <3>2. Kept(l) \in Ledger /\ Kept(l).refused <= l.refused /\ Kept(l).refused \in Int
      BY <3>1, KeptFacts DEF Ledger
    <3> QED
      BY <1>1, <1>2, <1>3, <1>5, <2>1, <3>1, <3>2 DEF l
  <2>8. \A i \in DOMAIN todo' : /\ todo'[i].type = "meta" => todo'[i].overflow <= events'
                                /\ todo'[i].type = "ack" => i = 1
    BY <2>5, <2>6, TodoByRange
  <2>9. TypeInvariant'
    BY <1>1, <1>2, <2>1, <2>2, <2>3, <2>7 DEF BaseInv, TypeInvariant
  <2>10. RunInv'
    BY <1>1, <1>2, <1>5, <2>2, <2>3, <2>5, <2>7, <2>8 DEF RunInv
  <2>11. ScheduledWhilePending'
    BY <1>1, <1>2, <2>1, <2>2 DEF BaseInv, ScheduledWhilePending
  <2> QED
    BY <2>9, <2>10, <2>11 DEF BaseInv
<1>7. CASE PushStored
  <2> DEFINE s == InOrder(Free(queue.slots))[1]
             e == [id |-> [boot |-> queue.boot, seq |-> queue.seq],
                   event |-> events + 1, ambiguous |-> FALSE]
  <2>1. /\ queue' = [queue EXCEPT !.seq = @ + 1, !.slots[s] = e]
        /\ todo' = <<WriteSlot(s, e)>> /\ due' = TRUE /\ ledger' = ledger
        /\ Free(queue.slots) # {}
    BY <1>7 DEF PushStored
  <2>2. s \in Slot
    BY <2>1, FirstFree
  <2>3. e \in AlertEvent
    <3>1. [boot |-> queue.boot, seq |-> queue.seq] \in EventId
      BY <1>2 DEF Queue, EventId
    <3> QED
      BY <1>2, <3>1 DEF AlertEvent
  <2> HIDE DEF s, e
  <2>4. /\ queue' \in Queue /\ queue'.boot = queue.boot
        /\ queue'.seq = queue.seq + 1 /\ queue'.overflow = queue.overflow
    BY <1>2, <1>5, <2>1, <2>2, <2>3 DEF Queue
  <2>5. queue' # NoQueue
    BY <1>3, <2>4 DEF NoQueue
  <2>6. WriteSlot(s, e) \in Write /\ WriteSlot(s, e).type = "slot"
    BY <2>2, <2>3 DEF WriteSlot, Write
  <2>7. todo' \in Seq(Write) /\ Range(todo') = {WriteSlot(s, e)}
    BY <2>1, <2>6, RangeOne
  <2>8. \A i \in DOMAIN todo' : /\ todo'[i].type = "meta" => todo'[i].overflow <= events'
                                /\ todo'[i].type = "ack" => i = 1
    <3>1. \A w \in Range(todo') : w.type # "ack" /\ (w.type = "meta" => w.overflow <= events')
      BY <2>6, <2>7
    <3> QED
      BY <2>7, <3>1, TodoByRange
  <2>9. TypeInvariant'
    BY <1>1, <1>2, <2>1, <2>4, <2>5 DEF BaseInv, TypeInvariant
  <2>10. RunInv'
    BY <1>1, <1>2, <1>5, <2>1, <2>4, <2>5, <2>7, <2>8 DEF RunInv
  <2>11. ScheduledWhilePending'
    BY <2>1 DEF ScheduledWhilePending
  <2> QED
    BY <2>9, <2>10, <2>11 DEF BaseInv
<1> QED
  BY <1>6, <1>7 DEF QueueAlert

\* alert_due and prepare_alert_with.
LEMMA BasePrepare ==
    ASSUME BaseInv, PrepareAlert
    PROVE  BaseInv'
<1>1. /\ job = NoJob /\ todo = <<>> /\ queue # NoQueue
      /\ UNCHANGED <<enabled, queue, due, restoreFailed, todo, nv, events, ledger>>
  BY DEF PrepareAlert, Ready, CanRun
<1>2. PICK n \in 1 .. Cardinality(Pending(queue.slots)) :
      \E ss \in Oldest(queue.slots, n), lost \in {0, queue.overflow} :
         job' = [sent |-> {[id |-> queue.slots[s].id, event |-> queue.slots[s].event] : s \in ss},
                 overflow |-> lost]
  BY DEF PrepareAlert
<1>3. PICK ss \in Oldest(queue.slots, n), lost \in {0, queue.overflow} :
         job' = [sent |-> {[id |-> queue.slots[s].id, event |-> queue.slots[s].event] : s \in ss},
                 overflow |-> lost]
  BY <1>2
<1>4. /\ queue \in Queue /\ lost \in 0 .. MaxEvents
      /\ queue.slots \in [Slot -> AlertEvent \cup {NoEvent}]
  BY <1>1, BaseFacts, QueueAssumption DEF Queue
<1>5. \A s \in ss : s \in Slot /\ queue.slots[s] # NoEvent /\ queue.slots[s] \in AlertEvent
  BY <1>4 DEF Oldest, Pending, Free
<1>6. \A x \in job'.sent : \E s \in Slot :
         /\ queue.slots[s] # NoEvent
         /\ queue.slots[s].id = x.id /\ queue.slots[s].event = x.event
  BY <1>3, <1>5
<1>7. job' \in Job /\ job'.overflow = lost
  <2>1. \A s \in ss : [id |-> queue.slots[s].id, event |-> queue.slots[s].event]
                         \in [id : EventId, event : Event]
    BY <1>5 DEF AlertEvent
  <2> QED
    BY <1>3, <1>4, <2>1 DEF Job
<1>8. Events(job'.sent) \subseteq EventsIn(queue.slots)
  BY <1>6 DEF Events, EventsIn, Pending, Free
<1>9. TypeInvariant'
  BY <1>1, <1>7, <1>8 DEF BaseInv, TypeInvariant
<1>10. RunInv'
  BY <1>1, <1>6, <1>7 DEF BaseInv, RunInv
<1>11. ScheduledWhilePending'
  BY <1>1 DEF BaseInv, ScheduledWhilePending
<1> QED
  BY <1>9, <1>10, <1>11 DEF BaseInv

\* No attempt is an attempt without events.
LEMMA IdleJob == NoJob \in Job
  BY QueueAssumption DEF NoJob, Job

\* An attempt is for a queue and finds no handler running.
LEMMA JobFacts ==
    ASSUME BaseInv, job # NoJob
    PROVE  /\ todo = <<>> /\ queue # NoQueue /\ queue \in Queue /\ job \in Job
           /\ job.overflow \in {0, queue.overflow} /\ job.overflow \in Nat
           /\ queue.overflow \in Nat
           /\ queue.slots \in [Slot -> AlertEvent \cup {NoEvent}]
           /\ \A x \in job.sent : /\ x.id \in EventId /\ x.event \in Event
                                  /\ \E s \in Slot : /\ queue.slots[s] # NoEvent
                                                     /\ queue.slots[s].id = x.id
                                                     /\ queue.slots[s].event = x.event
           /\ Ids(job.sent) \in SUBSET EventId /\ Events(job.sent) \in SUBSET Event
<1>1. /\ todo = <<>> /\ queue # NoQueue /\ queue \in Queue /\ job \in Job
      /\ job.overflow \in {0, queue.overflow}
      /\ \A x \in job.sent : \E s \in Slot : /\ queue.slots[s] # NoEvent
                                             /\ queue.slots[s].id = x.id
                                             /\ queue.slots[s].event = x.event
  BY BaseFacts DEF BaseInv, RunInv, TypeInvariant
<1>2. \A x \in job.sent : x.id \in EventId /\ x.event \in Event
  BY <1>1 DEF Job
<1>3. queue.overflow \in Nat /\ queue.slots \in [Slot -> AlertEvent \cup {NoEvent}]
  BY <1>1, QueueAssumption DEF Queue
<1> QED
  BY <1>1, <1>2, <1>3 DEF Ids, Events

\* The history grows by what the destination received and was told.
Publish(l, P, n) == [l EXCEPT !.published = @ \cup P, !.reported = @ + n]
Reach(l, P) == [l EXCEPT !.published = @ \cup P]

\* What such a step changes of the history, and what it leaves.
LEMMA PublishFacts ==
    ASSUME NEW l \in Ledger, NEW P \in SUBSET Event, NEW n \in Nat
    PROVE  LET m == Publish(l, P, n)
               k == Reach(l, P)
           IN  /\ m \in Ledger /\ k \in Ledger
               /\ m.published = l.published \cup P /\ k.published = l.published \cup P
               /\ m.reported = l.reported + n /\ k.reported = l.reported
               /\ m.stored = l.stored /\ k.stored = l.stored
               /\ m.settled = l.settled /\ k.settled = l.settled
               /\ m.cut = l.cut /\ k.cut = l.cut
               /\ m.refused = l.refused /\ k.refused = l.refused
               /\ m.trusted = l.trusted /\ k.trusted = l.trusted
<1>1. /\ l.published \cup P \in SUBSET Event /\ l.reported + n \in Nat
  BY DEF Ledger
<1> DEFINE m == [l EXCEPT !.published = @ \cup P, !.reported = @ + n]
           k == [l EXCEPT !.published = @ \cup P]
<1>2. m \in Ledger
  BY <1>1 DEF Ledger
<1>3. k \in Ledger
  BY <1>1 DEF Ledger
<1>4. m.published = l.published \cup P /\ k.published = l.published \cup P
  BY DEF Ledger
<1>5. m.reported = l.reported + n /\ k.reported = l.reported
  BY DEF Ledger
<1>6. /\ m.stored = l.stored /\ k.stored = l.stored /\ m.settled = l.settled
      /\ k.settled = l.settled /\ m.cut = l.cut /\ k.cut = l.cut
      /\ m.refused = l.refused /\ k.refused = l.refused
  BY DEF Ledger
<1>7. m.trusted = l.trusted /\ k.trusted = l.trusted
  BY DEF Ledger
<1> QED
  BY <1>2, <1>3, <1>4, <1>5, <1>6, <1>7 DEF Publish, Reach

\* A heartbeat or a probe.
LEMMA BaseIdle ==
    ASSUME BaseInv, IdleAttempt
    PROVE  BaseInv'
<1>1. /\ restoreFailed' = TRUE
      /\ UNCHANGED <<enabled, queue, due, job, todo, nv, events, ledger>>
  BY DEF IdleAttempt
<1>2. TypeInvariant'
  BY <1>1 DEF BaseInv, TypeInvariant
<1>3. RunInv'
  BY <1>1 DEF BaseInv, RunInv
<1>4. ScheduledWhilePending'
  BY <1>1 DEF BaseInv, ScheduledWhilePending
<1> QED
  BY <1>2, <1>3, <1>4 DEF BaseInv

\* The queue after a delivery of ids: their slots are free, the other events
\* of the message are marked, and the reported losses are taken off.
DeliveredSlots(ids) ==
    [s \in Slot |-> IF s \in Taken(queue.slots, ids) THEN NoEvent ELSE queue.slots[s]]
DeliveredQueue(ids) ==
    [queue EXCEPT !.slots = Marked(DeliveredSlots(ids), Ids(job.sent) \ ids),
                  !.overflow = IF job.overflow > @ THEN 0 ELSE @ - job.overflow]
DeliveredEvents(ids) == Events({x \in job.sent : x.id \in ids})

\* The queue and the writes after a delivery, from the state before.
LEMMA Delivered ==
    ASSUME BaseInv, job # NoJob, NEW ids \in SUBSET Ids(job.sent)
    PROVE  LET q == DeliveredQueue(ids)
               kept == DeliveredSlots(ids)
               left == Ids(job.sent) \ ids
               taken == DeliveredEvents(ids)
               done == Taken(queue.slots, ids)
               td == DeliveryTodo(done, ids, taken, job.overflow, q, kept, left)
           IN  /\ q \in Queue /\ q # NoQueue /\ q.boot = queue.boot /\ q.seq = queue.seq
               /\ q.overflow = queue.overflow - job.overflow /\ q.overflow \in Nat
               /\ q.slots = Marked(kept, left)
               /\ kept \in [Slot -> AlertEvent \cup {NoEvent}]
               /\ ids \in SUBSET EventId
               /\ taken \in SUBSET Event /\ taken \subseteq Events(job.sent)
               /\ done \in SUBSET Slot
               /\ td \in Seq(Write)
               /\ Range(td) = DeliverySet(done, ids, taken, job.overflow, q, kept, left)
               /\ \A i \in DOMAIN td : td[i].type = "ack" => i = 1
<1> DEFINE q == DeliveredQueue(ids)
           kept == DeliveredSlots(ids)
           left == Ids(job.sent) \ ids
           taken == DeliveredEvents(ids)
           done == Taken(queue.slots, ids)
           over == IF job.overflow > queue.overflow THEN 0 ELSE queue.overflow - job.overflow
<1>1. done \in SUBSET Slot
  BY DEF Taken
<1>2. kept \in [Slot -> AlertEvent \cup {NoEvent}]
  BY JobFacts DEF DeliveredSlots
<1>3. ids \in SUBSET EventId
  BY JobFacts
<1>4. taken \in SUBSET Event /\ taken \subseteq Events(job.sent)
  BY JobFacts DEF DeliveredEvents, Events
<1>5. Marked(kept, left) \in [Slot -> AlertEvent \cup {NoEvent}]
  BY <1>2, MarkWritesFacts
<1>6. over = queue.overflow - job.overflow /\ over \in Nat /\ over \in 0 .. MaxEvents
  <2>1. /\ queue.overflow \in Nat /\ job.overflow \in Nat
        /\ job.overflow \in {0, queue.overflow} /\ queue.overflow <= MaxEvents
    BY JobFacts DEF Queue
  <2> QED
    BY <2>1, QueueAssumption
<1>7. queue \in Queue
  BY JobFacts
<1> HIDE DEF kept, left, over
<1>8. q = [queue EXCEPT !.slots = Marked(kept, left), !.overflow = over]
  BY DEF DeliveredQueue, kept, left, over
<1>9. /\ q \in Queue /\ q.boot = queue.boot /\ q.seq = queue.seq
      /\ q.overflow = over /\ q.slots = Marked(kept, left)
  BY <1>5, <1>6, <1>7, <1>8 DEF Queue
<1>10. q # NoQueue
  <2>1. q.boot # 0
    BY <1>9 DEF Queue
  <2> QED
    BY <2>1 DEF NoQueue
<1> HIDE DEF q, taken, done
<1> DEFINE td == DeliveryTodo(done, ids, taken, job.overflow, q, kept, left)
<1>11. /\ td \in Seq(Write)
       /\ Range(td) = DeliverySet(done, ids, taken, job.overflow, q, kept, left)
       /\ \A i \in DOMAIN td : td[i].type = "ack" => i = 1
  BY <1>1, <1>2, <1>3, <1>4, <1>9, DeliveryWrites
<1> QED
  BY <1>1, <1>2, <1>3, <1>4, <1>6, <1>9, <1>10, <1>11 DEF q, kept, left, taken, done

\* finish_alert_with after an answer that takes some of the events.
LEMMA BaseDelivered ==
    ASSUME BaseInv, NEW restored \in BOOLEAN, NEW ids \in SUBSET Ids(job.sent),
           FinishDelivered(ids, restored)
    PROVE  BaseInv'
<1> DEFINE q == DeliveredQueue(ids)
           kept == DeliveredSlots(ids)
           left == Ids(job.sent) \ ids
           taken == DeliveredEvents(ids)
           done == Taken(queue.slots, ids)
           td == DeliveryTodo(done, ids, taken, job.overflow, q, kept, left)
<1>1. /\ job # NoJob /\ restoreFailed' = ~restored /\ job' = NoJob
      /\ UNCHANGED <<enabled, nv, events>>
      /\ queue' = q /\ todo' = td /\ due' = Reschedule(q.slots)
      /\ \E more \in {{}, Events(job.sent)} :
            ledger' = Kept([ledger EXCEPT !.published = @ \cup taken \cup more,
                                          !.reported = @ + job.overflow])
  BY DEF FinishDelivered, DeliveredQueue, DeliveredSlots, DeliveredEvents, DeliveryTodo
<1>2. /\ q \in Queue /\ q # NoQueue /\ q.seq = queue.seq
      /\ q.overflow = queue.overflow - job.overflow /\ q.overflow \in Nat
      /\ taken \in SUBSET Event
      /\ td \in Seq(Write)
      /\ Range(td) = DeliverySet(done, ids, taken, job.overflow, q, kept, left)
      /\ \A i \in DOMAIN td : td[i].type = "ack" => i = 1
  BY <1>1, Delivered
<1> HIDE DEF q, kept, left, taken, done, td
<1>3. /\ queue.overflow \in Nat /\ job.overflow \in Nat /\ events \in Nat
      /\ queue.overflow <= events /\ queue.seq <= events /\ nv.overflow <= events
  BY <1>1, JobFacts, BaseFacts DEF BaseInv, RunInv
<1>4. q.overflow <= events
  BY <1>2, <1>3
<1>5. \A w \in Range(td) : w.type = "meta" => w.overflow <= events
  BY <1>2, <1>4 DEF DeliverySet, WriteAck, EraseSlot, WriteMeta, WriteSlot
<1>6. \A i \in DOMAIN td : td[i].type = "meta" => td[i].overflow <= events
  BY <1>5, InRange
<1>7. ledger' \in Ledger /\ ledger'.refused <= events
  <2>0. ledger \in Ledger
    BY BaseFacts
  <2>1. PICK more \in {{}, Events(job.sent)} :
            ledger' = Kept([ledger EXCEPT !.published = @ \cup taken \cup more,
                                          !.reported = @ + job.overflow])
    BY <1>1
  <2> DEFINE P == taken \cup more
             l == Publish(ledger, P, job.overflow)
  <2>2. P \in SUBSET Event
    BY <1>1, <1>2, JobFacts
  <2>3. ledger' = Kept(l)
    <3>1. ledger.published \cup taken \cup more = ledger.published \cup P
      OBVIOUS
    <3> QED
      BY <2>1, <3>1 DEF Publish
  <2> HIDE DEF P
  <2>4. l \in Ledger /\ l.refused = ledger.refused
    BY <1>3, <2>0, <2>2, PublishFacts
  <2> HIDE DEF l
  <2>5. Kept(l) \in Ledger /\ Kept(l).refused <= l.refused /\ Kept(l).refused \in Int
    BY <2>4, KeptFacts DEF Ledger
  <2>6. ledger.refused <= events /\ ledger.refused \in Int
    BY <2>0 DEF BaseInv, RunInv, Ledger
  <2> QED
    BY <1>3, <2>3, <2>4, <2>5, <2>6
<1>8. TypeInvariant'
  BY <1>1, <1>2, <1>7, IdleJob DEF BaseInv, TypeInvariant, Reschedule
<1>9. RunInv'
  BY <1>1, <1>2, <1>3, <1>4, <1>6, <1>7 DEF RunInv
<1>10. ScheduledWhilePending'
  BY <1>1 DEF ScheduledWhilePending, Reschedule
<1> QED
  BY <1>8, <1>9, <1>10 DEF BaseInv

\* finish_alert_with after any other outcome.
LEMMA BaseFailed ==
    ASSUME BaseInv, NEW restored \in BOOLEAN, NEW ambiguous \in BOOLEAN,
           FinishFailed(ambiguous, restored)
    PROVE  BaseInv'
<1> DEFINE left == Ids(job.sent)
           M == Marked(queue.slots, left)
           W == MarkWrites(queue.slots, left)
<1>1. /\ job # NoJob /\ restoreFailed' = ~restored /\ job' = NoJob /\ due' = TRUE
      /\ UNCHANGED <<enabled, nv, events>>
      /\ queue' = IF ambiguous THEN [queue EXCEPT !.slots = M] ELSE queue
      /\ todo' = IF ambiguous THEN W ELSE <<>>
      /\ \E seen \in {{}, IF ambiguous THEN Events(job.sent) ELSE {}} :
            ledger' = Kept([ledger EXCEPT !.published = @ \cup seen])
  BY DEF FinishFailed
<1>2. /\ queue \in Queue /\ queue.slots \in [Slot -> AlertEvent \cup {NoEvent}]
      /\ queue # NoQueue /\ todo = <<>> /\ Events(job.sent) \in SUBSET Event
  BY <1>1, JobFacts
<1>3. /\ M \in [Slot -> AlertEvent \cup {NoEvent}]
      /\ W \in Seq(Write)
      /\ Range(W) = {WriteSlot(s, M[s]) : s \in NewlyMarked(queue.slots, left)}
  BY <1>2, MarkWritesFacts
<1> HIDE DEF left, M, W
<1>4. /\ queue' \in Queue /\ queue'.seq = queue.seq /\ queue'.boot = queue.boot
      /\ queue'.overflow = queue.overflow
  BY <1>1, <1>2, <1>3 DEF Queue
<1>5. queue' # NoQueue
  <2>1. queue'.boot # 0
    BY <1>4 DEF Queue
  <2> QED
    BY <2>1 DEF NoQueue
<1>6. todo' \in Seq(Write) /\ \A w \in Range(todo') : w.type = "slot"
  <2>1. CASE ambiguous
    BY <1>1, <1>3, <2>1 DEF WriteSlot
  <2>2. CASE ~ambiguous
    BY <1>1, <2>2 DEF Range
  <2> QED
    BY <2>1, <2>2
<1>7. \A i \in DOMAIN todo' : /\ todo'[i].type = "meta" => todo'[i].overflow <= events
                              /\ todo'[i].type = "ack" => i = 1
  BY <1>6, TodoByRange
<1>8. ledger' \in Ledger /\ ledger'.refused <= events
  <2>0. ledger \in Ledger /\ 0 \in Nat
    BY BaseFacts
  <2>1. PICK seen \in {{}, IF ambiguous THEN Events(job.sent) ELSE {}} :
            ledger' = Kept(Reach(ledger, seen))
    BY <1>1 DEF Reach
  <2>2. seen \in SUBSET Event
    BY <1>2
  <2> DEFINE l == Reach(ledger, seen)
  <2>3. l \in Ledger /\ l.refused = ledger.refused
    BY <2>0, <2>2, PublishFacts
  <2> HIDE DEF l
  <2>4. Kept(l) \in Ledger /\ Kept(l).refused <= l.refused /\ Kept(l).refused \in Int
    BY <2>3, KeptFacts DEF Ledger
  <2>5. ledger.refused <= events /\ ledger.refused \in Int /\ events \in Int
    BY <2>0, BaseFacts DEF BaseInv, RunInv, Ledger
  <2> QED
    BY <2>1, <2>3, <2>4, <2>5 DEF l
<1>9. TypeInvariant'
  BY <1>1, <1>4, <1>5, <1>8, IdleJob DEF BaseInv, TypeInvariant
<1>10. RunInv'
  BY <1>1, <1>2, <1>4, <1>5, <1>6, <1>7, <1>8 DEF BaseInv, RunInv
<1>11. ScheduledWhilePending'
  BY <1>1 DEF ScheduledWhilePending
<1> QED
  BY <1>9, <1>10, <1>11 DEF BaseInv

\* The history after a write.
Recorded(l, w, ok) ==
    [l EXCEPT !.stored = IF ok /\ w.type = "slot" THEN @ \cup {w.value.event} ELSE @,
              !.settled = IF w.type \in {"ack", "erase"} THEN @ \cup w.taken ELSE @,
              !.trusted = @ /\ ok]

\* What a write changes of the history, and what it leaves.
LEMMA RecordedFacts ==
    ASSUME NEW l \in Ledger, NEW w \in Write, NEW ok \in BOOLEAN
    PROVE  LET m == Recorded(l, w, ok)
           IN  /\ m \in Ledger
               /\ m.stored = (IF ok /\ w.type = "slot" THEN l.stored \cup {w.value.event}
                              ELSE l.stored)
               /\ m.settled = (IF w.type \in {"ack", "erase"} THEN l.settled \cup w.taken
                               ELSE l.settled)
               /\ m.trusted = (l.trusted /\ ok)
               /\ m.published = l.published /\ m.cut = l.cut
               /\ m.refused = l.refused /\ m.reported = l.reported
<1> DEFINE m == Recorded(l, w, ok)
           st == IF ok /\ w.type = "slot" THEN l.stored \cup {w.value.event} ELSE l.stored
           se == IF w.type \in {"ack", "erase"} THEN l.settled \cup w.taken ELSE l.settled
           tr == l.trusted /\ ok
<1>1. st \in SUBSET Event
  <2>1. w.type = "slot" => w.value.event \in Event
    BY WriteFacts DEF AlertEvent
  <2>2. l.stored \in SUBSET Event
    BY DEF Ledger
  <2> QED
    BY <2>1, <2>2
<1>2. se \in SUBSET Event
  <2>1. w.type \in {"ack", "erase"} => w.taken \in SUBSET Event
    BY WriteFacts
  <2>2. l.settled \in SUBSET Event
    BY DEF Ledger
  <2> QED
    BY <2>1, <2>2
<1>3. tr \in BOOLEAN
  OBVIOUS
<1>4. m = [l EXCEPT !.stored = st, !.settled = se, !.trusted = tr]
  BY DEF Recorded
<1> HIDE DEF m, st, se, tr
<1>5. m \in Ledger
  BY <1>1, <1>2, <1>3, <1>4 DEF Ledger
<1>6. m.stored = st /\ m.settled = se
  BY <1>4 DEF Ledger
<1>7. m.trusted = tr
  BY <1>4 DEF Ledger
<1>8. /\ m.published = l.published /\ m.cut = l.cut /\ m.refused = l.refused
      /\ m.reported = l.reported
  BY <1>4 DEF Ledger
<1> QED
  BY <1>5, <1>6, <1>7, <1>8 DEF m, st, se, tr

\* The records after a write.
LEMMA WrittenFacts ==
    ASSUME nv \in Records, NEW w \in Write
    PROVE  /\ Written(w) \in Records
           /\ w.type = "meta" => /\ Written(w).boot = w.boot /\ Written(w).overflow = w.overflow
                                 /\ Written(w).ack = nv.ack /\ Written(w).slots = nv.slots
           /\ w.type = "ack" => /\ Written(w).ack = w.ids /\ Written(w).slots = nv.slots
                                /\ Written(w).boot = nv.boot
                                /\ Written(w).overflow = nv.overflow
           /\ w.type \in {"slot", "erase"} =>
                 /\ Written(w).slots = [nv.slots EXCEPT ![w.slot] = w.value]
                 /\ Written(w).boot = nv.boot /\ Written(w).overflow = nv.overflow
                 /\ Written(w).ack = nv.ack
<1>1. CASE w.type = "meta"
  <2>1. Written(w) = [nv EXCEPT !.boot = w.boot, !.overflow = w.overflow]
    BY <1>1 DEF Written
  <2>2. w.boot \in 0 .. MaxBoots /\ w.overflow \in 0 .. MaxEvents
    BY <1>1, WriteFacts
  <2> QED
    BY <1>1, <2>1, <2>2 DEF Records
<1>2. CASE w.type = "ack"
  <2>1. Written(w) = [nv EXCEPT !.ack = w.ids]
    BY <1>2 DEF Written
  <2>2. w.ids \in SUBSET EventId
    BY <1>2, WriteFacts
  <2> QED
    BY <1>2, <2>1, <2>2 DEF Records
<1>3. CASE w.type \in {"slot", "erase"}
  <2>1. Written(w) = [nv EXCEPT !.slots[w.slot] = w.value]
    BY <1>3 DEF Written
  <2>2. w.slot \in Slot /\ w.value \in AlertEvent \cup {NoEvent}
    BY <1>3, WriteFacts
  <2> DEFINE f == [nv.slots EXCEPT ![w.slot] = w.value]
  <2>3. f \in [Slot -> AlertEvent \cup {NoEvent}]
    BY <2>2 DEF Records
  <2>4. Written(w) = [nv EXCEPT !.slots = f]
    BY <2>1
  <2> HIDE DEF f
  <2>5. /\ Written(w) \in Records /\ Written(w).slots = f
        /\ Written(w).boot = nv.boot /\ Written(w).overflow = nv.overflow
        /\ Written(w).ack = nv.ack
    BY <2>3, <2>4 DEF Records
  <2> QED
    BY <1>3, <2>5 DEF f
<1> QED
  BY <1>1, <1>2, <1>3, WriteFacts

\* The next write of the running handler.
LEMMA BasePerform ==
    ASSUME BaseInv, NEW ok \in BOOLEAN, Perform(ok)
    PROVE  BaseInv'
<1> DEFINE w == Head(todo)
<1>1. /\ todo # <<>> /\ todo' = Tail(todo)
      /\ nv' = IF ok THEN Written(w) ELSE nv
      /\ ledger' = Kept(Recorded(ledger, w, ok))
      /\ UNCHANGED <<enabled, queue, due, restoreFailed, job, events>>
  BY DEF Perform, Recorded
<1>2. todo \in Seq(Write) /\ job = NoJob /\ nv \in Records /\ ledger \in Ledger /\ queue # NoQueue
  BY <1>1, BaseFacts DEF BaseInv, RunInv
<1>3. /\ todo' \in Seq(Write) /\ w \in Write /\ w = todo[1] /\ Len(todo) >= 1
      /\ Len(Tail(todo)) = Len(todo) - 1
      /\ \A i \in 1 .. Len(Tail(todo)) : Tail(todo)[i] = todo[i + 1] /\ i + 1 \in 1 .. Len(todo)
  BY <1>1, <1>2, RangeTail
<1> HIDE DEF w
<1>4. nv' \in Records
  BY <1>1, <1>2, <1>3, WrittenFacts
<1>5. nv'.overflow <= events
  <2>1. w.type = "meta" => w.overflow <= events
    BY <1>2, <1>3 DEF BaseInv, RunInv
  <2>2. nv.overflow <= events
    BY DEF BaseInv, RunInv
  <2>3. nv'.overflow = nv.overflow \/ (w.type = "meta" /\ nv'.overflow = w.overflow)
    <3>1. w.type \in {"meta", "ack", "slot", "erase"}
      BY <1>3, WriteFacts
    <3>2. nv' = nv \/ nv' = Written(w)
      BY <1>1
    <3>3. w.type # "meta" => Written(w).overflow = nv.overflow
      BY <1>2, <1>3, <3>1, WrittenFacts
    <3>4. w.type = "meta" => Written(w).overflow = w.overflow
      BY <1>2, <1>3, WrittenFacts
    <3> QED
      BY <3>2, <3>3, <3>4
  <2> QED
    BY <2>1, <2>2, <2>3
<1>6. ledger' \in Ledger /\ ledger'.refused <= events
  <2> DEFINE l == Recorded(ledger, w, ok)
  <2>1. l \in Ledger /\ l.refused = ledger.refused
    BY <1>2, <1>3, RecordedFacts
  <2> HIDE DEF l
  <2>2. Kept(l) \in Ledger /\ Kept(l).refused <= l.refused /\ Kept(l).refused \in Int
    BY <2>1, KeptFacts DEF Ledger
  <2>3. ledger.refused <= events /\ ledger.refused \in Int /\ events \in Int
    BY <1>2, BaseFacts DEF BaseInv, RunInv, Ledger
  <2> QED
    BY <1>1, <2>1, <2>2, <2>3 DEF l
<1>7. \A i \in DOMAIN todo' : /\ todo'[i].type = "meta" => todo'[i].overflow <= events
                              /\ todo'[i].type # "ack"
  <2> SUFFICES ASSUME NEW i \in 1 .. Len(Tail(todo))
               PROVE  /\ Tail(todo)[i].type = "meta" => Tail(todo)[i].overflow <= events
                      /\ Tail(todo)[i].type # "ack"
    BY <1>1, <1>3
  <2>1. Tail(todo)[i] = todo[i + 1] /\ i + 1 \in DOMAIN todo /\ i + 1 # 1
    BY <1>2, <1>3
  <2> QED
    BY <2>1 DEF BaseInv, RunInv
<1>8. TypeInvariant'
  BY <1>1, <1>2, <1>4, <1>6 DEF BaseInv, TypeInvariant
<1>9. RunInv'
  BY <1>1, <1>2, <1>3, <1>5, <1>6, <1>7 DEF BaseInv, RunInv
<1>10. ScheduledWhilePending'
  BY <1>1 DEF BaseInv, ScheduledWhilePending
<1> QED
  BY <1>8, <1>9, <1>10 DEF BaseInv

\* The history after a power loss.
Cut(l, seen, ready, n) ==
    [l EXCEPT !.published = @ \cup seen,
              !.cut = IF ready THEN @ ELSE @ \cup EventsIn(n.slots),
              !.refused = IF ready \/ @ <= l.reported + n.overflow THEN @
                          ELSE l.reported + n.overflow]

\* What a power loss changes of the history, and what it leaves.
IsCut(m, l, seen, ready, n) ==
    /\ m.published = l.published \cup seen
    /\ m.cut = (IF ready THEN l.cut ELSE l.cut \cup EventsIn(n.slots))
    /\ m.refused <= l.refused
    /\ ready => m.refused = l.refused
    /\ ~ready => m.refused <= l.reported + n.overflow
    /\ m.reported = l.reported /\ m.stored = l.stored
    /\ m.settled = l.settled /\ m.trusted = l.trusted

\* The history after a power loss is one.
LEMMA CutFacts ==
    ASSUME NEW l \in Ledger, NEW seen \in SUBSET Event, NEW ready \in BOOLEAN, NEW n \in Records
    PROVE  /\ Cut(l, seen, ready, n) \in Ledger
           /\ IsCut(Cut(l, seen, ready, n), l, seen, ready, n)
<1> DEFINE m == Cut(l, seen, ready, n)
           cu == IF ready THEN l.cut ELSE l.cut \cup EventsIn(n.slots)
           re == IF ready \/ l.refused <= l.reported + n.overflow THEN l.refused
                 ELSE l.reported + n.overflow
           pu == l.published \cup seen
<1>1. EventsIn(n.slots) \in SUBSET Event
  BY DEF EventsIn, Pending, Free, Records, AlertEvent
<1>2. cu \in SUBSET Event /\ pu \in SUBSET Event
  BY <1>1 DEF Ledger
<1>3. l.refused \in 0 .. MaxEvents /\ l.reported \in Nat /\ n.overflow \in Nat
  BY QueueAssumption DEF Ledger, Records
<1>4. /\ re \in 0 .. MaxEvents /\ re <= l.refused /\ (ready => re = l.refused)
      /\ (~ready => re <= l.reported + n.overflow)
  BY <1>3, QueueAssumption
<1>5. m = [l EXCEPT !.published = pu, !.cut = cu, !.refused = re]
  BY DEF Cut
<1> HIDE DEF m, cu, re, pu
<1>6. m \in Ledger
  BY <1>2, <1>4, <1>5 DEF Ledger
<1>7. m.published = pu /\ m.cut = cu /\ m.stored = l.stored /\ m.settled = l.settled
  BY <1>5 DEF Ledger
<1>8. m.refused = re /\ m.reported = l.reported
  BY <1>5 DEF Ledger
<1>9. m.trusted = l.trusted
  BY <1>5 DEF Ledger
<1> QED
  BY <1>4, <1>6, <1>7, <1>8, <1>9 DEF IsCut, m, cu, pu

\* Power loss, boot and restore_alerts.
LEMMA BaseRestart ==
    ASSUME BaseInv, Restart
    PROVE  BaseInv'
<1>1. /\ nv.enabled => nv.boot < MaxBoots
      /\ enabled' = nv.enabled /\ restoreFailed' = FALSE /\ job' = NoJob
      /\ queue' = IF nv.enabled THEN OpenedQueue ELSE NoQueue
      /\ todo' = IF nv.enabled THEN OpenWrites(queue') ELSE <<>>
      /\ due' = (nv.enabled /\ Pending(queue'.slots) # {})
      /\ \E seen \in {{}, Events(job.sent)} : ledger' = Kept(Cut(ledger, seen, Ready, nv))
      /\ nv' = nv /\ events' = events
  BY DEF Restart, Cut
<1>2. /\ nv \in Records /\ nv.enabled \in BOOLEAN /\ events \in Nat /\ ledger \in Ledger
      /\ nv.overflow <= events /\ 0 <= events
  BY BaseFacts DEF BaseInv, RunInv, Records
<1>3. /\ nv.enabled => /\ queue' \in Queue /\ queue' # NoQueue /\ queue'.seq = 0
                       /\ queue'.overflow = nv.overflow
      /\ todo' \in Seq(Write)
      /\ \A w \in Range(todo') : w.type # "ack" /\ (w.type = "meta" => w.overflow <= events)
      /\ ~nv.enabled => todo' = <<>>
  <2>1. CASE nv.enabled
    <3>1. /\ OpenedQueue \in Queue /\ OpenedQueue # NoQueue /\ OpenedQueue.seq = 0
          /\ OpenedQueue.overflow = nv.overflow
          /\ OpenWrites(OpenedQueue) \in Seq(Write)
          /\ Range(OpenWrites(OpenedQueue)) =
                {WriteMeta(OpenedQueue)}
                \cup {EraseSlot(s, {}) : s \in Taken(nv.slots, nv.ack)}
      BY <1>1, <1>2, <2>1, Opened
    <3>2. queue' = OpenedQueue /\ todo' = OpenWrites(OpenedQueue)
      BY <1>1, <2>1
    <3>3. \A w \in Range(OpenWrites(OpenedQueue)) :
             w.type # "ack" /\ (w.type = "meta" => w.overflow <= events)
      BY <1>2, <3>1 DEF WriteMeta, EraseSlot
    <3> QED
      BY <2>1, <3>1, <3>2, <3>3
  <2>2. CASE ~nv.enabled
    BY <1>1, <2>2 DEF Range
  <2> QED
    BY <2>1, <2>2
<1>4. \A i \in DOMAIN todo' : /\ todo'[i].type = "meta" => todo'[i].overflow <= events
                              /\ todo'[i].type = "ack" => i = 1
  BY <1>3, TodoByRange
<1>5. Events(job.sent) \in SUBSET Event
  <2>1. job \in Job
    BY DEF BaseInv, TypeInvariant
  <2> QED
    BY <2>1 DEF Job, Events
<1>6. ledger' \in Ledger /\ ledger'.refused <= events
  <2>1. PICK seen \in {{}, Events(job.sent)} : ledger' = Kept(Cut(ledger, seen, Ready, nv))
    BY <1>1
  <2> DEFINE l == Cut(ledger, seen, Ready, nv)
  <2>2. seen \in SUBSET Event /\ Ready \in BOOLEAN
    BY <1>5 DEF Ready
  <2>3. l \in Ledger /\ l.refused <= ledger.refused
    <3>1. l \in Ledger /\ IsCut(l, ledger, seen, Ready, nv)
      BY <1>2, <2>2, CutFacts
    <3> QED
      BY <3>1 DEF IsCut
  <2> HIDE DEF l
  <2>4. Kept(l) \in Ledger /\ Kept(l).refused <= l.refused
    BY <2>3, KeptFacts
  <2>5. Kept(l).refused \in Int /\ l.refused \in Int
    BY <2>3, <2>4 DEF Ledger
  <2>6. ledger.refused <= events /\ ledger.refused \in Int
    BY <1>2 DEF BaseInv, RunInv, Ledger
  <2> QED
    BY <1>2, <2>1, <2>3, <2>4, <2>5, <2>6 DEF l
<1>7. TypeInvariant'
  BY <1>1, <1>2, <1>3, <1>6, IdleJob DEF BaseInv, TypeInvariant
<1>8. RunInv'
  BY <1>1, <1>2, <1>3, <1>4, <1>6 DEF BaseInv, RunInv
<1>9. ScheduledWhilePending'
  BY <1>1, <1>2 DEF ScheduledWhilePending
<1> QED
  BY <1>7, <1>8, <1>9 DEF BaseInv

\* Every step keeps what is known whether or not writes succeed.
LEMMA BaseStep ==
    ASSUME BaseInv, [Next]_vars
    PROVE  BaseInv'
<1>1. CASE Next
  <2>1. ASSUME NEW ok \in {TRUE, ~WritesFail}, Perform(ok)
        PROVE  BaseInv'
    <3>1. ok \in BOOLEAN
      BY QueueAssumption
    <3> QED
      BY <2>1, <3>1, BasePerform
  <2> QED
    BY <1>1, <2>1, BaseSet, BaseReset, BaseQueue, BasePrepare, BaseIdle, BaseDelivered,
       BaseFailed, BaseRestart DEF Next
<1>2. CASE UNCHANGED vars
  BY <1>2 DEF vars, BaseInv, TypeInvariant, RunInv, ScheduledWhilePending
<1> QED
  BY <1>1, <1>2

\* The first boot.
LEMMA BaseInit == Init => BaseInv
<1> SUFFICES ASSUME Init PROVE BaseInv
  OBVIOUS
<1>1. NoRecords \in Records /\ NoRecords.overflow = 0
  BY QueueAssumption DEF NoRecords, Records, Empty
<1>2. NewLedger \in Ledger /\ NewLedger.refused = 0
  BY QueueAssumption DEF NewLedger, Ledger
<1>3. TypeInvariant
  <2>1. 0 \in 0 .. MaxEvents
    BY QueueAssumption
  <2> QED
    BY <1>1, <1>2, <2>1, IdleJob DEF Init, TypeInvariant
<1>4. RunInv
  BY <1>1, <1>2 DEF Init, RunInv
<1>5. ScheduledWhilePending
  BY DEF Init, ScheduledWhilePending
<1> QED
  BY <1>3, <1>4, <1>5 DEF BaseInv

-----------------------------------------------------------------------------
(* While writes succeed                                                    *)

\* Identifiers are ordered, and an older one is of no later boot.
LEMMA OlderFacts ==
    /\ \A a, b \in EventId : Older(a, b) => a.boot <= b.boot /\ a # b
    /\ \A a \in EventId, q \in Queue : Fresh(q) \in EventId
    /\ \A a \in EventId, q, r \in Queue :
          /\ Older(a, Fresh(q)) /\ q.boot = r.boot /\ q.seq <= r.seq => Older(a, Fresh(r))
          /\ a.boot < r.boot => Older(a, Fresh(r))
          /\ Older(a, Fresh(q)) => a.boot <= q.boot /\ a # Fresh(q)
    /\ \A q, r \in Queue : q.boot = r.boot /\ q.seq < r.seq => Older(Fresh(q), Fresh(r))
  BY QueueAssumption DEF Older, Fresh, EventId, Queue

\* An event of a slot has its type.
LEMMA SlotFacts ==
    ASSUME NEW slots \in [Slot -> AlertEvent \cup {NoEvent}], NEW s \in Slot,
           slots[s] # NoEvent
    PROVE  slots[s].id \in EventId /\ slots[s].event \in Event /\ slots[s].event \in Nat
  BY DEF AlertEvent, Event

\* A setting changes nothing of what the queue relies on.
LEMMA SameRecords ==
    ASSUME NEW n, NEW m, NEW q, NEW W, NEW l, NEW ev,
           m.slots = n.slots, m.boot = n.boot, m.ack = n.ack, m.overflow = n.overflow
    PROVE  /\ FlashInv(n, l, ev) => FlashInv(m, l, ev)
           /\ ClosedInv(n, l) => ClosedInv(m, l)
           /\ OpenInv(n, q, W, l, ev) => OpenInv(m, q, W, l, ev)
  BY DEF FlashInv, ClosedInv, OpenInv, MetaInv, SlotInv, AckInv, PendingInv

\* What the destination receives of the events so far, the records bear.
LEMMA FlashPublished ==
    ASSUME NEW n, NEW l, NEW k, NEW ev, NEW P \in SUBSET (1 .. ev), FlashInv(n, l, ev),
           k.published = l.published \cup P, k.settled = l.settled, k.stored = l.stored
    PROVE  FlashInv(n, k, ev)
  BY DEF FlashInv

\* Opening the queue: the erasures of an interrupted acknowledgement remove
\* published events only, and the next identifiers are new.
LEMMA OpenedTrust ==
    ASSUME nv \in Records, nv.boot < MaxBoots, NEW l \in Ledger, NEW ev \in Nat,
           FlashInv(nv, l, ev), ClosedInv(nv, l)
    PROVE  OpenInv(nv, OpenedQueue, Range(OpenWrites(OpenedQueue)), l, ev)
<1> DEFINE q == OpenedQueue
           T == Taken(nv.slots, nv.ack)
           W == Range(OpenWrites(q))
<1>1. /\ q \in Queue /\ q.boot = nv.boot + 1 /\ q.seq = 0 /\ q.overflow = nv.overflow
      /\ \A s \in Slot : q.slots[s] = IF s \in T THEN NoEvent ELSE nv.slots[s]
      /\ W = {WriteMeta(q)} \cup {EraseSlot(s, {}) : s \in T}
  BY Opened
<1>2. /\ nv.slots \in [Slot -> AlertEvent \cup {NoEvent}] /\ nv.ack \in SUBSET EventId
      /\ nv.boot \in Nat
  BY QueueAssumption DEF Records
<1>3. \A s \in Slot : s \in T <=> nv.slots[s] # NoEvent /\ nv.slots[s].id \in nv.ack
  BY DEF Taken
<1>4. T \subseteq Slot
  BY DEF Taken
<1> HIDE DEF q, T, W
<1>5. /\ WriteMeta(q) = [type |-> "meta", boot |-> q.boot, overflow |-> q.overflow]
      /\ WriteMeta(q) \in W
      /\ \A w \in W : \/ w = WriteMeta(q) /\ w.type = "meta"
                      \/ /\ w.type = "erase" /\ w.slot \in T /\ w.value = NoEvent
                         /\ w.taken = {}
      /\ \A s \in T : \E w \in W : w.type = "erase" /\ w.slot = s
  <2>1. \A s \in T : /\ EraseSlot(s, {}).type = "erase" /\ EraseSlot(s, {}).slot = s
                     /\ EraseSlot(s, {}).value = NoEvent /\ EraseSlot(s, {}).taken = {}
    BY DEF EraseSlot
  <2>2. WriteMeta(q).type = "meta"
    BY DEF WriteMeta
  <2> QED
    BY <1>1, <2>1, <2>2 DEF WriteMeta
<1>6. MetaInv(nv, q, W, l)
  <2>1. nv.boot <= q.boot /\ l.refused <= l.reported + q.overflow
    BY <1>1, <1>2 DEF ClosedInv
  <2>2. /\ \A w \in W : w.type \in {"meta", "erase"}
        /\ \A w \in W : w.type = "meta" => w.boot = q.boot /\ w.overflow = q.overflow
        /\ \E w \in W : w.type = "meta"
    BY <1>5
  <2> QED
    BY <2>1, <2>2 DEF MetaInv
<1>7. SlotInv(nv, q, W, l)
  <2>1. \A s \in Slot : nv.slots[s] = q.slots[s]
                        \/ \E w \in W : w.type \in {"slot", "erase"} /\ w.slot = s
    BY <1>1, <1>5
  <2>2. \A s \in T : q.slots[s] = NoEvent /\ nv.slots[s].event \in l.published
    BY <1>1, <1>3, <1>4 DEF FlashInv
  <2>3. \A w \in W : w.type \in {"slot", "erase"} =>
           w.value = q.slots[w.slot] /\ nv.slots[w.slot].event \in l.published
    BY <1>5, <2>2
  <2> QED
    BY <2>1, <2>3 DEF SlotInv
<1>8. AckInv(nv, q, W, l, ev)
  BY <1>5 DEF AckInv
<1>9. PendingInv(nv, q, l, ev)
  <2>1. \A id \in EventId : id.boot <= nv.boot => Older(id, Fresh(q))
    BY <1>1, <1>2 DEF Older, Fresh, EventId
  <2>2. \A s \in Slot : nv.slots[s] # NoEvent => nv.slots[s].id \in EventId
    BY <1>2, SlotFacts
  <2>3. \A id \in nv.ack : Older(id, Fresh(q))
    BY <1>2, <2>1 DEF FlashInv
  <2>4. \A s \in Slot : nv.slots[s] # NoEvent => Older(nv.slots[s].id, Fresh(q))
    BY <2>1, <2>2 DEF FlashInv
  <2>5. \A s \in Slot : q.slots[s] # NoEvent =>
           q.slots[s] = nv.slots[s] /\ q.slots[s].id \notin nv.ack
    BY <1>1, <1>3
  <2>6. \A s \in Slot : q.slots[s] # NoEvent =>
          /\ Older(q.slots[s].id, Fresh(q)) /\ q.slots[s].event <= ev
          /\ q.slots[s].id \notin nv.ack /\ q.slots[s].event \notin l.settled
          /\ q.slots[s].event \in l.published \ l.cut => q.slots[s].ambiguous
    BY <2>4, <2>5 DEF FlashInv, ClosedInv
  <2>7. Consistent(q.slots, q.slots) /\ Consistent(q.slots, nv.slots)
    BY <2>5 DEF Consistent, FlashInv
  <2> QED
    BY <2>3, <2>4, <2>6, <2>7 DEF PendingInv
<1> QED
  BY <1>6, <1>7, <1>8, <1>9 DEF OpenInv, q, W

\* A step that publishes and refuses nothing.
Quiet(l, k) == /\ k.published = l.published /\ k.cut = l.cut
               /\ k.refused = l.refused /\ k.reported = l.reported

\* The meta record is written: the records are of this boot now.
LEMMA MetaWritten ==
    ASSUME NEW n \in Records, NEW m \in Records, NEW q \in Queue, NEW l, NEW k, NEW ev \in Nat,
           NEW w \in Write, NEW V \in SUBSET Write, w.type = "meta",
           \A v \in V : v.type # "ack",
           m.boot = w.boot, m.overflow = w.overflow, m.ack = n.ack, m.slots = n.slots,
           Quiet(l, k), k.stored = l.stored, k.settled = l.settled,
           FlashInv(n, l, ev), OpenInv(n, q, {w} \cup V, l, ev)
    PROVE  FlashInv(m, k, ev) /\ OpenInv(m, q, V, k, ev)
<1>1. w.boot = q.boot /\ w.overflow = q.overflow /\ n.boot <= q.boot
  BY DEF OpenInv, MetaInv
<1>2. FlashInv(m, k, ev)
  <2>1. \A i \in EventId : i.boot <= n.boot => i.boot <= m.boot
    <3>1. n.boot \in Int /\ m.boot \in Int /\ n.boot <= m.boot
      BY <1>1 DEF Records
    <3>2. \A i \in EventId : i.boot \in Int
      BY DEF EventId
    <3> QED
      BY <3>1, <3>2
  <2>2. n.slots \in [Slot -> AlertEvent \cup {NoEvent}] /\ n.ack \in SUBSET EventId
    BY DEF Records
  <2>3. \A s \in Slot : n.slots[s] # NoEvent => n.slots[s].id \in EventId
    BY <2>2, SlotFacts
  <2> QED
    BY <2>1, <2>2, <2>3 DEF FlashInv, Quiet
<1>3. MetaInv(m, q, V, k)
  <2>1. m.boot <= q.boot
    BY <1>1 DEF Queue
  <2>2. l.refused <= l.reported + q.overflow
    BY DEF OpenInv, MetaInv
  <2>3. \A v \in V : v.type = "meta" => v.boot = q.boot /\ v.overflow = q.overflow
    BY DEF OpenInv, MetaInv
  <2> QED
    BY <1>1, <2>1, <2>2, <2>3 DEF MetaInv, Quiet
<1>4. SlotInv(m, q, V, k)
  BY DEF OpenInv, SlotInv, Quiet
<1>5. AckInv(m, q, V, k, ev)
  BY DEF OpenInv, AckInv, Quiet
<1>6. PendingInv(m, q, k, ev)
  BY DEF OpenInv, PendingInv, Quiet
<1> QED
  BY <1>2, <1>3, <1>4, <1>5, <1>6 DEF OpenInv

\* The acknowledgement record is written: its events are settled.
LEMMA AckWritten ==
    ASSUME NEW n \in Records, NEW m \in Records, NEW q \in Queue, NEW l, NEW k, NEW ev \in Nat,
           NEW w \in Write, NEW V \in SUBSET Write, w.type = "ack",
           \A v \in V : v.type # "ack",
           m.boot = n.boot, m.overflow = n.overflow, m.ack = w.ids, m.slots = n.slots,
           Quiet(l, k), k.stored = l.stored, k.settled = l.settled \cup w.taken,
           FlashInv(n, l, ev), OpenInv(n, q, {w} \cup V, l, ev)
    PROVE  FlashInv(m, k, ev) /\ OpenInv(m, q, V, k, ev)
<1>1. n.boot = q.boot /\ w.ids \in SUBSET EventId
  BY WriteFacts DEF OpenInv, MetaInv
<1>2. /\ \A id \in w.ids : Older(id, Fresh(q))
      /\ w.taken \subseteq 1 .. ev
      /\ \A s \in Slot :
            /\ q.slots[s] # NoEvent => /\ q.slots[s].id \notin w.ids
                                       /\ q.slots[s].event \notin w.taken
            /\ n.slots[s] # NoEvent =>
                  /\ n.slots[s].event \in l.settled \cup w.taken => n.slots[s].id \in w.ids
                  /\ n.slots[s].id \in w.ids => n.slots[s].event \in l.published
  BY DEF OpenInv, AckInv
<1>3. \A id \in w.ids : id.boot <= n.boot
  BY <1>1, <1>2, OlderFacts
<1>4. FlashInv(m, k, ev)
  BY <1>2, <1>3 DEF FlashInv, Quiet
<1>5. MetaInv(m, q, V, k)
  BY DEF OpenInv, MetaInv, Quiet
<1>6. SlotInv(m, q, V, k)
  BY DEF OpenInv, SlotInv, Quiet
<1>7. AckInv(m, q, V, k, ev)
  <2>1. \A v \in V : v.type = "erase" => v.taken \subseteq k.settled
    BY DEF OpenInv, AckInv
  <2> QED
    BY <2>1 DEF AckInv
<1>8. PendingInv(m, q, k, ev)
  BY <1>2 DEF OpenInv, PendingInv, Quiet
<1> QED
  BY <1>4, <1>5, <1>6, <1>7, <1>8 DEF OpenInv

\* A slot is written or erased: the records have there what the queue has.
LEMMA SlotWritten ==
    ASSUME NEW n \in Records, NEW m \in Records, NEW q \in Queue, NEW l, NEW k, NEW ev \in Nat,
           NEW w \in Write, NEW V \in SUBSET Write, w.type \in {"slot", "erase"},
           \A v \in V : v.type # "ack",
           m.boot = n.boot, m.overflow = n.overflow, m.ack = n.ack,
           m.slots = [n.slots EXCEPT ![w.slot] = w.value],
           Quiet(l, k),
           k.stored = IF w.type = "slot" THEN l.stored \cup {w.value.event} ELSE l.stored,
           k.settled = IF w.type = "erase" THEN l.settled \cup w.taken ELSE l.settled,
           FlashInv(n, l, ev), OpenInv(n, q, {w} \cup V, l, ev)
    PROVE  FlashInv(m, k, ev) /\ OpenInv(m, q, V, k, ev)
<1>0. /\ n.slots \in [Slot -> AlertEvent \cup {NoEvent}] /\ n.ack \in SUBSET EventId
      /\ q.slots \in [Slot -> AlertEvent \cup {NoEvent}]
      /\ w.slot \in Slot
  BY WriteFacts DEF Records, Queue
<1>1. /\ w.value = q.slots[w.slot]
      /\ \/ n.slots[w.slot] = NoEvent
         \/ n.slots[w.slot].event \in l.published
         \/ w.type = "slot" /\ n.slots[w.slot].event = w.value.event
  BY DEF OpenInv, SlotInv
<1>2. /\ m.slots[w.slot] = q.slots[w.slot]
      /\ \A s \in Slot : s # w.slot => m.slots[s] = n.slots[s]
  BY <1>0, <1>1
<1>3. k.settled = l.settled
  <2>1. w.type = "erase" => w.taken \subseteq l.settled
    BY DEF OpenInv, AckInv
  <2> QED
    BY <2>1
<1>4. w.type = "slot" => n.boot = q.boot /\ w.value # NoEvent
  BY WriteFacts DEF OpenInv, MetaInv
<1>5. /\ \A s \in Slot : q.slots[s] # NoEvent =>
            /\ Older(q.slots[s].id, Fresh(q)) /\ q.slots[s].event <= ev
            /\ q.slots[s].id \notin n.ack /\ q.slots[s].event \notin l.settled
            /\ q.slots[s].id \in EventId
      /\ Consistent(q.slots, q.slots) /\ Consistent(q.slots, n.slots)
      /\ Consistent(n.slots, n.slots)
  BY <1>0, SlotFacts DEF OpenInv, PendingInv, FlashInv
<1>6. m.slots[w.slot] # NoEvent => w.type = "slot"
  BY <1>1, <1>2, WriteFacts
<1>7. \A s \in Slot : m.slots[s] # NoEvent =>
          /\ m.slots[s].id.boot <= m.boot /\ m.slots[s].event <= ev
          /\ m.slots[s].id \in m.ack => m.slots[s].event \in k.published
          /\ m.slots[s].event \in k.settled => m.slots[s].id \in m.ack
  <2> SUFFICES ASSUME NEW s \in Slot, m.slots[s] # NoEvent
               PROVE  /\ m.slots[s].id.boot <= m.boot /\ m.slots[s].event <= ev
                      /\ m.slots[s].id \in m.ack => m.slots[s].event \in k.published
                      /\ m.slots[s].event \in k.settled => m.slots[s].id \in m.ack
    OBVIOUS
  <2>1. CASE s = w.slot
    <3>1. q.slots[s].id.boot <= q.boot
      BY <1>2, <1>5, <2>1, OlderFacts
    <3> QED
      BY <1>2, <1>3, <1>4, <1>5, <1>6, <2>1, <3>1
  <2>2. CASE s # w.slot
    BY <1>2, <1>3, <2>2 DEF FlashInv, Quiet
  <2> QED
    BY <2>1, <2>2
<1>8. Consistent(m.slots, m.slots) /\ Consistent(q.slots, m.slots)
  BY <1>0, <1>2, <1>5 DEF Consistent
<1>9. k.stored \subseteq EventsIn(m.slots) \cup k.published
  <2>1. \A s \in Slot : m.slots[s] # NoEvent => m.slots[s].event \in EventsIn(m.slots)
    BY DEF EventsIn, Pending, Free
  <2>2. \A e \in l.stored : e \in l.published \/ \E s \in Slot : n.slots[s] # NoEvent
                                                                 /\ n.slots[s].event = e
    BY DEF FlashInv, EventsIn, Pending, Free
  <2>3. ASSUME NEW s \in Slot, n.slots[s] # NoEvent
        PROVE  n.slots[s].event \in EventsIn(m.slots) \cup l.published
    <3>1. CASE s # w.slot
      BY <1>2, <2>1, <2>3, <3>1
    <3>2. CASE s = w.slot /\ n.slots[s].event \notin l.published
      <4>1. w.type = "slot" /\ n.slots[s].event = w.value.event
        BY <1>1, <2>3, <3>2
      <4> QED
        BY <1>1, <1>2, <1>4, <2>1, <3>2, <4>1
    <3> QED
      BY <3>1, <3>2
  <2>4. w.type = "slot" => w.value.event \in EventsIn(m.slots)
    BY <1>0, <1>1, <1>2, <1>4, <2>1
  <2> QED
    BY <2>2, <2>3, <2>4 DEF Quiet
<1>10. FlashInv(m, k, ev)
  BY <1>3, <1>7, <1>8, <1>9 DEF FlashInv, Quiet
<1>11. MetaInv(m, q, V, k)
  BY DEF OpenInv, MetaInv, Quiet
<1>12. SlotInv(m, q, V, k)
  <2>1. ASSUME NEW s \in Slot
        PROVE  m.slots[s] = q.slots[s] \/ \E v \in V : v.type \in {"slot", "erase"} /\ v.slot = s
    <3>1. CASE s = w.slot
      BY <1>2, <3>1
    <3>2. CASE s # w.slot
      BY <1>2, <3>2 DEF OpenInv, SlotInv
    <3> QED
      BY <3>1, <3>2
  <2>2. ASSUME NEW v \in V, v.type \in {"slot", "erase"}
        PROVE  /\ v.value = q.slots[v.slot]
               /\ \/ m.slots[v.slot] = NoEvent
                  \/ m.slots[v.slot].event \in k.published
                  \/ v.type = "slot" /\ m.slots[v.slot].event = v.value.event
    <3>1. v.slot \in Slot /\ (v.type = "erase" => v.value = NoEvent)
      BY <2>2, WriteFacts
    <3>2. /\ v.value = q.slots[v.slot]
          /\ \/ n.slots[v.slot] = NoEvent
             \/ n.slots[v.slot].event \in l.published
             \/ v.type = "slot" /\ n.slots[v.slot].event = v.value.event
      BY <2>2 DEF OpenInv, SlotInv
    <3>3. CASE v.slot = w.slot
      BY <1>2, <2>2, <3>1, <3>2, <3>3
    <3>4. CASE v.slot # w.slot
      BY <1>2, <3>1, <3>2, <3>4 DEF Quiet
    <3> QED
      BY <3>3, <3>4
  <2> QED
    BY <2>1, <2>2 DEF SlotInv
<1>13. AckInv(m, q, V, k, ev)
  <2>1. \A v \in V : v.type = "erase" => v.taken \subseteq l.settled
    BY DEF OpenInv, AckInv
  <2> QED
    BY <1>3, <2>1 DEF AckInv
<1>14. PendingInv(m, q, k, ev)
  <2>1. \A s \in Slot : m.slots[s] # NoEvent => Older(m.slots[s].id, Fresh(q))
    BY <1>2, <1>5 DEF OpenInv, PendingInv
  <2> QED
    BY <1>3, <1>8, <2>1 DEF OpenInv, PendingInv, Quiet
<1> QED
  BY <1>10, <1>11, <1>12, <1>13, <1>14 DEF OpenInv

\* Between two handlers the records are what the queue is.
LEMMA Synced ==
    ASSUME NEW n, NEW q, NEW l, NEW ev, OpenInv(n, q, {}, l, ev)
    PROVE  /\ n.boot = q.boot /\ n.overflow = q.overflow
           /\ \A s \in Slot : n.slots[s] = q.slots[s]
           /\ l.refused <= l.reported + q.overflow
           /\ PendingInv(n, q, l, ev)
  BY DEF OpenInv, MetaInv, SlotInv

\* Nothing changes but the next identifier and the number of events.
LEMMA LaterPending ==
    ASSUME NEW n \in Records, NEW q \in Queue, NEW r \in Queue, NEW l, NEW k,
           NEW ev \in Nat, NEW fv \in Nat, ev <= fv,
           r.slots = q.slots, r.boot = q.boot, q.seq <= r.seq,
           k.published = l.published, k.cut = l.cut, k.settled = l.settled,
           PendingInv(n, q, l, ev)
    PROVE  PendingInv(n, r, k, fv)
<1>1. /\ n.slots \in [Slot -> AlertEvent \cup {NoEvent}] /\ n.ack \in SUBSET EventId
      /\ q.slots \in [Slot -> AlertEvent \cup {NoEvent}]
  BY DEF Records, Queue
<1>2. \A id \in EventId : Older(id, Fresh(q)) => Older(id, Fresh(r))
  BY OlderFacts
<1>3. /\ \A s \in Slot : n.slots[s] # NoEvent => n.slots[s].id \in EventId
      /\ \A s \in Slot : q.slots[s] # NoEvent => /\ q.slots[s].id \in EventId
                                                 /\ q.slots[s].event \in Nat
  BY <1>1, SlotFacts
<1>4. \A e \in Nat : e <= ev => e <= fv
  OBVIOUS
<1> QED
  BY <1>1, <1>2, <1>3, <1>4 DEF PendingInv

\* The records are those of the events so far, and of more.
LEMMA LaterFlash ==
    ASSUME NEW n \in Records, NEW l, NEW k, NEW ev \in Nat, NEW fv \in Nat, ev <= fv,
           k.published = l.published, k.settled = l.settled, k.stored = l.stored,
           FlashInv(n, l, ev)
    PROVE  FlashInv(n, k, fv)
<1>1. n.slots \in [Slot -> AlertEvent \cup {NoEvent}]
  BY DEF Records
<1>2. \A s \in Slot : n.slots[s] # NoEvent => n.slots[s].event \in Nat
  BY <1>1, SlotFacts
<1>3. \A e \in Nat : e <= ev => e <= fv
  OBVIOUS
<1>4. 1 .. ev \subseteq 1 .. fv
  OBVIOUS
<1>5. \A s \in Slot : n.slots[s] # NoEvent => n.slots[s].event <= fv
  BY <1>2, <1>3 DEF FlashInv
<1> QED
  BY <1>4, <1>5 DEF FlashInv

\* An event finds the queue full.
LEMMA FullTrust ==
    ASSUME NEW n \in Records, NEW q \in Queue, NEW r \in Queue, NEW l \in Ledger,
           NEW k \in Ledger, NEW ev \in Nat,
           r.slots = q.slots, r.boot = q.boot, r.seq = q.seq + 1, r.overflow = q.overflow + 1,
           k.published = l.published, k.cut = l.cut, k.settled = l.settled,
           k.stored = l.stored, k.reported = l.reported, k.refused = l.refused + 1,
           FlashInv(n, l, ev), OpenInv(n, q, {}, l, ev)
    PROVE  FlashInv(n, k, ev + 1) /\ OpenInv(n, r, {WriteMeta(r)}, k, ev + 1)
<1>1. /\ n.boot = q.boot /\ n.overflow = q.overflow
      /\ \A s \in Slot : n.slots[s] = q.slots[s]
      /\ l.refused <= l.reported + q.overflow
      /\ PendingInv(n, q, l, ev)
  BY Synced
<1>2. ev + 1 \in Nat /\ ev <= ev + 1
  OBVIOUS
<1>3. /\ q.seq \in Int /\ q.seq <= r.seq /\ q.overflow \in Int /\ l.refused \in Int
      /\ l.reported \in Int /\ q.boot <= q.boot
  BY DEF Queue, Ledger
<1>4. PendingInv(n, r, k, ev + 1)
  BY <1>1, <1>2, <1>3, LaterPending
<1>5. FlashInv(n, k, ev + 1)
  BY <1>2, LaterFlash
<1>6. MetaInv(n, r, {WriteMeta(r)}, k)
  <2>1. k.refused <= k.reported + r.overflow
    BY <1>1, <1>3
  <2> QED
    BY <1>1, <1>3, <2>1 DEF MetaInv, WriteMeta
<1>7. SlotInv(n, r, {WriteMeta(r)}, k)
  BY <1>1 DEF SlotInv, WriteMeta
<1>8. AckInv(n, r, {WriteMeta(r)}, k, ev + 1)
  BY DEF AckInv, WriteMeta
<1> QED
  BY <1>4, <1>5, <1>6, <1>7, <1>8 DEF OpenInv

\* An event is put in a free slot.
LEMMA StoredTrust ==
    ASSUME NEW n \in Records, NEW q \in Queue, NEW r \in Queue, NEW l \in Ledger, NEW ev \in Nat,
           NEW s \in Slot, NEW e \in AlertEvent, q.slots[s] = NoEvent,
           e.id = Fresh(q), e.event = ev + 1,
           r.slots = [q.slots EXCEPT ![s] = e],
           r.boot = q.boot, r.seq = q.seq + 1, r.overflow = q.overflow,
           FlashInv(n, l, ev), OpenInv(n, q, {}, l, ev)
    PROVE  FlashInv(n, l, ev + 1) /\ OpenInv(n, r, {WriteSlot(s, e)}, l, ev + 1)
<1> DEFINE w == WriteSlot(s, e)
<1>0. /\ n.slots \in [Slot -> AlertEvent \cup {NoEvent}] /\ n.ack \in SUBSET EventId
      /\ q.slots \in [Slot -> AlertEvent \cup {NoEvent}]
  BY DEF Records, Queue
<1>1. /\ n.boot = q.boot /\ n.overflow = q.overflow
      /\ \A t \in Slot : n.slots[t] = q.slots[t]
      /\ l.refused <= l.reported + q.overflow
      /\ PendingInv(n, q, l, ev)
  BY Synced
<1>2. ev + 1 \in Nat /\ ev <= ev + 1 /\ ev + 1 \notin 1 .. ev /\ ev + 1 <= ev + 1
  OBVIOUS
<1>3. q.seq \in Int /\ q.seq < r.seq /\ q.seq <= r.seq /\ q.boot <= q.boot
  BY DEF Queue
<1>4. /\ \A id \in EventId : Older(id, Fresh(q)) => Older(id, Fresh(r)) /\ id # Fresh(q)
      /\ Older(Fresh(q), Fresh(r))
  BY <1>3, OlderFacts
<1>5. r.slots[s] = e /\ \A t \in Slot : t # s => r.slots[t] = q.slots[t]
  BY <1>0
<1>6. \A t \in Slot : q.slots[t] # NoEvent =>
         /\ q.slots[t].id \in EventId /\ q.slots[t].event \in Nat
         /\ q.slots[t].id # e.id /\ q.slots[t].event # e.event
         /\ q.slots[t].event <= ev + 1
  <2> SUFFICES ASSUME NEW t \in Slot, q.slots[t] # NoEvent
               PROVE  /\ q.slots[t].id \in EventId /\ q.slots[t].event \in Nat
                      /\ q.slots[t].id # e.id /\ q.slots[t].event # e.event
                      /\ q.slots[t].event <= ev + 1
    OBVIOUS
  <2>1. q.slots[t].id \in EventId /\ q.slots[t].event \in Nat
    BY <1>0, SlotFacts
  <2>2. Older(q.slots[t].id, Fresh(q)) /\ q.slots[t].event <= ev
    BY <1>1 DEF PendingInv
  <2>3. q.slots[t].id # e.id
    BY <1>4, <2>1, <2>2
  <2>4. \A x \in Nat : x <= ev => x # ev + 1 /\ x <= ev + 1
    OBVIOUS
  <2> QED
    BY <2>1, <2>2, <2>3, <2>4
<1>7. FlashInv(n, l, ev + 1)
  BY <1>2, LaterFlash
<1>8. w.type = "slot" /\ w.slot = s /\ w.value = e
  BY DEF WriteSlot
<1> HIDE DEF w
<1>9. MetaInv(n, r, {w}, l)
  BY <1>1, <1>3, <1>8 DEF MetaInv
<1>10. SlotInv(n, r, {w}, l)
  BY <1>1, <1>5, <1>8 DEF SlotInv
<1>11. AckInv(n, r, {w}, l, ev + 1)
  BY <1>8 DEF AckInv
<1>12. PendingInv(n, r, l, ev + 1)
  <2>1. \A id \in n.ack : Older(id, Fresh(r)) /\ id # e.id
    BY <1>0, <1>1, <1>4 DEF PendingInv
  <2>2. \A t \in Slot : n.slots[t] # NoEvent => Older(n.slots[t].id, Fresh(r))
    BY <1>1, <1>4, <1>6 DEF PendingInv
  <2>3. e.event \notin l.settled /\ e.event \notin l.published
    BY <1>2 DEF FlashInv
  <2>4. ASSUME NEW t \in Slot, r.slots[t] # NoEvent
        PROVE  /\ Older(r.slots[t].id, Fresh(r)) /\ r.slots[t].event <= ev + 1
               /\ r.slots[t].id \notin n.ack /\ r.slots[t].event \notin l.settled
               /\ r.slots[t].event \in l.published \ l.cut => r.slots[t].ambiguous
    <3>1. CASE t = s
      BY <1>2, <1>4, <1>5, <2>1, <2>3, <3>1
    <3>2. CASE t # s
      BY <1>1, <1>4, <1>5, <1>6, <2>4, <3>2 DEF PendingInv
    <3> QED
      BY <3>1, <3>2
  <2>5. Consistent(r.slots, r.slots) /\ Consistent(r.slots, n.slots)
    <3>1. Consistent(q.slots, q.slots)
      BY <1>1 DEF PendingInv
    <3>2. \A t \in Slot : n.slots[t] = q.slots[t]
      BY <1>1
    <3> QED
      BY <1>5, <1>6, <3>1, <3>2 DEF Consistent
  <2> QED
    BY <2>1, <2>2, <2>4, <2>5 DEF PendingInv
<1> QED
  BY <1>7, <1>9, <1>10, <1>11, <1>12 DEF OpenInv, w

\* The events of an attempt are pending, under the same identifiers.
LEMMA JobMatch ==
    ASSUME BaseInv, job # NoJob, NEW n, NEW l, PendingInv(n, queue, l, events)
    PROVE  /\ \A x \in job.sent : Older(x.id, Fresh(queue)) /\ x.event \in 1 .. events
           /\ \A s \in Slot : queue.slots[s] # NoEvent =>
                 \A x \in job.sent :
                    queue.slots[s].id = x.id <=> queue.slots[s].event = x.event
<1>1. ASSUME NEW x \in job.sent
      PROVE  /\ Older(x.id, Fresh(queue)) /\ x.event \in 1 .. events
             /\ \A s \in Slot : queue.slots[s] # NoEvent =>
                   (queue.slots[s].id = x.id <=> queue.slots[s].event = x.event)
  <2>1. PICK t \in Slot : /\ queue.slots[t] # NoEvent
                          /\ queue.slots[t].id = x.id /\ queue.slots[t].event = x.event
    BY JobFacts
  <2>2. Older(x.id, Fresh(queue)) /\ x.event <= events
    BY <2>1 DEF PendingInv
  <2>3. x.event \in Event /\ events \in Nat
    BY JobFacts, BaseFacts
  <2>4. x.event \in 1 .. events
    BY <2>2, <2>3 DEF Event
  <2>5. Consistent(queue.slots, queue.slots)
    BY DEF PendingInv
  <2> QED
    BY <2>1, <2>2, <2>4, <2>5 DEF Consistent
<1> QED
  BY <1>1

\* A delivery: what was taken leaves the queue and is settled by the
\* acknowledgement record before its slots are erased; what was not is marked.
LEMMA DeliveredTrust ==
    ASSUME BaseInv, job # NoJob, NEW ids \in SUBSET Ids(job.sent), NEW k,
           NEW P \in SUBSET Events(job.sent), DeliveredEvents(ids) \subseteq P,
           k.published = ledger.published \cup P, k.cut = ledger.cut,
           k.settled = ledger.settled, k.stored = ledger.stored,
           k.refused = ledger.refused, k.reported = ledger.reported + job.overflow,
           FlashInv(nv, ledger, events), OpenInv(nv, queue, {}, ledger, events)
    PROVE  /\ FlashInv(nv, k, events)
           /\ OpenInv(nv, DeliveredQueue(ids),
                      DeliverySet(Taken(queue.slots, ids), ids, DeliveredEvents(ids),
                                  job.overflow, DeliveredQueue(ids), DeliveredSlots(ids),
                                  Ids(job.sent) \ ids),
                      k, events)
<1> DEFINE q == DeliveredQueue(ids)
           kept == DeliveredSlots(ids)
           left == Ids(job.sent) \ ids
           taken == DeliveredEvents(ids)
           done == Taken(queue.slots, ids)
           W == DeliverySet(done, ids, taken, job.overflow, q, kept, left)
<1>1. /\ nv.boot = queue.boot /\ nv.overflow = queue.overflow
      /\ \A s \in Slot : nv.slots[s] = queue.slots[s]
      /\ ledger.refused <= ledger.reported + queue.overflow
      /\ PendingInv(nv, queue, ledger, events)
  BY Synced
<1>2. /\ q \in Queue /\ q.boot = queue.boot /\ q.seq = queue.seq
      /\ q.overflow = queue.overflow - job.overflow
      /\ q.slots = Marked(kept, left) /\ kept \in [Slot -> AlertEvent \cup {NoEvent}]
  BY Delivered
<1>3. /\ \A x \in job.sent : Older(x.id, Fresh(queue)) /\ x.event \in 1 .. events
      /\ \A s \in Slot : queue.slots[s] # NoEvent =>
            \A x \in job.sent : queue.slots[s].id = x.id <=> queue.slots[s].event = x.event
  BY <1>1, JobMatch
<1>4. /\ \A id \in ids : \E x \in job.sent : x.id = id
      /\ \A e \in taken : \E x \in job.sent : x.id \in ids /\ x.event = e
      /\ \A x \in job.sent : /\ x.id \in ids => x.event \in taken
                             /\ x.id \notin ids => x.id \in left
      /\ \A e \in P : \E x \in job.sent : x.event = e
  BY DEF DeliveredEvents, Events, Ids
<1>5. /\ \A s \in done : s \in Slot /\ queue.slots[s] # NoEvent /\ queue.slots[s].id \in ids
      /\ \A s \in Slot : queue.slots[s] # NoEvent /\ queue.slots[s].id \in ids => s \in done
      /\ \A s \in Slot : kept[s] = IF s \in done THEN NoEvent ELSE queue.slots[s]
  BY DEF Taken, DeliveredSlots
<1>6. \A s \in Slot :
         /\ Marked(kept, left)[s] = NoEvent <=> kept[s] = NoEvent
         /\ kept[s] # NoEvent =>
               /\ Marked(kept, left)[s].id = kept[s].id
               /\ Marked(kept, left)[s].event = kept[s].event
               /\ kept[s].ambiguous => Marked(kept, left)[s].ambiguous
               /\ kept[s].id \in left => Marked(kept, left)[s].ambiguous
         /\ s \notin NewlyMarked(kept, left) => Marked(kept, left)[s] = kept[s]
  BY <1>2, MarkWritesFacts
<1>7. /\ \A s \in NewlyMarked(kept, left) : s \in Slot /\ kept[s] # NoEvent
  BY DEF NewlyMarked, Taken
<1>8. /\ WriteAck(ids, taken) \in W
      /\ WriteAck(ids, taken).type = "ack" /\ WriteAck(ids, taken).ids = ids
      /\ WriteAck(ids, taken).taken = taken
      /\ \A w \in W :
            \/ w = WriteAck(ids, taken)
            \/ /\ w.type = "erase" /\ w.slot \in done /\ w.value = NoEvent /\ w.taken = taken
            \/ /\ w.type = "meta" /\ w.boot = q.boot /\ w.overflow = q.overflow
            \/ /\ w.type = "slot" /\ w.slot \in NewlyMarked(kept, left)
               /\ w.value = Marked(kept, left)[w.slot]
      /\ \A s \in done : \E w \in W : w.type = "erase" /\ w.slot = s
      /\ \A s \in NewlyMarked(kept, left) : \E w \in W : w.type = "slot" /\ w.slot = s
      /\ job.overflow > 0 => \E w \in W : w.type = "meta"
  <2>1. /\ WriteAck(ids, taken).type = "ack" /\ WriteAck(ids, taken).ids = ids
        /\ WriteAck(ids, taken).taken = taken
    BY DEF WriteAck
  <2>2. \A s \in Slot : /\ EraseSlot(s, taken).type = "erase" /\ EraseSlot(s, taken).slot = s
                        /\ EraseSlot(s, taken).value = NoEvent
                        /\ EraseSlot(s, taken).taken = taken
    BY DEF EraseSlot
  <2>3. /\ WriteMeta(q).type = "meta" /\ WriteMeta(q).boot = q.boot
        /\ WriteMeta(q).overflow = q.overflow
    BY DEF WriteMeta
  <2>4. \A s \in Slot : LET v == Marked(kept, left)[s]
                        IN  /\ WriteSlot(s, v).type = "slot" /\ WriteSlot(s, v).slot = s
                            /\ WriteSlot(s, v).value = v
    BY DEF WriteSlot
  <2> HIDE DEF q, kept, left, taken, done
  <2> QED
    BY <1>5, <1>7, <2>1, <2>2, <2>3, <2>4 DEF DeliverySet
<1> HIDE DEF q, kept, left, taken, done, W
<1>9. \A s \in Slot : queue.slots[s] # NoEvent =>
         (queue.slots[s].id \in ids <=> queue.slots[s].event \in taken)
  BY <1>3, <1>4
<1>10. FlashInv(nv, k, events)
  <2>1. P \in SUBSET (1 .. events)
    BY <1>3, <1>4
  <2> QED
    BY <2>1, FlashPublished
<1>11. MetaInv(nv, q, W, k)
  <2>1. /\ queue.overflow \in Int /\ job.overflow \in Nat /\ ledger.reported \in Int
        /\ ledger.refused \in Int /\ queue.boot \in Int
    BY JobFacts, BaseFacts DEF Queue, Ledger
  <2>2. k.refused <= k.reported + q.overflow
    BY <1>1, <1>2, <2>1
  <2>3. \A w \in W : w.type = "meta" => w.boot = q.boot /\ w.overflow = q.overflow
    BY <1>8
  <2>4. nv.overflow = q.overflow \/ \E w \in W : w.type = "meta"
    <3>1. CASE job.overflow > 0
      BY <1>8, <3>1
    <3>2. CASE ~(job.overflow > 0)
      <4>1. job.overflow = 0
        BY <2>1, <3>2
      <4>2. queue.overflow - 0 = queue.overflow
        BY <2>1
      <4> QED
        BY <1>1, <1>2, <4>1, <4>2
    <3> QED
      BY <3>1, <3>2
  <2>5. nv.boot = q.boot /\ nv.boot <= q.boot
    BY <1>1, <1>2, <2>1
  <2> QED
    BY <2>2, <2>3, <2>4, <2>5 DEF MetaInv
<1>12. SlotInv(nv, q, W, k)
  <2>1. ASSUME NEW s \in Slot
        PROVE  nv.slots[s] = q.slots[s] \/ \E w \in W : w.type \in {"slot", "erase"} /\ w.slot = s
    BY <1>1, <1>2, <1>5, <1>6, <1>8
  <2>2. ASSUME NEW w \in W, w.type \in {"slot", "erase"}
        PROVE  /\ w.value = q.slots[w.slot]
               /\ \/ nv.slots[w.slot] = NoEvent
                  \/ nv.slots[w.slot].event \in k.published
                  \/ w.type = "slot" /\ nv.slots[w.slot].event = w.value.event
    <3>1. CASE w.type = "erase"
      <4>1. w.slot \in done /\ w.value = NoEvent
        BY <1>8, <3>1
      <4>2. q.slots[w.slot] = NoEvent
        BY <1>2, <1>5, <1>6, <4>1
      <4>3. nv.slots[w.slot].event \in taken
        BY <1>1, <1>5, <1>9, <4>1
      <4> QED
        BY <4>1, <4>2, <4>3 DEF taken
    <3>2. CASE w.type = "slot"
      <4>1. w.slot \in NewlyMarked(kept, left) /\ w.value = Marked(kept, left)[w.slot]
        BY <1>8, <3>2
      <4>2. w.slot \in Slot /\ kept[w.slot] # NoEvent
        BY <1>7, <4>1
      <4>3. kept[w.slot] = nv.slots[w.slot]
        BY <1>1, <1>5, <4>2
      <4> QED
        BY <1>2, <1>6, <3>2, <4>1, <4>2, <4>3
    <3> QED
      BY <2>2, <3>1, <3>2
  <2> QED
    BY <2>1, <2>2 DEF SlotInv
<1>13. Fresh(q) = Fresh(queue)
  BY <1>2 DEF Fresh
<1>14. AckInv(nv, q, W, k, events)
  <2>1. \A w \in W : w.type = "erase" => \E a \in W : a.type = "ack" /\ w.taken \subseteq a.taken
    BY <1>8
  <2>2. \A id \in ids : Older(id, Fresh(q))
    BY <1>3, <1>4, <1>13
  <2>3. taken \subseteq 1 .. events
    BY <1>3, <1>4
  <2>4. ASSUME NEW s \in Slot
        PROVE  /\ q.slots[s] # NoEvent => q.slots[s].id \notin ids /\ q.slots[s].event \notin taken
               /\ nv.slots[s] # NoEvent =>
                     /\ nv.slots[s].event \in k.settled \cup taken => nv.slots[s].id \in ids
                     /\ nv.slots[s].id \in ids => nv.slots[s].event \in k.published
    <3>1. q.slots[s] # NoEvent => /\ queue.slots[s] # NoEvent /\ s \notin done
                                  /\ q.slots[s].id = queue.slots[s].id
                                  /\ q.slots[s].event = queue.slots[s].event
      BY <1>2, <1>5, <1>6
    <3>2. queue.slots[s] # NoEvent => queue.slots[s].event \notin ledger.settled
      BY <1>1 DEF PendingInv
    <3>3. taken \subseteq k.published
      BY DEF taken
    <3> QED
      BY <1>1, <1>5, <1>9, <3>1, <3>2, <3>3
  <2> DEFINE a == WriteAck(ids, taken)
  <2>5. \A w \in W : w.type = "ack" => w = a
    BY <1>8
  <2>6. a.ids = ids /\ a.taken = taken
    BY <1>8
  <2> HIDE DEF a
  <2>7. \A w \in W : w.type = "ack" => w.ids = ids /\ w.taken = taken
    BY <2>5, <2>6
  <2>8. ASSUME NEW w \in W, w.type = "ack"
        PROVE  /\ \A id \in w.ids : Older(id, Fresh(q))
               /\ w.taken \subseteq 1 .. events
               /\ \A s \in Slot :
                     /\ q.slots[s] # NoEvent => /\ q.slots[s].id \notin w.ids
                                                /\ q.slots[s].event \notin w.taken
                     /\ nv.slots[s] # NoEvent =>
                           /\ nv.slots[s].event \in k.settled \cup w.taken
                                 => nv.slots[s].id \in w.ids
                           /\ nv.slots[s].id \in w.ids => nv.slots[s].event \in k.published
    <3>1. w.ids = ids /\ w.taken = taken
      BY <2>7, <2>8
    <3> QED
      BY <2>2, <2>3, <2>4, <3>1
  <2> QED
    BY <2>1, <2>8 DEF AckInv
<1>15. PendingInv(nv, q, k, events)
  <2>1. ASSUME NEW s \in Slot, q.slots[s] # NoEvent
        PROVE  /\ queue.slots[s] # NoEvent
               /\ q.slots[s].id = queue.slots[s].id /\ q.slots[s].event = queue.slots[s].event
               /\ q.slots[s].event \in k.published \ k.cut => q.slots[s].ambiguous
    <3>1. /\ queue.slots[s] # NoEvent /\ kept[s] = queue.slots[s] /\ s \notin done
          /\ q.slots[s].id = queue.slots[s].id /\ q.slots[s].event = queue.slots[s].event
      BY <1>2, <1>5, <1>6, <2>1
    <3>2. CASE queue.slots[s].event \in ledger.published \ ledger.cut
      <4>1. queue.slots[s].ambiguous
        BY <1>1, <3>1, <3>2 DEF PendingInv
      <4> QED
        BY <1>2, <1>6, <3>1, <4>1
    <3>3. CASE queue.slots[s].event \in P
      <4>1. PICK x \in job.sent : x.event = queue.slots[s].event
        BY <1>4, <3>3
      <4>2. queue.slots[s].id = x.id
        BY <1>3, <3>1, <4>1
      <4>3. x.id \notin ids
        BY <1>5, <3>1, <4>2
      <4>4. kept[s].id \in left
        BY <1>4, <3>1, <4>2, <4>3
      <4> QED
        BY <1>2, <1>6, <3>1, <4>4
    <3> QED
      BY <3>1, <3>2, <3>3
  <2>2. Consistent(q.slots, q.slots) /\ Consistent(q.slots, nv.slots)
    <3>1. Consistent(queue.slots, queue.slots)
      BY <1>1 DEF PendingInv
    <3> QED
      BY <1>1, <2>1, <3>1 DEF Consistent
  <2> QED
    BY <1>1, <1>13, <2>1, <2>2 DEF PendingInv
<1> QED
  BY <1>10, <1>11, <1>12, <1>14, <1>15 DEF OpenInv, q, W, kept, left, taken, done

\* An ambiguous outcome: the events of the attempt are marked.
LEMMA AmbiguousTrust ==
    ASSUME BaseInv, job # NoJob, NEW r \in Queue, NEW k,
           NEW P \in SUBSET Events(job.sent),
           r.slots = Marked(queue.slots, Ids(job.sent)),
           r.boot = queue.boot, r.seq = queue.seq, r.overflow = queue.overflow,
           k.published = ledger.published \cup P, k.cut = ledger.cut,
           k.settled = ledger.settled, k.stored = ledger.stored,
           k.refused = ledger.refused, k.reported = ledger.reported,
           FlashInv(nv, ledger, events), OpenInv(nv, queue, {}, ledger, events)
    PROVE  /\ FlashInv(nv, k, events)
           /\ OpenInv(nv, r, Range(MarkWrites(queue.slots, Ids(job.sent))), k, events)
<1> DEFINE left == Ids(job.sent)
           N == NewlyMarked(queue.slots, left)
           W == Range(MarkWrites(queue.slots, left))
<1>1. /\ nv.boot = queue.boot /\ nv.overflow = queue.overflow
      /\ \A s \in Slot : nv.slots[s] = queue.slots[s]
      /\ ledger.refused <= ledger.reported + queue.overflow
      /\ PendingInv(nv, queue, ledger, events)
  BY Synced
<1>2. queue.slots \in [Slot -> AlertEvent \cup {NoEvent}]
  BY JobFacts
<1>3. /\ \A x \in job.sent : Older(x.id, Fresh(queue)) /\ x.event \in 1 .. events
      /\ \A s \in Slot : queue.slots[s] # NoEvent =>
            \A x \in job.sent : queue.slots[s].id = x.id <=> queue.slots[s].event = x.event
  BY <1>1, JobMatch
<1>4. /\ \A x \in job.sent : x.id \in left
      /\ \A e \in P : \E x \in job.sent : x.event = e
  BY DEF Events, Ids
<1>5. /\ \A s \in Slot :
            /\ r.slots[s] = NoEvent <=> queue.slots[s] = NoEvent
            /\ queue.slots[s] # NoEvent =>
                  /\ r.slots[s].id = queue.slots[s].id
                  /\ r.slots[s].event = queue.slots[s].event
                  /\ queue.slots[s].ambiguous => r.slots[s].ambiguous
                  /\ queue.slots[s].id \in left => r.slots[s].ambiguous
            /\ s \notin N => r.slots[s] = queue.slots[s]
      /\ W = {WriteSlot(s, r.slots[s]) : s \in N}
  BY <1>2, MarkWritesFacts
<1>6. \A s \in N : s \in Slot /\ queue.slots[s] # NoEvent
  BY DEF NewlyMarked, Taken
<1> HIDE DEF left, N, W
<1>7. /\ \A w \in W : w.type = "slot" /\ w.slot \in N /\ w.value = r.slots[w.slot]
      /\ \A s \in N : \E w \in W : w.type = "slot" /\ w.slot = s
  <2>1. \A s \in N : LET v == r.slots[s]
                     IN  /\ WriteSlot(s, v).type = "slot" /\ WriteSlot(s, v).slot = s
                         /\ WriteSlot(s, v).value = v
    BY DEF WriteSlot
  <2> QED
    BY <1>5, <2>1
<1>8. FlashInv(nv, k, events)
  <2>1. P \in SUBSET (1 .. events)
    BY <1>3, <1>4
  <2> QED
    BY <2>1, FlashPublished
<1>9. MetaInv(nv, r, W, k)
  <2>1. r.boot <= r.boot
    BY DEF Queue
  <2> QED
    BY <1>1, <1>7, <2>1 DEF MetaInv
<1>10. SlotInv(nv, r, W, k)
  BY <1>1, <1>5, <1>6, <1>7 DEF SlotInv
<1>11. AckInv(nv, r, W, k, events)
  BY <1>7 DEF AckInv
<1>12. PendingInv(nv, r, k, events)
  <2>1. ASSUME NEW s \in Slot, r.slots[s] # NoEvent
        PROVE  /\ queue.slots[s] # NoEvent
               /\ r.slots[s].id = queue.slots[s].id /\ r.slots[s].event = queue.slots[s].event
               /\ r.slots[s].event \in k.published \ k.cut => r.slots[s].ambiguous
    <3>1. /\ queue.slots[s] # NoEvent
          /\ r.slots[s].id = queue.slots[s].id /\ r.slots[s].event = queue.slots[s].event
      BY <1>5, <2>1
    <3>2. CASE queue.slots[s].event \in ledger.published \ ledger.cut
      <4>1. queue.slots[s].ambiguous
        BY <1>1, <3>1, <3>2 DEF PendingInv
      <4> QED
        BY <1>5, <3>1, <4>1
    <3>3. CASE queue.slots[s].event \in P
      <4>1. PICK x \in job.sent : x.event = queue.slots[s].event
        BY <1>4, <3>3
      <4>2. queue.slots[s].id \in left
        BY <1>3, <1>4, <3>1, <4>1
      <4> QED
        BY <1>5, <3>1, <4>2
    <3> QED
      BY <3>1, <3>2, <3>3
  <2>2. Consistent(r.slots, r.slots) /\ Consistent(r.slots, nv.slots)
    <3>1. Consistent(queue.slots, queue.slots)
      BY <1>1 DEF PendingInv
    <3> QED
      BY <1>1, <2>1, <3>1 DEF Consistent
  <2>3. Fresh(r) = Fresh(queue)
    BY DEF Fresh
  <2> QED
    BY <1>1, <2>1, <2>2, <2>3 DEF PendingInv
<1> QED
  BY <1>8, <1>9, <1>10, <1>11, <1>12 DEF OpenInv, W, left

-----------------------------------------------------------------------------
(* Each step, while writes succeed                                         *)

\* With a trusted history before and after a step, it is not emptied.
LEMMA StillKept ==
    ASSUME NEW l \in Ledger, Kept(l).trusted
    PROVE  l.trusted /\ Kept(l) = l
  BY KeptFacts

\* The queue between two handlers, while writes succeed.
LEMMA IdleTrust ==
    ASSUME TrustInv, ledger.trusted, todo = <<>>
    PROVE  /\ FlashInv(nv, ledger, events)
           /\ queue = NoQueue => ClosedInv(nv, ledger)
           /\ queue # NoQueue => OpenInv(nv, queue, {}, ledger, events)
<1>1. Range(<<>>) = {}
  BY DEF Range
<1> QED
  BY <1>1 DEF TrustInv

\* set_alert_config.
LEMMA TrustSet ==
    ASSUME BaseInv, TrustInv, NEW on \in BOOLEAN, NEW again \in BOOLEAN,
           SetAlertConfig(on, again)
    PROVE  TrustInv'
<1> SUFFICES ASSUME ledger.trusted
             PROVE  /\ FlashInv(nv', ledger, events)
                    /\ IF queue' = NoQueue THEN ClosedInv(nv', ledger)
                       ELSE OpenInv(nv', queue', Range(todo'), ledger, events)
  BY DEF TrustInv, SetAlertConfig
<1>1. /\ todo = <<>> /\ nv' = [nv EXCEPT !.enabled = on]
      /\ nv \in Records /\ ledger \in Ledger /\ events \in Nat
  BY BaseFacts DEF SetAlertConfig, Ready
<1>2. /\ nv'.slots = nv.slots /\ nv'.boot = nv.boot /\ nv'.ack = nv.ack
      /\ nv'.overflow = nv.overflow
  BY <1>1 DEF Records
<1>3. /\ FlashInv(nv, ledger, events)
      /\ queue = NoQueue => ClosedInv(nv, ledger)
      /\ queue # NoQueue => OpenInv(nv, queue, {}, ledger, events)
  BY <1>1, IdleTrust
<1>4. FlashInv(nv', ledger, events)
  BY <1>2, <1>3, SameRecords
<1>5. CASE on /\ queue = NoQueue
  <2>1. nv.boot < MaxBoots /\ queue' = OpenedQueue /\ todo' = OpenWrites(OpenedQueue)
    BY <1>5 DEF SetAlertConfig
  <2>2. OpenedQueue # NoQueue
    BY <1>1, <2>1, Opened
  <2> DEFINE q == OpenedQueue
             W == Range(OpenWrites(OpenedQueue))
  <2>3. OpenInv(nv, q, W, ledger, events)
    BY <1>1, <1>3, <1>5, <2>1, OpenedTrust
  <2> HIDE DEF q, W
  <2>4. OpenInv(nv', q, W, ledger, events)
    BY <1>2, <2>3, SameRecords
  <2> QED
    BY <1>4, <2>1, <2>2, <2>4 DEF q, W
<1>6. CASE ~(on /\ queue = NoQueue)
  <2>1. queue' = queue /\ todo' = <<>>
    BY <1>1, <1>6 DEF SetAlertConfig
  <2>2. Range(<<>>) = {}
    BY DEF Range
  <2>3. /\ queue = NoQueue => ClosedInv(nv', ledger)
        /\ queue # NoQueue => OpenInv(nv', queue, {}, ledger, events)
    BY <1>2, <1>3, SameRecords
  <2> QED
    BY <1>4, <2>1, <2>2, <2>3
<1> QED
  BY <1>5, <1>6

\* Hub::factory_reset: nothing is promised any more.
LEMMA TrustReset ==
    ASSUME BaseInv, FactoryReset
    PROVE  TrustInv'
<1>1. ledger' = Kept([ledger EXCEPT !.trusted = FALSE])
  BY DEF FactoryReset
<1>2. ledger \in Ledger
  BY BaseFacts
<1> DEFINE l == [ledger EXCEPT !.trusted = FALSE]
<1>3. l \in Ledger
  BY <1>2 DEF Ledger
<1>4. ~l.trusted
  BY <1>2 DEF Ledger
<1> HIDE DEF l
<1>5. ~Kept(l).trusted
  BY <1>3, <1>4, StillKept
<1> QED
  BY <1>1, <1>5 DEF TrustInv, l

\* queue_alert.
LEMMA TrustQueue ==
    ASSUME BaseInv, TrustInv, QueueAlert
    PROVE  TrustInv'
<1>1. /\ todo = <<>> /\ enabled /\ events' = events + 1 /\ nv' = nv
      /\ queue # NoQueue /\ queue \in Queue /\ nv \in Records /\ ledger \in Ledger
      /\ events \in Nat /\ events < MaxEvents
  BY BaseFacts DEF QueueAlert, Ready, BaseInv, TypeInvariant
<1>2. BaseInv'
  BY BaseQueue
<1>3. queue' # NoQueue => queue' \in Queue
  BY <1>2 DEF BaseInv, TypeInvariant
<1>4. CASE PushFull
  <2>1. /\ queue' = [queue EXCEPT !.seq = @ + 1, !.overflow = @ + 1]
        /\ todo' = <<WriteMeta(queue')>>
        /\ ledger' = Kept([ledger EXCEPT !.refused = @ + 1])
    BY <1>4 DEF PushFull
  <2>2. /\ queue'.slots = queue.slots /\ queue'.boot = queue.boot
        /\ queue'.seq = queue.seq + 1 /\ queue'.overflow = queue.overflow + 1
    BY <1>1, <2>1 DEF Queue
  <2>3. queue' # NoQueue
    BY <1>1, <2>2 DEF NoQueue, Queue
  <2> DEFINE k == [ledger EXCEPT !.refused = @ + 1]
  <2>4. k \in Ledger
    <3>1. ledger.refused \in Nat /\ ledger.refused <= events
      BY <1>1 DEF Ledger, BaseInv, RunInv
    <3>2. ledger.refused + 1 \in 0 .. MaxEvents
      BY <1>1, <3>1, QueueAssumption
    <3> QED
      BY <1>1, <3>2 DEF Ledger
  <2>5. /\ k.published = ledger.published /\ k.cut = ledger.cut /\ k.settled = ledger.settled
        /\ k.stored = ledger.stored /\ k.reported = ledger.reported
        /\ k.refused = ledger.refused + 1
    BY <1>1 DEF Ledger
  <2>6. k.trusted = ledger.trusted
    BY <1>1 DEF Ledger
  <2> HIDE DEF k
  <2>7. SUFFICES ASSUME ledger'.trusted
                 PROVE  FlashInv(nv, k, events + 1)
                        /\ OpenInv(nv, queue', {WriteMeta(queue')}, k, events + 1)
    <3>1. ledger' = Kept(k)
      BY <2>1 DEF k
    <3>2. ledger'.trusted => ledger' = k
      BY <2>4, <3>1, StillKept
    <3>3. Range(<<WriteMeta(queue')>>) = {WriteMeta(queue')}
      BY DEF Range
    <3> QED
      BY <1>1, <2>1, <2>3, <3>2, <3>3 DEF TrustInv
  <2>8. ledger.trusted
    <3>1. ledger' = Kept(k)
      BY <2>1 DEF k
    <3> QED
      BY <2>4, <2>6, <2>7, <3>1, StillKept
  <2>9. FlashInv(nv, ledger, events) /\ OpenInv(nv, queue, {}, ledger, events)
    BY <1>1, <2>8, IdleTrust
  <2> QED
    BY <1>1, <1>3, <2>2, <2>3, <2>4, <2>5, <2>9, FullTrust
<1>5. CASE PushStored
  <2> DEFINE s == InOrder(Free(queue.slots))[1]
             e == [id |-> [boot |-> queue.boot, seq |-> queue.seq],
                   event |-> events + 1, ambiguous |-> FALSE]
  <2>1. /\ queue' = [queue EXCEPT !.seq = @ + 1, !.slots[s] = e]
        /\ todo' = <<WriteSlot(s, e)>> /\ ledger' = ledger
        /\ Free(queue.slots) # {}
    BY <1>5 DEF PushStored
  <2>2. s \in Slot /\ queue.slots[s] = NoEvent
    <3>1. s \in Free(queue.slots)
      BY <2>1, FirstFree
    <3> QED
      BY <3>1 DEF Free
  <2>3. e \in AlertEvent /\ e.id = Fresh(queue) /\ e.event = events + 1
    <3>1. [boot |-> queue.boot, seq |-> queue.seq] \in EventId
      BY <1>1 DEF Queue, EventId
    <3>2. events + 1 \in Event
      BY <1>1, QueueAssumption DEF Event
    <3>3. e.id = [boot |-> queue.boot, seq |-> queue.seq] /\ e.event = events + 1
      OBVIOUS
    <3> QED
      BY <3>1, <3>2, <3>3 DEF AlertEvent, Fresh
  <2> HIDE DEF s, e
  <2>4. /\ queue'.slots = [queue.slots EXCEPT ![s] = e] /\ queue'.boot = queue.boot
        /\ queue'.seq = queue.seq + 1 /\ queue'.overflow = queue.overflow
    BY <1>1, <2>1 DEF Queue
  <2>5. queue' # NoQueue
    BY <1>1, <2>4 DEF NoQueue, Queue
  <2>6. SUFFICES ASSUME ledger.trusted
                 PROVE  FlashInv(nv, ledger, events + 1)
                        /\ OpenInv(nv, queue', {WriteSlot(s, e)}, ledger, events + 1)
    <3>1. Range(<<WriteSlot(s, e)>>) = {WriteSlot(s, e)}
      BY DEF Range
    <3> QED
      BY <1>1, <2>1, <2>5, <3>1 DEF TrustInv
  <2>7. FlashInv(nv, ledger, events) /\ OpenInv(nv, queue, {}, ledger, events)
    BY <1>1, <2>6, IdleTrust
  <2> QED
    BY <1>1, <1>3, <2>2, <2>3, <2>4, <2>5, <2>7, StoredTrust
<1> QED
  BY <1>4, <1>5 DEF QueueAlert

\* finish_alert_with after an answer that takes some of the events.
LEMMA TrustDelivered ==
    ASSUME BaseInv, TrustInv, NEW restored \in BOOLEAN, NEW ids \in SUBSET Ids(job.sent),
           FinishDelivered(ids, restored)
    PROVE  TrustInv'
<1> DEFINE q == DeliveredQueue(ids)
           kept == DeliveredSlots(ids)
           left == Ids(job.sent) \ ids
           taken == DeliveredEvents(ids)
           done == Taken(queue.slots, ids)
           td == DeliveryTodo(done, ids, taken, job.overflow, q, kept, left)
           W == DeliverySet(done, ids, taken, job.overflow, q, kept, left)
<1>1. /\ job # NoJob /\ nv' = nv /\ events' = events /\ queue' = q /\ todo' = td
      /\ \E more \in {{}, Events(job.sent)} :
            ledger' = Kept([ledger EXCEPT !.published = @ \cup taken \cup more,
                                          !.reported = @ + job.overflow])
  BY DEF FinishDelivered, DeliveredQueue, DeliveredSlots, DeliveredEvents, DeliveryTodo
<1>2. q # NoQueue /\ Range(td) = W /\ taken \in SUBSET Event /\ taken \subseteq Events(job.sent)
  BY <1>1, Delivered
<1>3. /\ queue # NoQueue /\ todo = <<>> /\ job.overflow \in Nat /\ ledger \in Ledger
      /\ Events(job.sent) \in SUBSET Event
  BY <1>1, JobFacts, BaseFacts
<1>4. PICK more \in {{}, Events(job.sent)} :
         ledger' = Kept([ledger EXCEPT !.published = @ \cup taken \cup more,
                                       !.reported = @ + job.overflow])
  BY <1>1
<1> DEFINE P == taken \cup more
           k == Publish(ledger, P, job.overflow)
<1>5. ledger' = Kept(k)
  <2>1. ledger.published \cup taken \cup more = ledger.published \cup P
    OBVIOUS
  <2> QED
    BY <1>4, <2>1 DEF Publish
<1>6. P \in SUBSET Events(job.sent) /\ P \in SUBSET Event /\ taken \subseteq P
  BY <1>2, <1>3
<1> HIDE DEF P
<1>7. /\ k \in Ledger /\ k.trusted = ledger.trusted
      /\ k.published = ledger.published \cup P /\ k.cut = ledger.cut
      /\ k.settled = ledger.settled /\ k.stored = ledger.stored
      /\ k.refused = ledger.refused /\ k.reported = ledger.reported + job.overflow
  <2>1. ledger \in Ledger /\ P \in SUBSET Event /\ job.overflow \in Nat
    BY <1>3, <1>6
  <2> QED
    BY <2>1, PublishFacts
<1> HIDE DEF k
<1>8. SUFFICES ASSUME ledger'.trusted
               PROVE  FlashInv(nv, k, events) /\ OpenInv(nv, q, W, k, events)
  <2>1. ledger'.trusted => ledger' = k
    BY <1>5, <1>7, StillKept
  <2> HIDE DEF q, W, td
  <2> QED
    BY <1>1, <1>2, <2>1 DEF TrustInv
<1>9. ledger.trusted
  BY <1>5, <1>7, <1>8, StillKept
<1>10. FlashInv(nv, ledger, events) /\ OpenInv(nv, queue, {}, ledger, events)
  BY <1>3, <1>9, IdleTrust
<1> QED
  BY <1>1, <1>6, <1>7, <1>10, DeliveredTrust

\* finish_alert_with after any other outcome.
LEMMA TrustFailed ==
    ASSUME BaseInv, TrustInv, NEW restored \in BOOLEAN, NEW ambiguous \in BOOLEAN,
           FinishFailed(ambiguous, restored)
    PROVE  TrustInv'
<1> DEFINE left == Ids(job.sent)
           M == Marked(queue.slots, left)
           W == MarkWrites(queue.slots, left)
<1>1. /\ job # NoJob /\ nv' = nv /\ events' = events
      /\ queue' = IF ambiguous THEN [queue EXCEPT !.slots = M] ELSE queue
      /\ todo' = IF ambiguous THEN W ELSE <<>>
      /\ \E seen \in {{}, IF ambiguous THEN Events(job.sent) ELSE {}} :
            ledger' = Kept(Reach(ledger, seen))
  BY DEF FinishFailed, Reach
<1>2. /\ queue # NoQueue /\ todo = <<>> /\ queue \in Queue /\ ledger \in Ledger
      /\ Events(job.sent) \in SUBSET Event /\ 0 \in Nat
  BY <1>1, JobFacts, BaseFacts
<1>3. PICK seen \in {{}, IF ambiguous THEN Events(job.sent) ELSE {}} :
         ledger' = Kept(Reach(ledger, seen))
  BY <1>1
<1>4. seen \in SUBSET Event /\ seen \in SUBSET Events(job.sent) /\ (~ambiguous => seen = {})
  BY <1>2
<1> DEFINE k == Reach(ledger, seen)
<1>5. /\ k \in Ledger /\ k.trusted = ledger.trusted
      /\ k.published = ledger.published \cup seen /\ k.cut = ledger.cut
      /\ k.settled = ledger.settled /\ k.stored = ledger.stored
      /\ k.refused = ledger.refused /\ k.reported = ledger.reported
  BY <1>2, <1>4, PublishFacts
<1>6. ledger' = Kept(k)
  BY <1>3
<1> HIDE DEF k
<1>7. BaseInv'
  BY BaseFailed
<1>8. queue' # NoQueue
  <2>1. queue'.boot = queue.boot
    BY <1>1, <1>2 DEF Queue
  <2> QED
    BY <1>2, <2>1 DEF NoQueue, Queue
<1>9. queue' \in Queue
  BY <1>7, <1>8 DEF BaseInv, TypeInvariant
<1>10. SUFFICES ASSUME ledger'.trusted
                PROVE  FlashInv(nv, k, events) /\ OpenInv(nv, queue', Range(todo'), k, events)
  <2>1. ledger'.trusted => ledger' = k
    BY <1>5, <1>6, StillKept
  <2> QED
    BY <1>1, <1>8, <2>1 DEF TrustInv
<1>11. ledger.trusted
  BY <1>5, <1>6, <1>10, StillKept
<1>12. FlashInv(nv, ledger, events) /\ OpenInv(nv, queue, {}, ledger, events)
  BY <1>2, <1>11, IdleTrust
<1>13. CASE ambiguous
  <2>1. /\ queue'.slots = Marked(queue.slots, Ids(job.sent)) /\ queue'.boot = queue.boot
        /\ queue'.seq = queue.seq /\ queue'.overflow = queue.overflow
    <3> HIDE DEF M
    <3>1. /\ queue'.slots = M /\ queue'.boot = queue.boot
          /\ queue'.seq = queue.seq /\ queue'.overflow = queue.overflow
      BY <1>1, <1>2, <1>13 DEF Queue
    <3> QED
      BY <3>1 DEF M
  <2>2. todo' = MarkWrites(queue.slots, Ids(job.sent))
    BY <1>1, <1>13
  <2>3. /\ FlashInv(nv, k, events)
        /\ OpenInv(nv, queue', Range(MarkWrites(queue.slots, Ids(job.sent))), k, events)
    BY <1>1, <1>4, <1>5, <1>9, <1>12, <2>1, AmbiguousTrust
  <2> QED
    BY <2>2, <2>3
<1>14. CASE ~ambiguous
  <2>1. queue' = queue /\ todo' = <<>> /\ k.published = ledger.published
    BY <1>1, <1>4, <1>5, <1>14
  <2>2. Range(<<>>) = {}
    BY DEF Range
  <2>3. FlashInv(nv, k, events)
    BY <1>5, <1>12, <2>1 DEF FlashInv
  <2>4. OpenInv(nv, queue, {}, k, events)
    BY <1>5, <1>12, <2>1 DEF OpenInv, MetaInv, SlotInv, AckInv, PendingInv
  <2> QED
    BY <2>1, <2>2, <2>3, <2>4
<1> QED
  BY <1>13, <1>14

\* The next write of the running handler.
LEMMA TrustPerform ==
    ASSUME BaseInv, TrustInv, NEW ok \in BOOLEAN, Perform(ok)
    PROVE  TrustInv'
<1> DEFINE w == Head(todo)
           V == Range(Tail(todo))
<1>1. /\ todo # <<>> /\ todo' = Tail(todo)
      /\ nv' = IF ok THEN Written(w) ELSE nv
      /\ ledger' = Kept(Recorded(ledger, w, ok))
      /\ queue' = queue /\ events' = events
  BY DEF Perform, Recorded
<1>2. /\ todo \in Seq(Write) /\ nv \in Records /\ ledger \in Ledger /\ events \in Nat
      /\ queue # NoQueue /\ queue \in Queue
  BY <1>1, BaseFacts DEF BaseInv, RunInv
<1>3. /\ Tail(todo) \in Seq(Write) /\ w \in Write /\ Range(todo) = {w} \cup V
      /\ \A i \in 1 .. Len(Tail(todo)) : Tail(todo)[i] = todo[i + 1] /\ i + 1 \in 1 .. Len(todo)
  BY <1>1, <1>2, RangeTail
<1>4. V \in SUBSET Write
  BY <1>3 DEF Range
<1>5. \A v \in V : v.type # "ack"
  <2>1. \A i \in 1 .. Len(Tail(todo)) : Tail(todo)[i].type # "ack"
    <3> SUFFICES ASSUME NEW i \in 1 .. Len(Tail(todo))
                 PROVE  Tail(todo)[i].type # "ack"
      OBVIOUS
    <3>1. Tail(todo)[i] = todo[i + 1] /\ i + 1 \in DOMAIN todo /\ i + 1 # 1
      BY <1>2, <1>3
    <3> QED
      BY <3>1 DEF BaseInv, RunInv
  <2>2. DOMAIN Tail(todo) = 1 .. Len(Tail(todo))
    BY <1>3
  <2> QED
    BY <2>1, <2>2 DEF Range
<1> HIDE DEF w
<1> DEFINE k == Recorded(ledger, w, ok)
<1>6. /\ k \in Ledger
      /\ k.stored = (IF ok /\ w.type = "slot" THEN ledger.stored \cup {w.value.event}
                     ELSE ledger.stored)
      /\ k.settled = (IF w.type \in {"ack", "erase"} THEN ledger.settled \cup w.taken
                      ELSE ledger.settled)
      /\ k.trusted = (ledger.trusted /\ ok)
      /\ Quiet(ledger, k)
  BY <1>2, <1>3, RecordedFacts DEF Quiet
<1> HIDE DEF k, V
<1>7. SUFFICES ASSUME ledger'.trusted
               PROVE  FlashInv(nv', k, events) /\ OpenInv(nv', queue, V, k, events)
  <2>1. ledger'.trusted => ledger' = k
    BY <1>1, <1>6, StillKept DEF k
  <2> QED
    BY <1>1, <1>2, <2>1 DEF TrustInv, V
<1>8. ledger.trusted /\ ok
  BY <1>1, <1>6, <1>7, StillKept DEF k
<1>9. FlashInv(nv, ledger, events) /\ OpenInv(nv, queue, {w} \cup V, ledger, events)
  BY <1>2, <1>3, <1>8 DEF TrustInv
<1> DEFINE m == Written(w)
<1>10. /\ m \in Records /\ nv' = m
       /\ w.type = "meta" => /\ m.boot = w.boot /\ m.overflow = w.overflow
                             /\ m.ack = nv.ack /\ m.slots = nv.slots
       /\ w.type = "ack" => /\ m.ack = w.ids /\ m.slots = nv.slots
                            /\ m.boot = nv.boot /\ m.overflow = nv.overflow
       /\ w.type \in {"slot", "erase"} =>
             /\ m.slots = [nv.slots EXCEPT ![w.slot] = w.value]
             /\ m.boot = nv.boot /\ m.overflow = nv.overflow /\ m.ack = nv.ack
  BY <1>1, <1>2, <1>3, <1>8, WrittenFacts
<1> HIDE DEF m
<1>11. CASE w.type = "meta"
  <2>1. k.stored = ledger.stored /\ k.settled = ledger.settled
    BY <1>6, <1>11
  <2>2. /\ m.boot = w.boot /\ m.overflow = w.overflow /\ m.ack = nv.ack /\ m.slots = nv.slots
        /\ nv \in Records /\ m \in Records /\ queue \in Queue /\ w \in Write /\ Quiet(ledger, k)
    BY <1>2, <1>3, <1>6, <1>10, <1>11
  <2>3. FlashInv(m, k, events) /\ OpenInv(m, queue, V, k, events)
    BY <1>2, <1>4, <1>5, <1>9, <1>11, <2>1, <2>2, MetaWritten
  <2> QED
    BY <1>10, <2>3
<1>12. CASE w.type = "ack"
  <2>1. k.stored = ledger.stored /\ k.settled = ledger.settled \cup w.taken
    BY <1>6, <1>12
  <2>2. /\ m.boot = nv.boot /\ m.overflow = nv.overflow /\ m.ack = w.ids /\ m.slots = nv.slots
        /\ nv \in Records /\ m \in Records /\ queue \in Queue /\ w \in Write /\ Quiet(ledger, k)
    BY <1>2, <1>3, <1>6, <1>10, <1>12
  <2>3. FlashInv(m, k, events) /\ OpenInv(m, queue, V, k, events)
    BY <1>2, <1>4, <1>5, <1>9, <1>12, <2>1, <2>2, AckWritten
  <2> QED
    BY <1>10, <2>3
<1>13. CASE w.type \in {"slot", "erase"}
  <2>1. /\ k.stored = IF w.type = "slot" THEN ledger.stored \cup {w.value.event}
                      ELSE ledger.stored
        /\ k.settled = IF w.type = "erase" THEN ledger.settled \cup w.taken
                       ELSE ledger.settled
    BY <1>6, <1>8, <1>13
  <2> QED
    BY <1>2, <1>3, <1>4, <1>5, <1>6, <1>9, <1>10, <1>13, <2>1, SlotWritten
<1> QED
  BY <1>3, <1>11, <1>12, <1>13, WriteFacts

\* Power loss, boot and restore_alerts.
LEMMA TrustRestart ==
    ASSUME BaseInv, TrustInv, Restart
    PROVE  TrustInv'
<1>1. /\ nv.enabled => nv.boot < MaxBoots
      /\ queue' = IF nv.enabled THEN OpenedQueue ELSE NoQueue
      /\ todo' = IF nv.enabled THEN OpenWrites(queue') ELSE <<>>
      /\ \E seen \in {{}, Events(job.sent)} : ledger' = Kept(Cut(ledger, seen, Ready, nv))
      /\ nv' = nv /\ events' = events
  BY DEF Restart, Cut
<1>2. nv \in Records /\ events \in Nat /\ ledger \in Ledger
  BY BaseFacts
<1>3. PICK seen \in {{}, Events(job.sent)} : ledger' = Kept(Cut(ledger, seen, Ready, nv))
  BY <1>1
<1>4. seen \in SUBSET Event /\ Ready \in BOOLEAN
  <2>1. job \in Job
    BY DEF BaseInv, TypeInvariant
  <2> QED
    BY <2>1 DEF Job, Events, Ready
<1> DEFINE k == Cut(ledger, seen, Ready, nv)
<1>5. /\ k \in Ledger
      /\ k.published = ledger.published \cup seen
      /\ k.cut = (IF Ready THEN ledger.cut ELSE ledger.cut \cup EventsIn(nv.slots))
      /\ Ready => k.refused = ledger.refused
      /\ ~Ready => k.refused <= ledger.reported + nv.overflow
      /\ k.reported = ledger.reported /\ k.stored = ledger.stored
      /\ k.settled = ledger.settled /\ k.trusted = ledger.trusted
  <2>1. k \in Ledger /\ IsCut(k, ledger, seen, Ready, nv)
    BY <1>2, <1>4, CutFacts
  <2> HIDE DEF k
  <2> QED
    BY <2>1 DEF IsCut
<1>6. ledger' = Kept(k)
  BY <1>3
<1> HIDE DEF k
<1>7. SUFFICES ASSUME ledger.trusted
               PROVE  FlashInv(nv, k, events) /\ ClosedInv(nv, k)
  <2>1. ledger'.trusted => ledger.trusted /\ ledger' = k
    BY <1>5, <1>6, StillKept
  <2>2. CASE nv.enabled
    <3>1. FlashInv(nv, k, events) /\ ClosedInv(nv, k) =>
             OpenInv(nv, OpenedQueue, Range(OpenWrites(OpenedQueue)), k, events)
      BY <1>1, <1>2, <1>5, <2>2, OpenedTrust
    <3>2. queue' = OpenedQueue /\ todo' = OpenWrites(OpenedQueue) /\ OpenedQueue # NoQueue
      BY <1>1, <1>2, <2>2, Opened
    <3> QED
      BY <1>1, <1>7, <2>1, <3>1, <3>2 DEF TrustInv
  <2>3. CASE ~nv.enabled
    BY <1>1, <1>7, <2>1, <2>3 DEF TrustInv
  <2> QED
    BY <2>2, <2>3
<1>8. FlashInv(nv, ledger, events)
  BY <1>7 DEF TrustInv
<1>9. CASE Ready
  <2>1. todo = <<>> /\ job = NoJob
    BY <1>9 DEF Ready
  <2>2. seen = {}
    <3>1. Events({}) = {}
      BY DEF Events
    <3>2. NoJob.sent = {}
      BY DEF NoJob
    <3> QED
      BY <2>1, <3>1, <3>2
  <2>3. k.published = ledger.published /\ k.cut = ledger.cut /\ k.refused = ledger.refused
    BY <1>5, <1>9, <2>2
  <2>4. FlashInv(nv, k, events)
    BY <1>5, <1>8, <2>3 DEF FlashInv
  <2>5. ClosedInv(nv, ledger)
    <3>1. CASE queue = NoQueue
      BY <1>7, <2>1, <3>1, IdleTrust
    <3>2. CASE queue # NoQueue
      <4>1. OpenInv(nv, queue, {}, ledger, events)
        BY <1>7, <2>1, <3>2, IdleTrust
      <4>2. /\ nv.overflow = queue.overflow
            /\ \A s \in Slot : nv.slots[s] = queue.slots[s]
            /\ ledger.refused <= ledger.reported + queue.overflow
            /\ PendingInv(nv, queue, ledger, events)
        BY <4>1, Synced
      <4> QED
        BY <4>2 DEF ClosedInv, PendingInv
    <3> QED
      BY <3>1, <3>2
  <2>6. ClosedInv(nv, k)
    BY <1>5, <2>3, <2>5 DEF ClosedInv
  <2> QED
    BY <2>4, <2>6
<1>10. CASE ~Ready
  <2>1. seen \in SUBSET (1 .. events)
    <3>1. CASE job = NoJob
      <4>1. Events({}) = {}
        BY DEF Events
      <4>2. NoJob.sent = {}
        BY DEF NoJob
      <4> QED
        BY <3>1, <4>1, <4>2
    <3>2. CASE job # NoJob
      <4>1. todo = <<>> /\ queue # NoQueue
        BY <3>2, JobFacts
      <4>2. OpenInv(nv, queue, {}, ledger, events)
        BY <1>7, <4>1, IdleTrust
      <4>3. PendingInv(nv, queue, ledger, events)
        BY <4>2, Synced
      <4>4. \A x \in job.sent : x.event \in 1 .. events
        BY <3>2, <4>3, JobMatch
      <4> QED
        BY <4>4 DEF Events
    <3> QED
      BY <3>1, <3>2
  <2>2. FlashInv(nv, k, events)
    BY <1>5, <1>8, <2>1, FlashPublished
  <2>3. \A s \in Slot : nv.slots[s] # NoEvent => nv.slots[s].event \in k.cut
    BY <1>5, <1>10 DEF EventsIn, Pending, Free
  <2>4. ClosedInv(nv, k)
    BY <1>5, <1>10, <2>3 DEF ClosedInv
  <2> QED
    BY <2>2, <2>4
<1> QED
  BY <1>9, <1>10

\* An attempt begins, or fails for want of the radio: nothing is promised.
LEMMA TrustAttempt ==
    ASSUME TrustInv, UNCHANGED <<queue, todo, nv, events, ledger>>
    PROVE  TrustInv'
  BY DEF TrustInv

\* Every step keeps the invariant.
LEMMA QueueStep ==
    ASSUME QueueInv, [Next]_vars
    PROVE  QueueInv'
<1>1. BaseInv /\ TrustInv
  BY DEF QueueInv, BaseInv
<1>2. BaseInv'
  BY <1>1, BaseStep
<1>3. CASE Next
  <2>1. ASSUME NEW ok \in {TRUE, ~WritesFail}, Perform(ok)
        PROVE  TrustInv'
    <3>1. ok \in BOOLEAN
      BY QueueAssumption
    <3> QED
      BY <1>1, <2>1, <3>1, TrustPerform
  <2>2. PrepareAlert \/ IdleAttempt => TrustInv'
    BY <1>1, TrustAttempt DEF PrepareAlert, IdleAttempt
  <2>3. TrustInv'
    BY <1>1, <1>3, <2>1, <2>2, TrustSet, TrustReset, TrustQueue, TrustDelivered, TrustFailed,
       TrustRestart DEF Next
  <2> QED
    BY <1>2, <2>3 DEF QueueInv, BaseInv
<1>4. CASE UNCHANGED vars
  <2>1. TrustInv'
    BY <1>1, <1>4, TrustAttempt DEF vars
  <2> QED
    BY <1>2, <2>1 DEF QueueInv, BaseInv
<1> QED
  BY <1>3, <1>4

\* The first boot promises nothing.
LEMMA QueueInit == Init => QueueInv
<1> SUFFICES ASSUME Init PROVE QueueInv
  OBVIOUS
<1>1. /\ queue = NoQueue /\ nv = NoRecords /\ ledger = NewLedger /\ events = 0
  BY DEF Init
<1>2. \A s \in Slot : NoRecords.slots[s] = NoEvent
  BY DEF NoRecords, Empty
<1>3. NoRecords.ack = {} /\ NoRecords.overflow = 0
  BY DEF NoRecords
<1>4. /\ NewLedger.stored = {} /\ NewLedger.published = {} /\ NewLedger.settled = {}
      /\ NewLedger.refused = 0 /\ NewLedger.reported = 0
  BY DEF NewLedger
<1>5. FlashInv(nv, ledger, events)
  BY <1>1, <1>2, <1>3, <1>4 DEF FlashInv, Consistent
<1>6. ClosedInv(nv, ledger)
  BY <1>1, <1>2, <1>3, <1>4 DEF ClosedInv
<1> QED
  BY <1>1, <1>5, <1>6, BaseInit DEF QueueInv, BaseInv, TrustInv

\* QueueInv is an invariant of the specification.
LEMMA Invariance == Spec => []QueueInv
  BY QueueInit, QueueStep, PTL DEF Spec

-----------------------------------------------------------------------------
(* Theorems                                                                *)

\* The state of the engine, of the queue and of the records has its type, the
\* queue is open while notifications are enabled, and an attempt carries only
\* events that are pending, whatever fails and whenever the power is lost.
THEOREM TypeCorrect == Spec => []TypeInvariant
<1>1. QueueInv => TypeInvariant
  BY DEF QueueInv
<1> QED
  BY <1>1, Invariance, PTL

\* Whatever the order of events, outcomes, settings and restarts, an attempt
\* is scheduled while events are pending.
THEOREM AlwaysScheduled == Spec => []ScheduledWhilePending
<1>1. QueueInv => ScheduledWhilePending
  BY DEF QueueInv
<1> QED
  BY <1>1, Invariance, PTL

\* As long as writes succeed, an event that push stored is in flash until the
\* destination has it: no power loss between two writes loses one.
THEOREM NothingIsLost == Spec => []NothingLost
<1>1. QueueInv => NothingLost
  BY DEF QueueInv, TrustInv, FlashInv, NothingLost
<1> QED
  BY <1>1, Invariance, PTL

\* As long as writes succeed, an event whose acknowledgement has begun to be
\* written is never sent again, also after a power loss between the record
\* and the erasures it covers.
THEOREM NothingSettledIsSent == Spec => []DeliveredNotResent
<1>1. QueueInv => DeliveredNotResent
  <2> SUFFICES ASSUME QueueInv, ledger.trusted
               PROVE  Events(job.sent) \cap ledger.settled = {}
    BY DEF DeliveredNotResent
  <2>1. BaseInv /\ TrustInv
    BY DEF QueueInv, BaseInv
  <2>2. CASE job = NoJob
    <3>1. NoJob.sent = {}
      BY DEF NoJob
    <3> QED
      BY <2>2, <3>1 DEF Events
  <2>3. CASE job # NoJob
    <3>1. queue # NoQueue /\ todo = <<>>
      BY <2>1, <2>3, JobFacts
    <3>2. OpenInv(nv, queue, {}, ledger, events)
      BY <2>1, <3>1, IdleTrust
    <3>3. PendingInv(nv, queue, ledger, events)
      BY <3>2, Synced
    <3>4. \A x \in job.sent : \E s \in Slot : /\ queue.slots[s] # NoEvent
                                              /\ queue.slots[s].event = x.event
      BY <2>1, <2>3, JobFacts
    <3>5. \A x \in job.sent : x.event \notin ledger.settled
      BY <3>3, <3>4 DEF PendingInv
    <3> QED
      BY <3>5 DEF Events
  <2> QED
    BY <2>2, <2>3
<1> QED
  BY <1>1, Invariance, PTL

\* As long as writes succeed, an event that may have been published before is
\* pending only with the possible-repeat marker, unless the power was lost
\* during the attempt.
THEOREM RepeatsAreMarked == Spec => []RepeatsMarked
<1>1. QueueInv => RepeatsMarked
  BY DEF QueueInv, TrustInv, OpenInv, PendingInv, RepeatsMarked
<1> QED
  BY <1>1, Invariance, PTL

\* As long as writes succeed, an event that found the queue full is counted
\* until a delivered message has reported it, across restarts.
THEOREM LossesAreReported == Spec => []LossesReported
<1>1. QueueInv => LossesReported
  BY DEF QueueInv, TrustInv, OpenInv, MetaInv, LossesReported
<1> QED
  BY <1>1, Invariance, PTL
=============================================================================
