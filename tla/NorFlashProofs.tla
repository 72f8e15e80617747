-------------------------- MODULE NorFlashProofs --------------------------
(***************************************************************************)
(* Proofs about NorFlash: type correctness, that RAM and flash agree, that *)
(* an opened region is never formatted again, that Full means full, and    *)
(* that the log, its compaction and its recovery implement KvStore.        *)
(***************************************************************************)
EXTENDS NorFlash, TLAPS

-----------------------------------------------------------------------------
(* The inductive invariant, by parts                                       *)

\* Chosen as a function of the two halves.
ChosenOf(hs) ==
    CASE hs[0].seq = NoHeader /\ hs[1].seq = NoHeader -> NoHeader
      [] hs[0].seq # NoHeader /\ hs[1].seq = NoHeader -> 0
      [] hs[0].seq = NoHeader /\ hs[1].seq # NoHeader -> 1
      [] OTHER -> IF Newer(hs[1].seq, hs[0].seq) THEN 1 ELSE 0

\* Where a call has got to: what is known of the call and of the flash.
AtRest == {"off", "format", "format_header", "ready"}
PcInv ==
    /\ op = Idle <=> pc \in AtRest
    /\ pc = "write" => ram.tail + 1 <= Slots
    /\ pc = "format" => Chosen = NoHeader
    /\ pc = "format_header" => half = [h \in {0, 1} |-> Blank]
    /\ pc = "done" => NothingToErase(op)
    /\ result = "full" => pc = "ready"

\* The first n - 1 records of the log have been looked at, and copy holds
\* those of them that are live and intact, one of each key.
Copied(log, copy, n) ==
    /\ n <= Len(log) + 1
    /\ Len(copy) < n
    /\ \A i \in 1 .. Len(copy) : \E j \in 1 .. (n - 1) :
          copy[i] = log[j] /\ IsLive(log, j) /\ log[j].intact
    /\ \A j \in 1 .. (n - 1) : IsLive(log, j) /\ log[j].intact =>
          \E i \in 1 .. Len(copy) : copy[i] = log[j]
    /\ \A i, j \in 1 .. Len(copy) : KeyOf(copy[i]) = KeyOf(copy[j]) => i = j

CopyInv == pc = "copy" => Copied(Active.log, half[Spare].log, at)

\* Nothing in the log can be reclaimed.
AllLive(log) == \A i \in 1 .. Len(log) : IsLive(log, i) /\ log[i].intact

FullInv == pc \in {"erase_old", "full"} \/ result = "full" => AllLive(Active.log)

\* The tail t of half x is behind its last record, or in front of one that
\* failed half way.
TailFits(x, t) ==
    x.clean => \/ t = Len(x.log)
               \/ t + 1 = Len(x.log) /\ ~x.log[t + 1].intact

FlashInv == TypeInvariant /\ PcInv /\ RamMatchesFlash /\ CopyInv /\ FullInv

-----------------------------------------------------------------------------
(* Sequence numbers and the choice of a half                               *)

\* The number after s is newer than s, also when it wraps, and s is not
\* newer than it.
LEMMA NextIsNewer ==
    ASSUME NEW s \in 0 .. (SeqModulus - 1)
    PROVE  LET n == (s + 1) % SeqModulus
           IN  n \in 0 .. (SeqModulus - 1) /\ Newer(n, s) /\ ~Newer(s, n)
<1> DEFINE M == SeqModulus
           n == (s + 1) % M
<1>1. M \in Nat /\ M > 4
  BY NorFlashAssumption
<1>2. 1 < (M - 1) \div 2 /\ ~(M - 1 < (M - 1) \div 2)
  BY <1>1
<1>3. CASE s + 1 < M
  <2>1. n = s + 1
    BY <1>1, <1>3
  <2>2. (n - s) % M = 1 /\ (s - n) % M = M - 1
    BY <1>1, <2>1
  <2> QED
    BY <1>1, <1>2, <1>3, <2>1, <2>2 DEF Newer
<1>4. CASE s + 1 = M
  <2>1. n = 0
    BY <1>1, <1>4
  <2>2. (n - s) % M = 1 /\ (s - n) % M = M - 1
    BY <1>1, <1>4, <2>1
  <2> QED
    BY <1>1, <1>2, <2>1, <2>2 DEF Newer
<1> QED
  BY <1>1, <1>3, <1>4

\* Only the headers matter for the choice. A half with a header and no
\* rival is chosen, and one whose number follows the rival's.
LEMMA ChosenFacts ==
    ASSUME NEW hs \in [{0, 1} -> Half]
    PROVE  /\ ChosenOf(hs) \in {NoHeader, 0, 1}
           /\ hs[0].seq = NoHeader /\ hs[1].seq = NoHeader <=> ChosenOf(hs) = NoHeader
           /\ \A h \in {0, 1} : ChosenOf(hs) = h => hs[h].seq # NoHeader
           /\ \A h, g \in {0, 1} : h # g /\ hs[h].seq # NoHeader =>
                 /\ hs[g].seq = NoHeader => ChosenOf(hs) = h
                 /\ hs[g].seq = (hs[h].seq + 1) % SeqModulus => ChosenOf(hs) = g
<1>1. /\ ChosenOf(hs) \in {NoHeader, 0, 1}
      /\ hs[0].seq = NoHeader /\ hs[1].seq = NoHeader <=> ChosenOf(hs) = NoHeader
  BY DEF ChosenOf, NoHeader
<1>2. ASSUME NEW h \in {0, 1}, ChosenOf(hs) = h
      PROVE  hs[h].seq # NoHeader
  BY <1>2 DEF ChosenOf, NoHeader
<1>3. ASSUME NEW h \in {0, 1}, NEW g \in {0, 1}, h # g,
             hs[h].seq # NoHeader, hs[g].seq = NoHeader
      PROVE  ChosenOf(hs) = h
  BY <1>3 DEF ChosenOf
<1>4. ASSUME NEW h \in {0, 1}, NEW g \in {0, 1}, h # g,
             hs[h].seq # NoHeader, hs[g].seq = (hs[h].seq + 1) % SeqModulus
      PROVE  ChosenOf(hs) = g
  <2>1. hs[h].seq \in 0 .. (SeqModulus - 1)
    BY <1>4 DEF Half
  <2>2. /\ hs[g].seq \in 0 .. (SeqModulus - 1)
        /\ Newer(hs[g].seq, hs[h].seq) /\ ~Newer(hs[h].seq, hs[g].seq)
    BY <1>4, <2>1, NextIsNewer
  <2>3. hs[g].seq # NoHeader
    BY <2>2, NorFlashAssumption DEF NoHeader
  <2> QED
    BY <1>4, <2>2, <2>3 DEF ChosenOf
<1> QED
  BY <1>1, <1>2, <1>3, <1>4

\* The flash with one half, its log or its header replaced.
WithHalf(hs, a, x) == [hs EXCEPT ![a] = x]
WithLog(hs, a, log) == [hs EXCEPT ![a].log = log]
WithSeq(hs, a, seq) == [hs EXCEPT ![a].seq = seq]

\* Replacing one half leaves the other.
LEMMA SetHalf ==
    ASSUME NEW hs \in [{0, 1} -> Half], NEW a \in {0, 1}, NEW x \in Half
    PROVE  /\ WithHalf(hs, a, x) \in [{0, 1} -> Half]
           /\ WithHalf(hs, a, x)[a] = x
           /\ \A b \in {0, 1} : b # a => WithHalf(hs, a, x)[b] = hs[b]
           /\ x.seq = hs[a].seq => ChosenOf(WithHalf(hs, a, x)) = ChosenOf(hs)
<1>1. /\ WithHalf(hs, a, x) \in [{0, 1} -> Half]
      /\ WithHalf(hs, a, x)[a] = x
      /\ \A b \in {0, 1} : b # a => WithHalf(hs, a, x)[b] = hs[b]
  BY DEF WithHalf
<1>2. ASSUME x.seq = hs[a].seq
      PROVE  ChosenOf(WithHalf(hs, a, x)) = ChosenOf(hs)
  <2>1. WithHalf(hs, a, x)[0].seq = hs[0].seq /\ WithHalf(hs, a, x)[1].seq = hs[1].seq
    BY <1>1, <1>2
  <2> QED
    BY <2>1 DEF ChosenOf
<1> QED
  BY <1>1, <1>2

\* Writing a log touches one half, and no header.
LEMMA SetLog ==
    ASSUME NEW hs \in [{0, 1} -> Half], NEW a \in {0, 1}, NEW log \in Seq(Record)
    PROVE  /\ WithLog(hs, a, log) \in [{0, 1} -> Half]
           /\ WithLog(hs, a, log)[a].seq = hs[a].seq
           /\ WithLog(hs, a, log)[a].log = log
           /\ WithLog(hs, a, log)[a].clean = hs[a].clean
           /\ \A b \in {0, 1} : b # a => WithLog(hs, a, log)[b] = hs[b]
           /\ ChosenOf(WithLog(hs, a, log)) = ChosenOf(hs)
<1> DEFINE x == [hs[a] EXCEPT !.log = log]
<1>1. WithLog(hs, a, log) = WithHalf(hs, a, x)
  BY DEF WithLog, WithHalf
<1>2. x \in Half /\ x.seq = hs[a].seq /\ x.log = log /\ x.clean = hs[a].clean
  BY DEF Half
<1> HIDE DEF x
<1>3. /\ WithHalf(hs, a, x) \in [{0, 1} -> Half] /\ WithHalf(hs, a, x)[a] = x
      /\ \A b \in {0, 1} : b # a => WithHalf(hs, a, x)[b] = hs[b]
  BY <1>2, SetHalf
<1>4. ChosenOf(WithHalf(hs, a, x)) = ChosenOf(hs)
  BY <1>2, SetHalf
<1> QED
  BY <1>1, <1>2, <1>3, <1>4

\* Writing a header touches one half, and not its log.
LEMMA SetSeq ==
    ASSUME NEW hs \in [{0, 1} -> Half], NEW a \in {0, 1},
           NEW seq \in 0 .. (SeqModulus - 1)
    PROVE  /\ WithSeq(hs, a, seq) \in [{0, 1} -> Half]
           /\ WithSeq(hs, a, seq)[a].seq = seq
           /\ WithSeq(hs, a, seq)[a].log = hs[a].log
           /\ WithSeq(hs, a, seq)[a].clean = hs[a].clean
           /\ \A b \in {0, 1} : b # a => WithSeq(hs, a, seq)[b] = hs[b]
<1> DEFINE x == [hs[a] EXCEPT !.seq = seq]
<1>1. WithSeq(hs, a, seq) = WithHalf(hs, a, x)
  BY DEF WithSeq, WithHalf
<1>2. x \in Half /\ x.seq = seq /\ x.log = hs[a].log /\ x.clean = hs[a].clean
  BY DEF Half
<1> HIDE DEF x
<1>3. /\ WithHalf(hs, a, x) \in [{0, 1} -> Half] /\ WithHalf(hs, a, x)[a] = x
      /\ \A b \in {0, 1} : b # a => WithHalf(hs, a, x)[b] = hs[b]
  BY <1>2, SetHalf
<1> QED
  BY <1>1, <1>2, <1>3

-----------------------------------------------------------------------------
(* The log                                                                 *)

\* What appending one record does to a log.
LEMMA AppendFacts ==
    ASSUME NEW log \in Seq(Record), NEW r \in Record
    PROVE  /\ Append(log, r) \in Seq(Record)
           /\ Len(Append(log, r)) = Len(log) + 1
           /\ \A i \in 1 .. Len(log) : Append(log, r)[i] = log[i]
           /\ Append(log, r)[Len(log) + 1] = r
           /\ Len(log) \in Nat
  OBVIOUS

\* The record a call appends has its type.
LEMMA RecordType ==
    ASSUME NEW call \in Calls
    PROVE  RecordOf(call) \in Record
  BY DEF RecordOf, Calls, Record, Kinds, Flags

\* At most one record sets a key, and load returns its value.
LEMMA LoadFacts ==
    ASSUME NEW log \in Seq(Record), NEW key
    PROVE  /\ Find(log, key) = {} => Load(log, key) = NoValue
           /\ \A i \in Find(log, key) :
                 Load(log, key) = IF log[i].intact THEN log[i].value ELSE NoValue
<1>1. Find(log, key) = {} => Load(log, key) = NoValue
  BY DEF Load
<1>2. ASSUME NEW i \in Find(log, key), NEW j \in Find(log, key)
      PROVE  i = j
  <2>1. /\ i \in 1 .. Len(log) /\ j \in 1 .. Len(log) /\ Len(log) \in Nat
        /\ KeyOf(log[i]) = key /\ KeyOf(log[j]) = key
        /\ \A k \in (i + 1) .. Len(log) : ~Concerns(log[k], key)
        /\ \A k \in (j + 1) .. Len(log) : ~Concerns(log[k], key)
    BY DEF Find
  <2>2. Concerns(log[i], key) /\ Concerns(log[j], key)
    BY <2>1 DEF Concerns, KeyOf
  <2> QED
    BY <2>1, <2>2
<1>3. ASSUME NEW i \in Find(log, key)
      PROVE  Load(log, key) = IF log[i].intact THEN log[i].value ELSE NoValue
  <2>1. (CHOOSE j \in Find(log, key) : TRUE) = i
    BY <1>2
  <2> QED
    BY <1>2, <2>1 DEF Load
<1> QED
  BY <1>1, <1>3

\* What appending a record does to what load returns: it changes the keys
\* the record concerns, and no other.
LEMMA LoadAppended ==
    ASSUME NEW log \in Seq(Record), NEW r \in Record, NEW key
    PROVE  LET new == Append(log, r)
           IN  /\ ~Concerns(r, key) => Load(new, key) = Load(log, key)
               /\ r.flag = "set" /\ KeyOf(r) = key
                     => Load(new, key) = IF r.intact THEN r.value ELSE NoValue
               /\ Concerns(r, key) /\ r.flag # "set" => Load(new, key) = NoValue
<1> DEFINE new == Append(log, r)
           n == Len(log)
<1>1. /\ new \in Seq(Record) /\ n \in Nat /\ Len(new) = n + 1
      /\ DOMAIN log = 1 .. n /\ DOMAIN new = 1 .. (n + 1)
      /\ \A i \in 1 .. n : new[i] = log[i]
      /\ new[n + 1] = r
  OBVIOUS
<1> HIDE DEF new, n
<1>2. KeyOf(r) = key => Concerns(r, key)
  BY DEF KeyOf, Concerns
<1>3. ASSUME ~Concerns(r, key)
      PROVE  Load(new, key) = Load(log, key)
  <2>1. Find(new, key) \subseteq Find(log, key)
    BY <1>1, <1>2, <1>3 DEF Find, n
  <2>2. Find(log, key) \subseteq Find(new, key)
    BY <1>1, <1>3 DEF Find, n
  <2>3. Find(log, key) = Find(new, key) /\ \A i \in Find(log, key) : new[i] = log[i]
    BY <1>1, <2>1, <2>2 DEF Find
  <2>4. CASE Find(log, key) = {}
    BY <1>1, <2>3, <2>4, LoadFacts
  <2>5. CASE \E i \in Find(log, key) : TRUE
    <3>1. PICK i \in Find(log, key) : TRUE
      BY <2>5
    <3> QED
      BY <1>1, <2>3, <3>1, LoadFacts
  <2> QED
    BY <2>4, <2>5
<1>4. ASSUME r.flag = "set", KeyOf(r) = key
      PROVE  Load(new, key) = IF r.intact THEN r.value ELSE NoValue
  <2>1. n + 1 \in Find(new, key)
    BY <1>1, <1>4 DEF Find
  <2> QED
    BY <1>1, <2>1, LoadFacts
<1>5. ASSUME Concerns(r, key), r.flag # "set"
      PROVE  Load(new, key) = NoValue
  <2>1. Find(new, key) = {}
    BY <1>1, <1>5 DEF Find
  <2> QED
    BY <1>1, <2>1, LoadFacts
<1> QED
  BY <1>3, <1>4, <1>5 DEF new

-----------------------------------------------------------------------------
(* The copy                                                                *)

\* Looking at one more record.
LEMMA CopyOne ==
    ASSUME NEW log \in Seq(Record), NEW copy \in Seq(Record), NEW n \in 1 .. Len(log),
           Copied(log, copy, n)
    PROVE  Copied(log, IF IsLive(log, n) /\ log[n].intact THEN Append(copy, log[n]) ELSE copy,
                  n + 1)
<1>0. Len(log) \in Nat /\ Len(copy) \in Nat /\ n \in Nat /\ log[n] \in Record
      /\ DOMAIN log = 1 .. Len(log)
  OBVIOUS
<1>1. \A j \in 1 .. n : j \in 1 .. (n - 1) \/ j = n
  BY <1>0
<1>2. CASE ~(IsLive(log, n) /\ log[n].intact)
  <2>1. (n + 1) - 1 = n /\ n + 1 <= Len(log) + 1
    BY <1>0
  <2>2. Len(copy) < n + 1
    BY <1>0 DEF Copied
  <2>3. \A i \in 1 .. Len(copy) : \E j \in 1 .. n :
           copy[i] = log[j] /\ IsLive(log, j) /\ log[j].intact
    BY <1>0 DEF Copied
  <2>4. \A j \in 1 .. n : IsLive(log, j) /\ log[j].intact =>
           \E i \in 1 .. Len(copy) : copy[i] = log[j]
    BY <1>1, <1>2 DEF Copied
  <2> QED
    BY <1>2, <2>1, <2>2, <2>3, <2>4 DEF Copied
<1>3. CASE IsLive(log, n) /\ log[n].intact
  <2> DEFINE new == Append(copy, log[n])
             m == Len(copy)
  <2>1. /\ Len(new) = m + 1 /\ m \in Nat
        /\ \A i \in 1 .. m : new[i] = copy[i]
        /\ new[m + 1] = log[n]
    BY <1>0
  <2> HIDE DEF new, m
  <2>2. \A i \in 1 .. Len(new) : i \in 1 .. m \/ i = m + 1
    BY <2>1
  <2>3. n + 1 <= Len(log) + 1 /\ Len(new) < n + 1
    BY <1>0, <2>1 DEF Copied, m
  <2>4. ASSUME NEW i \in 1 .. Len(new)
        PROVE  \E j \in 1 .. ((n + 1) - 1) :
                  new[i] = log[j] /\ IsLive(log, j) /\ log[j].intact
    <3>1. CASE i \in 1 .. m
      <4>1. PICK j \in 1 .. (n - 1) : copy[i] = log[j] /\ IsLive(log, j) /\ log[j].intact
        BY <3>1 DEF Copied, m
      <4> QED
        BY <1>0, <2>1, <3>1, <4>1
    <3>2. CASE i = m + 1
      BY <1>0, <1>3, <2>1, <3>2
    <3> QED
      BY <2>2, <3>1, <3>2
  <2>5. ASSUME NEW j \in 1 .. ((n + 1) - 1), IsLive(log, j), log[j].intact
        PROVE  \E i \in 1 .. Len(new) : new[i] = log[j]
    <3>1. CASE j \in 1 .. (n - 1)
      <4>1. PICK i \in 1 .. m : copy[i] = log[j]
        BY <2>5, <3>1 DEF Copied, m
      <4> QED
        BY <2>1, <4>1
    <3>2. CASE j = n
      BY <2>1, <3>2
    <3> QED
      BY <1>0, <1>1, <3>1, <3>2
  <2>6. ASSUME NEW i \in 1 .. m
        PROVE  KeyOf(copy[i]) # KeyOf(log[n])
    <3>1. PICK j \in 1 .. (n - 1) : copy[i] = log[j] /\ IsLive(log, j)
      BY DEF Copied, m
    <3>2. ~Concerns(log[n], KeyOf(log[j]))
      BY <1>0, <3>1 DEF IsLive, Find
    <3> QED
      BY <3>1, <3>2 DEF Concerns, KeyOf
  <2>7. \A i, j \in 1 .. Len(new) : KeyOf(new[i]) = KeyOf(new[j]) => i = j
    BY <2>1, <2>2, <2>6 DEF Copied, m
  <2> QED
    BY <1>3, <2>3, <2>4, <2>5, <2>7 DEF Copied, new
<1> QED
  BY <1>2, <1>3

\* Nothing of a copy can be reclaimed.
LEMMA CopyLive ==
    ASSUME NEW log \in Seq(Record), NEW copy \in Seq(Record), NEW n \in Nat,
           Copied(log, copy, n)
    PROVE  AllLive(copy)
<1>1. ASSUME NEW i \in 1 .. Len(copy)
      PROVE  copy[i].flag = "set" /\ copy[i].intact
  <2>1. PICK j \in 1 .. (n - 1) : copy[i] = log[j] /\ IsLive(log, j) /\ log[j].intact
    BY DEF Copied
  <2> QED
    BY <2>1 DEF IsLive, Find
<1>2. ASSUME NEW i \in 1 .. Len(copy), NEW j \in (i + 1) .. Len(copy)
      PROVE  ~Concerns(copy[j], KeyOf(copy[i]))
  <2>1. i \in Nat /\ j \in 1 .. Len(copy) /\ i # j
    OBVIOUS
  <2>2. copy[j].flag = "set"
    BY <1>1, <2>1
  <2>3. KeyOf(copy[i]) # KeyOf(copy[j])
    BY <2>1 DEF Copied
  <2> QED
    BY <2>2, <2>3 DEF Concerns, KeyOf
<1> QED
  BY <1>1, <1>2 DEF AllLive, IsLive, Find

\* When the whole log has been looked at, load returns from the copy what it
\* returns from the log.
LEMMA CopyLoad ==
    ASSUME NEW log \in Seq(Record), NEW copy \in Seq(Record),
           Copied(log, copy, Len(log) + 1), NEW key
    PROVE  Load(copy, key) = Load(log, key)
<1>0. Len(log) \in Nat /\ DOMAIN log = 1 .. Len(log) /\ DOMAIN copy = 1 .. Len(copy)
  OBVIOUS
<1>1. \A i \in 1 .. Len(copy) : KeyOf(copy[i]) = key => i \in Find(copy, key)
  <2>1. AllLive(copy)
    BY <1>0, CopyLive
  <2> QED
    BY <2>1 DEF AllLive, IsLive
<1>2. CASE \E i \in Find(copy, key) : TRUE
  <2>1. PICK i \in Find(copy, key) : TRUE
    BY <1>2
  <2>2. i \in 1 .. Len(copy) /\ KeyOf(copy[i]) = key
    BY <1>0, <2>1 DEF Find
  <2>3. PICK j \in 1 .. Len(log) : copy[i] = log[j] /\ IsLive(log, j) /\ log[j].intact
    BY <1>0, <2>2 DEF Copied
  <2>4. j \in Find(log, key)
    BY <2>2, <2>3 DEF IsLive
  <2> QED
    BY <2>1, <2>3, <2>4, LoadFacts
<1>3. CASE Find(copy, key) = {}
  <2>1. Load(copy, key) = NoValue
    BY <1>3, LoadFacts
  <2>2. ASSUME NEW j \in Find(log, key), log[j].intact
        PROVE  FALSE
    <3>1. j \in 1 .. Len(log) /\ KeyOf(log[j]) = key /\ IsLive(log, j)
      BY <1>0, <2>2 DEF Find, IsLive
    <3>2. PICK i \in 1 .. Len(copy) : copy[i] = log[j]
      BY <1>0, <2>2, <3>1 DEF Copied
    <3> QED
      BY <1>1, <1>3, <3>1, <3>2
  <2>3. Load(log, key) = NoValue
    BY <2>2 DEF Load
  <2> QED
    BY <2>1, <2>3
<1> QED
  BY <1>2, <1>3

-----------------------------------------------------------------------------
(* The invariant                                                           *)

\* The half in use, as a step sees it before and after it.
LEMMA ChosenState ==
    /\ Chosen = ChosenOf(half)
    /\ Chosen' = ChosenOf(half')
  BY DEF Chosen, ChosenOf

\* The records in front of the tail.
Front == SubSeq(Active.log, 1, ram.tail)

\* What a write of record r leaves in the active half. Only a record that
\* fits leaves it clean, and then it is behind the records in front of the
\* tail, whole or cut.
LEMMA WriteFacts ==
    ASSUME NEW r \in Record, NEW tears \in BOOLEAN, Active \in Half,
           ram.tail \in Nat, ram.tail + 1 <= Slots, Len(Active.log) <= Slots,
           NEW x \in PartlyWritten(r, tears) \cup Written(r)
    PROVE  /\ x \in Half /\ x.seq = Active.seq /\ Len(x.log) <= Slots
           /\ x.clean => Active.clean
           /\ x.clean /\ x \in Written(r) => Fits(r) /\ x.log = Append(Front, r)
           /\ x.clean /\ x \in PartlyWritten(r, tears) =>
                 \/ x.log = Active.log
                 \/ tears /\ r.flag = "set" /\ Fits(r) /\ x.log = Append(Front, Cut(r))
<1> DEFINE log == Active.log
           t == ram.tail
<1>0. /\ log \in Seq(Record) /\ Len(log) \in Nat /\ t \in Nat /\ Slots \in Nat
      /\ Active = [seq |-> Active.seq, log |-> log, clean |-> Active.clean]
  BY NorFlashAssumption DEF Half
<1>1. ASSUME t <= Len(log), NEW g \in Record
      PROVE  Append(Front, g) \in Seq(Record) /\ Len(Append(Front, g)) <= Slots
  <2>1. Front \in Seq(Record) /\ Len(Front) = t
    BY <1>0, <1>1 DEF Front
  <2> QED
    BY <1>0, <2>1, AppendFacts
<1>2. Cut(r) \in Record
  BY DEF Cut, Record
<1>3. ASSUME Fits(r), NEW g \in Record, x = Appended(g)
      PROVE  /\ x \in Half /\ x.seq = Active.seq /\ Len(x.log) <= Slots
             /\ x.clean = Active.clean /\ x.log = Append(Front, g)
  <2>1. t <= Len(log)
    BY <1>0, <1>3 DEF Fits
  <2>2. x = [Active EXCEPT !.log = Append(Front, g)]
    BY <1>3 DEF Appended, Front
  <2> QED
    BY <1>1, <2>1, <2>2 DEF Half
<1>4. ASSUME x \in Overlaid(r)
      PROVE  x \in Half /\ x.seq = Active.seq /\ Len(x.log) <= Slots /\ ~x.clean
  <2>1. CASE x = [Active EXCEPT !.clean = FALSE]
    BY <2>1 DEF Half
  <2>2. ASSUME NEW g, g \in Record, t <= Len(log),
               x = [Active EXCEPT !.log = Append(Front, g), !.clean = FALSE]
        PROVE  x \in Half /\ x.seq = Active.seq /\ Len(x.log) <= Slots /\ ~x.clean
    BY <1>1, <2>2 DEF Half
  <2>3. \A flags \in SUBSET Flags : Corrupt(flags) \subseteq Record
    BY DEF Corrupt, Record
  <2>4. r.flag \in Flags /\ {"set", r.flag} \in SUBSET Flags
    BY DEF Record, Flags
  <2>5. \A u : Merged(u, r) \subseteq Record
    BY <2>3, <2>4 DEF Merged, Flags
  <2>6. x = [Active EXCEPT !.clean = FALSE]
        \/ \E g \in Record : /\ t <= Len(log)
                              /\ x = [Active EXCEPT !.log = Append(Front, g), !.clean = FALSE]
    <3> DEFINE merged == Merged(log[t + 1], r)
               beside == Corrupt({"set", r.flag}) \cup {r}
               found == CASE t < Len(log) -> merged
                          [] t = Len(log) -> beside
                          [] t > Len(log) -> {}
    <3>1. x \in {[Active EXCEPT !.log = Append(Front, g), !.clean = FALSE] : g \in found}
          \/ x = [Active EXCEPT !.clean = FALSE]
      BY <1>4, Zenon DEF Overlaid, Front
    <3>2. merged \subseteq Record /\ beside \subseteq Record
      BY <2>3, <2>4, <2>5
    <3> HIDE DEF merged, beside
    <3>3. ASSUME NEW g \in found
          PROVE  g \in Record /\ t <= Len(log)
      <4>1. CASE t < Len(log)
        BY <1>0, <3>2, <3>3, <4>1
      <4>2. CASE t = Len(log)
        BY <1>0, <3>2, <3>3, <4>2
      <4>3. CASE t > Len(log)
        BY <1>0, <3>3, <4>3
      <4> QED
        BY <1>0, <4>1, <4>2, <4>3
    <3> HIDE DEF found, t, log
    <3>4. CASE x # [Active EXCEPT !.clean = FALSE]
      <4>1. PICK g \in found : x = [Active EXCEPT !.log = Append(Front, g), !.clean = FALSE]
        BY <3>1, <3>4, Zenon
      <4> QED
        BY <3>3, <4>1, Zenon
    <3> QED
      BY <3>4, Zenon
  <2> HIDE DEF t, log
  <2>7. CASE x # [Active EXCEPT !.clean = FALSE]
    <3>1. PICK g \in Record :
             t <= Len(log) /\ x = [Active EXCEPT !.log = Append(Front, g), !.clean = FALSE]
      BY <2>6, <2>7, Zenon
    <3> QED
      BY <2>2, <3>1, Zenon
  <2> QED
    BY <2>1, <2>7, Zenon
<1>5. x \in PartlyWritten(r, tears) =>
         /\ x \in Half /\ x.seq = Active.seq /\ Len(x.log) <= Slots
         /\ x.clean => /\ Active.clean
                       /\ \/ x.log = Active.log
                          \/ /\ tears /\ r.flag = "set" /\ Fits(r)
                             /\ x.log = Append(Front, Cut(r))
  <2>1. CASE x = Active
    BY <2>1
  <2>2. CASE tears /\ r.flag = "set" /\ Fits(r) /\ x = Appended(Cut(r))
    BY <1>2, <1>3, <2>2
  <2>3. CASE x \in Overlaid(r)
    BY <1>4, <2>3
  <2>4. x \in PartlyWritten(r, tears) =>
           \/ x = Active
           \/ tears /\ r.flag = "set" /\ Fits(r) /\ x = Appended(Cut(r))
           \/ x \in Overlaid(r)
    BY Zenon DEF PartlyWritten
  <2> QED
    BY <2>1, <2>2, <2>3, <2>4
<1>6. x \in Written(r) =>
         /\ x \in Half /\ x.seq = Active.seq /\ Len(x.log) <= Slots
         /\ x.clean => Active.clean /\ Fits(r) /\ x.log = Append(Front, r)
  <2>1. CASE Fits(r) /\ x = Appended(r)
    BY <1>3, <2>1
  <2>2. CASE x \in Overlaid(r)
    BY <1>4, <2>2
  <2>3. x \in Written(r) => (Fits(r) /\ x = Appended(r)) \/ x \in Overlaid(r)
    BY Zenon DEF Written
  <2> QED
    BY <2>1, <2>2, <2>3
<1> QED
  BY <1>5, <1>6

\* The flash after a step that ends early, or after the write of a record.
Left ==
    IF pc # "write" THEN Interrupted
    ELSE WithActive(PartlyWritten(RecordOf(op), TRUE) \cup Written(RecordOf(op)))

\* While the store runs, the active half has a header, and no interruption
\* takes it away: the flash keeps its type, the half that is chosen, its
\* header, and all of the half but what is being written.
LEMMA LeftFacts ==
    ASSUME FlashInv, Running, NEW left \in Left
    PROVE  /\ left \in [{0, 1} -> Half]
           /\ \A h \in {0, 1} : Len(left[h].log) <= Slots
           /\ ChosenOf(left) = ram.active
           /\ left[ram.active].seq = Active.seq
           /\ pc # "write" => left[ram.active] = Active
           /\ pc = "write" => left = [half EXCEPT ![ram.active] = left[ram.active]]
<1> DEFINE a == ram.active
<1>0. /\ a \in {0, 1} /\ Spare \in {0, 1} /\ Spare # a
      /\ half \in [{0, 1} -> Half] /\ \A h \in {0, 1} : Len(half[h].log) <= Slots
      /\ ChosenOf(half) = a /\ half[a].seq # NoHeader
  <2>1. a \in {0, 1} /\ half \in [{0, 1} -> Half]
    BY DEF FlashInv, TypeInvariant
  <2>2. ChosenOf(half) = a
    BY ChosenState DEF FlashInv, RamMatchesFlash
  <2> QED
    BY <2>1, <2>2, ChosenFacts DEF FlashInv, TypeInvariant, Spare
<1>1. CASE pc = "write"
  <2>1. PICK x \in PartlyWritten(RecordOf(op), TRUE) \cup Written(RecordOf(op)) :
           left = WithHalf(half, a, x)
    BY <1>1 DEF Left, WithActive, WithHalf
  <2>2. x \in Half /\ x.seq = Active.seq /\ Len(x.log) <= Slots
    <3>1. op \in Calls /\ ram.tail + 1 <= Slots /\ ram.tail \in Nat
      BY <1>1, NorFlashAssumption DEF FlashInv, TypeInvariant, PcInv, AtRest
    <3>2. Active \in Half /\ Len(Active.log) <= Slots
      BY <1>0 DEF Active
    <3> QED
      BY <2>1, <3>1, <3>2, RecordType, WriteFacts
  <2> HIDE DEF a
  <2>3. /\ left \in [{0, 1} -> Half] /\ left[a] = x
        /\ \A b \in {0, 1} : b # a => left[b] = half[b]
    <3>1. /\ WithHalf(half, a, x) \in [{0, 1} -> Half]
          /\ WithHalf(half, a, x)[a] = x
          /\ \A b \in {0, 1} : b # a => WithHalf(half, a, x)[b] = half[b]
      <4>1. a \in {0, 1} /\ half \in [{0, 1} -> Half] /\ x \in Half
        BY <1>0, <2>2
      <4> QED
        BY <4>1, SetHalf
    <3> QED
      BY <2>1, <3>1
  <2>4. ChosenOf(left) = ChosenOf(half)
    <3>1. x.seq = half[a].seq /\ a \in {0, 1} /\ half \in [{0, 1} -> Half] /\ x \in Half
      BY <1>0, <2>2 DEF Active, a
    <3>2. ChosenOf(WithHalf(half, a, x)) = ChosenOf(half)
      BY <3>1, SetHalf
    <3> QED
      BY <2>1, <3>2
  <2>5. left = [half EXCEPT ![a] = left[a]]
    <3>1. left = [half EXCEPT ![a] = x] /\ left[a] = x
      BY <2>1, <2>3 DEF WithHalf
    <3> QED
      BY <3>1
  <2>6. \A h \in {0, 1} : Len(left[h].log) <= Slots
    <3> SUFFICES ASSUME NEW h \in {0, 1}
                 PROVE  Len(left[h].log) <= Slots
      OBVIOUS
    <3>1. CASE h = a
      BY <2>2, <2>3, <3>1
    <3>2. CASE h # a
      BY <1>0, <2>3, <3>2
    <3> QED
      BY <3>1, <3>2
  <2> QED
    BY <1>0, <1>1, <2>2, <2>3, <2>4, <2>5, <2>6 DEF a
<1>2. CASE pc \in {"erase_new", "erase_old"}
  <2>1. PICK x \in PartlyErased(Spare) : left = WithHalf(half, Spare, x)
    <3>1. left \in {[half EXCEPT ![Spare] = y] : y \in PartlyErased(Spare)}
      BY <1>2 DEF Left, Interrupted
    <3> QED
      BY <3>1 DEF WithHalf
  <2>2. x \in Half /\ x.seq \in {half[Spare].seq, NoHeader} /\ Len(x.log) <= Slots
    <3>1. half[Spare] \in Half /\ Len(half[Spare].log) <= Slots /\ Slots \in Nat
      BY <1>0, NorFlashAssumption
    <3>2. CASE x = half[Spare]
      BY <3>1, <3>2
    <3>3. CASE x = [half[Spare] EXCEPT !.log = <<>>]
      <4>1. x.seq = half[Spare].seq /\ x.log = <<>> /\ Len(<<>>) = 0 /\ x \in Half
        <5> DEFINE y == half[Spare]
        <5>1. y \in Half
          BY <3>1
        <5> HIDE DEF y
        <5>2. \A s \in Seq(Record) :
                 /\ [y EXCEPT !.log = s].seq = y.seq /\ [y EXCEPT !.log = s].log = s
                 /\ [y EXCEPT !.log = s] \in Half
          BY <5>1 DEF Half
        <5>3. <<>> \in Seq(Record) /\ Len(<<>>) = 0
          OBVIOUS
        <5> QED
          BY <3>3, <5>2, <5>3 DEF y
      <4> QED
        BY <3>1, <4>1
    <3>4. CASE x = Blank
      BY <3>1, <3>4 DEF Blank, Half
    <3> QED
      BY <3>2, <3>3, <3>4 DEF PartlyErased
  <2> HIDE DEF a
  <2>3. /\ left \in [{0, 1} -> Half] /\ left[Spare] = x /\ left[a] = half[a]
    <3>0. half \in [{0, 1} -> Half] /\ Spare \in {0, 1}
      BY <1>0
    <3>1. /\ WithHalf(half, Spare, x) \in [{0, 1} -> Half]
          /\ WithHalf(half, Spare, x)[Spare] = x
          /\ \A b \in {0, 1} : b # Spare => WithHalf(half, Spare, x)[b] = half[b]
      BY <3>0, <2>2, SetHalf
    <3>2. WithHalf(half, Spare, x)[a] = half[a]
      BY <1>0, <3>1
    <3> QED
      BY <2>1, <3>1, <3>2
  <2>5. ChosenOf(left) = a
    <3>1. CASE x.seq = NoHeader
      BY <1>0, <2>3, <3>1, ChosenFacts
    <3>2. CASE x.seq = half[Spare].seq
      <4>1. left[0].seq = half[0].seq /\ left[1].seq = half[1].seq
        BY <1>0, <2>3, <3>2
      <4> QED
        BY <1>0, <4>1 DEF ChosenOf
    <3> QED
      BY <2>2, <3>1, <3>2
  <2> QED
    BY <1>0, <1>2, <2>2, <2>3, <2>5 DEF Active, a
<1>3. CASE pc \notin {"write", "erase_new", "erase_old"}
  <2>1. left = half
    BY <1>3 DEF Left, Interrupted
  <2> QED
    BY <1>0, <1>3, <2>1 DEF Active
<1> QED
  BY <1>1, <1>2, <1>3

\* The active half after a write: what is known of it when it is clean.
LEMMA WriteLeaves ==
    ASSUME FlashInv, pc = "write", NEW tears \in BOOLEAN,
           NEW halves \in {PartlyWritten(RecordOf(op), tears), Written(RecordOf(op))},
           NEW left \in WithActive(halves)
    PROVE  LET r == RecordOf(op)
               x == left[ram.active]
           IN  /\ x \in halves
               /\ halves \subseteq PartlyWritten(r, TRUE) \cup Written(r)
               /\ x.clean => Active.clean
               /\ x.clean /\ halves = Written(r) => Fits(r) /\ x.log = Append(Front, r)
               /\ x.clean /\ halves = PartlyWritten(r, tears) =>
                     \/ x.log = Active.log
                     \/ tears /\ r.flag = "set" /\ Fits(r) /\ x.log = Append(Front, Cut(r))
<1> DEFINE r == RecordOf(op)
           x == left[ram.active]
<1>1. /\ op \in Calls /\ ram.tail + 1 <= Slots /\ ram.tail \in Nat
      /\ Active \in Half /\ Len(Active.log) <= Slots
      /\ ram.active \in {0, 1} /\ half \in [{0, 1} -> Half]
  BY NorFlashAssumption DEF FlashInv, TypeInvariant, PcInv, AtRest, Active
<1>2. x \in halves
  BY <1>1 DEF WithActive
<1>3. PartlyWritten(r, tears) \subseteq PartlyWritten(r, TRUE)
  BY DEF PartlyWritten
<1>4. r \in Record
  BY <1>1, RecordType
<1> HIDE DEF x, r
<1>5. x \in PartlyWritten(r, tears) \cup Written(r)
  BY <1>2 DEF r
<1> QED
  BY <1>1, <1>2, <1>3, <1>4, <1>5, WriteFacts DEF x, r

\* A clean half in which a record fits: the records in front of the tail, and
\* behind it nothing or the incomplete record.
LEMMA FrontFacts ==
    ASSUME FlashInv, pc = "write", Active.clean, Fits(RecordOf(op))
    PROVE  /\ Front \in Seq(Record) /\ Len(Front) = ram.tail
           /\ \/ Active.log = Front
              \/ Active.log = Append(Front, Cut(RecordOf(op)))
<1> DEFINE log == Active.log
           t == ram.tail
<1>1. log \in Seq(Record) /\ Len(log) \in Nat /\ t \in Nat
  BY NorFlashAssumption DEF FlashInv, TypeInvariant, Active, Half
<1>2. CASE t = Len(log)
  BY <1>1, <1>2 DEF Front
<1>3. CASE t + 1 = Len(log) /\ log[t + 1] = Cut(RecordOf(op))
  <2>1. Front \in Seq(Record) /\ Len(Front) = t /\ \A i \in 1 .. t : Front[i] = log[i]
    BY <1>1, <1>3 DEF Front
  <2>2. log[t + 1] \in Record
    BY <1>1, <1>3
  <2>3. /\ Append(Front, log[t + 1]) \in Seq(Record)
        /\ Len(Append(Front, log[t + 1])) = Len(log)
        /\ \A i \in 1 .. Len(log) : Append(Front, log[t + 1])[i] = log[i]
    BY <1>1, <1>3, <2>1, <2>2, AppendFacts
  <2>4. Append(Front, log[t + 1]) = log
    BY <1>1, <2>3
  <2> QED
    BY <1>3, <2>1, <2>4
<1> QED
  BY <1>2, <1>3 DEF Fits

\* No call is the idle one.
LEMMA CallNotIdle == \A call \in Calls : call # Idle
  BY DEF Calls, Idle

\* A step that leaves the flash and the state in RAM alone keeps what relates
\* the two.
LEMMA SameFlash ==
    ASSUME FlashInv, UNCHANGED <<half, ram>>
    PROVE  /\ Chosen' = Chosen /\ Active' = Active /\ Spare' = Spare
           /\ Running => ram'.active = Chosen' /\ ram'.seq = Active'.seq
                         /\ TailFits(Active', ram'.tail)
           /\ half' \in [{0, 1} -> Half] /\ \A h \in {0, 1} : Len(half'[h].log) <= Slots
<1>1. Chosen' = Chosen /\ Active' = Active /\ Spare' = Spare
  BY DEF Chosen, Active, Spare
<1> QED
  BY <1>1 DEF FlashInv, TypeInvariant, RamMatchesFlash, TailFits

\* What a power loss leaves.
LEMMA LossLeft ==
    ASSUME PowerLoss
    PROVE  half' \in Left
<1>1. CASE pc = "write"
  <2>1. \A r : PartlyWritten(r, PayloadTears) \subseteq PartlyWritten(r, TRUE)
    BY NorFlashAssumption DEF PartlyWritten
  <2> QED
    BY <1>1, <2>1 DEF PowerLoss, Left, WithActive
<1> QED
  BY <1>1 DEF PowerLoss, Left

\* Every step keeps the invariant.
LEMMA FlashStep == FlashInv /\ [Next]_vars => FlashInv'
<1> SUFFICES ASSUME FlashInv, [Next]_vars
             PROVE  FlashInv'
  OBVIOUS
<1> DEFINE a == ram.active
<1>0. /\ half \in [{0, 1} -> Half] /\ \A h \in {0, 1} : Len(half[h].log) <= Slots
      /\ a \in {0, 1} /\ Spare \in {0, 1} /\ Spare # a
      /\ Active = half[a] /\ Active.log \in Seq(Record) /\ half[Spare].log \in Seq(Record)
      /\ Slots \in Nat /\ SeqModulus \in Nat /\ SeqModulus > 4
  BY NorFlashAssumption DEF FlashInv, TypeInvariant, Spare, Active, Half
<1>a. Running => /\ ChosenOf(half) = a /\ half[a].seq # NoHeader
                 /\ half[a].seq = ram.seq /\ TailFits(Active, ram.tail)
  BY <1>0, ChosenState, ChosenFacts DEF FlashInv, RamMatchesFlash, TailFits
<1>1. ASSUME NEW call \in Calls, Call(call)
      PROVE  FlashInv'
  <2>1. /\ pc = "ready" /\ pc' \in {"done", "erase_new", "write"} /\ op' = call
        /\ pc' = "write" => ~IsFull
        /\ pc' = "done" => NothingToErase(call)
        /\ result' = "none" /\ UNCHANGED <<half, ram, at>>
    BY <1>1 DEF Call
  <2>2. TypeInvariant'
    BY <1>1, <2>1, SameFlash DEF FlashInv, TypeInvariant
  <2>3. PcInv'
    <3>1. pc' = "write" => ram'.tail + 1 <= Slots
      BY <1>0, <2>1 DEF IsFull, FlashInv, TypeInvariant
    <3>2. NothingToErase(op)' = NothingToErase(call)
      BY <2>1, SameFlash DEF NothingToErase
    <3> QED
      BY <1>1, <2>1, <3>1, <3>2, CallNotIdle DEF PcInv, AtRest
  <2>4. RamMatchesFlash'
    BY <2>1, SameFlash DEF RamMatchesFlash, TailFits, Running
  <2>5. CopyInv' /\ FullInv'
    BY <2>1 DEF CopyInv, FullInv
  <2> QED
    BY <2>2, <2>3, <2>4, <2>5 DEF FlashInv
<1>2. CASE NothingDone \/ RefuseFull
  <2>1. /\ pc \in {"done", "full"} /\ pc' = "ready" /\ op' = Idle
        /\ result' \in {"ok", "full"} /\ (result' = "full" => pc = "full")
        /\ UNCHANGED <<half, ram, at>>
    BY <1>2 DEF NothingDone, RefuseFull, Return
  <2>2. TypeInvariant'
    BY <2>1, SameFlash DEF FlashInv, TypeInvariant
  <2>3. PcInv' /\ CopyInv'
    BY <2>1 DEF PcInv, AtRest, CopyInv
  <2>4. RamMatchesFlash'
    BY <2>1, SameFlash DEF RamMatchesFlash, TailFits, Running
  <2>5. FullInv'
    BY <2>1, SameFlash DEF FlashInv, FullInv, AllLive
  <2> QED
    BY <2>2, <2>3, <2>4, <2>5 DEF FlashInv
<1>3. CASE WriteRecord
  <2> DEFINE r == RecordOf(op)
  <2>1. /\ pc = "write" /\ pc' = "ready" /\ op' = Idle /\ result' = "ok" /\ at' = at
        /\ ram' = [ram EXCEPT !.tail = @ + 1] /\ half' \in WithActive(Written(r))
    BY <1>3 DEF WriteRecord, Return
  <2>2. Running /\ op \in Calls /\ ram.tail + 1 <= Slots /\ ram.tail \in Nat /\ r \in Record
    BY <1>0, <2>1, RecordType DEF Running, FlashInv, PcInv, TypeInvariant, AtRest
  <2>3. half' \in Left
    BY <2>1 DEF Left, WithActive
  <2>4. /\ half' \in [{0, 1} -> Half] /\ \A h \in {0, 1} : Len(half'[h].log) <= Slots
        /\ ChosenOf(half') = a /\ half'[a].seq = half[a].seq
    BY <1>0, <2>2, <2>3, LeftFacts
  <2>5. half'[a].clean => Active.clean /\ Fits(r) /\ half'[a].log = Append(Front, r)
    BY <2>1, WriteLeaves
  <2>6. ram' = [active |-> a, seq |-> ram.seq, tail |-> ram.tail + 1]
    BY <2>1 DEF FlashInv, TypeInvariant
  <2> HIDE DEF r
  <2>7. TailFits(half'[a], ram'.tail)
    <3>1. half'[a].clean => Front \in Seq(Record) /\ Len(Front) = ram.tail
      BY <2>1, <2>5, FrontFacts DEF r
    <3> QED
      BY <2>2, <2>5, <2>6, <3>1, AppendFacts DEF TailFits
  <2>8. TypeInvariant'
    <3>2. ram' \in [active : {0, 1}, seq : 0 .. (SeqModulus - 1), tail : 0 .. Slots]
      BY <1>0, <2>2, <2>6 DEF FlashInv, TypeInvariant
    <3> QED
      BY <2>1, <2>4, <3>2 DEF FlashInv, TypeInvariant
  <2>9. PcInv' /\ CopyInv' /\ FullInv'
    BY <2>1 DEF PcInv, CopyInv, FullInv, AtRest
  <2>10. RamMatchesFlash'
    BY <1>a, <2>2, <2>4, <2>6, <2>7, ChosenState DEF RamMatchesFlash, Active, TailFits
  <2> QED
    BY <2>8, <2>9, <2>10 DEF FlashInv
<1>4. CASE EraseNew
  <2>1. /\ pc = "erase_new" /\ pc' = "copy" /\ at' = 1 /\ UNCHANGED <<ram, op, result>>
        /\ half' = WithHalf(half, Spare, Blank)
    BY <1>4 DEF EraseNew, WithHalf
  <2>2. Blank \in Half /\ Blank.seq = NoHeader /\ Blank.log = <<>>
    BY DEF Blank, Half
  <2>3. /\ half' \in [{0, 1} -> Half] /\ half'[Spare] = Blank /\ half'[a] = half[a]
    <3>1. /\ WithHalf(half, Spare, Blank) \in [{0, 1} -> Half]
          /\ WithHalf(half, Spare, Blank)[Spare] = Blank
      BY <1>0, <2>2, SetHalf
    <3>2. WithHalf(half, Spare, Blank)[a] = half[a]
      <4> HIDE DEF a
      <4> QED
        BY <1>0, <2>2, SetHalf
    <3> QED
      BY <2>1, <3>1, <3>2
  <2>4. Running /\ op # Idle /\ result # "full"
    BY <2>1 DEF Running, FlashInv, PcInv, AtRest
  <2>5. ChosenOf(half') = a
    <3> HIDE DEF a
    <3> QED
      BY <1>0, <1>a, <2>2, <2>3, <2>4, ChosenFacts
  <2>6. Active' = Active /\ Spare' = Spare
    BY <1>0, <2>1, <2>3 DEF Active, Spare
  <2>7. TypeInvariant'
    <3>1. \A h \in {0, 1} : Len(half'[h].log) <= Slots
      BY <1>0, <2>2, <2>3
    <3> QED
      BY <1>0, <2>1, <2>3, <3>1 DEF FlashInv, TypeInvariant
  <2>8. PcInv' /\ FullInv'
    BY <2>1, <2>4 DEF PcInv, FullInv, AtRest
  <2>9. RamMatchesFlash'
    BY <1>0, <1>a, <2>1, <2>4, <2>5, <2>6, ChosenState DEF RamMatchesFlash, TailFits
  <2>10. CopyInv'
    <3>1. Copied(Active.log, <<>>, 1)
      BY <1>0 DEF Copied
    <3> QED
      BY <2>1, <2>2, <2>3, <2>6, <3>1 DEF CopyInv
  <2> QED
    BY <2>7, <2>8, <2>9, <2>10 DEF FlashInv
<1>5. CASE CopyRecord
  <2> DEFINE log == Active.log
             copy == half[Spare].log
             new == IF IsLive(log, at) /\ log[at].intact THEN Append(copy, log[at]) ELSE copy
  <2>1. /\ pc = "copy" /\ at <= Len(log) /\ at' = at + 1
        /\ UNCHANGED <<ram, pc, op, result>>
    BY <1>5 DEF CopyRecord
  <2>2. Running /\ op # Idle /\ result # "full" /\ at \in 1 .. Len(log) /\ Copied(log, copy, at)
    BY <1>0, <2>1 DEF Running, FlashInv, PcInv, AtRest, TypeInvariant, CopyInv
  <2>3. Copied(log, new, at + 1)
    BY <1>0, <2>2, CopyOne
  <2>4. new \in Seq(Record)
    <3>1. log[at] \in Record
      BY <1>0, <2>2
    <3> QED
      BY <1>0, <3>1
  <2>5. Len(new) <= Slots /\ at + 1 \in 1 .. (Slots + 1)
    <3>1. Len(new) < at + 1 /\ at + 1 <= Len(log) + 1
      BY <2>3 DEF Copied
    <3>2. Len(new) \in Nat /\ Len(log) \in Nat /\ Len(log) <= Slots
      BY <1>0, <2>4
    <3> HIDE DEF new, log, copy
    <3> QED
      BY <1>0, <2>2, <3>1, <3>2
  <2>6. half' = WithLog(half, Spare, new)
    <3>1. CASE IsLive(log, at) /\ log[at].intact
      BY <1>5, <3>1 DEF CopyRecord, WithLog
    <3>2. CASE ~(IsLive(log, at) /\ log[at].intact)
      <4>1. half' = half /\ new = half[Spare].log
        BY <1>5, <3>2 DEF CopyRecord
      <4> HIDE DEF new
      <4>2. WithLog(half, Spare, half[Spare].log) = half
        BY <1>0 DEF WithLog, Half
      <4> QED
        BY <4>1, <4>2
    <3> QED
      BY <3>1, <3>2
  <2> HIDE DEF log, copy, new
  <2>7. /\ half' \in [{0, 1} -> Half] /\ half'[Spare].log = new /\ half'[a] = half[a]
        /\ ChosenOf(half') = ChosenOf(half)
    <3>1. half \in [{0, 1} -> Half] /\ Spare \in {0, 1}
      BY <1>0
    <3>2. /\ WithLog(half, Spare, new) \in [{0, 1} -> Half]
          /\ WithLog(half, Spare, new)[Spare].log = new
          /\ \A b \in {0, 1} : b # Spare => WithLog(half, Spare, new)[b] = half[b]
          /\ ChosenOf(WithLog(half, Spare, new)) = ChosenOf(half)
      BY <2>4, <3>1, SetLog
    <3>3. WithLog(half, Spare, new)[a] = half[a]
      BY <1>0, <3>2
    <3> QED
      BY <2>6, <3>2, <3>3
  <2>8. Active' = Active /\ Spare' = Spare
    BY <1>0, <2>1, <2>7 DEF Active, Spare
  <2>9. TypeInvariant'
    <3>1. \A h \in {0, 1} : Len(half'[h].log) <= Slots
      BY <1>0, <2>5, <2>7
    <3> QED
      BY <2>1, <2>5, <2>7, <3>1 DEF FlashInv, TypeInvariant
  <2>10. PcInv' /\ FullInv'
    BY <2>1, <2>2 DEF PcInv, FullInv, AtRest
  <2>11. RamMatchesFlash'
    BY <1>0, <1>a, <2>1, <2>2, <2>7, <2>8, ChosenState DEF RamMatchesFlash, TailFits
  <2>12. CopyInv'
    BY <2>1, <2>3, <2>7, <2>8 DEF CopyInv, log
  <2> QED
    BY <2>9, <2>10, <2>11, <2>12 DEF FlashInv
<1>6. CASE WriteHeader
  <2>1. /\ pc = "copy" /\ at > Len(Active.log) /\ pc' = "erase_old"
        /\ half' = WithSeq(half, Spare, NextSeq)
        /\ ram' = [active |-> Spare, seq |-> NextSeq, tail |-> Len(half[Spare].log)]
        /\ UNCHANGED <<op, at, result>>
    BY <1>6 DEF WriteHeader, WithSeq
  <2>2. Running /\ op # Idle /\ result # "full" /\ Copied(Active.log, half[Spare].log, at)
    BY <2>1 DEF Running, FlashInv, PcInv, AtRest, CopyInv
  <2>3. AllLive(half[Spare].log)
    <3>1. at \in Nat
      BY <1>0 DEF FlashInv, TypeInvariant
    <3> QED
      BY <1>0, <2>2, <3>1, CopyLive
  <2>4. NextSeq \in 0 .. (SeqModulus - 1) /\ NextSeq = (ram.seq + 1) % SeqModulus
    BY <1>0 DEF NextSeq, FlashInv, TypeInvariant
  <2>5. /\ half' \in [{0, 1} -> Half] /\ half'[Spare].seq = NextSeq
        /\ half'[Spare].log = half[Spare].log /\ half'[a] = half[a]
    <3>1. half \in [{0, 1} -> Half] /\ Spare \in {0, 1}
      BY <1>0
    <3>2. /\ WithSeq(half, Spare, NextSeq) \in [{0, 1} -> Half]
          /\ WithSeq(half, Spare, NextSeq)[Spare].seq = NextSeq
          /\ WithSeq(half, Spare, NextSeq)[Spare].log = half[Spare].log
          /\ \A b \in {0, 1} : b # Spare => WithSeq(half, Spare, NextSeq)[b] = half[b]
      BY <2>4, <3>1, SetSeq
    <3>3. WithSeq(half, Spare, NextSeq)[a] = half[a]
      BY <1>0, <3>2
    <3> QED
      BY <2>1, <3>2, <3>3
  <2>6. ChosenOf(half') = Spare
    <3> HIDE DEF a
    <3>1. half'[a].seq # NoHeader /\ half'[Spare].seq = (half'[a].seq + 1) % SeqModulus
      BY <1>a, <2>2, <2>4, <2>5
    <3> QED
      BY <1>0, <2>5, <3>1, ChosenFacts
  <2>7. Active'.log = half[Spare].log /\ Active'.seq = NextSeq
    BY <2>1, <2>5 DEF Active
  <2>8. TypeInvariant'
    <3>1. \A h \in {0, 1} : Len(half'[h].log) <= Slots
      BY <1>0, <2>5
    <3>2. Len(half[Spare].log) \in 0 .. Slots
      BY <1>0
    <3>3. ram' \in [active : {0, 1}, seq : 0 .. (SeqModulus - 1), tail : 0 .. Slots]
      BY <1>0, <2>1, <2>4, <3>2
    <3> QED
      BY <2>1, <2>5, <3>1, <3>3 DEF FlashInv, TypeInvariant
  <2>9. PcInv' /\ CopyInv'
    BY <2>1, <2>2 DEF PcInv, CopyInv, AtRest
  <2>10. RamMatchesFlash'
    BY <2>1, <2>6, <2>7, ChosenState DEF RamMatchesFlash
  <2>11. FullInv'
    BY <2>3, <2>7 DEF FullInv, AllLive
  <2> QED
    BY <2>8, <2>9, <2>10, <2>11 DEF FlashInv
<1>7. CASE EraseOld
  <2>1. /\ pc = "erase_old" /\ pc' \in {"full", "write"} /\ (pc' = "write" => ~IsFull)
        /\ UNCHANGED <<ram, op, at, result>>
        /\ half' = WithHalf(half, Spare, Blank)
    BY <1>7 DEF EraseOld, WithHalf
  <2>2. Blank \in Half /\ Blank.seq = NoHeader /\ Blank.log = <<>>
    BY DEF Blank, Half
  <2>3. /\ half' \in [{0, 1} -> Half] /\ half'[Spare] = Blank /\ half'[a] = half[a]
    <3>1. /\ WithHalf(half, Spare, Blank) \in [{0, 1} -> Half]
          /\ WithHalf(half, Spare, Blank)[Spare] = Blank
      BY <1>0, <2>2, SetHalf
    <3>2. WithHalf(half, Spare, Blank)[a] = half[a]
      <4> HIDE DEF a
      <4> QED
        BY <1>0, <2>2, SetHalf
    <3> QED
      BY <2>1, <3>1, <3>2
  <2>4. Running /\ op # Idle /\ result # "full"
    BY <2>1 DEF Running, FlashInv, PcInv, AtRest
  <2>5. ChosenOf(half') = a
    <3> HIDE DEF a
    <3> QED
      BY <1>0, <1>a, <2>2, <2>3, <2>4, ChosenFacts
  <2>6. Active' = Active /\ Spare' = Spare
    BY <1>0, <2>1, <2>3 DEF Active, Spare
  <2>7. TypeInvariant'
    <3>1. \A h \in {0, 1} : Len(half'[h].log) <= Slots
      BY <1>0, <2>2, <2>3
    <3> QED
      BY <1>0, <2>1, <2>3, <3>1 DEF FlashInv, TypeInvariant
  <2>8. PcInv' /\ CopyInv'
    <3>1. pc' = "write" => ram'.tail + 1 <= Slots
      BY <1>0, <2>1 DEF IsFull, FlashInv, TypeInvariant
    <3> QED
      BY <2>1, <2>4, <3>1 DEF PcInv, CopyInv, AtRest
  <2>9. RamMatchesFlash'
    BY <1>0, <1>a, <2>1, <2>4, <2>5, <2>6, ChosenState DEF RamMatchesFlash, TailFits
  <2>10. FullInv'
    BY <2>1, <2>6 DEF FlashInv, FullInv, AllLive
  <2> QED
    BY <2>7, <2>8, <2>9, <2>10 DEF FlashInv
<1>8. CASE FlashError
  <2> DEFINE r == RecordOf(op)
  <2>1. /\ pc \in {"write", "erase_new", "copy", "erase_old"} /\ UNCHANGED <<ram, at>>
        /\ pc' = "ready" /\ op' = Idle /\ result' = "io"
        /\ pc # "write" => half' \in Interrupted
        /\ pc = "write" => half' \in WithActive(PartlyWritten(r, Chunked))
    BY <1>8 DEF FlashError, Return
  <2>2. Running /\ Chunked \in BOOLEAN
    BY <2>1, NorFlashAssumption DEF Running
  <2>3. half' \in Left
    <3>1. CASE pc = "write"
      <4>1. PartlyWritten(r, Chunked) \subseteq PartlyWritten(r, TRUE)
        BY <2>2 DEF PartlyWritten
      <4> HIDE DEF r
      <4> QED
        BY <2>1, <3>1, <4>1 DEF Left, WithActive, r
    <3> QED
      BY <2>1, <3>1 DEF Left
  <2>4. /\ half' \in [{0, 1} -> Half] /\ \A h \in {0, 1} : Len(half'[h].log) <= Slots
        /\ ChosenOf(half') = a
        /\ half'[a].seq = half[a].seq /\ (pc # "write" => half'[a] = half[a])
    BY <1>0, <2>2, <2>3, LeftFacts
  <2>5. TailFits(half'[a], ram.tail)
    <3>1. CASE pc # "write"
      BY <1>0, <1>a, <2>2, <2>4, <3>1
    <3>2. CASE pc = "write"
      <4>1. half'[a].clean =>
               /\ Active.clean
               /\ \/ half'[a].log = Active.log
                  \/ Fits(r) /\ half'[a].log = Append(Front, Cut(r))
        BY <2>1, <2>2, <3>2, WriteLeaves
      <4> HIDE DEF r
      <4>2. CASE half'[a].clean /\ half'[a].log = Active.log
        BY <1>a, <2>2, <4>1, <4>2 DEF TailFits
      <4>3. CASE half'[a].clean /\ Fits(r) /\ half'[a].log = Append(Front, Cut(r))
        <5>1. Front \in Seq(Record) /\ Len(Front) = ram.tail
          BY <3>2, <4>1, <4>3, FrontFacts DEF r
        <5>2. r \in Record
          BY <3>2, RecordType DEF r, FlashInv, TypeInvariant, PcInv, AtRest
        <5>3. Cut(r) \in Record /\ ~Cut(r).intact
          BY <5>2 DEF Cut, Record
        <5> QED
          BY <4>3, <5>1, <5>3, AppendFacts DEF TailFits
      <4> QED
        BY <4>1, <4>2, <4>3 DEF TailFits
    <3> QED
      BY <3>1, <3>2
  <2>6. TypeInvariant'
    BY <2>1, <2>4 DEF FlashInv, TypeInvariant
  <2>7. PcInv' /\ CopyInv' /\ FullInv'
    BY <2>1 DEF PcInv, CopyInv, FullInv, AtRest
  <2>8. RamMatchesFlash'
    BY <1>0, <1>a, <2>1, <2>2, <2>4, <2>5, ChosenState DEF RamMatchesFlash, Active, TailFits
  <2> QED
    BY <2>6, <2>7, <2>8 DEF FlashInv
<1>9. CASE Open
  <2>1. /\ pc = "off" /\ pc' \in {"format", "ready"} /\ UNCHANGED <<half, op, at, result>>
        /\ pc' = "format" => Chosen = NoHeader /\ ram' = ram
        /\ pc' = "ready" =>
              /\ Chosen # NoHeader
              /\ ram' = [active |-> Chosen, seq |-> half[Chosen].seq,
                         tail |-> Len(half[Chosen].log)]
    BY <1>9 DEF Open
  <2>2. Chosen' = Chosen /\ op = Idle /\ result # "full"
    BY <2>1 DEF Chosen, FlashInv, PcInv, AtRest
  <2>3. Chosen # NoHeader => /\ Chosen \in {0, 1} /\ half[Chosen].seq \in 0 .. (SeqModulus - 1)
                             /\ Len(half[Chosen].log) \in 0 .. Slots
    <3>1. Chosen # NoHeader => Chosen \in {0, 1} /\ half[Chosen].seq # NoHeader
      BY <1>0, ChosenState, ChosenFacts
    <3> QED
      BY <1>0, <3>1 DEF Half
  <2>4. ram' \in [active : {0, 1}, seq : 0 .. (SeqModulus - 1), tail : 0 .. Slots]
    <3>1. CASE pc' = "format"
      BY <2>1, <3>1 DEF FlashInv, TypeInvariant
    <3>2. CASE pc' = "ready"
      BY <2>1, <2>3, <3>2
    <3> QED
      BY <2>1, <3>1, <3>2
  <2>5. TypeInvariant'
    BY <1>0, <2>1, <2>4 DEF FlashInv, TypeInvariant
  <2>6. PcInv' /\ CopyInv' /\ FullInv'
    BY <2>1, <2>2 DEF PcInv, CopyInv, FullInv, AtRest
  <2>7. RamMatchesFlash'
    BY <2>1, <2>2 DEF RamMatchesFlash, Running, Active
  <2> QED
    BY <2>5, <2>6, <2>7 DEF FlashInv
<1>10. CASE FormatErase
  <2>1. /\ pc = "format" /\ pc' = "format_header" /\ half' = [h \in {0, 1} |-> Blank]
        /\ UNCHANGED <<ram, op, at, result>>
    BY <1>10 DEF FormatErase
  <2>2. op = Idle /\ result # "full"
    BY <2>1 DEF FlashInv, PcInv, AtRest
  <2>3. TypeInvariant'
    <3>1. Blank \in Half /\ Len(Blank.log) = 0
      BY DEF Blank, Half
    <3> QED
      BY <1>0, <2>1, <3>1 DEF FlashInv, TypeInvariant
  <2>4. PcInv' /\ CopyInv' /\ FullInv' /\ RamMatchesFlash'
    BY <2>1, <2>2 DEF PcInv, CopyInv, FullInv, AtRest, RamMatchesFlash, Running
  <2> QED
    BY <2>3, <2>4 DEF FlashInv
<1>11. CASE FormatHeader
  <2>1. /\ pc = "format_header" /\ pc' = "ready" /\ half' = WithSeq(half, 0, 1)
        /\ ram' = [active |-> 0, seq |-> 1, tail |-> 0] /\ UNCHANGED <<op, at, result>>
    BY <1>11 DEF FormatHeader, WithSeq
  <2>2. op = Idle /\ result # "full" /\ half = [h \in {0, 1} |-> Blank]
    BY <2>1 DEF FlashInv, PcInv, AtRest
  <2>3. 0 \in {0, 1} /\ 1 \in {0, 1} /\ 1 \in 0 .. (SeqModulus - 1)
        /\ half[0] = Blank /\ half[1] = Blank
    BY <1>0, <2>2
  <2>4. /\ half' \in [{0, 1} -> Half] /\ half'[0].seq = 1
        /\ half'[0].log = <<>> /\ half'[1] = Blank
    <3>1. /\ WithSeq(half, 0, 1) \in [{0, 1} -> Half]
          /\ WithSeq(half, 0, 1)[0].seq = 1
          /\ WithSeq(half, 0, 1)[0].log = half[0].log
          /\ \A b \in {0, 1} : b # 0 => WithSeq(half, 0, 1)[b] = half[b]
      BY <1>0, <2>3, SetSeq
    <3> QED
      BY <2>1, <2>3, <3>1 DEF Blank
  <2>5. ChosenOf(half') = 0
    BY <2>4 DEF ChosenOf, Blank, NoHeader
  <2>6. TypeInvariant'
    <3>1. \A h \in {0, 1} : Len(half'[h].log) <= Slots
      BY <1>0, <2>4 DEF Blank
    <3>2. ram' \in [active : {0, 1}, seq : 0 .. (SeqModulus - 1), tail : 0 .. Slots]
      BY <1>0, <2>1
    <3> QED
      BY <2>1, <2>4, <3>1, <3>2 DEF FlashInv, TypeInvariant
  <2>7. PcInv' /\ CopyInv' /\ FullInv'
    BY <2>1, <2>2 DEF PcInv, CopyInv, FullInv, AtRest
  <2>8. RamMatchesFlash'
    BY <2>1, <2>4, <2>5, ChosenState DEF RamMatchesFlash, Active
  <2> QED
    BY <2>6, <2>7, <2>8 DEF FlashInv
<1>12. CASE PowerLoss
  <2>1. /\ pc' = "off" /\ op' = Idle /\ at' = 1 /\ result' = "none"
        /\ ram' = [active |-> 0, seq |-> 0, tail |-> 0] /\ pc # "off"
    BY <1>12 DEF PowerLoss
  <2>2. /\ half' \in [{0, 1} -> Half] /\ \A h \in {0, 1} : Len(half'[h].log) <= Slots
    <3>1. CASE Running
      BY <1>12, <3>1, LossLeft, LeftFacts
    <3>2. CASE ~Running
      <4>1. half' = half
        BY <1>12, <3>2 DEF PowerLoss, Running, Interrupted
      <4> QED
        BY <1>0, <4>1
    <3> QED
      BY <3>1, <3>2
  <2>3. TypeInvariant'
    BY <1>0, <2>1, <2>2 DEF TypeInvariant
  <2>4. PcInv' /\ CopyInv' /\ FullInv' /\ RamMatchesFlash'
    BY <2>1 DEF PcInv, CopyInv, FullInv, AtRest, RamMatchesFlash, Running
  <2> QED
    BY <2>3, <2>4 DEF FlashInv
<1>13. CASE UNCHANGED vars
  BY <1>13 DEF vars, FlashInv, TypeInvariant, PcInv, RamMatchesFlash, CopyInv, FullInv,
               Running, Chosen, Active, Spare, NothingToErase
<1> QED
  BY <1>1, <1>2, <1>3, <1>4, <1>5, <1>6, <1>7, <1>8, <1>9, <1>10, <1>11, <1>12, <1>13
     DEF Next

\* An empty region is where the store starts.
LEMMA FlashInit == Init => FlashInv
<1> SUFFICES ASSUME Init
             PROVE  FlashInv
  OBVIOUS
<1>1. Blank \in Half /\ Len(Blank.log) = 0 /\ Slots \in Nat /\ 0 \in 0 .. (SeqModulus - 1)
  BY NorFlashAssumption DEF Blank, Half
<1>2. TypeInvariant
  BY <1>1 DEF Init, TypeInvariant
<1>3. PcInv /\ RamMatchesFlash /\ CopyInv /\ FullInv
  BY DEF Init, PcInv, AtRest, RamMatchesFlash, Running, CopyInv, FullInv
<1> QED
  BY <1>2, <1>3 DEF FlashInv

LEMMA FlashInvariant == Spec => []FlashInv
  BY FlashInit, FlashStep, PTL DEF Spec

\* The state of the store and of the flash has its type, no half overflows
\* and the tail stays inside its half.
THEOREM TypeCorrect == Spec => []TypeInvariant
<1>1. FlashInv => TypeInvariant
  BY DEF FlashInv
<1> QED
  BY <1>1, FlashInvariant, PTL

\* The state in RAM is what a restart would find in the flash.
THEOREM RamFollowsFlash == Spec => []RamMatchesFlash
<1>1. FlashInv => RamMatchesFlash
  BY DEF FlashInv
<1> QED
  BY <1>1, FlashInvariant, PTL

\* A store is refused only when every slot holds a live and intact record.
THEOREM FullIsFull == Spec => []FullMeansFull
<1>1. FlashInv => FullMeansFull
  BY DEF FlashInv, FullInv, AllLive, FullMeansFull
<1> QED
  BY <1>1, FlashInvariant, PTL

-----------------------------------------------------------------------------
(* The region is formatted once                                            *)

\* While the store runs a step leaves a half with a header behind.
LEMMA HeaderStays ==
    FlashInv /\ FlashInv' /\ [Next]_vars => [Running => Chosen' # NoHeader]_vars
<1> SUFFICES ASSUME FlashInv, FlashInv', Next, Running
             PROVE  Chosen' # NoHeader
  BY DEF vars
<1>1. CASE Running'
  <2>1. Chosen' = ram'.active /\ ram'.active \in {0, 1}
    BY <1>1 DEF FlashInv, RamMatchesFlash, TypeInvariant
  <2> QED
    BY <2>1 DEF NoHeader
<1>2. CASE ~Running'
  <2>1. PowerLoss
    BY <1>2 DEF Next, Running, Call, NothingDone, RefuseFull, WriteRecord, EraseNew,
                CopyRecord, WriteHeader, EraseOld, FlashError, Open, FormatErase,
                FormatHeader, Return
  <2>2. ChosenOf(half') = ram.active /\ ram.active \in {0, 1}
    BY <2>1, LossLeft, LeftFacts DEF FlashInv, TypeInvariant
  <2> QED
    BY <2>2, ChosenState DEF NoHeader
<1> QED
  BY <1>1, <1>2

\* Once opened, the region always has a half with a header, whatever is
\* interrupted and wherever: no later boot formats it.
THEOREM FormattedOnce == Spec => NeverFormattedAgain
<1>1. FlashInv /\ FlashInv' /\ [Next]_vars => [Running => Chosen' # NoHeader]_vars
  BY HeaderStays
<1> QED
  BY <1>1, FlashInvariant, PTL DEF Spec, NeverFormattedAgain
-----------------------------------------------------------------------------
(* The refinement                                                          *)

\* What load returns for every key from one log.
LoadAll(log) == [k \in Keys |-> Load(log, k)]
Empty == [k \in Keys |-> NoValue]

\* What the next boot would load: while the store runs, what it loads now;
\* otherwise what is in the half that opening chooses, if any.
LEMMA ContentState ==
    /\ FlashInv /\ Running => Content = LoadAll(Active.log)
    /\ FlashInv' /\ Running' => Content' = LoadAll(Active'.log)
    /\ Chosen = NoHeader => Content = Empty
    /\ Chosen' = NoHeader => Content' = Empty
<1>1. ASSUME FlashInv, Running
      PROVE  Content = LoadAll(Active.log)
  <2>1. Chosen = ram.active /\ ram.active \in {0, 1}
    BY <1>1 DEF FlashInv, RamMatchesFlash, TypeInvariant
  <2> QED
    BY <2>1 DEF Content, Contents, LoadAll, Active, NoHeader
<1>2. ASSUME FlashInv', Running'
      PROVE  Content' = LoadAll(Active'.log)
  <2>1. Chosen' = ram'.active /\ ram'.active \in {0, 1}
    BY <1>2 DEF FlashInv, RamMatchesFlash, TypeInvariant
  <2> QED
    BY <2>1 DEF Content, Contents, LoadAll, Active, NoHeader
<1>3. Chosen = NoHeader => Content = Empty
  BY DEF Content, Contents, Empty
<1>4. Chosen' = NoHeader => Content' = Empty
  BY DEF Content, Contents, Empty
<1> QED
  BY <1>1, <1>2, <1>3, <1>4

\* Keys are pairs, so two keys with the same kind and id are one.
LEMMA KeyPair ==
    \A k, l \in Keys : k = l <=> k[1] = l[1] /\ k[2] = l[2]
  BY NorFlashAssumption

\* The record of a call concerns the keys the call is about.
LEMMA ConcernsTouched ==
    ASSUME NEW call \in Calls, NEW k \in Keys
    PROVE  /\ Concerns(RecordOf(call), k) <=> k \in Weaker!Touched(call)
           /\ RecordOf(call).intact /\ RecordOf(call).value \in Values \cup {NoValue}
           /\ RecordOf(call).flag = "set" <=> call.type = "store"
           /\ call.type = "store" =>
                 /\ call.key \in Keys /\ KeyOf(RecordOf(call)) = call.key
                 /\ RecordOf(call).value = call.value
<1>1. CASE call.type = "store"
  <2>1. call.key \in Keys /\ call.value \in Values
    BY <1>1 DEF Calls
  <2>2. RecordOf(call) = [kind |-> call.key[1], id |-> call.key[2], flag |-> "set",
                          value |-> call.value, intact |-> TRUE]
    BY <1>1 DEF RecordOf
  <2>3. Weaker!Touched(call) = {call.key}
    BY <1>1 DEF Weaker!Touched
  <2>4. KeyOf(RecordOf(call)) = call.key
    BY <2>1, <2>2, NorFlashAssumption DEF KeyOf
  <2> QED
    BY <1>1, <2>1, <2>2, <2>3, <2>4, KeyPair DEF Concerns
<1>2. CASE call.type = "erase"
  <2>1. call.key \in Keys
    BY <1>2 DEF Calls
  <2>2. RecordOf(call) = [kind |-> call.key[1], id |-> call.key[2], flag |-> "erased",
                          value |-> NoValue, intact |-> TRUE]
    BY <1>2 DEF RecordOf
  <2>3. Weaker!Touched(call) = {call.key}
    BY <1>2 DEF Weaker!Touched
  <2> QED
    BY <1>2, <2>1, <2>2, <2>3, KeyPair DEF Concerns
<1>3. CASE call.type = "erase_kind"
  <2>1. RecordOf(call) = [kind |-> call.kind, id |-> 0, flag |-> "kind_erased",
                          value |-> NoValue, intact |-> TRUE]
    BY <1>3 DEF RecordOf
  <2>2. Weaker!Touched(call) = {l \in Keys : l[1] = call.kind}
    BY <1>3 DEF Weaker!Touched
  <2> QED
    BY <1>3, <2>1, <2>2 DEF Concerns
<1> QED
  BY <1>1, <1>2, <1>3 DEF Calls

\* What load returns for the keys that the record of a call does not concern
\* is the same before it, behind it and behind a part of it.
LEMMA Untouched ==
    ASSUME NEW log \in Seq(Record), NEW call \in Calls, NEW k \in Keys,
           k \notin Weaker!Touched(call)
    PROVE  /\ Load(Append(log, RecordOf(call)), k) = Load(log, k)
           /\ Load(Append(log, Cut(RecordOf(call))), k) = Load(log, k)
<1> DEFINE r == RecordOf(call)
<1>1. r \in Record /\ ~Concerns(r, k)
  BY RecordType, ConcernsTouched
<1>2. Cut(r) \in Record /\ ~Concerns(Cut(r), k)
  BY <1>1 DEF Cut, Record, Concerns
<1> HIDE DEF r
<1> QED
  BY <1>1, <1>2, LoadAppended DEF r

\* The log is what was in front of the record of a call, or has a part of it
\* already.
Before(log, call) ==
    Content = LoadAll(log) \/ Content = LoadAll(Append(log, Cut(RecordOf(call))))

\* Appending the record of a call applies the call to what load returns,
\* also in place of a part of that record.
LEMMA AppendApplies ==
    ASSUME NEW log \in Seq(Record), NEW call \in Calls, Before(log, call)
    PROVE  LoadAll(Append(log, RecordOf(call))) = Weaker!Applied(call)
<1> DEFINE r == RecordOf(call)
<1>1. r \in Record
  BY RecordType
<1>2. ASSUME NEW k \in Keys
      PROVE  Load(Append(log, r), k) =
                IF k \notin Weaker!Touched(call) THEN Content[k]
                ELSE IF call.type = "store" THEN call.value ELSE NoValue
  <2>1. CASE k \notin Weaker!Touched(call)
    BY <2>1, Untouched DEF LoadAll, Before
  <2>2. CASE k \in Weaker!Touched(call) /\ call.type = "store"
    <3>1. k = call.key
      BY <2>2 DEF Weaker!Touched
    <3> QED
      BY <1>1, <2>2, <3>1, ConcernsTouched, LoadAppended
  <2>3. CASE k \in Weaker!Touched(call) /\ call.type # "store"
    BY <1>1, <2>3, ConcernsTouched, LoadAppended
  <2> QED
    BY <2>1, <2>2, <2>3
<1> QED
  BY <1>2 DEF LoadAll, Weaker!Applied

\* Appending the record of a store whose payload is cut loses its key.
LEMMA AppendTears ==
    ASSUME NEW log \in Seq(Record), NEW call \in Calls, call.type = "store",
           Before(log, call)
    PROVE  LoadAll(Append(log, Cut(RecordOf(call)))) = Weaker!Torn(call)
<1> DEFINE r == RecordOf(call)
           t == Cut(r)
<1>1. r \in Record /\ r.flag = "set" /\ KeyOf(r) = call.key /\ call.key \in Keys
  <2>1. PICK k \in Keys : TRUE
    BY NorFlashAssumption
  <2> QED
    BY <2>1, RecordType, ConcernsTouched
<1>2. t \in Record /\ t.flag = "set" /\ KeyOf(t) = call.key /\ ~t.intact
  BY <1>1 DEF Record, KeyOf, Cut
<1>3. ASSUME NEW k \in Keys, k # call.key
      PROVE  Load(Append(log, t), k) = Content[k]
  <2>1. k \notin Weaker!Touched(call)
    BY <1>3 DEF Weaker!Touched
  <2> QED
    BY <2>1, Untouched DEF LoadAll, Before
<1> HIDE DEF t, r
<1>4. Load(Append(log, t), call.key) = NoValue
  BY <1>2, LoadAppended
<1>5. Weaker!Torn(call) = [k \in Keys |-> IF k = call.key THEN NoValue ELSE Content[k]]
  BY <1>1 DEF Weaker!Torn, LoadAll, Before
<1> QED
  BY <1>3, <1>4, <1>5 DEF LoadAll, t, r

\* Applying a call that has nothing to erase changes nothing.
LEMMA NothingApplies ==
    ASSUME NEW call \in Calls, NothingToErase(call), Active.log \in Seq(Record),
           Content = LoadAll(Active.log)
    PROVE  Weaker!Applied(call) = Content
<1>1. call.type # "store"
  BY DEF NothingToErase
<1>2. ASSUME NEW k \in Weaker!Touched(call), k \in Keys
      PROVE  Content[k] = NoValue
  <2>1. Find(Active.log, k) = {}
    <3>1. CASE call.type = "erase"
      BY <1>2, <3>1 DEF NothingToErase, Weaker!Touched
    <3>2. CASE call.type = "erase_kind"
      <4>1. k[1] = call.kind
        BY <1>2, <3>2 DEF Weaker!Touched
      <4>2. ASSUME NEW i \in Find(Active.log, k)
            PROVE  FALSE
        <5>1. i \in 1 .. Len(Active.log) /\ KeyOf(Active.log[i]) = k
          BY <4>2 DEF Find
        <5>2. IsLive(Active.log, i) /\ Active.log[i].kind = call.kind
          BY <4>1, <4>2, <5>1 DEF IsLive, KeyOf
        <5> QED
          BY <3>2, <5>1, <5>2 DEF NothingToErase
      <4> QED
        BY <4>2
    <3> QED
      BY <1>1, <3>1, <3>2 DEF Calls
  <2> QED
    BY <1>2, <2>1, LoadFacts DEF LoadAll
<1> QED
  BY <1>1, <1>2 DEF Weaker!Applied, LoadAll

\* What a failed call and a power loss do to the map: a key is lost only to a
\* cut payload.
TornStore == op # Idle /\ op.type = "store" /\ Content' = Weaker!Torn(op)

Failed ==
    /\ op # Idle
    /\ op' = Idle
    /\ \/ result' \in {"full", "io"} /\ Content' = Content
       \/ result' = "io" /\ Chunked /\ TornStore

Lost ==
    /\ op' = Idle
    /\ result' = "none"
    /\ \/ Content' = Content
       \/ op # Idle /\ Content' = Weaker!Applied(op)
       \/ PayloadTears /\ TornStore

MapStep ==
    \/ \E call \in Calls : Weaker!Begin(call)
    \/ Weaker!Succeed
    \/ Failed
    \/ Lost

\* What the write of a record leaves in the map, as long as the active half
\* is clean: the call is done or, when it ends early, nothing or a torn store.
LEMMA WriteOfMap ==
    ASSUME FlashInv, pc = "write", NEW tears \in BOOLEAN,
           NEW halves \in {PartlyWritten(RecordOf(op), tears), Written(RecordOf(op))},
           half' \in WithActive(halves), Sound'
    PROVE  /\ op # Idle
           /\ halves = Written(RecordOf(op)) => Content' = Weaker!Applied(op)
           /\ halves = PartlyWritten(RecordOf(op), tears) =>
                 Content' = Content \/ (tears /\ TornStore)
<1> DEFINE a == ram.active
           r == RecordOf(op)
           x == half'[a]
<1>0. /\ a \in {0, 1} /\ Running /\ op \in Calls /\ op # Idle
      /\ Active.log \in Seq(Record) /\ Content = LoadAll(Active.log)
  BY ContentState DEF FlashInv, TypeInvariant, PcInv, AtRest, Running, Active, Half
<1>1. /\ halves \subseteq PartlyWritten(r, TRUE) \cup Written(r)
      /\ x.clean => Active.clean
      /\ x.clean /\ halves = Written(r) => Fits(r) /\ x.log = Append(Front, r)
      /\ x.clean /\ halves = PartlyWritten(r, tears) =>
            \/ x.log = Active.log
            \/ tears /\ r.flag = "set" /\ Fits(r) /\ x.log = Append(Front, Cut(r))
  BY WriteLeaves
<1>2. half' \in Left
  BY <1>1 DEF Left, WithActive
<1>3. ChosenOf(half') = a /\ Chosen' = a
  BY <1>0, <1>2, LeftFacts, ChosenState
<1>4. Content' = LoadAll(x.log) /\ x.clean
  BY <1>0, <1>3 DEF Content, Contents, LoadAll, NoHeader, Sound
<1>5. Fits(r) => Front \in Seq(Record) /\ Before(Front, op)
  BY <1>0, <1>1, <1>4, FrontFacts DEF Before
<1>6. r.flag = "set" <=> op.type = "store"
  <2>1. PICK k \in Keys : TRUE
    BY NorFlashAssumption
  <2> QED
    BY <1>0, <2>1, ConcernsTouched
<1> HIDE DEF x, r
<1>7. ASSUME halves = Written(r)
      PROVE  Content' = Weaker!Applied(op)
  BY <1>0, <1>1, <1>4, <1>5, <1>7, AppendApplies DEF r
<1>8. ASSUME halves = PartlyWritten(r, tears)
      PROVE  Content' = Content \/ (tears /\ TornStore)
  <2>1. CASE x.log = Active.log
    BY <1>0, <1>4, <2>1
  <2>2. CASE tears /\ r.flag = "set" /\ Fits(r) /\ x.log = Append(Front, Cut(r))
    BY <1>0, <1>4, <1>5, <1>6, <2>2, AppendTears DEF r, TornStore
  <2> QED
    BY <1>1, <1>4, <1>8, <2>1, <2>2
<1> QED
  BY <1>0, <1>7, <1>8 DEF r

\* Every step of the log is a step of the map, or leaves it alone, as long as
\* the medium is sound.
LEMMA StepOfMap ==
    FlashInv /\ FlashInv' /\ [Next]_vars => [Sound' => MapStep]_(Weaker!abstractVars)
<1> SUFFICES ASSUME FlashInv, FlashInv', [Next]_vars, Sound'
             PROVE  [MapStep]_(Weaker!abstractVars)
  BY DEF Weaker!abstractVars
<1> DEFINE a == ram.active
           Same == Content' = Content /\ op' = op /\ result' = result
<1>0. /\ a \in {0, 1} /\ Spare \in {0, 1} /\ Spare # a /\ half \in [{0, 1} -> Half]
      /\ Active = half[a] /\ Active.log \in Seq(Record) /\ half[Spare].log \in Seq(Record)
      /\ op \in Calls \cup {Idle} /\ Weaker!Idle = Idle /\ Weaker!Calls = Calls
  BY DEF FlashInv, TypeInvariant, Spare, Active, Half, Idle, Weaker!Idle, Calls,
         Weaker!Calls, Kinds
<1>s. Same => [MapStep]_(Weaker!abstractVars)
  BY DEF Weaker!abstractVars
<1>1. ASSUME NEW call \in Calls, Call(call)
      PROVE  [MapStep]_(Weaker!abstractVars)
  <2>1. op = Idle /\ op' = call /\ result' = "none"
    BY <1>1 DEF Call, FlashInv, PcInv, AtRest
  <2>2. Content' = Content
    BY <1>1 DEF Call, Content, Contents, Chosen
  <2> QED
    BY <1>0, <2>1, <2>2 DEF MapStep, Weaker!Begin
<1>2. CASE NothingDone
  <2>1. pc = "done" /\ op' = Idle /\ result' = "ok" /\ UNCHANGED half
    BY <1>2 DEF NothingDone, Return
  <2>2. op \in Calls /\ op # Idle /\ NothingToErase(op) /\ Running
    BY <1>0, <2>1 DEF FlashInv, PcInv, AtRest, Running
  <2>3. Content' = Content
    BY <2>1 DEF Content, Contents, Chosen
  <2>4. Content = Weaker!Applied(op)
    BY <1>0, <2>2, ContentState, NothingApplies
  <2> QED
    BY <1>0, <2>1, <2>2, <2>3, <2>4 DEF MapStep, Weaker!Succeed
<1>3. CASE WriteRecord
  <2>1. /\ pc = "write" /\ op' = Idle /\ result' = "ok"
        /\ half' \in WithActive(Written(RecordOf(op)))
    BY <1>3 DEF WriteRecord, Return
  <2>2. op # Idle /\ Content' = Weaker!Applied(op)
    BY <2>1, WriteOfMap
  <2> QED
    BY <1>0, <2>1, <2>2 DEF MapStep, Weaker!Succeed
<1>4. CASE RefuseFull
  <2>1. pc = "full" /\ op' = Idle /\ result' = "full" /\ UNCHANGED half
    BY <1>4 DEF RefuseFull, Return
  <2>2. op # Idle
    BY <2>1 DEF FlashInv, PcInv, AtRest
  <2>3. Content' = Content
    BY <2>1 DEF Content, Contents, Chosen
  <2> QED
    BY <2>1, <2>2, <2>3 DEF MapStep, Failed
<1>5. CASE EraseNew \/ CopyRecord \/ EraseOld
  <2>1. /\ Running /\ Running' /\ UNCHANGED <<ram, op, result>>
    BY <1>5 DEF EraseNew, CopyRecord, EraseOld, Running
  <2>2. half'[a] = half[a]
    BY <1>0, <1>5 DEF EraseNew, CopyRecord, EraseOld
  <2>3. Content' = Content
    BY <1>0, <2>1, <2>2, ContentState DEF Active
  <2> QED
    BY <1>s, <2>1, <2>3
<1>6. CASE WriteHeader
  <2>1. /\ pc = "copy" /\ at > Len(Active.log) /\ pc' = "erase_old" /\ UNCHANGED <<op, result>>
        /\ ram'.active = Spare
    BY <1>6 DEF WriteHeader
  <2>2. Active'.log = half[Spare].log
    BY <1>0, <1>6, <2>1 DEF WriteHeader, Active, Half
  <2>3. Copied(Active.log, half[Spare].log, Len(Active.log) + 1)
    <3>1. Copied(Active.log, half[Spare].log, at)
      BY <2>1 DEF FlashInv, CopyInv
    <3>2. at = Len(Active.log) + 1
      BY <1>0, <2>1, <3>1 DEF Copied, FlashInv, TypeInvariant
    <3> QED
      BY <3>1, <3>2
  <2>4. LoadAll(half[Spare].log) = LoadAll(Active.log)
    BY <1>0, <2>3, CopyLoad DEF LoadAll
  <2>5. Content' = Content
    BY <2>1, <2>2, <2>4, ContentState DEF Running
  <2> QED
    BY <1>s, <2>1, <2>5
<1>7. CASE FlashError
  <2>1. /\ pc \in {"write", "erase_new", "copy", "erase_old"} /\ ram' = ram /\ pc' = "ready"
        /\ op' = Idle /\ result' = "io"
        /\ pc # "write" => half' \in Interrupted
        /\ pc = "write" => half' \in WithActive(PartlyWritten(RecordOf(op), Chunked))
    BY <1>7 DEF FlashError, Return
  <2>2. Running /\ Running' /\ op # Idle /\ Chunked \in BOOLEAN
    BY <2>1, NorFlashAssumption DEF Running, FlashInv, PcInv, AtRest
  <2>3. CASE pc # "write"
    <3>1. half' \in Left
      BY <2>1, <2>3 DEF Left
    <3>2. Active'.log = Active.log
      BY <1>0, <2>1, <2>2, <2>3, <3>1, LeftFacts DEF Active
    <3>3. Content' = Content
      BY <2>2, <3>2, ContentState
    <3> QED
      BY <2>1, <2>2, <3>3 DEF MapStep, Failed
  <2>4. CASE pc = "write"
    <3>1. Content' = Content \/ (Chunked /\ TornStore)
      BY <2>1, <2>2, <2>4, WriteOfMap
    <3> QED
      BY <2>1, <2>2, <3>1 DEF MapStep, Failed
  <2> QED
    BY <2>3, <2>4
<1>8. CASE Open
  <2>1. Content' = Content /\ UNCHANGED <<op, result>>
    BY <1>8 DEF Open, Content, Contents, Chosen
  <2> QED
    BY <1>s, <2>1
<1>9. CASE FormatErase
  <2>1. Chosen = NoHeader /\ half' = [h \in {0, 1} |-> Blank] /\ UNCHANGED <<op, result>>
    BY <1>9 DEF FormatErase, FlashInv, PcInv
  <2>2. Chosen' = NoHeader
    BY <2>1 DEF Chosen, Blank
  <2> QED
    BY <1>s, <2>1, <2>2, ContentState
<1>10. CASE FormatHeader
  <2>1. /\ half = [h \in {0, 1} |-> Blank] /\ UNCHANGED <<op, result>> /\ Running'
        /\ ram'.active = 0
    BY <1>10 DEF FormatHeader, FlashInv, PcInv, Running
  <2>2. Chosen = NoHeader
    BY <2>1 DEF Chosen, Blank
  <2>3. Active'.log = <<>>
    BY <1>10, <2>1 DEF FormatHeader, Active, Blank
  <2>4. LoadAll(<<>>) = Empty
    <3>1. \A k \in Keys : Find(<<>>, k) = {}
      BY DEF Find
    <3>2. \A k \in Keys : Load(<<>>, k) = NoValue
      BY <3>1 DEF Load
    <3> QED
      BY <3>2 DEF LoadAll, Empty
  <2> QED
    BY <1>s, <2>1, <2>2, <2>3, <2>4, ContentState
<1>11. CASE PowerLoss
  <2> DEFINE partly == PartlyWritten(RecordOf(op), PayloadTears)
             written == Written(RecordOf(op))
  <2>1. op' = Idle /\ result' = "none" /\ pc # "off"
    BY <1>11 DEF PowerLoss
  <2>2. SUFFICES \/ Content' = Content
                 \/ op # Idle /\ Content' = Weaker!Applied(op)
                 \/ PayloadTears /\ TornStore
    BY <2>1 DEF MapStep, Lost
  <2>3. CASE ~Running
    <3>1. half' = half
      BY <1>11, <2>3 DEF PowerLoss, Running, Interrupted
    <3> QED
      BY <3>1 DEF Content, Contents, Chosen
  <2>4. CASE Running /\ pc # "write"
    <3>1. Content = LoadAll(Active.log)
      BY <2>4, ContentState
    <3>2. ChosenOf(half') = a /\ half'[a] = Active
      BY <1>11, <2>4, LossLeft, LeftFacts
    <3>3. Content' = LoadAll(half'[a].log)
      BY <1>0, <3>2, ChosenState DEF Content, Contents, LoadAll, NoHeader
    <3> QED
      BY <3>1, <3>2, <3>3
  <2>5. CASE pc = "write"
    <3>1. half' \in WithActive(partly) \/ half' \in WithActive(written)
      BY <1>11, <2>5 DEF PowerLoss, WithActive
    <3>2. PayloadTears \in BOOLEAN
      BY NorFlashAssumption
    <3> QED
      BY <2>5, <3>1, <3>2, WriteOfMap
  <2> QED
    BY <2>3, <2>4, <2>5 DEF Running
<1>12. CASE UNCHANGED vars
  <2>1. Same
    BY <1>12 DEF vars, Content, Contents, Chosen
  <2> QED
    BY <1>s, <2>1
<1> QED
  BY <1>1, <1>2, <1>3, <1>4, <1>5, <1>6, <1>7, <1>8, <1>9, <1>10, <1>11, <1>12 DEF Next

\* An empty region is an empty map.
LEMMA InitImplements == Init => Weaker!KvInit
<1> SUFFICES ASSUME Init
             PROVE  Weaker!KvInit
  OBVIOUS
<1>1. Chosen = NoHeader
  BY DEF Init, Chosen, Blank
<1>2. Content = Empty
  BY <1>1, ContentState
<1> QED
  BY <1>2 DEF Init, Weaker!KvInit, Empty, Idle, Weaker!Idle

\* The log, its compaction and its recovery implement the map of KvStore: a
\* call is done or not done whenever the power fails or the flash refuses,
\* except that a store that ends early may lose the one key it writes. The
\* promise ends when a record is programmed over another one.
THEOREM LogImplementsMap == Spec => ImplementsWeaker
<1>1. Init => Weaker!KvInit
  BY InitImplements
<1>2. FlashInv /\ FlashInv' /\ [Next]_vars => [Weaker!KvNext]_(Weaker!abstractVars)
  <2>1. Lost => Weaker!LosePower
    BY DEF Lost, TornStore, Weaker!LosePower, Weaker!Tear, Idle, Weaker!Idle
  <2>2. Failed => Weaker!Fail
    BY DEF Failed, TornStore, Weaker!Fail, Weaker!Tear, Idle, Weaker!Idle
  <2>3. Weaker!Calls = Calls
    BY DEF Calls, Weaker!Calls, Kinds
  <2> QED
    BY <2>1, <2>2, <2>3, StepOfMap DEF MapStep, Weaker!KvNext
<1> QED
  BY <1>1, <1>2, FlashInvariant, PTL DEF Spec, ImplementsWeaker, Weaker!KvSpec

\* On a medium that writes every record as a whole, records are whole and no
\* half holds one programmed over another.
Whole(x) == x.clean /\ \A i \in 1 .. Len(x.log) : x.log[i].intact
WholeInv == \A h \in {0, 1} : Whole(half[h])

LEMMA WholeStep ==
    ASSUME ~PayloadTears, ~Chunked, FlashInv, WholeInv, [Next]_vars
    PROVE  WholeInv'
<1> DEFINE a == ram.active
           r == RecordOf(op)
<1>0. /\ a \in {0, 1} /\ Spare \in {0, 1} /\ half \in [{0, 1} -> Half]
      /\ Active = half[a] /\ Active.log \in Seq(Record) /\ half[Spare].log \in Seq(Record)
      /\ Whole(Active) /\ ram.tail \in Nat
  BY NorFlashAssumption DEF FlashInv, TypeInvariant, Spare, Active, Half, WholeInv
<1>1. Whole(Blank)
  BY DEF Whole, Blank
<1>2. ASSUME NEW x, Whole(x), NEW h \in {0, 1}, half' = [half EXCEPT ![h] = x]
      PROVE  WholeInv'
  BY <1>0, <1>2 DEF WholeInv
<1>3. ASSUME NEW h \in {0, 1}, NEW seq, half' = [half EXCEPT ![h].seq = seq]
      PROVE  WholeInv'
  BY <1>0, <1>3 DEF WholeInv, Whole, Half
<1>4. ASSUME NEW log \in Seq(Record), \A i \in 1 .. Len(log) : log[i].intact,
             NEW g \in Record, g.intact
      PROVE  \A i \in 1 .. Len(Append(log, g)) : Append(log, g)[i].intact
  BY <1>4, AppendFacts
<1>5. ASSUME pc = "write"
      PROVE  /\ Fits(r) /\ Whole(Appended(r))
             /\ PartlyWritten(r, FALSE) = {Active} /\ Written(r) = {Appended(r)}
  <2>1. ram.tail = Len(Active.log)
    BY <1>0, <1>5 DEF FlashInv, RamMatchesFlash, Running, Whole
  <2>2. r \in Record /\ r.intact
    BY <1>5, RecordType DEF FlashInv, TypeInvariant, PcInv, AtRest, RecordOf, Calls
  <2>3. Fits(r)
    BY <1>0, <2>1 DEF Fits, Whole
  <2>4. Appended(r) = [Active EXCEPT !.log = Append(Active.log, r)]
    <3>1. SubSeq(Active.log, 1, ram.tail) = Active.log
      <4> DEFINE log == Active.log
      <4>1. log \in Seq(Record) /\ ram.tail = Len(log)
        BY <1>0, <2>1
      <4> HIDE DEF log
      <4>2. SubSeq(log, 1, Len(log)) = log
        BY <4>1
      <4> QED
        BY <4>1, <4>2 DEF log
    <3> QED
      BY <3>1 DEF Appended
  <2>5. Whole(Appended(r))
    <3> HIDE DEF r
    <3>1. Active \in Half
      BY <1>0
    <3>2. Appended(r).clean = Active.clean /\ Appended(r).log = Append(Active.log, r)
      BY <2>4, <3>1 DEF Half
    <3> QED
      BY <1>0, <1>4, <2>2, <3>2 DEF Whole
  <2> QED
    BY <2>3, <2>5 DEF PartlyWritten, Written
<1>6. half' = half => WholeInv'
  BY DEF WholeInv
<1>7. CASE pc = "write" /\ (WriteRecord \/ FlashError \/ PowerLoss)
  <2>1. half' \in WithActive({Active, Appended(r)})
    <3>1. PartlyWritten(r, FALSE) \cup Written(r) = {Active, Appended(r)}
      BY <1>5, <1>7
    <3>2. half' \in WithActive(PartlyWritten(r, FALSE) \cup Written(r))
      BY <1>7, NorFlashAssumption DEF WriteRecord, FlashError, PowerLoss, WithActive
    <3> QED
      BY <3>1, <3>2
  <2>2. PICK x \in {Active, Appended(r)} : half' = [half EXCEPT ![a] = x]
    BY <2>1 DEF WithActive
  <2> QED
    BY <1>0, <1>2, <1>5, <1>7, <2>2
<1>8. CASE pc # "write" /\ (FlashError \/ PowerLoss)
  <2>1. half' \in Interrupted
    BY <1>8 DEF FlashError, PowerLoss
  <2>2. Whole([half[Spare] EXCEPT !.log = <<>>])
    BY <1>0 DEF Whole, WholeInv, Half
  <2>3. half' = half \/ \E x : Whole(x) /\ half' = [half EXCEPT ![Spare] = x]
    BY <1>0, <1>1, <2>1, <2>2 DEF Interrupted, PartlyErased, WholeInv
  <2> QED
    BY <1>0, <1>2, <1>6, <2>3
<1>9. CASE EraseNew \/ EraseOld
  BY <1>0, <1>1, <1>2, <1>9 DEF EraseNew, EraseOld
<1>10. CASE CopyRecord
  <2> DEFINE copy == half[Spare].log
  <2>1. CASE IsLive(Active.log, at) /\ Active.log[at].intact
    <3>1. at \in 1 .. Len(Active.log) /\ Active.log[at] \in Record
      BY <1>0, <1>10 DEF CopyRecord, FlashInv, TypeInvariant
    <3>2. half' = [half EXCEPT ![Spare] = [half[Spare] EXCEPT !.log = Append(copy, Active.log[at])]]
      BY <1>10, <2>1 DEF CopyRecord
    <3>3. Whole([half[Spare] EXCEPT !.log = Append(copy, Active.log[at])])
      <4> DEFINE new == [half[Spare] EXCEPT !.log = Append(copy, Active.log[at])]
      <4>1. half[Spare] \in Half /\ Whole(half[Spare]) /\ copy \in Seq(Record)
        BY <1>0 DEF WholeInv
      <4>2. new.log = Append(copy, Active.log[at]) /\ new.clean = half[Spare].clean
        BY <4>1 DEF Half
      <4>3. \A i \in 1 .. Len(Append(copy, Active.log[at])) :
               Append(copy, Active.log[at])[i].intact
        BY <1>4, <2>1, <3>1, <4>1 DEF Whole
      <4> HIDE DEF new, copy
      <4>4. Whole(new)
        BY <4>1, <4>2, <4>3 DEF Whole
      <4> QED
        BY <4>4 DEF new, copy
    <3> QED
      BY <1>0, <1>2, <3>2, <3>3
  <2> QED
    BY <1>6, <1>10, <2>1 DEF CopyRecord
<1>11. CASE WriteHeader \/ FormatHeader
  BY <1>0, <1>3, <1>11 DEF WriteHeader, FormatHeader
<1>12. CASE FormatErase
  BY <1>1, <1>12 DEF FormatErase, WholeInv
<1>13. CASE \/ \E call \in Calls : Call(call)
            \/ NothingDone \/ RefuseFull \/ Open \/ UNCHANGED vars
  BY <1>6, <1>13 DEF Call, NothingDone, RefuseFull, Open, vars
<1>14. WriteRecord => pc = "write"
  BY DEF WriteRecord
<1> QED
  BY <1>7, <1>8, <1>9, <1>10, <1>11, <1>12, <1>13, <1>14 DEF Next

\* Records that are cut, by a power loss or between two chunks, are the only
\* way to break the documented contract: on a medium that writes every record
\* as a whole, each call is done or not done.
THEOREM WholePayloadsImplementDocumented ==
    ASSUME ~PayloadTears, ~Chunked
    PROVE  Spec => ImplementsDocumented
<1>1. Init => Documented!KvInit
  BY InitImplements DEF Weaker!KvInit, Documented!KvInit, Weaker!Idle, Documented!Idle
<1>2. FlashInv /\ FlashInv' /\ WholeInv' /\ [Next]_vars
         => [Documented!KvNext]_(Documented!abstractVars)
  <2>1. Lost => Documented!LosePower
    BY DEF Lost, Documented!LosePower, Idle, Documented!Idle, Documented!Applied,
           Weaker!Applied, Documented!Touched, Weaker!Touched
  <2>2. Documented!Calls = Calls
    BY DEF Calls, Documented!Calls, Kinds
  <2>3. \A call \in Calls : Weaker!Begin(call) => Documented!Begin(call)
    BY DEF Weaker!Begin, Documented!Begin, Weaker!Idle, Documented!Idle
  <2>4. Weaker!Succeed => Documented!Succeed
    BY DEF Weaker!Succeed, Documented!Succeed, Weaker!Idle, Documented!Idle,
           Documented!Applied, Weaker!Applied, Documented!Touched, Weaker!Touched
  <2>5. Failed => Documented!Fail
    BY DEF Failed, Documented!Fail, Idle, Documented!Idle
  <2>6. MapStep => Documented!KvNext
    BY <2>1, <2>2, <2>3, <2>4, <2>5 DEF MapStep, Documented!KvNext
  <2>7. UNCHANGED Weaker!abstractVars => UNCHANGED Documented!abstractVars
    BY DEF Weaker!abstractVars, Documented!abstractVars
  <2>8. FlashInv' /\ WholeInv' => Sound'
    <3>1. FlashInv' => Chosen' \in {NoHeader, 0, 1}
      BY ChosenState, ChosenFacts DEF FlashInv, TypeInvariant
    <3> QED
      BY <3>1 DEF WholeInv, Whole, Sound
  <2> QED
    BY <2>6, <2>7, <2>8, StepOfMap
<1>3. Init => WholeInv
  BY DEF Init, WholeInv, Whole, Blank
<1>4. FlashInv /\ WholeInv /\ [Next]_vars => WholeInv'
  BY WholeStep
<1> QED
  BY <1>1, <1>2, <1>3, <1>4, FlashInvariant, PTL DEF Spec, ImplementsDocumented, Documented!KvSpec
=============================================================================
