------------------------------ MODULE NorFlash ------------------------------
(***************************************************************************)
(* NorFlashStore of panweave-storage: a log of records in one of two       *)
(* halves of a NOR flash. A full half is compacted into the other one,     *)
(* whose header is written last. Every flash operation is a step, and the  *)
(* power may fail before, in the middle of or after each of them; the next *)
(* boot opens the region again.                                            *)
(*                                                                         *)
(* A record takes one slot. A half is its header (the sequence number, or  *)
(* NoHeader) and the records up to the first slot that does not read as    *)
(* one. The 16 octets of a header, of a half or of a record, are           *)
(* programmed as a whole; the payload of a record may be left incomplete,  *)
(* by a power loss or by an error of a later chunk, which its CRC shows    *)
(* (intact = FALSE). After such an error the tail is still in front of the *)
(* incomplete record, and the next record is programmed over it: what a    *)
(* scan then finds there is whatever the cells make of the two.            *)
(***************************************************************************)
EXTENDS Integers, Sequences, FiniteSets

CONSTANTS Keys,        \* pairs <<kind, id>>
          Values,
          NoValue,
          Slots,       \* records that fit in a half
          SeqModulus,  \* 2^32: sequence numbers wrap
          PayloadTears,\* a payload may be cut by a power loss
          Chunked      \* a store takes several flash writes, any of which may fail

ASSUME NorFlashAssumption ==
    /\ Keys # {} /\ IsFiniteSet(Keys)
    /\ \A k \in Keys : k = <<k[1], k[2]>>
    /\ NoValue \notin Values
    /\ Slots \in Nat \ {0}
    /\ SeqModulus \in Nat /\ SeqModulus > 4
    /\ PayloadTears \in BOOLEAN /\ Chunked \in BOOLEAN

VARIABLES half,    \* the flash: half[0] and half[1]
          ram,     \* active half, its sequence number and the tail
          pc,      \* where the call in progress has got to
          op,      \* the call in progress
          at,      \* compact: the record to look at next
          result   \* the answer to the last call

vars == <<half, ram, pc, op, at, result>>

NoHeader == -1
Blank == [seq |-> NoHeader, log |-> <<>>, clean |-> TRUE]
Idle == [type |-> "idle"]

Kinds == {k[1] : k \in Keys}
Calls == [type : {"store"}, key : Keys, value : Values]
         \cup [type : {"erase"}, key : Keys]
         \cup [type : {"erase_kind"}, kind : Kinds]

\* FLAG_SET, FLAG_ERASED and FLAG_KIND_ERASED; the last has id 0.
Flags == {"set", "erased", "kind_erased"}
Record == [kind : Kinds, id : {k[2] : k \in Keys} \cup {0}, flag : Flags,
           value : Values \cup {NoValue}, intact : BOOLEAN]

\* clean: no record was programmed over another one, and the octets behind
\* the last record are erased.
Half == [seq : {NoHeader} \cup (0 .. (SeqModulus - 1)), log : Seq(Record),
         clean : BOOLEAN]

KeyOf(r) == <<r.kind, r.id>>

-----------------------------------------------------------------------------
(* Reading the log                                                         *)

\* Mutant of Concerns: erasing a kind leaves its records in place.
ConcernsOwnOnly(r, key) == r.kind = key[1] /\ r.id = key[2]

\* A record has a say about a key when it is its own or erased its kind.
Concerns(r, key) ==
    r.kind = key[1] /\ (r.flag = "kind_erased" \/ r.id = key[2])

\* find: the position of the record that sets a key and that no later record
\* takes back; the set is empty when there is none. The CRC plays no part.
Find(log, key) ==
    {i \in DOMAIN log : /\ log[i].flag = "set" /\ KeyOf(log[i]) = key
                        /\ \A j \in (i + 1) .. Len(log) : ~Concerns(log[j], key)}

Load(log, key) ==
    IF \E i \in Find(log, key) : log[i].intact
    THEN log[CHOOSE i \in Find(log, key) : TRUE].value
    ELSE NoValue

IsLive(log, i) == i \in Find(log, KeyOf(log[i]))

\* Mutant of Newer: numbers are compared without regard to their wrapping.
NewerUnwrapped(b, a) == b > a

\* Sequence numbers are compared as in serial-number arithmetic.
Newer(b, a) == (b - a) % SeqModulus < (SeqModulus - 1) \div 2

\* The half that opening the region would choose, or NoHeader.
Chosen ==
    CASE half[0].seq = NoHeader /\ half[1].seq = NoHeader -> NoHeader
      [] half[0].seq # NoHeader /\ half[1].seq = NoHeader -> 0
      [] half[0].seq = NoHeader /\ half[1].seq # NoHeader -> 1
      [] OTHER -> IF Newer(half[1].seq, half[0].seq) THEN 1 ELSE 0

Active == half[ram.active]
Spare == 1 - ram.active

-----------------------------------------------------------------------------
(* Calls                                                                   *)

\* The record a call appends.
RecordOf(call) ==
    CASE call.type = "store" ->
           [kind |-> call.key[1], id |-> call.key[2], flag |-> "set",
            value |-> call.value, intact |-> TRUE]
      [] call.type = "erase" ->
           [kind |-> call.key[1], id |-> call.key[2], flag |-> "erased",
            value |-> NoValue, intact |-> TRUE]
      [] call.type = "erase_kind" ->
           [kind |-> call.kind, id |-> 0, flag |-> "kind_erased",
            value |-> NoValue, intact |-> TRUE]

\* erase and erase_kind return at once when there is nothing to erase.
NothingToErase(call) ==
    \/ call.type = "erase" /\ Find(Active.log, call.key) = {}
    \/ /\ call.type = "erase_kind"
       /\ \A i \in 1 .. Len(Active.log) :
             Active.log[i].kind = call.kind => ~IsLive(Active.log, i)

\* Mutant of IsFull: the size of the record itself is forgotten.
IsFullAtTail == ram.tail > Slots

\* append compacts first when the record does not fit.
IsFull == ram.tail + 1 > Slots

Return(answer) ==
    /\ pc' = "ready"
    /\ op' = Idle
    /\ result' = answer

Init ==
    /\ half = [h \in {0, 1} |-> Blank]
    /\ ram = [active |-> 0, seq |-> 0, tail |-> 0]
    /\ pc = "off"
    /\ op = Idle
    /\ at = 1
    /\ result = "none"

Call(call) ==
    /\ pc = "ready"
    /\ op' = call
    /\ pc' = IF NothingToErase(call) THEN "done"
             ELSE IF IsFull THEN "erase_new" ELSE "write"
    /\ result' = "none"
    /\ UNCHANGED <<half, ram, at>>

NothingDone ==
    /\ pc = "done"
    /\ Return("ok")
    /\ UNCHANGED <<half, ram, at>>

\* A record whose payload was not written to its end.
Cut(r) == [r EXCEPT !.intact = FALSE]

\* The octets at the tail are erased, or hold a part of the very record that
\* is to be written, which programming it once more completes.
Fits(r) ==
    \/ ram.tail = Len(Active.log) /\ Active.clean
    \/ ram.tail + 1 = Len(Active.log) /\ Active.log[ram.tail + 1] = Cut(r)

\* The active half with record r at the tail.
Appended(r) == [Active EXCEPT !.log = Append(SubSeq(@, 1, ram.tail), r)]

\* A record that fails its CRC.
Corrupt(flags) == [kind : Kinds, id : {k[2] : k \in Keys} \cup {0}, flag : flags,
                   value : {NoValue}, intact : {FALSE}]

\* What record r programmed over record u reads as. A cell once programmed
\* stays so: the key is any unless they agree on it, and "set" is flag 0.
Merged(u, r) ==
    {g \in Corrupt({IF u.flag = r.flag THEN r.flag ELSE "set"}) :
        KeyOf(u) = KeyOf(r) => KeyOf(g) = KeyOf(r)}

\* The active half when record r is programmed over octets that are not
\* erased: over an incomplete record, or behind a record of which nobody
\* knows where it ends. There the scan may find r, another record or nothing;
\* and what is behind the end of the scan is not read at all.
Overlaid(r) ==
    LET front == SubSeq(Active.log, 1, ram.tail)
        found == CASE ram.tail < Len(Active.log) -> Merged(Active.log[ram.tail + 1], r)
                   [] ram.tail = Len(Active.log) -> Corrupt({"set", r.flag}) \cup {r}
                   [] ram.tail > Len(Active.log) -> {}
    IN  {[Active EXCEPT !.log = Append(front, g), !.clean = FALSE] : g \in found}
        \cup (IF ram.tail < Len(Active.log) THEN {} ELSE {[Active EXCEPT !.clean = FALSE]})

\* The active half when record r has been written.
Written(r) == IF Fits(r) THEN {Appended(r)} ELSE Overlaid(r)

\* The flash with one of the halves in place of the active one.
WithActive(halves) == {[half EXCEPT ![ram.active] = new] : new \in halves}

\* append: the record at the tail, and only then the tail.
WriteRecord ==
    /\ pc = "write"
    /\ half' \in WithActive(Written(RecordOf(op)))
    /\ ram' = [ram EXCEPT !.tail = @ + 1]
    /\ Return("ok")
    /\ UNCHANGED at

\* append after a compaction that made no room.
RefuseFull ==
    /\ pc = "full"
    /\ Return("full")
    /\ UNCHANGED <<half, ram, at>>

-----------------------------------------------------------------------------
(* compact                                                                 *)

EraseNew ==
    /\ pc = "erase_new"
    /\ half' = [half EXCEPT ![Spare] = Blank]
    /\ at' = 1
    /\ pc' = "copy"
    /\ UNCHANGED <<ram, op, result>>

\* Mutant of CopyRecord: replaced and erased records are copied too.
CopyEveryRecord ==
    /\ pc = "copy"
    /\ at <= Len(Active.log)
    /\ half' = IF Active.log[at].intact
               THEN [half EXCEPT ![Spare].log = Append(@, Active.log[at])]
               ELSE half
    /\ at' = at + 1
    /\ UNCHANGED <<ram, pc, op, result>>

\* One record of the old half: copied when it is live and intact.
CopyRecord ==
    /\ pc = "copy"
    /\ at <= Len(Active.log)
    /\ half' = IF IsLive(Active.log, at) /\ Active.log[at].intact
               THEN [half EXCEPT ![Spare].log = Append(@, Active.log[at])]
               ELSE half
    /\ at' = at + 1
    /\ UNCHANGED <<ram, pc, op, result>>

NextSeq == (ram.seq + 1) % SeqModulus

\* Mutant of WriteHeader: the old half is erased before the new header.
EraseBeforeHeader ==
    /\ pc = "copy"
    /\ at > Len(Active.log)
    /\ IF Active.seq # NoHeader
       THEN /\ half' = [half EXCEPT ![ram.active] = Blank]
            /\ UNCHANGED <<ram, pc>>
       ELSE /\ half' = [half EXCEPT ![Spare].seq = NextSeq]
            /\ ram' = [active |-> Spare, seq |-> NextSeq, tail |-> Len(half[Spare].log)]
            /\ pc' = "erase_old"
    /\ UNCHANGED <<op, at, result>>

\* The header of the new half, and the switch to it.
WriteHeader ==
    /\ pc = "copy"
    /\ at > Len(Active.log)
    /\ half' = [half EXCEPT ![Spare].seq = NextSeq]
    /\ ram' = [active |-> Spare, seq |-> NextSeq, tail |-> Len(half[Spare].log)]
    /\ pc' = "erase_old"
    /\ UNCHANGED <<op, at, result>>

EraseOld ==
    /\ pc = "erase_old"
    /\ half' = [half EXCEPT ![Spare] = Blank]
    /\ pc' = IF IsFull THEN "full" ELSE "write"
    /\ UNCHANGED <<ram, op, at, result>>

-----------------------------------------------------------------------------
(* Opening the region                                                      *)

\* new: the newest half with a header, its records scanned for the tail; a
\* region without a header is formatted.
Open ==
    /\ pc = "off"
    /\ IF Chosen = NoHeader
       THEN pc' = "format" /\ ram' = ram
       ELSE /\ pc' = "ready"
            /\ ram' = [active |-> Chosen, seq |-> half[Chosen].seq,
                       tail |-> Len(half[Chosen].log)]
    /\ UNCHANGED <<half, op, at, result>>

FormatErase ==
    /\ pc = "format"
    /\ half' = [h \in {0, 1} |-> Blank]
    /\ pc' = "format_header"
    /\ UNCHANGED <<ram, op, at, result>>

FormatHeader ==
    /\ pc = "format_header"
    /\ half' = [half EXCEPT ![0].seq = 1]
    /\ ram' = [active |-> 0, seq |-> 1, tail |-> 0]
    /\ pc' = "ready"
    /\ UNCHANGED <<op, at, result>>

-----------------------------------------------------------------------------
(* Power loss and flash errors                                             *)

\* What an interrupted erase leaves: the sectors with the header, with the
\* records, or both may be gone. (Records without a header are not read, and
\* erased before the half is used: it is blank.)
PartlyErased(h) == {half[h], [half[h] EXCEPT !.log = <<>>], Blank}

\* The active half when the write of record r ends early: nothing has
\* changed or, with tears, the header is there without all of its payload.
PartlyWritten(r, tears) ==
    {Active} \cup (IF ~(tears /\ r.flag = "set") THEN {}
                  ELSE IF Fits(r) THEN {Appended(Cut(r))} ELSE Overlaid(r))

\* The flash after an erase or a compaction ends early. The copies of a
\* compaction are in a half without a header, where they are not read, and
\* the header itself is there or not, as before or after WriteHeader.
Interrupted ==
    IF pc \in {"erase_new", "erase_old"}
    THEN {[half EXCEPT ![Spare] = left] : left \in PartlyErased(Spare)}
    ELSE {half}

\* The flash refuses an operation: the call returns Err(Io), the state in
\* RAM stays as the steps so far left it. An erase that fails may have
\* erased a part. A flash write that fails has programmed nothing, but the
\* chunks before it are written, and the tail stays in front of them.
FlashError ==
    /\ pc \in {"write", "erase_new", "copy", "erase_old"}
    /\ half' \in IF pc = "write" THEN WithActive(PartlyWritten(RecordOf(op), Chunked))
                ELSE Interrupted
    /\ Return("io")
    /\ UNCHANGED <<ram, at>>

\* The power fails at any point of a call.
PowerLoss ==
    /\ pc # "off"
    /\ half' \in IF pc # "write" THEN Interrupted
                ELSE WithActive(PartlyWritten(RecordOf(op), PayloadTears)
                                \cup Written(RecordOf(op)))
    /\ ram' = [active |-> 0, seq |-> 0, tail |-> 0]
    /\ pc' = "off"
    /\ op' = Idle
    /\ at' = 1
    /\ result' = "none"

Next ==
    \/ \E call \in Calls : Call(call)
    \/ NothingDone
    \/ WriteRecord
    \/ RefuseFull
    \/ EraseNew
    \/ CopyRecord
    \/ WriteHeader
    \/ EraseOld
    \/ FlashError
    \/ Open
    \/ FormatErase
    \/ FormatHeader
    \/ PowerLoss

Spec == Init /\ [][Next]_vars

-----------------------------------------------------------------------------
(* Properties                                                              *)

\* The state of NorFlashStore and of the flash has its type; no half ever
\* holds more records than fit, and the tail stays inside it (append).
TypeInvariant ==
    /\ half \in [{0, 1} -> Half]
    /\ \A h \in {0, 1} : Len(half[h].log) <= Slots
    /\ ram \in [active : {0, 1}, seq : 0 .. (SeqModulus - 1), tail : 0 .. Slots]
    /\ pc \in {"off", "format", "format_header", "ready", "done", "write",
               "erase_new", "copy", "erase_old", "full"}
    /\ op \in Calls \cup {Idle}
    /\ at \in 1 .. (Slots + 1)
    /\ result \in {"none", "ok", "full", "io"}

Running == pc \notin {"off", "format", "format_header"}

\* The state in RAM is the one a restart at this very moment would find,
\* and the tail is behind the last record, or in front of one that failed
\* half way: no record that reads whole is ever written over, and none goes
\* into the half that the next boot does not read. (A half in which one
\* record has been programmed over another is the exception, until the next
\* compaction leaves it.)
RamMatchesFlash ==
    Running => /\ ram.active = Chosen
               /\ ram.seq = Active.seq
               /\ Active.clean =>
                     \/ ram.tail = Len(Active.log)
                     \/ ram.tail + 1 = Len(Active.log) /\ ~Active.log[ram.tail + 1].intact

\* Once the store has been opened there is a half with a header for good:
\* no interruption makes a later boot format the region.
NeverFormattedAgain ==
    [][Running => Chosen' # NoHeader]_vars

\* A store is refused only when the live records really fill the half: a
\* compaction reclaims every slot of a replaced, erased or torn record.
FullMeansFull ==
    result = "full" =>
        \A i \in 1 .. Len(Active.log) : IsLive(Active.log, i) /\ Active.log[i].intact

\* What load would return from each half.
Contents ==
    [h \in {NoHeader, 0, 1} |->
        [k \in Keys |-> IF h = NoHeader THEN NoValue ELSE Load(half[h].log, k)]]

\* What the next boot would load, whatever happens until then.
Content == Contents[Chosen]

\* The half that the next boot reads holds no record programmed over another.
Sound == Chosen # NoHeader => half[Chosen].clean

\* The contract of the Storage trait as the documentation states it, and
\* the weaker one in which a store that ends early may lose the value it
\* replaces, and which ends when a record is programmed over another.
Documented == INSTANCE KvStore WITH content <- Content, sound <- TRUE,
                                    StoreMayTear <- FALSE
Weaker == INSTANCE KvStore WITH content <- Content, sound <- Sound,
                                StoreMayTear <- TRUE

\* The log, its compaction and its recovery implement an atomic map.
ImplementsDocumented == Documented!KvSpec

\* The log, its compaction and its recovery implement a map in which a store
\* that the power or an error ends early loses at most the one record it
\* replaces, whether the caller goes on with the same store, the device
\* starts again or the half is compacted, as long as no other record is
\* programmed over the incomplete one.
ImplementsWeaker == Weaker!KvSpec
=============================================================================
