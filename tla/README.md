# Panweave in TLA+

Panweave is a sans-I/O Zigbee stack in Rust. Its layers (MAC, NWK, APS, ZDO,
ZCL) queue actions and events; the runtime's `Stack::poll` takes them from the
queues, writes records through the `Storage` trait and reports back; a device
may lose power between any two of these steps and is rebuilt from its records
by `Stack::restore`. On top of the stack, the hub keeps a registry of devices
and, with an ESP32-C6, notifies a server of sensor events over Wi-Fi.

The specifications are about what is hardest to test there: **state that is
kept in two places and must agree**. One half of them is about RAM and flash,
after any sequence of handlers, failed writes and power losses; the other about
two or more devices, over a medium that loses, delays and repeats what they say
to each other.

## Inventory

| Part | State | Operations | Hard behaviour | What makes it correct |
|---|---|---|---|---|
| Outgoing frame counter (`panweave-security`, `frame_counter.rs`) | next value, durable bound, reservation in flight | reserve, commit, abort, allocate, key switch | power loss between use and write, saturation | no value is used twice with a key |
| Incoming counters (same file) | next acceptable value per sender | check and update | table full, last value | a frame is accepted once |
| Network keys (`panweave-nwk`, `security.rs`, `layer/join.rs`) | two key slots, active key, parked frames, action queue | install, switch, leave, secure, retry | a reservation queued across a counter reset, a switch saved halfway | the stored key and bound fit together |
| Link keys (`panweave-aps`; `panweave-runtime/src/dlk.rs`) | key-pair entries with a counter each, a negotiation with a backup | install, transport, negotiate, verify, abort, remove | late and repeated answers, deadline, backup that is stale | as above, for each entry; a stored entry stays stored |
| Persistence (`panweave-runtime/src/persist.rs`, `pump.rs`) | records of about ten kinds | save, erase, restore | several writes per save, errors ignored | a restart finds a state the device was in |
| Storage (`panweave-storage`) | key-value map; two halves of a log | store, load, erase, compact, open | power loss in every flash operation, errors between two of them, full half, wrapping sequence numbers | an atomic map |
| Notification queue (`panweave-hub/src/alert`, `hub_alerts.rs`) | slots, boot counter, losses, acknowledgement, schedule | push, prepare, finish, settings, factory reset | interrupted acknowledgement, ambiguous and partial answers, full queue | nothing stored is lost, nothing settled is sent again |
| APS transmission (`panweave-aps/src/layer/tx.rs`, `rx.rs`, `tables.rs`) | pending transmissions, requests, duplicate table, one reassembly | send, acknowledge, retry, defer, reassemble, leave | late acknowledgement, retry of what arrived, several transmissions per request, reservation that fails | one confirm per request; success means indicated; one indication per request |
| NWK broadcast (`panweave-nwk/src/layer/bcast.rs`, `broadcast.rs`) | transaction records, buffered frames | originate, relay, retransmit, expire | loss, records that expire at different times, full tables, frames parked for a counter | each broadcast delivered once; nobody stops before the routers it waits for have it; silence in the end |
| MAC services (`panweave-mac/src/service.rs`) | transmission queue, frame in flight, indirect transactions, association | send, acknowledge, retry, hold, poll, associate, leave, expire | acknowledgements that overtake, late or lost ones, a poll that meets a full queue | one confirm per request; success means received; associations end |
| NWK routing and joining | route, discovery and neighbour tables | discover, join, rejoin, leave | loss, reordering, expiry | loop freedom |
| Trust Center, BDB, ZDO, ZCL, Green Power, Direct, Smart Energy | tables and timers | many | timeouts | mostly sequential |
| Codec, types, cryptography, tools | little | parsing, arithmetic, I/O | – | outside a state model |

Components interact by calls of the runtime into the layers, by the action and
event queues, and by the records in storage. `PROJECT.json` lists every
component with what is modelled of it, the hazards with the line where each
bites, and the source lines that each definition stands for.

## Modules

| Module | Models | Uses |
|---|---|---|
| `FrameCounter` | `OutgoingCounter`, as operators on a record `next`, `reserved`, `inFlight` | |
| `NwkCounter` | network keys, the NWK counter, the action queue, parked frames, the NIB, key and counter records | `FrameCounter` |
| `FrameCounterProofs` | lemmas about the operations of `OutgoingCounter` | `FrameCounter`, TLAPS |
| `NwkCounterProofs` | theorems about `NwkCounter` | `NwkCounter`, `FrameCounterProofs` |
| `KvStore` | the contract of the `Storage` trait, abstract | |
| `NorFlash` | `NorFlashStore`, one step per flash operation; shown to implement `KvStore` | `KvStore` by refinement |
| `NorFlashProofs` | theorems about `NorFlash`, the refinement included | `NorFlash`, TLAPS |
| `LinkKeys` | one APS key-pair entry, its counter, key negotiation, the LinkKey, Aib and ApsFrameCounter records | `FrameCounter` |
| `LinkKeysProofs` | theorems about `LinkKeys` | `LinkKeys`, `FrameCounterProofs` |
| `AlertQueue` | the hub's notification queue, its attempts and its records | |
| `AlertQueueProofs` | theorems about `AlertQueue` | `AlertQueue`, TLAPS |
| `ApsDelivery` | one APS sender, its peers, the NWK layers between them | |
| `ApsDeliveryProofs` | theorems about `ApsDelivery` | `ApsDelivery`, TLAPS |
| `MacService` | the MAC services of an end device and its parent, the radio between them | |
| `MacServiceProofs` | theorems about `MacService` | `MacService`, TLAPS |
| `Broadcast` | broadcasts among routers | |
| `BroadcastProofs` | theorems about `Broadcast` | `Broadcast`, TLAPS |
| `MC…` | instances for TLC, with assumptions that keep a configuration from being too small | |

### NwkCounter

`counter`, `slots` and `active` are `NetworkKeys`; `actions` is the part of the
NWK action queue that concerns persistence; `waiting` counts frames parked with
`CounterPending`; `nv` holds three records. `set_network_key` with and without
`active` are two actions because they queue their actions in a different
order. `PumpPersist` writes the NIB and key records, each of which may fail,
since the runtime ignores those errors; a power loss in the middle of a save is
that step followed by `Restart`. `used` records the highest value used with
each key, and `wasReset` that a key switch restarted the counter.

The run that expects a violation uses `ForwardSpec`, in which a handler never
makes an older key active again, as a Trust Center updates keys; it shows that
the violation needs no such thing.

### NorFlash and KvStore

A half is its header and the records up to the first slot that does not read as
one. Each record takes one slot, so `Slots` is the capacity. A call is cut into
its flash operations (`pc`), and `PowerLoss` leaves what the operation could
have left: an erase any of its sectors, a record nothing, all, or (with
`PayloadTears`) its header with a payload that fails the CRC.

`append` passes a record to the flash in chunks of at most 64 octets
(`ChunkWriter`), so with `Chunked` an error may come when the header and a part
of the payload are already there. `FlashError` then leaves the incomplete record
in the flash and the tail in front of it. The store goes on from there without
noticing:

* the same record written once more programs the same cells and completes it
  (`Fits`);
* any other record is programmed over it (`Overlaid`). Cells that were
  programmed stay so, hence the result is a record with the common bits of the
  two headers and a payload that fails its CRC, whose length nobody knows: what
  is appended behind it may be read, be read as something else, or not be read
  at all. `clean` says that this has not happened in a half; a compaction, which
  copies what it can read into an erased half, makes the store clean again.

Assumptions: the 16 octets of a header are programmed as a whole; a single flash
write that returns an error programmed nothing; `format` is only called by
`new`; in a half that is not clean, every record still takes one slot, and what
is misread there fails its CRC unless it is the record last written.

`Content`, what the next boot would load, is the refinement mapping to
`KvStore!content`. With `StoreMayTear = FALSE` the abstract module is the
documented contract. With `TRUE` a store that a power loss or an error ends
early may lose the one value it replaces, which is what the code provides on a
medium without atomic writes, and the promise holds for the steps to a state in
which the half that a boot reads is clean (`sound`).

### LinkKeys

The entries of different partners share only the order of their records, so
one partner is modelled. Keys are numbered as they are made. Of the attributes
only "unverified" matters: such a key secures nothing. `session` is the
initiator's negotiation with its backup. `PumpPersist(n)` performs the first
`n` writes of `persist_link_keys`. `disturbed` records the three situations in
which the properties are known to fail: a backup was put back, a key was
replaced while a reservation was queued, a save failed altogether.

### AlertQueue

A handler changes the queue in RAM at once and leaves its writes in `todo`,
which `Perform` carries out one by one; no handler starts before they are done
and while an attempt runs (`job`), because the firmware is one loop. Time is
abstract: `due` says whether an attempt is scheduled. What the destination has
is part of the history (`ledger`): an ambiguous outcome, and a power loss
during an attempt, may or may not have published the events. The history is
kept until a write fails or the store is reset; the properties about it speak
of this time. An update of the settings reschedules what is pending when it
names a delay or says `enabled = true` (`again`); any other leaves `due` alone.

### ApsDelivery

The sender is a record `tx` of the tables `pending` and `requests` (and the
confirms reported so far); its handlers are operators on that record, so that
one step is a whole turn: `on_ack`, `on_nwk_data_confirm` or `poll_timers` with
the `service_pending` it ends in. What the turn hands to the NWK layer is in
`nwk` until that layer sends, fails or refuses it; a frame the APS layer no
longer waits for may still be sent. Each peer has a duplicate rejection table
and one reassembly; `forgotten` records the transmissions whose record a full
table gave up. Deadlines are countdowns; `Tick` waits until everything
that is due was done, since `next_deadline` wakes the runtime. `faults` counts
everything the environment does wrong: a loss, a failure, a refusal, a frame
held over a tick, a reservation not written, a leave. Secured frames may find
no counter (`CounterPending`) or no key.

Left out: group and broadcast addressing and loopback (no acknowledgement, no
retry), commands and their relaying, frame formats, and the sender's own
receiving side.

### MacService

Both nodes run the same service `mac[n]`; the handlers are operators on it. An
acknowledgement bypasses the queue (`actions`), and the radio reports the
completion of whatever it transmitted to `on_tx_complete`, which takes it for
that of the frame in flight; the model keeps that. Every request that has a
confirm gets an id: data requests (direct, indirect, deferred), polls and
association responses. Timers may fire whenever they are armed, once the radio
actions are carried out, which covers every duration the configuration could
give them. The one exception is the deadline of an association (0.5 s), which
does not fire while the Data Request is queued or in flight (5 ms each).
Radios are those of `RadioCapabilities::default()`, which leave acknowledgement
and retry to the software.

A call of `associate` that finds the queue full is refused and uses up a
sequence number, as every request does. A device that associates has frames in
its queue because it has left a network just before: `LeaveNetwork` takes its
address and its PAN away and clears nothing else.

Left out: scans and beacons, radios that acknowledge or retry by themselves,
the receiver-on time after a poll, power control, inter-PAN frames.

### Broadcast

Who hears a router and whom it waits for are two things. `Neighbours(n)` is the
topology: a transmission puts one reception per router in range into `air`, of
which a subset is lost. `PassiveAckSets(n, exclude)` is `passive_ack_set`: the
routers of the neighbour table, of which the code drops those without an
outgoing cost (new or aged out), those beyond the sixteenth, and all when
`passive_ack` is off. `NeighborTables` says which sets that can be; each record
takes any of them, since the table changes meanwhile. A set may lack a router
in range, which the code then stops without, and may name one that is out of
range, from which no relay is heard.
`Service(n)` is `service_broadcasts`, with every due record and the expiry at
its end; `outcome` is what `finalize_frame` answers for a frame that is not
secured yet. `Tick` waits until every reception was handled and every timer
served. The topology is chosen in the first state and stays. A broadcast stands
for its pair of source and sequence number.

`StopsWhenHeard` is about the routers a record was to wait for (`asked`); one that
is in range and not in the set may be left without the broadcast.

Left out: end devices, the copies for sleepy children and for Trusted Links.

## Runs

| Run | Checks | Result |
|---|---|---|
| `NwkCounter` | `FreshUntilReset`, `DurableUntilReset`, `InFlightIsQueued`, `BoundMonotone`, `ParkedFramesLeave` (under `FairSpec`), types | hold |
| `NwkCounterReset` | `ResumeIsFresh` | violated: the low bound of a reset is stored before the new key |
| `NorFlash` | `RamMatchesFlash`, `FullMeansFull`, `NeverFormattedAgain`, `ImplementsWeaker`, types | hold |
| `NorFlashTorn` | `ImplementsDocumented` | violated: the torn record hides the intact one before it |
| `LinkKeys` | `FreshUntilDisturbed`, `RestoredUntilDisturbed`, `InFlightUntilDisturbed`, types | hold |
| `LinkKeysRollback` | `FreshLinkNonce` | violated: an aborted negotiation restores the old counter |
| `AlertQueue` | `NothingLost`, `DeliveredNotResent`, `RepeatsMarked`, `LossesReported`, `ScheduledWhilePending`, types | hold |
| `ApsDelivery` | `SuccessMeansDelivered`, `IndicatedOnce`, types | hold |
| `ApsFanOut` | `ConfirmedOnce`, `RequestsEnd` (under `FairSpec`) | hold |
| `ApsBound` | `SuccessMeansDelivered` with two bindings to one device | violated: both frames carry one APS counter, so the second is a duplicate |
| `MacService` | `ConfirmedOnce`, `SuccessMeansReceived`, `RequestsEnd`, `AssociationsEnd` (under `FairSpec`), types | hold |
| `Broadcast` | `SeenOnce`, `StopsWhenHeard`, `TransmissionsBounded`, `FallsSilent` (under `FairSpec`), types | hold |

Every run with a violation states a sentence of the repository's documentation
or a test; `findings` in `PROJECT.json` quotes it.

### Bounds

* Counters: `Window = 2`, `Margin = 1` and a `MaxCounter` of 3 to 8 give
  windows that are refilled, a reservation asked for before the window is
  empty, saturation at the end, and (with a `ResetThreshold` of 2 or 3) a
  reset at a key switch. `MaxCounter` stands for 2^32 - 1: the arithmetic saturates.
* Keys: two sequence numbers, for a switch and a switch back. Two link keys, so that one replaces another.
* Queues: room for the actions of one to two handlers, so that handlers
  overtake each other; a handler is not started when its actions would not fit.
* Flash: two slots and two keys of one kind, so that the live records fill a half,
  a compaction makes room and another does not; sequence numbers modulo 5 wrap
  after a few compactions. Values are symmetric, being only compared. Payloads
  tear at a power loss and at an error; `NorFlashTorn` needs only the former.
* Notifications: two slots and three events (one more than fits), three boots.
* APS: two requests to one peer for delivery (the second meets what is left of
  the first), one request to two peers for fan-out; one retry and one deferral,
  acknowledgement timers of two ticks and delays of one, so that a late
  acknowledgement meets the retry; two blocks when fragmented; `MaxFaults = 2`,
  as losing both transmissions of a frame needs two; a duplicate rejection table
  of one entry for delivery, so that the second request evicts the record of the
  first. No APS counter comes again within an instance (`InstanceAssumption`).
* MAC: two requests and one association, queues of one entry, one retry,
  `MaxFaults = 1`, which also bounds the leaves (410,580 states). The child
  starts on the network or not. The safety properties also hold with two
  associations (4.2 million states).
* Broadcast: three routers, in a line or a triangle (a relay that is heard by
  two neighbours, a router that hears a broadcast twice); a table of one entry,
  so that two broadcasts compete for it; one retry and `MaxFaults = 2`. A router
  waits for every other one, also for one out of range; but R1 may wait for
  nobody, and R2 may have no cost for R1 (1,236,417 states). A record
  lives for 11 ticks, one more than the `Span` of a frame that jitter and
  retries delay at each of three routers (`InstanceAssumption` has TLC check
  this). With a table of two and a buffer of one frame the safety properties
  hold as well, with one fault and complete neighbour tables (2.2 million
  states).

### Fairness

* `NwkCounter`: `Stack::poll` is called again and again, so the head of the
  queue is pumped (weak fairness). Storage may fail any number of times but not
  forever: a reservation that is tried again and again is written in the end
  (strong fairness of `PumpReserveOk`). A parked frame is retried, and when a
  counter is free, or none will be, again and again, one of the retries meets
  that: its delay of 2 ms is too short for other frames to use up every window.
* `ApsDelivery`: time passes and the runtime keeps up with it; messages under
  way arrive or were lost; the NWK layer confirms every frame it took; a
  reservation that is asked for again and again is written. Deadlines, retries
  and deferrals are not fair by themselves: they happen because `Tick` waits
  for them.
* `MacService`: one of the two hosts takes a step while one of them can: it
  carries out a radio action, hands in a received frame or fires a timer.
* `Broadcast`: receptions, timers and time go on.

Requests, faults, leaving, restarts and new broadcasts are never assumed to
happen.

## Proofs

Eight modules hold theorems or the lemmas they share, each for every value of
the constants that meets the named assumptions of the module it is about.
`FrameCounterProofs` has no theorem of its own to list: it states what the
operations of `OutgoingCounter` keep, once, and both users of the counter cite
it.

### NwkCounterProofs

For every window, margin, counter width, set of key sequence numbers and queue
capacity:

* `TypeCorrect`: `Spec => []TypeInvariant`;
* `ReservationNeverLost`: `Spec => []InFlightIsQueued`;
* `NoNonceReuse`: `Spec => []FreshUntilReset`;
* `TrustedBoundDurable`: `Spec => []DurableUntilReset`;
* `StoredBoundMonotone`: `Spec => BoundMonotone`.

`InFlightIsQueued` is inductive with the type invariant and holds after a reset
too. `FreshUntilReset` is not inductive. A used value is below the bound of a
restart only because it was allocated below the bound the layer trusted, which
is the durable one; the durable one does not move back only because the queued
reservation is at least the trusted bound when it is written; and that holds
only because a new one is started when none is in flight. The inductive
invariant `NonceInv` says this, as long as the counter was not reset: used
values are below `next`, `next` is at most the trusted bound, and the trusted
bound equals the durable one (`BoundsOrdered`); at most one reservation is
queued, it is the one in flight, and it does not lower the trusted bound
(`QueueMatches`). The proof has one step per action. A reset breaks the chain,
and the run `NwkCounterReset` shows that it really does.

### LinkKeysProofs

* `TypeCorrect`: `Spec => []TypeInvariant`;
* `NoLinkNonceReuse`: `Spec => []FreshUntilDisturbed`;
* `RestoreIsFresh`: `Spec => []RestoredUntilDisturbed`;
* `LinkReservationNeverLost`: `Spec => []InFlightUntilDisturbed`.

The invariant `LinkInv` is about the time before a disturbance. `KeysInv`: keys
are numbered as they are made, so a key to come was never used, and neither was
the one a negotiation is about to verify. `EntryInv`: used values, next value,
trusted bound and durable bound, in this order, and every reservation in the
queue lies between the trusted bound and the target the entry would ask for.
Here, unlike in the NWK layer, several reservations may be queued (an entry that
is installed and replaced by one answer asks twice, a failed write ends every
reservation in flight); they are written in order, and `Ascending` says that
this never lowers the stored bound. `RecordsInv` is about
the records alone, which is what a restart sees. The delicate part is `Covered`:
when the LinkKey record is still that of an older key, a Persist stands in the
queue ahead of the first reservation of the new entry. Without it the bound of
the new key, counted from 0, would become the bound of the old one.

### NorFlashProofs

For every number of slots, every finite set of keys, any values and every
modulus of the sequence numbers above 4 (the code's is 2^32):

* `TypeCorrect`: `Spec => []TypeInvariant`;
* `RamFollowsFlash`: `Spec => []RamMatchesFlash`;
* `FullIsFull`: `Spec => []FullMeansFull`;
* `FormattedOnce`: `Spec => NeverFormattedAgain`;
* `LogImplementsMap`: `Spec => ImplementsWeaker`, the refinement of `KvStore`;
* `WholePayloadsImplementDocumented`: under `~PayloadTears` and `~Chunked`,
  `Spec => ImplementsDocumented`, that of the documented contract. The run
  `NorFlashTorn` refutes it under `PayloadTears` alone.

The invariant `FlashInv` adds to the types and `RamMatchesFlash` where a call
has got to (`PcInv`), and what a compaction has done so far: the spare half
holds, in order, the live and intact ones of the records looked at, each of its
own key (`CopyInv`). While the active half is clean, the tail is behind its last
record or in front of one that is incomplete (`TailFits`). What a step that ends
early can leave, by an error or a power loss, is one set (`Left`), of which the
same facts are shown once: the half that a boot chooses, its header, and all of
its records but the one being written stay. From it follows that the copy fits, that the new half
loads what the old one did when its header makes it the newer one, and that a
half that is still full after a compaction has only live records (`FullInv`).
The refinement needs, besides the invariant, that reading a log from its end
finds the same value after one more record for every key the record does not
concern (`LoadAll`), and that the half with the header written last is the one
a boot chooses, also when the sequence number wraps (`NextIsNewer`). An
incomplete record at the tail counts as the lost value of its key, so completing
it is the abstract store, and nothing is claimed of a step to a half that is not
clean. For the documented contract, `WholeInv` says that no half has an
incomplete record or one programmed over another.

### AlertQueueProofs

For every number of slots, events and boots, with and without write errors:

* `TypeCorrect`: `Spec => []TypeInvariant`;
* `AlwaysScheduled`: `Spec => []ScheduledWhilePending`;
* `NothingIsLost`: `Spec => []NothingLost`;
* `NothingSettledIsSent`: `Spec => []DeliveredNotResent`;
* `RepeatsAreMarked`: `Spec => []RepeatsMarked`;
* `LossesAreReported`: `Spec => []LossesReported`.

Handlers change the queue in RAM at once and the flash write by write, so the
invariant `QueueInv` relates three things: the records, the queue, and the
writes that are left (`todo`). `RunInv` holds whatever fails: what is in `todo`,
and that an attempt carries slots of the queue. `TrustInv` is about the time in
which every write succeeded. `FlashInv` describes the records alone, which is
what a power loss leaves: identifiers name one event each, an identifier in the
acknowledgement record belongs to a published event, and a settled event that
is still in a slot is in the acknowledgement record, so that recovery removes
it. While the queue is open, a difference between a slot, the losses or the boot
counter in RAM and in flash is always explained by a write that is left, and
that write destroys nothing still needed (`MetaInv`, `SlotInv`); the
acknowledgement record is written before the erasures it covers (`AckInv`); the
next identifier is newer than every one in use, nothing pending is settled, and
what may have been published is marked (`PendingInv`). None of the four
properties about the history is inductive without the others: an identifier
that came again would match an old acknowledgement record, and a recovery would
then erase an event nobody has.

### BroadcastProofs

For every finite set of routers, every topology, every set of neighbour tables,
any number of broadcasts and any timing, size of tables and number of faults:

* `TypeCorrect`: `Spec => []TypeInvariant`;
* `NobodyLeftOut`: `Spec => []StopsWhenHeard`;
* `DeliveredOnce`: `Spec => []SeenOnce`, assuming `RecordsOutlive`;
* `BoundedTransmissions`: `Spec => []TransmissionsBounded`, assuming the same.

`RecordsOutlive` is an inequality between the timing constants. A router that
is d hops from the source is done with a broadcast within `Span(d)` ticks: the
source takes `(1 + MaxRetries) * Timeout` for its transmissions, and each hop
adds the jitter and the retries after which the next router may first hear it.
The assumption is that the span of the longest way, as the radius or the number
of routers bounds it, is less than `DeliveryTime`, the life of a record.

`BroadcastInv` says what a router may conclude from what it hears. Whoever keeps
a record or has a frame on the air has the broadcast (`Knows`), so everyone that
a record waited for and does not wait for any more has it, too; this relates
each router to the ones it asked, whether they are in range or not. The other
half is why a record is idle (`Justified`): everyone was
heard (or nobody was asked), the retries are used up, or the frame was dropped for another, because a
record that is not idle has its frame in the buffer, which only an eviction
takes away. None of `BroadcastInv` depends on time: a record that expired and was
made again starts from what is known then.

The other two theorems are about time. `SeenOnce` is not inductive: that a
router has no record of a broadcast tells nothing about whether it had one. The
invariant `TimelyInv` takes the age of a broadcast from the record of its
source, which is as old as the broadcast. The depth of a record is the radius
that was used up on the way to it, which is smaller than the number of routers
reached; what is left of its timers, together with the age, is within the span
of that depth; a frame on the air is as young. Since the span is less than the life of a record, no
record expires while a frame that could bring the broadcast back is on the air
or still to be sent, and transmissions made and left add up to the bound.

### ApsDeliveryProofs

For every finite set of bindings, any number of requests and blocks, any table
size, timing and number of faults, with and without security:

* `TypeCorrect`: `Spec => []TypeInvariant`;
* `OneConfirm`: `Spec => []ConfirmedOnce`;
* `SuccessIsDelivery`: `Spec => []SuccessMeansDelivered`, assuming `Distinct`:
  no APS counter comes again (`MaxRequests <= CounterModulus`) and no two
  bindings lead to one peer. `ApsBound` refutes the property without the second:
  the frames to two endpoints of one peer carry one counter, and the second is
  acknowledged as a duplicate. The first keeps a request from meeting the
  duplicate rejection record of one 256 requests older; `ApsDelivery` leaves it
  out of its bounds in the same way;
* `IndicatedAtMostOnce`: `Spec => []IndicatedOnce`, assuming `Prompt`: a frame
  is under way for less than one acknowledgement timeout
  (`MaxDelay < AckWait`). Counters may come again and bindings may lead to one
  peer here.

Several handlers end in `service_pending`, which takes the entries that are
ready and may fail one of them on the way, so the invariant of the sender is stated
for the middle of a turn as well: `TurnInv` allows entries that are ready and
frames handed to the NWK layer, `SenderInv` holds between turns. Its parts are
about the table of pending transmissions (`SlotsInv`), about the NWK layer
(`NwkInv`: a frame whose confirm is still awaited belongs to an entry in that
state, one frame each, so a confirm never ends the wrong transmission), and
about requests and confirms (`RequestsInv`: `remaining` is the number of pending
transmissions, a request is dropped with its last one, and its confirm is
Success only if every transmission that ended is in a set `G`). The parameter
`G` lets one set of lemmas serve two invariants: with every queued transmission
for `G` it is `ApsInv`, which gives the first two theorems; with those that
arrived, or wanted no acknowledgement, it is `DeliveryInv`, which gives the
third.

`DeliveryInv` adds what the receivers know (`ReceiversInv`): a duplicate
rejection record, a complete reassembly and an acknowledgement of the last block
each imply that the transmission with that peer and counter was indicated.
`SuccessMeansDelivered` needs all three, since a peer acknowledges a duplicate
because of a record that an earlier copy left.

`OnceInv` is the invariant of the last theorem; it rests on `ApsInv`. It relates
the life that is left of a duplicate rejection record to everything that can
still bring a copy of its transmission: copies under way, frames the NWK layer
holds, and the retries that the pending entry may still cause, of which the last
arrives within `Reach` ticks (`Covered`). Before the first indication there is
no record to speak of, so the invariant also says that an entry of a request
that met no delay is `Punctual`, never deferred and with a timer of one timeout
at most; from this follows that the reach of whatever is pending when the first
copy arrives is below the life of the new record (`FreshRecord`). What handlers
do with an entry never extends its reach (`Onward`), `service_pending` included,
and a tick takes as much off the reach as off the record. `Prompt` is what the
arithmetic needs and no more: the timeout of the record is
`AckWait * (1 + MaxRetries)`, and the last copy is sent `AckWait * MaxRetries`
ticks after the first. TLC checks `OnceInv` on the states of `ApsDelivery.cfg`
as well, also with a table of two entries, and with two endpoints of one peer,
security and a counter that comes again.

### MacServiceProofs

For every number of requests, association attempts, retries and faults, and
every size of the transmit queue and the indirect table:

* `TypeCorrect`: `Spec => []TypeInvariant`;
* `OneConfirm`: `Spec => []ConfirmedOnce`;
* `SuccessIsReceipt`: `Spec => []SuccessMeansReceived`, assuming `NoWrap`: no
  sequence number comes again (`SeqModulus > MaxIds + 2 * MaxAttempts`). The
  service compares an acknowledgement with the sequence number of the frame in
  flight and nothing else (`on_ack`), so one that stays unread in the receive
  queue while 256 numbers pass would be taken for that of a younger frame. The
  run's constants satisfy the assumption.

The invariants are predicates of a record `Now` of the state, because a handler
may change the service twice: an association request is acknowledged and then
answered with an indirect transaction, and the state in between satisfies the
invariant too. `MacInv` gives the first two theorems. Its parts are the scope
of the ids (`ScopeInv`), the types of each service, which say what may be
queued, held and in flight (`ServiceInv`), and that an accepted id is in
exactly one place (`PlacesInv`). `ConfirmedOnce` is not inductive without
`ServiceInv`: a frame with an id it was not issued would be confirmed.

`ReceiptInv` adds, for the third theorem: `BudgetInv` (the sequence number of a
service, with the numbers still to be taken by a pending association request
for its Data Request, is within what the calls account for, hence never wraps);
`SeqInv` (a sequence number is older than the counter and tells the request,
and an acknowledgement on its way implies that the request with its number was
received); `FrameInv` (a frame asks for an acknowledgement if its request did);
and `SuccessInv`, the property itself. TLC checks `ReceiptInv(Now)` on
`MacService.cfg`'s 410,580 states as well.

Every action is shown to be a `HandleStep` (one node handles a frame, a
completion or a timer: no id is lost, no number is taken, what is new on the
air was built before or acknowledges the frame handled) or an `AddStep` (a node
takes a new request, or builds a frame for itself), and each kind preserves the
invariant once.

### Model-checked only

* Liveness: `ParkedFramesLeave`, both `RequestsEnd`, `AssociationsEnd`,
  `FallsSilent`. TLAPS has no rules for fairness.

Every safety property of a passing run is a theorem, four of them under a
hypothesis on the constants (`Distinct`, `Prompt`, `NoWrap`, `RecordsOutlive`)
that the constants of the runs satisfy.

## What else was noticed

Persistence:

* A reservation queued before a key switch resets the NWK counter is committed
  after it (`frame_counter.rs:121` raises the bound although `in_flight` no
  longer matches), so the trusted bound exceeds the stored one, which the
  reservation behind it has lowered; this is why `DurableUntilReset` ends at a
  reset. `ResumeIsFresh` is violated on this way as well; the run
  `NwkCounterReset` stops at a shorter one.
* `persist_link_keys` erases every LinkKey record before it stores the first
  (`persist.rs:273`); a power loss in between leaves a device without a stored
  link key, while `docs/conformance.md:258` says that every entry is stored
  across reboot. `LinkKeys` contains this; its properties are about counters.
* `Hub::factory_reset` (`hub.rs:542`) erases the boot counter under an open
  queue, so that event identifiers come again; `queue.rs:12-14` says they are
  unique across reboots. An acknowledgement record written since may then
  name a newer event, which the next boot erases. The same follows when the
  write of the boot counter fails (`queue.rs:215`), an error that is counted and
  otherwise ignored. The history of `AlertQueue` ends at either.
* When a later chunk of a record fails (`nor_flash.rs:529-541`), `find` takes
  the incomplete record for the newest of its key, so the old value is gone
  without any power loss. A store of another key, or an erase, is then
  programmed over it: the call answers Ok, its record fails its CRC or is not
  found, and records behind it may not be read until the next compaction, which
  drops them. Setting the tail behind the incomplete record would avoid this.
* A full `NorFlashStore` cannot erase: a tombstone needs a slot of its own.
* A power loss during a key negotiation keeps the unverified key; the backup of
  the old one is in RAM. The backup may have a reservation in flight, and the
  entry restored from it then waits for an answer that will not come.
* A full APS action queue drops a reservation, which then stays in flight.
* A heartbeat or a probe does not move the schedule of the notifications, so an
  attempt for queued events may follow at once (`schedule.rs:6-9` says
  "Back-to-back radio outages are impossible by construction").

APS:

* A duplicate rejection record lives for the sender's worst case of
  acknowledgement timeouts (`aib.rs:54-57`). Time a frame spends deferred, held
  by the NWK layer or parked for a reservation comes on top, and a retry may
  then be indicated again: `IndicatedOnce` speaks of requests that met none of
  it (`delayed` records the others). So does one whose record a full table gave
  up for a newer one (`tables.rs:392-400`; `forgotten`): the table is shared by
  all senders.
* A completed reassembly lives for one acknowledgement timeout (`aib.rs:50-53`)
  "so that a retransmitted last block is acknowledged again", but such a block
  is sent when that timeout has passed and mostly finds it gone: the sender
  reports NO_ACK for a transaction that was indicated. Fragmented transactions
  do not enter the duplicate table, so one that is started again is indicated
  again.
* A Bound request of which some destinations could not be queued is confirmed
  with Success when the others succeed.
* When `aps_handles` is full, a frame the NWK layer has accepted is reported as
  not buffered and offered again (`pump.rs:2047-2049`), so it is sent twice.

MAC:

* `finish_in_flight` (`service.rs:1478`): when the acknowledgement of the
  association's Data Request is lost, the response arrives first and ends the
  association, and the retransmission then reports a second `AssociateConfirm`
  and clears `assoc`, which may be the next attempt's by then. A response to an
  earlier attempt may end a later one, too.
* The completion of an acknowledgement is taken for that of the frame in flight
  behind it. For a frame that wants no acknowledgement this reports Success
  before it is transmitted; `SuccessMeansReceived` is about the others.
* An association request repeated because its acknowledgement was lost queues
  two responses; the one that is not fetched expires and is reported as an
  undelivered response of a child that has joined.

Broadcast:

* The originator keeps `relay_pending`, so its first retransmission counts as a
  first transmission: it is made even when every neighbour has relayed, the
  copies for sleepy children are made twice, and the source transmits once more
  than `nwkMaxBroadcastRetries` allows (hence the bound in
  `TransmissionsBounded`).
* A neighbour whose outgoing cost is not known yet, or has aged out, is not in
  the passive acknowledgement set (`bcast.rs:21`): a router may stop after one
  transmission while that neighbour has heard none. With `passive_ack` off the
  set is empty, and a relay is sent once.
* Two frames are buffered (`BROADCAST_BUFFERS`) for sixteen records: a router
  that hears a third broadcast stops relaying the first.
* A record lives for 9 s (`nib.rs`), a timeout is 0.5 s, with two retries and
  64 ms of jitter. `RecordsOutlive` then holds for up to eight transmitters in a
  row (1.5 s + 7 * 1.064 s < 9 s). The radius of 30 allows longer ways; if each
  hop of one takes its last retry and the longest jitter, the last routers
  transmit after the first records have expired, and nothing but the topology
  keeps the broadcast from being taken for a new one.
* A relay parked for a frame counter may leave after its neighbours' records
  have expired and is then a new broadcast to them (`stalled` in `SeenOnce`).

## Plan

1. `AlertSchedule`: the schedule with a clock; the mandatory Zigbee period
   between any two attempts, heartbeats and probes included; backoff.
2. `IncomingCounters` composed with `NwkCounter` for two nodes: a frame is
   accepted at most once across restarts of either.
3. Joining: `MacService` below the NWK join and the Trust Center's
   authorization, with the timers of all three; then route discovery.

## Not modelled

* Cryptography, codecs and types: sequential, without state of their own, and
  tested or fuzzed in the repository.
* ZCL and its clusters, Smart Energy, the device library: the bulk of the
  source lines. They are attribute tables, encodings and command handlers that
  run to completion in one call; there is no interleaving for TLC to explore,
  and a model would repeat the tables.
* ZDO, BDB, Green Power, Zigbee Direct: protocols of their own on top of the
  layers modelled here, with timers and tables like theirs. They come after
  joining, on which most of them build.
* Host tools, the MQTT bridge, the simulator, PCAP and test support: I/O.
