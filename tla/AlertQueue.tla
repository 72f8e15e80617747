---------------------------- MODULE AlertQueue ----------------------------
(***************************************************************************)
(* The durable queue of sensor events waiting for delivery over Wi-Fi      *)
(* (panweave-hub: alert/queue.rs and its callers in hub_alerts.rs).        *)
(*                                                                         *)
(* The firmware is one loop: a handler changes the state in RAM and writes *)
(* its records one after the other (todo), and while the radio belongs to  *)
(* Wi-Fi (job) nothing else runs. A write may fail, which the code counts  *)
(* and otherwise ignores, and the power may be lost between any two steps. *)
(*                                                                         *)
(* Events are numbered in the order in which they happen; the code names   *)
(* an event by the boot counter and a sequence number in that boot. Time   *)
(* is abstract: a scheduled attempt may come due at any moment.            *)
(***************************************************************************)
EXTENDS Integers, Sequences, SequencesExt, FiniteSets

CONSTANTS Capacity,    \* CAPACITY, slots of the queue
          MaxEvents,   \* events that ever happen
          MaxBoots,    \* boots that open the queue
          WritesFail   \* a write may fail

ASSUME QueueAssumption ==
    /\ Capacity \in Nat \ {0}
    /\ MaxEvents \in Nat
    /\ MaxBoots \in Nat
    /\ WritesFail \in BOOLEAN

VARIABLES enabled,        \* Config::enabled
          queue,          \* Queue, or NoQueue before it is opened
          due,            \* Schedule::due is Some
          restoreFailed,  \* the radio did not come back to Zigbee
          job,            \* the attempt that is running, or NoJob
          todo,           \* records the running handler has yet to write
          nv,             \* records in the hub's store
          events,         \* history: events so far
          ledger          \* history: what was promised and delivered

vars == <<enabled, queue, due, restoreFailed, job, todo, nv, events, ledger>>

Slot == 1 .. Capacity
Event == 1 .. MaxEvents
EventId == [boot : 1 .. MaxBoots, seq : 0 .. MaxEvents]
AlertEvent == [id : EventId, event : Event, ambiguous : BOOLEAN]
NoEvent == [event |-> 0]

NoQueue == [boot |-> 0]
Queue == [slots : [Slot -> AlertEvent \cup {NoEvent}], boot : 1 .. MaxBoots,
          seq : 0 .. MaxEvents, overflow : 0 .. MaxEvents]

\* The events of the message and the losses it reports.
NoJob == [sent |-> {}, overflow |-> 0]
Job == [sent : SUBSET [id : EventId, event : Event], overflow : 0 .. MaxEvents]
Ids(sent) == {x.id : x \in sent}
Events(sent) == {x.event : x \in sent}

\* Config, meta (boot counter and losses), acknowledgement and slot records.
\* An absent meta record reads as zero.
Records == [enabled : BOOLEAN,
            boot : 0 .. MaxBoots, overflow : 0 .. MaxEvents,
            ack : SUBSET EventId,
            slots : [Slot -> AlertEvent \cup {NoEvent}]]

Empty == [s \in Slot |-> NoEvent]
NoRecords == [enabled |-> FALSE, boot |-> 0, overflow |-> 0, ack |-> {}, slots |-> Empty]

\* The history: events stored before push returned, events the destination
\* has, events whose acknowledgement has begun to be written, events that a
\* power loss during an attempt concerned; losses and how many of them were
\* reported. It is kept until a write fails or the store is reset.
Ledger == [stored : SUBSET Event, published : SUBSET Event,
           settled : SUBSET Event, cut : SUBSET Event,
           refused : 0 .. MaxEvents, reported : Nat, trusted : BOOLEAN]
NewLedger == [stored |-> {}, published |-> {}, settled |-> {}, cut |-> {},
              refused |-> 0, reported |-> 0, trusted |-> TRUE]
Kept(l) == IF l.trusted THEN l ELSE [NewLedger EXCEPT !.trusted = FALSE]

-----------------------------------------------------------------------------
(* Writes                                                                  *)

\* Each write is a function from the records to the records.
WriteMeta(q) == [type |-> "meta", boot |-> q.boot, overflow |-> q.overflow]
WriteAck(ids, taken) == [type |-> "ack", ids |-> ids, taken |-> taken]
WriteSlot(s, e) == [type |-> "slot", slot |-> s, value |-> e]
EraseSlot(s, taken) == [type |-> "erase", slot |-> s, value |-> NoEvent, taken |-> taken]

Written(w) ==
    CASE w.type = "meta" -> [nv EXCEPT !.boot = w.boot, !.overflow = w.overflow]
      [] w.type = "ack" -> [nv EXCEPT !.ack = w.ids]
      [] w.type \in {"slot", "erase"} -> [nv EXCEPT !.slots[w.slot] = w.value]

\* The slots of a set, in the order in which the code goes through them.
Rank(slots, s) == Cardinality({t \in slots : t <= s})
InOrder(slots) ==
    [i \in 1 .. Cardinality(slots) |-> CHOOSE s \in slots : Rank(slots, s) = i]
Erasures(slots, taken) ==
    [i \in 1 .. Cardinality(slots) |-> EraseSlot(InOrder(slots)[i], taken)]

-----------------------------------------------------------------------------
(* The queue in RAM                                                        *)

Taken(slots, ids) == {s \in Slot : slots[s] # NoEvent /\ slots[s].id \in ids}
Free(slots) == {s \in Slot : slots[s] = NoEvent}
Pending(slots) == Slot \ Free(slots)
EventsIn(slots) == {slots[s].event : s \in Pending(slots)}

\* pending: identifiers are ordered by boot, then by sequence number.
Older(a, b) == a.boot < b.boot \/ (a.boot = b.boot /\ a.seq < b.seq)

\* The n oldest events, as far as their identifiers tell.
Oldest(slots, n) ==
    {ss \in SUBSET Pending(slots) :
        /\ Cardinality(ss) = n
        /\ \A s \in ss, t \in Pending(slots) \ ss : ~Older(slots[t].id, slots[s].id)}

\* Mutant of OpenedQueue: the boot counter is not incremented.
OpenedSameBoot ==
    LET done == Taken(nv.slots, nv.ack)
    IN  [slots |-> [s \in Slot |-> IF s \in done THEN NoEvent ELSE nv.slots[s]],
         boot |-> IF nv.boot = 0 THEN 1 ELSE nv.boot, seq |-> 0, overflow |-> nv.overflow]

\* Queue::open: a new boot, the pending events, without those named by the
\* acknowledgement record.
OpenedQueue ==
    LET done == Taken(nv.slots, nv.ack)
    IN  [slots |-> [s \in Slot |-> IF s \in done THEN NoEvent ELSE nv.slots[s]],
         boot |-> nv.boot + 1, seq |-> 0, overflow |-> nv.overflow]

OpenWrites(q) == <<WriteMeta(q)>> \o Erasures(Taken(nv.slots, nv.ack), {})

Init ==
    /\ enabled = FALSE
    /\ queue = NoQueue
    /\ due = FALSE
    /\ restoreFailed = FALSE
    /\ job = NoJob
    /\ todo = <<>>
    /\ nv = NoRecords
    /\ events = 0
    /\ ledger = NewLedger

\* The loop starts a handler when the one before has returned.
Ready == todo = <<>> /\ job = NoJob

-----------------------------------------------------------------------------
(* Requests of the host and of the user                                    *)

\* Mutant of SetAlertConfig: enabling does not open the queue.
SetWithoutOpening(on, again) ==
    /\ Ready
    /\ on /\ ~enabled => again
    /\ enabled' = on
    /\ nv' = [nv EXCEPT !.enabled = on]
    /\ restoreFailed' = (restoreFailed /\ ~on)
    /\ UNCHANGED <<queue, todo, due, job, events, ledger>>

\* set_alert_config: the setting is stored first. An update that leaves the
\* notifications enabled opens the queue; one that names a delay or says
\* enabled = true (again) also schedules what is pending anew, and only such
\* an update can enable them.
SetAlertConfig(on, again) ==
    /\ Ready
    /\ on /\ ~enabled => again
    /\ on /\ queue = NoQueue => nv.boot < MaxBoots
    /\ enabled' = on
    /\ nv' = [nv EXCEPT !.enabled = on]
    /\ IF on
       THEN /\ queue' = IF queue = NoQueue THEN OpenedQueue ELSE queue
            /\ todo' = IF queue = NoQueue THEN OpenWrites(queue') ELSE <<>>
            /\ due' = IF again THEN Pending(queue'.slots) # {} ELSE due
            /\ restoreFailed' = FALSE
       ELSE UNCHANGED <<queue, todo, due, restoreFailed>>
    /\ UNCHANGED <<job, events, ledger>>

\* Hub::factory_reset erases every record of the hub's store, and leaves
\* the notifications in RAM as they are.
FactoryReset ==
    /\ Ready
    /\ nv' = NoRecords
    /\ ledger' = Kept([ledger EXCEPT !.trusted = FALSE])
    /\ UNCHANGED <<enabled, queue, due, restoreFailed, job, todo, events>>

-----------------------------------------------------------------------------
(* Events                                                                  *)

\* Mutant of PushFull: the loss is counted in RAM only.
PushFullUnsaved ==
    /\ Free(queue.slots) = {}
    /\ queue' = [queue EXCEPT !.seq = @ + 1, !.overflow = @ + 1]
    /\ todo' = <<>>
    /\ ledger' = Kept([ledger EXCEPT !.refused = @ + 1])
    /\ UNCHANGED due

\* push without a free slot: the loss is counted, nothing is evicted.
PushFull ==
    /\ Free(queue.slots) = {}
    /\ queue' = [queue EXCEPT !.seq = @ + 1, !.overflow = @ + 1]
    /\ todo' = <<WriteMeta(queue')>>
    /\ ledger' = Kept([ledger EXCEPT !.refused = @ + 1])
    /\ UNCHANGED due

\* push into the first free slot; an attempt is scheduled.
PushStored ==
    /\ Free(queue.slots) # {}
    /\ LET s == InOrder(Free(queue.slots))[1]
           e == [id |-> [boot |-> queue.boot, seq |-> queue.seq],
                 event |-> events + 1, ambiguous |-> FALSE]
       IN  /\ queue' = [queue EXCEPT !.seq = @ + 1, !.slots[s] = e]
           /\ todo' = <<WriteSlot(s, e)>>
    /\ due' = TRUE
    /\ UNCHANGED ledger

\* queue_alert: a sensor changed its state, or a test was requested.
QueueAlert ==
    /\ Ready
    /\ enabled
    /\ events < MaxEvents
    /\ events' = events + 1
    /\ PushFull \/ PushStored
    /\ UNCHANGED <<enabled, restoreFailed, job, nv>>

-----------------------------------------------------------------------------
(* Attempts                                                                *)

CanRun == enabled /\ ~restoreFailed /\ queue # NoQueue

\* alert_due and prepare_alert_with: as many of the oldest events as the
\* message holds, at least one, and the losses so far if they fit.
PrepareAlert ==
    /\ Ready
    /\ CanRun /\ due
    /\ \E n \in 1 .. Cardinality(Pending(queue.slots)) :
       \E ss \in Oldest(queue.slots, n), lost \in {0, queue.overflow} :
          job' = [sent |-> {[id |-> queue.slots[s].id, event |-> queue.slots[s].event] :
                               s \in ss},
                  overflow |-> lost]
    /\ UNCHANGED <<enabled, queue, due, restoreFailed, todo, nv, events, ledger>>

\* A heartbeat or a probe concerns the radio only.
IdleAttempt ==
    /\ Ready
    /\ CanRun
    /\ restoreFailed' = TRUE
    /\ UNCHANGED <<enabled, queue, due, job, todo, nv, events, ledger>>

\* note_attempt: the slots that are marked now, and the queue with them.
NewlyMarked(slots, ids) == {s \in Taken(slots, ids) : ~slots[s].ambiguous}
Marked(slots, ids) ==
    [s \in Slot |-> IF s \in Taken(slots, ids)
                    THEN [slots[s] EXCEPT !.ambiguous = TRUE] ELSE slots[s]]
MarkWrites(slots, ids) ==
    LET order == InOrder(NewlyMarked(slots, ids))
    IN  [i \in DOMAIN order |-> WriteSlot(order[i], Marked(slots, ids)[order[i]])]

\* Mutant of AcknowledgeWrites: the slots are erased before the record.
AcknowledgeErasesFirst(done, ids, taken) == Append(Erasures(done, taken), WriteAck(ids, taken))

\* acknowledge: the record first, then the slots it names.
AcknowledgeWrites(done, ids, taken) == <<WriteAck(ids, taken)>> \o Erasures(done, taken)

\* Mutant of Reschedule: nothing is scheduled after a delivery.
RescheduleNothing(slots) == FALSE

\* on_success schedules an attempt when events are left.
Reschedule(slots) == Pending(slots) # {}

\* finish_alert_with after an answer that takes some of the events. The
\* others may have been published all the same, and are marked.
FinishDelivered(ids, restored) ==
    /\ job # NoJob
    /\ LET left == Ids(job.sent) \ ids
           done == Taken(queue.slots, ids)
           taken == Events({x \in job.sent : x.id \in ids})
           kept == [s \in Slot |-> IF s \in done THEN NoEvent ELSE queue.slots[s]]
           q == [queue EXCEPT !.slots = Marked(kept, left),
                              !.overflow = IF job.overflow > @ THEN 0 ELSE @ - job.overflow]
       IN  /\ queue' = q
           /\ todo' = AcknowledgeWrites(done, ids, taken)
                        \o (IF job.overflow > 0 THEN <<WriteMeta(q)>> ELSE <<>>)
                        \o MarkWrites(kept, left)
           /\ due' = Reschedule(q.slots)
           /\ \E more \in {{}, Events(job.sent)} :
                 ledger' = Kept([ledger EXCEPT !.published = @ \cup taken \cup more,
                                               !.reported = @ + job.overflow])
    /\ restoreFailed' = ~restored
    /\ job' = NoJob
    /\ UNCHANGED <<enabled, nv, events>>

\* Mutant of FinishFailed: no failure is taken for an ambiguous one.
FinishUnmarked(ambiguous, restored) ==
    /\ job # NoJob
    /\ due' = TRUE
    /\ \E seen \in {{}, IF ambiguous THEN Events(job.sent) ELSE {}} :
          ledger' = Kept([ledger EXCEPT !.published = @ \cup seen])
    /\ restoreFailed' = ~restored
    /\ job' = NoJob
    /\ UNCHANGED <<enabled, queue, todo, nv, events>>

\* finish_alert_with after any other outcome; it is ambiguous once the
\* request may have left, and the destination may then have the events.
FinishFailed(ambiguous, restored) ==
    /\ job # NoJob
    /\ queue' = IF ambiguous THEN [queue EXCEPT !.slots = Marked(@, Ids(job.sent))] ELSE queue
    /\ todo' = IF ambiguous THEN MarkWrites(queue.slots, Ids(job.sent)) ELSE <<>>
    /\ due' = TRUE
    /\ \E seen \in {{}, IF ambiguous THEN Events(job.sent) ELSE {}} :
          ledger' = Kept([ledger EXCEPT !.published = @ \cup seen])
    /\ restoreFailed' = ~restored
    /\ job' = NoJob
    /\ UNCHANGED <<enabled, nv, events>>

-----------------------------------------------------------------------------
(* Storage and power                                                       *)

\* The next write of the running handler; an error is counted only.
Perform(ok) ==
    /\ todo # <<>>
    /\ LET w == Head(todo)
       IN  /\ nv' = IF ok THEN Written(w) ELSE nv
           /\ ledger' = Kept([ledger EXCEPT
                 !.stored = IF ok /\ w.type = "slot" THEN @ \cup {w.value.event} ELSE @,
                 !.settled = IF w.type \in {"ack", "erase"} THEN @ \cup w.taken ELSE @,
                 !.trusted = @ /\ ok])
    /\ todo' = Tail(todo)
    /\ UNCHANGED <<enabled, queue, due, restoreFailed, job, events>>

\* Power loss, boot and restore_alerts. The destination may have received
\* the message of an attempt that was running. A push that did not return
\* has promised nothing.
Restart ==
    /\ nv.enabled => nv.boot < MaxBoots
    /\ enabled' = nv.enabled
    /\ queue' = IF nv.enabled THEN OpenedQueue ELSE NoQueue
    /\ todo' = IF nv.enabled THEN OpenWrites(queue') ELSE <<>>
    /\ due' = (nv.enabled /\ Pending(queue'.slots) # {})
    /\ restoreFailed' = FALSE
    /\ job' = NoJob
    /\ \E seen \in {{}, Events(job.sent)} :
          ledger' = Kept([ledger EXCEPT
             !.published = @ \cup seen,
             !.cut = IF Ready THEN @ ELSE @ \cup EventsIn(nv.slots),
             !.refused = IF Ready \/ @ <= ledger.reported + nv.overflow THEN @
                         ELSE ledger.reported + nv.overflow])
    /\ UNCHANGED <<nv, events>>

Next ==
    \/ \E on, again \in BOOLEAN : SetAlertConfig(on, again)
    \/ FactoryReset
    \/ QueueAlert
    \/ PrepareAlert
    \/ IdleAttempt
    \/ \E restored \in BOOLEAN :
          \/ \E ids \in SUBSET Ids(job.sent) : FinishDelivered(ids, restored)
          \/ \E ambiguous \in BOOLEAN : FinishFailed(ambiguous, restored)
    \/ \E ok \in {TRUE, ~WritesFail} : Perform(ok)
    \/ Restart

Spec == Init /\ [][Next]_vars

-----------------------------------------------------------------------------
(* Properties                                                              *)

\* The state of AlertEngine and Queue, the records and the history have
\* their types, the queue is open whenever notifications are enabled, and
\* an attempt only carries events that are pending.
TypeInvariant ==
    /\ enabled \in BOOLEAN
    /\ queue \in Queue \cup {NoQueue}
    /\ enabled => queue # NoQueue
    /\ due \in BOOLEAN
    /\ restoreFailed \in BOOLEAN
    /\ job \in Job
    /\ job # NoJob => Events(job.sent) \subseteq EventsIn(queue.slots)
    /\ nv \in Records
    /\ events \in 0 .. MaxEvents
    /\ ledger \in Ledger

\* An event that push stored is in flash until the destination has it, as
\* long as writes succeed: no power loss, no recovery of an interrupted
\* acknowledgement and no reuse of an identifier loses one.
NothingLost ==
    ledger.trusted => ledger.stored \subseteq EventsIn(nv.slots) \cup ledger.published

\* Once the acknowledgement of a message has begun to be written, none of
\* the events it covers is sent again.
DeliveredNotResent ==
    ledger.trusted => Events(job.sent) \cap ledger.settled = {}

\* An event that may have been published before is sent again only with
\* the possible-repeat marker, unless the power was lost during the attempt.
RepeatsMarked ==
    ledger.trusted =>
        \A s \in Slot :
            /\ queue # NoQueue /\ queue.slots[s] # NoEvent
            /\ queue.slots[s].event \in ledger.published \ ledger.cut
            /\ job = NoJob
            => queue.slots[s].ambiguous

\* An event that found the queue full is counted until a delivered message
\* has reported it.
LossesReported ==
    ledger.trusted /\ queue # NoQueue => ledger.refused <= ledger.reported + queue.overflow

\* While events are pending an attempt is scheduled: no order of events,
\* outcomes, restarts and settings leaves the queue without one.
ScheduledWhilePending ==
    enabled /\ queue # NoQueue /\ Pending(queue.slots) # {} => due
=============================================================================
