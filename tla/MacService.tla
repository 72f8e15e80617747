----------------------------- MODULE MacService -----------------------------
(***************************************************************************)
(* The MAC services of an end device and its parent                        *)
(* (panweave-mac/src/service.rs): the transmission pipeline with software  *)
(* acknowledgements and retries, indirect transactions fetched by polling, *)
(* and association. Radios are those of RadioCapabilities::default(): they *)
(* neither acknowledge nor wait for acknowledgements.                      *)
(*                                                                         *)
(* The upper layer takes events in the turn that queued them, so a confirm *)
(* is part of the step that causes it. Timers are steps that may come at   *)
(* any time the timer is armed, but for one: see AssocDeadline. What a     *)
(* node transmits reaches the other in order, or is lost.                  *)
(***************************************************************************)
EXTENDS Naturals, Sequences, FiniteSets, SequencesExt

CONSTANTS Child, Parent,
          MaxIds,            \* requests with a confirm, of both nodes
          MaxAttempts,       \* associate calls
          SeqModulus,        \* 2^8 in the code: the range of macDSN
          QueueCapacity,     \* TX_QUEUE_CAPACITY
          IndirectCapacity,  \* INDIRECT_CAPACITY
          MaxRetries,        \* macMaxFrameRetries
          MaxFaults          \* transmissions lost or not carried out, and leaves

ASSUME MacServiceAssumption ==
    /\ Child # Parent
    /\ {SeqModulus, QueueCapacity, IndirectCapacity} \subseteq Nat \ {0}
    /\ {MaxIds, MaxAttempts, MaxRetries, MaxFaults} \subseteq Nat

VARIABLES mac,       \* the MAC service of each node
          rx,        \* what each node's radio has received
          calls,     \* requests with a confirm so far, refused ones included
          issued,    \* history: accepted requests, id -> node and ack request
          attempts,  \* associate calls so far
          received,  \* history: ids the other node received
          faults     \* faults so far

vars == <<mac, rx, calls, issued, attempts, received, faults>>

Nodes == {Child, Parent}
Peer(n) == IF n = Child THEN Parent ELSE Child
Ids == 1 .. MaxIds
NoId == 0

\* Data and IndirectData frames, MAC commands; a DeferredData entry has no
\* frame of its own.
Kinds == {"Data", "IndirectData", "DeferredData", "Poll", "AssocRequest",
          "AssocDataRequest", "AssocResponse"}
Statuses == {"Success", "NoAck", "ChannelAccessFailure", "RadioError",
             "TransactionExpired"}
Phases == {"None", "Requesting", "WaitingResponseTime", "Polling"}

\* A QueuedTx: addr is the address of the child in it, as source or as
\* destination; accept is the status of an association response.
Frames == [kind : Kinds, id : Ids \cup {NoId}, seq : 0 .. SeqModulus - 1,
           ack : BOOLEAN, addr : {"short", "extended"}, accept : BOOLEAN]

NoFlight == [waiting |-> "nothing"]

----------------------------------------------------------------------------
(***************************************************************************)
(* Handlers, as operators on m, the MAC service of one node:               *)
(*   dsn       the next sequence number                                    *)
(*   queue     tx_queue                                                    *)
(*   flight    in_flight; waiting is "tx" while awaiting_tx, "ack" while   *)
(*             ack_deadline is set                                         *)
(*   actions   the Transmit actions the radio has not carried out          *)
(*   indirect  transactions held for the child                             *)
(*   assoc     phase of the association, or None                           *)
(*   short     macShortAddress is assigned                                 *)
(*   pan       macPANId is the PAN of the parent                           *)
(*   confirms  history: the outcomes reported for each id                  *)
(*   taken     history: transactions the upper layer took back             *)
(***************************************************************************)

Confirm(m, id, status) == [m EXCEPT !.confirms[id] = Append(@, status)]

\* AssociateConfirm, with success or not.
AssociateConfirm(m) == [m EXCEPT !.assoc = "None"]

Enter(m, phase) ==
    IF m.assoc = "None" THEN m ELSE [m EXCEPT !.assoc = phase]

\* finish_in_flight: the outcome of the frame in flight. (A poll with frame
\* pending keeps the receiver on; nothing here depends on it.)
Finish(m, status, pending) ==
    LET f == m.flight.frame
        n == [m EXCEPT !.flight = NoFlight]
    IN  CASE f.kind = "AssocRequest" ->
               IF status = "Success" THEN Enter(n, "WaitingResponseTime")
               ELSE AssociateConfirm(n)
          [] f.kind = "AssocDataRequest" ->
               IF status = "Success" /\ pending THEN Enter(n, "Polling")
               ELSE AssociateConfirm(n)
          [] OTHER -> Confirm(n, f.id, status)

\* Hand the frame in flight to the radio.
Transmit(m) ==
    [m EXCEPT !.flight.waiting = "tx", !.actions = Append(@, m.flight.frame)]

\* start_next_transmission
StartNext(m) ==
    IF m.flight # NoFlight \/ m.queue = <<>> THEN m
    ELSE LET f == Head(m.queue)
         IN  Transmit([m EXCEPT
                          !.queue = Tail(@),
                          !.flight = [frame |-> f, waiting |-> "tx",
                                      retries |-> IF f.ack THEN MaxRetries
                                                  ELSE 0]])

\* Mutant of RetryOr: the retries are not counted.
RetryForever(m, status) ==
    IF m.flight.retries > 0 THEN Transmit(m) ELSE Finish(m, status, FALSE)

\* The transmission failed: retransmit, or report it.
RetryOr(m, status) ==
    IF m.flight.retries > 0
    THEN Transmit([m EXCEPT !.flight.retries = @ - 1])
    ELSE Finish(m, status, FALSE)

\* on_tx_complete. The radio completes acknowledgements as well, so the
\* completion may be that of another frame than the one in flight.
OnTxComplete(m, result) ==
    IF m.flight = NoFlight \/ m.flight.waiting # "tx" THEN m
    ELSE CASE result = "ChannelAccessFailure" -> RetryOr(m, result)
           [] result = "RadioError" -> Finish(m, result, FALSE)
           [] OTHER -> IF m.flight.frame.ack
                       THEN [m EXCEPT !.flight.waiting = "ack"]
                       ELSE Finish(m, "Success", FALSE)

\* Mutant of AckMatches: the sequence number is not compared.
AnyAckMatches(m, a) == m.flight # NoFlight /\ m.flight.waiting = "ack"

AckMatches(m, a) ==
    /\ m.flight # NoFlight
    /\ m.flight.waiting = "ack"
    /\ m.flight.frame.seq = a.seq

\* on_ack
OnAck(m, a) == IF AckMatches(m, a) THEN Finish(m, "Success", a.pending) ELSE m

\* send_ack: acknowledgements bypass the queue.
SendAck(m, f, pending) ==
    [m EXCEPT !.actions = Append(@, [kind |-> "Ack", seq |-> f.seq,
                                     pending |-> pending])]

\* A frame of m, with the address m's child has or is known by.
NewFrame(m, kind, id, ack, addr, accept) ==
    [kind |-> kind, id |-> id, seq |-> m.dsn, ack |-> ack, addr |-> addr,
     accept |-> accept]

NextDsn(m) == [m EXCEPT !.dsn = (@ + 1) % SeqModulus]

\* Mutant of QueueFull: off by one.
QueueOverfull(m) == Len(m.queue) > QueueCapacity

QueueFull(m) == Len(m.queue) >= QueueCapacity

Enqueue(m, f) == [m EXCEPT !.queue = Append(@, f)]
IndirectFull(m) == Len(m.indirect) >= IndirectCapacity
AddIndirect(m, f) == [m EXCEPT !.indirect = Append(@, f)]

\* swap_remove: the last entry takes the place of the one removed.
SwapRemove(s, i) == Front([s EXCEPT ![i] = Last(s)])

\* Where the entries for the source address of a frame are.
EntriesFor(m, f) == {i \in DOMAIN m.indirect : m.indirect[i].addr = f.addr}
HasEntryFor(m, f) == EntriesFor(m, f) # {}
FirstFor(m, f) == CHOOSE i \in EntriesFor(m, f) : \A j \in EntriesFor(m, f) : i <= j

\* Mutant of Release: a full queue loses the transaction.
ReleaseOrForget(m, e) == IF QueueFull(m) THEN m ELSE Enqueue(m, e)

\* The transaction the child fetches is queued, or reported as expired.
Release(m, e) ==
    IF QueueFull(m) THEN Confirm(m, e.id, "TransactionExpired")
    ELSE Enqueue(m, e)

\* Transaction i leaves the table. A deferred one is left to the upper layer.
Fetch(m, i) ==
    LET e == m.indirect[i]
        n == [m EXCEPT !.indirect = SwapRemove(@, i)]
    IN  IF e.kind = "DeferredData" THEN [n EXCEPT !.taken = @ \cup {e.id}]
        ELSE Release(n, e)

\* A Data Request: the first transaction for the child is fetched.
OnDataRequest(m, f) ==
    LET n == SendAck(m, f, HasEntryFor(m, f))
    IN  IF HasEntryFor(m, f) THEN Fetch(n, FirstFor(m, f)) ELSE n

\* An association response counts while the child polls for it. A refused
\* child leaves the PAN.
OnAssocResponse(m, f) ==
    LET n == SendAck(m, f, FALSE)
    IN  IF m.assoc # "Polling" THEN n
        ELSE AssociateConfirm([n EXCEPT !.short = @ \/ f.accept,
                                        !.pan = f.accept])

\* addressed_to_me: the parent's address and PAN do not change.
AddressedTo(n, m, f) ==
    n = Child => m.pan /\ (f.addr = "short" => m.short)

\* A frame other than an association request is handled.
OnFrame(m, f) ==
    CASE f.kind \in {"Data", "IndirectData"} ->
           IF f.ack THEN SendAck(m, f, HasEntryFor(m, f)) ELSE m
      [] f.kind \in {"Poll", "AssocDataRequest"} -> OnDataRequest(m, f)
      [] f.kind = "AssocResponse" -> OnAssocResponse(m, f)

----------------------------------------------------------------------------
(***************************************************************************)
(* The upper layer's requests. A request that finds no room is an error    *)
(* for the caller and leaves only the sequence number used.                *)
(***************************************************************************)

NextId == calls + 1

\* A transmission goes wrong, or the child leaves.
Fault == faults < MaxFaults /\ faults' = faults + 1

\* A request of n with an acknowledgement or without is made, and accepted
\* unless it finds no room.
Issue(n, ack, full) ==
    /\ calls < MaxIds
    /\ calls' = calls + 1
    /\ issued' = IF full THEN issued
                 ELSE [i \in DOMAIN issued \cup {NextId} |->
                          IF i = NextId THEN [node |-> n, ack |-> ack]
                          ELSE issued[i]]

\* A request of n puts frame f into a queue of m, or is refused.
Place(n, f, m, full, placed) ==
    /\ Issue(n, f.ack, full)
    /\ mac' = [mac EXCEPT ![n] = IF full THEN m ELSE placed]
    /\ UNCHANGED <<rx, attempts, received, faults>>

\* data_request, direct. The child sends when it is on the network.
DataRequest(n, ack) ==
    LET f == NewFrame(mac[n], "Data", NextId, ack, "short", FALSE)
        m == NextDsn(mac[n])
    IN  /\ mac[n].short
        /\ Place(n, f, m, QueueFull(m), Enqueue(m, f))

\* data_request, indirect, and data_request_deferred, which has no frame.
IndirectRequest(kind) ==
    LET f == NewFrame(mac[Parent], kind, NextId, TRUE, "short", FALSE)
        m == IF kind = "DeferredData" THEN mac[Parent]
             ELSE NextDsn(mac[Parent])
    IN  Place(Parent, f, m, IndirectFull(m), AddIndirect(m, f))

\* purge: a transaction the child has not fetched is taken back. Handles are
\* distinct, so that retain drops one entry.
Purge(i) ==
    LET m == mac[Parent]
    IN  /\ i \in DOMAIN m.indirect /\ m.indirect[i].kind # "AssocResponse"
        /\ mac' = [mac EXCEPT
                      ![Parent] = [m EXCEPT !.indirect = RemoveAt(@, i),
                                            !.taken = @ \cup {m.indirect[i].id}]]
        /\ UNCHANGED <<rx, calls, issued, attempts, received, faults>>

\* poll
Poll ==
    LET f == NewFrame(mac[Child], "Poll", NextId, TRUE, "short", FALSE)
        m == NextDsn(mac[Child])
    IN  /\ m.short
        /\ Place(Child, f, m, QueueFull(m), Enqueue(m, f))

\* associate, of a device that is on no network. Like any other request it
\* may find the queue full, which only uses the sequence number.
Associate ==
    LET f == NewFrame(mac[Child], "AssocRequest", NoId, TRUE, "extended", FALSE)
        m == NextDsn(mac[Child])
    IN  /\ attempts < MaxAttempts
        /\ ~m.short /\ m.assoc = "None"
        /\ mac' = [mac EXCEPT ![Child] =
                      IF QueueFull(m) THEN m
                      ELSE [Enqueue(m, f) EXCEPT !.assoc = "Requesting",
                                                 !.pan = TRUE]]
        /\ attempts' = attempts + 1
        /\ UNCHANGED <<rx, calls, issued, received, faults>>

\* set_pan_id and set_short_address when the NWK layer leaves the network:
\* frames that are queued or in flight stay.
LeaveNetwork ==
    /\ Fault
    /\ mac[Child].short /\ mac[Child].assoc = "None"
    /\ mac' = [mac EXCEPT ![Child].short = FALSE, ![Child].pan = FALSE]
    /\ UNCHANGED <<rx, calls, issued, attempts, received>>

----------------------------------------------------------------------------
(***************************************************************************)
(* The radio and the timers.                                               *)
(***************************************************************************)

\* next_action and on_tx_complete: the radio carries out the next Transmit
\* action. What it sends arrives or is lost; a channel access failure keeps
\* it from sending, another error may come after it.
RadioStep(n, result, arrives) ==
    LET m == StartNext(mac[n])
        f == Head(m.actions)
    IN  /\ m.actions # <<>>
        /\ result = "ChannelAccessFailure" => f.kind # "Ack" /\ ~arrives
        /\ IF result = "Ok" /\ arrives THEN UNCHANGED faults ELSE Fault
        /\ mac' = [mac EXCEPT
                      ![n] = OnTxComplete([m EXCEPT !.actions = Tail(@)],
                                          result)]
        /\ rx' = IF arrives THEN [rx EXCEPT ![Peer(n)] = Append(@, f)] ELSE rx
        /\ UNCHANGED <<calls, issued, attempts, received>>

\* associate_response of the parent, m: held for the child, or refused.
AssociateResponse(m) ==
    /\ Issue(Parent, TRUE, IndirectFull(m))
    /\ \E accept \in BOOLEAN :
           LET f == NewFrame(m, "AssocResponse", NextId, TRUE, "extended",
                             accept)
           IN  mac' = [mac EXCEPT
                          ![Parent] = NextDsn(IF IndirectFull(m) THEN m
                                              ELSE AddIndirect(m, f))]

\* An association request at the parent is answered, or the NWK layer keeps
\* silent.
OnAssocRequest(f) ==
    LET m == SendAck(mac[Parent], f, FALSE)
    IN  \/ AssociateResponse(m)
        \/ mac' = [mac EXCEPT ![Parent] = m] /\ UNCHANGED <<calls, issued>>

\* on_receive
Receive(n) ==
    LET m == mac[n]
        f == Head(rx[n])
    IN  /\ rx[n] # <<>>
        /\ rx' = [rx EXCEPT ![n] = Tail(@)]
        /\ \/ /\ f.kind = "Ack"
              /\ mac' = [mac EXCEPT ![n] = OnAck(m, f)]
              /\ UNCHANGED <<calls, issued, received>>
           \/ /\ f.kind # "Ack" /\ ~AddressedTo(n, m, f)
              /\ UNCHANGED <<mac, calls, issued, received>>
           \/ /\ f.kind = "AssocRequest"
              /\ OnAssocRequest(f)
              /\ UNCHANGED received
           \/ /\ f.kind \notin {"Ack", "AssocRequest"} /\ AddressedTo(n, m, f)
              /\ mac' = [mac EXCEPT ![n] = OnFrame(m, f)]
              /\ received' = received \cup ({f.id} \ {NoId})
              /\ UNCHANGED <<calls, issued>>
        /\ UNCHANGED <<attempts, faults>>

\* The host carries out all radio actions before it lets time pass.
Drained(m) == m.actions = <<>> /\ (m.flight # NoFlight \/ m.queue = <<>>)

\* poll_timers: no acknowledgement came.
AckTimeout(n) ==
    /\ Drained(mac[n])
    /\ mac[n].flight # NoFlight /\ mac[n].flight.waiting = "ack"
    /\ mac' = [mac EXCEPT ![n] = RetryOr(@, "NoAck")]
    /\ UNCHANGED <<rx, calls, issued, attempts, received, faults>>

\* poll_timers: a transaction is given up. Those that expire in one call expire
\* one after the other here.
IndirectExpiry(i) ==
    LET m == mac[Parent]
    IN  /\ Drained(m)
        /\ i \in DOMAIN m.indirect
        /\ mac' = [mac EXCEPT
                      ![Parent] = Confirm([m EXCEPT !.indirect = RemoveAt(@, i)],
                                          m.indirect[i].id, "TransactionExpired")]
        /\ UNCHANGED <<rx, calls, issued, attempts, received, faults>>

\* poll_timers: the response is fetched.
FetchResponse ==
    LET m == mac[Child]
        f == NewFrame(m, "AssocDataRequest", NoId, TRUE, "extended", FALSE)
    IN  /\ Drained(m)
        /\ m.assoc = "WaitingResponseTime"
        /\ mac' = [mac EXCEPT
                      ![Child] = IF QueueFull(m)
                                 THEN AssociateConfirm(NextDsn(m))
                                 ELSE Enter(NextDsn(Enqueue(m, f)),
                                            "Polling")]
        /\ UNCHANGED <<rx, calls, issued, attempts, received, faults>>

DataRequestOnItsWay(m) ==
    \/ \E i \in DOMAIN m.queue : m.queue[i].kind = "AssocDataRequest"
    \/ m.flight # NoFlight /\ m.flight.frame.kind = "AssocDataRequest"

\* Mutant of AssocDeadline: the deadline is never armed.
NoDeadline == FALSE /\ UNCHANGED vars

\* poll_timers: no response came. response_wait (0.5 s) is longer than the
\* transmissions of a full queue with all their retries (5 ms each).
AssocDeadline ==
    /\ mac[Child].assoc = "Polling"
    /\ Drained(mac[Child]) /\ ~DataRequestOnItsWay(mac[Child])
    /\ mac' = [mac EXCEPT ![Child] = AssociateConfirm(@)]
    /\ UNCHANGED <<rx, calls, issued, attempts, received, faults>>

Start(joined) ==
    [dsn |-> 0, queue |-> <<>>, flight |-> NoFlight, actions |-> <<>>,
     indirect |-> <<>>, assoc |-> "None", short |-> joined, pan |-> joined,
     confirms |-> [i \in Ids |-> <<>>], taken |-> {}]

\* The child is on the network, or about to join it.
Init ==
    /\ \E joined \in BOOLEAN :
           mac = [n \in Nodes |-> Start(n = Parent \/ joined)]
    /\ rx = [n \in Nodes |-> <<>>]
    /\ calls = 0
    /\ issued = <<>>
    /\ attempts = 0
    /\ received = {}
    /\ faults = 0

Transmissions(n) ==
    \E result \in {"Ok", "ChannelAccessFailure", "RadioError"},
       arrives \in BOOLEAN : RadioStep(n, result, arrives)

Timers(n) ==
    \/ AckTimeout(n)
    \/ n = Parent /\ \E i \in 1 .. IndirectCapacity : IndirectExpiry(i)
    \/ n = Child /\ (FetchResponse \/ AssocDeadline)

Host(n) == Transmissions(n) \/ Receive(n) \/ Timers(n)

Next ==
    \/ \E n \in Nodes : \/ Host(n)
                        \/ \E ack \in BOOLEAN : DataRequest(n, ack)
    \/ \E kind \in {"IndirectData", "DeferredData"} : IndirectRequest(kind)
    \/ \E i \in 1 .. IndirectCapacity : Purge(i)
    \/ Poll
    \/ Associate
    \/ LeaveNetwork

Spec == Init /\ [][Next]_vars

\* The hosts run their loops: they carry out radio actions, hand in what the
\* radios received and call poll_timers at next_deadline. That one of them
\* goes on while one of them can is enough.
Fairness == WF_vars(\E n \in Nodes : Host(n))

FairSpec == Spec /\ Fairness

----------------------------------------------------------------------------
TypeInvariant ==
    /\ \A n \in Nodes :
          /\ mac[n].dsn \in 0 .. SeqModulus - 1
          /\ Range(mac[n].queue) \cup Range(mac[n].indirect) \subseteq Frames
          /\ Len(mac[n].queue) <= QueueCapacity
          /\ Len(mac[n].indirect) <= IndirectCapacity
          /\ \/ mac[n].flight = NoFlight
             \/ mac[n].flight \in [frame : Frames, waiting : {"tx", "ack"},
                                   retries : 0 .. MaxRetries]
          /\ mac[n].assoc \in Phases
          /\ \A id \in Ids : Range(mac[n].confirms[id]) \subseteq Statuses
    /\ mac[Child].indirect = <<>> /\ mac[Parent].assoc = "None"
    /\ DOMAIN issued \subseteq Ids
    /\ received \subseteq DOMAIN issued

Count(s, id) == Cardinality({i \in DOMAIN s : s[i].id = id})

\* How often a request is held by, or was reported by, the service.
Places(m, id) ==
    Count(m.queue, id) + Count(m.indirect, id) + Len(m.confirms[id])
    + (IF m.flight # NoFlight /\ m.flight.frame.id = id THEN 1 ELSE 0)
    + (IF id \in m.taken THEN 1 ELSE 0)

\* Every accepted data request, poll and association response is waiting in
\* one place, or was confirmed once, or was taken back by the upper layer:
\* no path through retries, polls, expiry and full queues loses it or
\* reports it twice.
ConfirmedOnce ==
    \A id \in Ids, n \in Nodes :
        Places(mac[n], id) =
            IF id \in DOMAIN issued /\ issued[id].node = n THEN 1 ELSE 0

\* A request with an acknowledgement that is confirmed with Success was
\* received: an acknowledgement that was late, or answers another frame, is
\* not taken for it, nor is the completion of another transmission.
SuccessMeansReceived ==
    \A id \in DOMAIN issued :
        /\ issued[id].ack
        /\ "Success" \in Range(mac[issued[id].node].confirms[id])
        => id \in received

Ended(id) ==
    \E n \in Nodes : mac[n].confirms[id] # <<>> \/ id \in mac[n].taken

\* Every accepted request ends.
RequestsEnd == \A id \in Ids : id \in DOMAIN issued ~> Ended(id)

\* Every association ends, whatever is lost, refused or answered late.
AssociationsEnd == mac[Child].assoc # "None" ~> mac[Child].assoc = "None"
============================================================================
