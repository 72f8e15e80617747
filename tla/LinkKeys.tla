----------------------------- MODULE LinkKeys -----------------------------
(***************************************************************************)
(* One entry of the APS key-pair set, its outgoing frame counter and their *)
(* persistence: keys are installed, transported and negotiated             *)
(* (panweave-aps, panweave-runtime/src/dlk.rs), frames are secured with    *)
(* them, and the runtime writes the LinkKey, Aib and ApsFrameCounter       *)
(* records that Stack::restore reads after a power loss.                   *)
(*                                                                         *)
(* As for the network key, a pair (key, counter value) must never be used  *)
(* for two frames. Every key is fresh (random, transported or negotiated). *)
(* The entries of different partners share nothing but the order in which  *)
(* their records are written, so one partner is modelled.                  *)
(***************************************************************************)
EXTENDS FrameCounter, Sequences

CONSTANTS MaxKeys,        \* keys that are ever made for the partner
          QueueCapacity   \* ApsActions that may be queued

ASSUME LinkKeysAssumption == MaxKeys \in Nat /\ QueueCapacity \in Nat

VARIABLES entry,      \* the key-pair entry of the partner
          session,    \* the key negotiation in progress
          actions,    \* ApsActions the runtime has not taken yet
          nv,         \* the records of the partner
          lastKey,    \* history: keys made so far
          used,       \* history: the highest value used with each key
          disturbed   \* history: see Overtakes, DlkAbort and PumpPersist

vars == <<entry, session, actions, nv, lastKey, used, disturbed>>

NoKey == 0
NoValue == -1
NoRecord == -1

KeyIds == 1 .. MaxKeys

\* Of the key attributes only UNVERIFIED_KEY makes a difference here: such a
\* key secures no frame.
Entry == [key : KeyIds, usable : BOOLEAN, outgoing : Counter]
NoEntry == [key |-> NoKey]
Fresh(key, usable) == [key |-> key, usable |-> usable, outgoing |-> NewCounter]

NoSession == [phase |-> "none"]
Session == [phase : {"started"}, backup : Entry \cup {NoEntry}, key : {NoKey}]
           \cup [phase : {"verifying"}, backup : Entry \cup {NoEntry}, key : KeyIds]

\* The LinkKey record (NoKey when absent), whether Aib lists the partner,
\* and the ApsFrameCounter record.
Records == [key : KeyIds \cup {NoKey}, usable : BOOLEAN,
            bound : 0 .. MaxCounter, listed : BOOLEAN,
            counter : {NoRecord} \cup (0 .. MaxCounter)]

\* The records without the LinkKey one.
WithoutKey(records) ==
    [records EXCEPT !.key = NoKey, !.usable = FALSE, !.bound = 0]

\* Mutant of RestoredBound: the ApsFrameCounter record is not looked at.
SavedBound == nv.bound

\* restore_link_keys: the ApsFrameCounter record overrides the bound that
\* was saved with the key.
RestoredBound == IF nv.counter # NoRecord THEN nv.counter ELSE nv.bound

-----------------------------------------------------------------------------
(* Queued actions                                                          *)

Persist == [kind |-> "persist", bound |-> NoReservation]
Reserve(bound) == [kind |-> "reserve", bound |-> bound]
ActionType == [kind : {"persist", "reserve"},
               bound : {NoReservation} \cup (0 .. MaxCounter)]

\* request_counter_reservations: the entry afterwards and what it queues.
Requested(e) ==
    IF e # NoEntry /\ NeedsReservation(e.outgoing)
    THEN [e EXCEPT !.outgoing = StartReservation(@)] ELSE e
Request(e) ==
    IF e # NoEntry /\ NeedsReservation(e.outgoing)
    THEN <<Reserve(ReservationTarget(e.outgoing))>> ELSE <<>>

HasRoom == Len(actions) + 2 <= QueueCapacity

\* A new counter starts while a reservation of the old one is queued.
Overtakes == \E i \in DOMAIN actions : actions[i].kind = "reserve"

MakesKey == lastKey < MaxKeys

Init ==
    /\ entry = NoEntry
    /\ session = NoSession
    /\ actions = <<>>
    /\ nv = [key |-> NoKey, usable |-> FALSE, bound |-> 0,
             listed |-> FALSE, counter |-> NoRecord]
    /\ lastKey = 0
    /\ used = [k \in KeyIds |-> NoValue]
    /\ disturbed = FALSE

-----------------------------------------------------------------------------
(* Keys                                                                    *)

\* Mutant of InstallLinkKey: the reservation is queued before the key.
InstallReservationFirst ==
    /\ HasRoom /\ MakesKey
    /\ lastKey' = lastKey + 1
    /\ entry' = Requested(Fresh(lastKey + 1, TRUE))
    /\ actions' = actions \o Request(Fresh(lastKey + 1, TRUE)) \o <<Persist>>
    /\ disturbed' = (disturbed \/ Overtakes)
    /\ UNCHANGED <<session, nv, used>>

\* install_link_key: an install code, a CBKE or a provisioned key.
InstallLinkKey ==
    /\ HasRoom /\ MakesKey
    /\ lastKey' = lastKey + 1
    /\ entry' = Requested(Fresh(lastKey + 1, TRUE))
    /\ actions' = actions \o <<Persist>> \o Request(Fresh(lastKey + 1, TRUE))
    /\ disturbed' = (disturbed \/ Overtakes)
    /\ UNCHANGED <<session, nv, used>>

\* A transported application link key is installed verified, a transported
\* Trust Center link key, or one the Trust Center has handed out, replaces
\* the entry's and is unverified. The reservation is left to poll_timers.
TransportKey(usable) ==
    /\ HasRoom /\ MakesKey
    /\ ~usable => entry # NoEntry
    /\ lastKey' = lastKey + 1
    /\ entry' = Fresh(lastKey + 1, usable)
    /\ actions' = Append(actions, Persist)
    /\ disturbed' = (disturbed \/ Overtakes)
    /\ UNCHANGED <<session, nv, used>>

\* set_negotiated_key by the responder of a negotiation, the Trust Center:
\* it is never the initiator towards the same partner.
SetNegotiatedKey ==
    /\ HasRoom /\ MakesKey
    /\ entry # NoEntry
    /\ session = NoSession
    /\ lastKey' = lastKey + 1
    /\ entry' = Requested(Fresh(lastKey + 1, FALSE))
    /\ actions' = actions \o <<Persist>> \o Request(Fresh(lastKey + 1, FALSE))
    /\ disturbed' = (disturbed \/ Overtakes)
    /\ UNCHANGED <<session, nv, used>>

\* Verify Key at the responder, or Confirm Key or the network key at the
\* initiator, whose session is over when it was waiting for this.
VerifyKey ==
    /\ HasRoom
    /\ entry # NoEntry
    /\ entry' = [entry EXCEPT !.usable = TRUE]
    /\ session' = IF session.phase = "verifying" THEN NoSession ELSE session
    /\ actions' = Append(actions, Persist)
    /\ UNCHANGED <<nv, lastKey, used, disturbed>>

\* The entry is removed (a device that left, a joiner that was turned away).
RemoveKey ==
    /\ HasRoom
    /\ entry # NoEntry
    /\ entry' = NoEntry
    /\ actions' = Append(actions, Persist)
    /\ UNCHANGED <<session, nv, lastKey, used, disturbed>>

-----------------------------------------------------------------------------
(* Key negotiation, initiator side                                         *)

\* start_key_negotiation backs the entry up, its counter included.
DlkStart ==
    /\ session = NoSession
    /\ session' = [phase |-> "started", backup |-> entry, key |-> NoKey]
    /\ UNCHANGED <<entry, actions, nv, lastKey, used, disturbed>>

\* on_key_negotiation_response installs the derived key unverified; the same
\* answer received twice derives the same key. Without an entry one is
\* installed first, whose reservation the replacement then overtakes.
DlkResponse ==
    /\ Len(actions) + 4 <= QueueCapacity
    /\ session # NoSession
    /\ session.phase = "started" => MakesKey
    /\ LET key == IF session.phase = "started" THEN lastKey + 1 ELSE session.key
           new == Fresh(key, FALSE)
           installed == IF entry = NoEntry THEN <<Persist>> \o Request(new) ELSE <<>>
       IN  /\ lastKey' = IF session.phase = "started" THEN key ELSE lastKey
           /\ session' = [session EXCEPT !.phase = "verifying", !.key = key]
           /\ entry' = Requested(new)
           /\ actions' = actions \o installed \o <<Persist>> \o Request(new)
    /\ disturbed' = (disturbed \/ Overtakes)
    /\ UNCHANGED <<nv, used>>

\* abort_key_negotiation after a refusal, a failed confirmation or the
\* deadline: the backup is installed as it was, or the entry removed.
DlkAbort ==
    /\ HasRoom
    /\ session # NoSession
    /\ session' = NoSession
    /\ IF session.backup = NoEntry
       THEN entry' = NoEntry /\ UNCHANGED <<actions, disturbed>>
       ELSE /\ entry' = Requested(session.backup)
            /\ actions' = actions \o <<Persist>> \o Request(session.backup)
            /\ disturbed' = TRUE
    /\ UNCHANGED <<nv, lastKey, used>>

-----------------------------------------------------------------------------
(* Securing frames                                                         *)

\* secure_outgoing.
SecureFrame ==
    /\ entry # NoEntry /\ entry.usable
    /\ CanAllocate(entry.outgoing)
    /\ used' = [used EXCEPT ![entry.key] =
                   IF entry.outgoing.next > @ THEN entry.outgoing.next ELSE @]
    /\ entry' = [entry EXCEPT !.outgoing = Allocate(@)]
    /\ UNCHANGED <<session, actions, nv, lastKey, disturbed>>

\* A frame that must wait, and every poll_timers, ask for reservations.
RequestReservations ==
    /\ HasRoom
    /\ Request(entry) # <<>>
    /\ entry' = Requested(entry)
    /\ actions' = actions \o Request(entry)
    /\ UNCHANGED <<session, nv, lastKey, used, disturbed>>

-----------------------------------------------------------------------------
(* The runtime: pump_aps_actions                                           *)

\* CounterReservation: the record is written and the entry told. The frames
\* that waited for it are released, and secured as SecureFrame.
PumpReserveOk ==
    /\ actions # <<>> /\ Head(actions).kind = "reserve"
    /\ nv' = [nv EXCEPT !.counter = Head(actions).bound]
    /\ entry' = IF entry = NoEntry THEN entry
                ELSE [entry EXCEPT !.outgoing = CommitReservation(@, Head(actions).bound)]
    /\ actions' = Tail(actions)
    /\ UNCHANGED <<session, lastKey, used, disturbed>>

\* Mutant of PumpReserveFails: the entry is not told.
PumpReserveForgets ==
    /\ actions # <<>> /\ Head(actions).kind = "reserve"
    /\ actions' = Tail(actions)
    /\ UNCHANGED <<entry, session, nv, lastKey, used, disturbed>>

PumpReserveFails ==
    /\ actions # <<>> /\ Head(actions).kind = "reserve"
    /\ entry' = IF entry = NoEntry THEN entry
                ELSE [entry EXCEPT !.outgoing = AbortReservation(@)]
    /\ actions' = Tail(actions)
    /\ UNCHANGED <<session, nv, lastKey, used, disturbed>>

\* The records after the first n writes of persist_link_keys: every LinkKey
\* record is erased, the entry's stored, and the index in Aib written.
Saved(n) ==
    LET erased == IF n >= 1 THEN WithoutKey(nv) ELSE nv
        stored == IF n >= 2 /\ entry # NoEntry
                  THEN [erased EXCEPT !.key = entry.key,
                                      !.usable = entry.usable,
                                      !.bound = entry.outgoing.reserved]
                  ELSE erased
    IN  IF n >= 3 THEN [stored EXCEPT !.listed = (entry # NoEntry)] ELSE stored

\* Persist(LinkKeys): the first error ends it and is ignored. A power loss
\* in the middle is this step followed by Restart.
PumpPersist(n) ==
    /\ actions # <<>> /\ Head(actions).kind = "persist"
    /\ nv' = Saved(n)
    /\ actions' = Tail(actions)
    /\ disturbed' = (disturbed \/ n = 0)
    /\ UNCHANGED <<entry, session, lastKey, used>>

\* erase_persisted: LinkKey, ApsFrameCounter and Aib, in this order; an
\* error or a power loss stops it.
FactoryReset(n) ==
    /\ nv' = [WithoutKey(nv) EXCEPT
                        !.counter = IF n >= 2 THEN NoRecord ELSE @,
                        !.listed = IF n >= 3 THEN FALSE ELSE @]
    /\ UNCHANGED <<entry, session, actions, lastKey, used, disturbed>>

\* Power loss, boot and restore_link_keys.
Restart ==
    /\ entry' = IF nv.listed /\ nv.key # NoKey
                THEN [key |-> nv.key, usable |-> nv.usable,
                      outgoing |-> Restore(RestoredBound)]
                ELSE NoEntry
    /\ session' = NoSession
    /\ actions' = <<>>
    /\ UNCHANGED <<nv, lastKey, used, disturbed>>

Next ==
    \/ InstallLinkKey
    \/ \E usable \in BOOLEAN : TransportKey(usable)
    \/ SetNegotiatedKey
    \/ VerifyKey
    \/ RemoveKey
    \/ DlkStart
    \/ DlkResponse
    \/ DlkAbort
    \/ SecureFrame
    \/ RequestReservations
    \/ PumpReserveOk
    \/ PumpReserveFails
    \/ \E n \in 0 .. 3 : PumpPersist(n)
    \/ \E n \in 1 .. 3 : FactoryReset(n)
    \/ Restart

Spec == Init /\ [][Next]_vars

-----------------------------------------------------------------------------
(* Properties                                                              *)

\* The entry, the negotiation, the queue and the records have their types;
\* every bound stays a u32 (OutgoingCounter::reserve saturates).
TypeInvariant ==
    /\ entry \in Entry \cup {NoEntry}
    /\ session \in Session \cup {NoSession}
    /\ actions \in Seq(ActionType)
    /\ nv \in Records
    /\ lastKey \in 0 .. MaxKeys
    /\ used \in [KeyIds -> {NoValue} \cup (0 .. MaxCounter)]
    /\ disturbed \in BOOLEAN

\* The value the next frame would be secured with has not been used with the
\* entry's key: link keys, their replacement, their negotiation and their
\* restore never lead to two frames with the same key and value.
FreshLinkNonce ==
    entry # NoEntry /\ CanAllocate(entry.outgoing)
        => used[entry.key] < entry.outgoing.next

\* FreshLinkNonce holds as long as no negotiation restored its backup, no
\* key replaced another while a reservation was on its way to storage, and
\* no failed save was followed by more writes.
FreshUntilDisturbed == ~disturbed => FreshLinkNonce

\* The key a restart would restore resumes above every value used with it.
RestoredLinkIsFresh ==
    nv.key # NoKey => used[nv.key] < RestoredBound \/ used[nv.key] = NoValue

\* RestoredLinkIsFresh under the conditions of FreshUntilDisturbed.
RestoredUntilDisturbed == ~disturbed => RestoredLinkIsFresh

\* A reservation of the entry that is in flight is queued, or else the entry
\* would never ask for another and its frames wait forever.
InFlightUntilDisturbed ==
    ~disturbed /\ entry # NoEntry /\ entry.outgoing.inFlight # NoReservation =>
        \E i \in DOMAIN actions : actions[i] = Reserve(entry.outgoing.inFlight)
=============================================================================
