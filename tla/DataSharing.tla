----------------------------- MODULE DataSharing -----------------------------
(***************************************************************************)
(* Data sharing (src/src/cpp/rtps/DataSharing): a DataWriter places its    *)
(* samples in payloads of a shared-memory pool (WriterPool) and their      *)
(* offsets in a shared ring; the DataSharingListener thread of a           *)
(* DataReader in another process follows the ring (ReaderPool) and adds    *)
(* the samples to the reader's history, from where the user reads or takes *)
(* them.  Writer and reader share no lock: each access of the reader to    *)
(* the shared memory is a step of its own, and so is each store of the     *)
(* writer that the reader can tell apart, in program order.                *)
(*                                                                         *)
(* An index of the ring is 64 bits wide, a loop counter over a position;   *)
(* here it is loop * Base + position.                                      *)
(***************************************************************************)
EXTENDS Integers, SequencesExt, FiniteSetsExt

CONSTANT
    Deployments     \* a set of records with the fields:
                    \*   keep_all   the writer keeps what is not acknowledged
                    \*   depth      the size of the writer's history
                    \*   expires    samples may be removed any time (lifespan, keys)
                    \*   limit      the size of the reader's history
                    \*   replaces   a full reader history drops its oldest sample
                    \*   writes     bound: samples written

ASSUME DataSharingAssumption ==
    \A d \in Deployments :
        /\ {d.depth, d.limit, d.writes} \subseteq Nat \ {0}
        /\ d.replaces \/ (d.keep_all /\ ~d.expires)

VARIABLES
    dep,            \* the deployment, fixed
    \* shared memory
    node,           \* the payloads: sequence_number (0: unknown), data, has_been_removed
    ring,           \* history_: position -> payload
    notified_begin, notified_end,
    new_data,       \* the reader's Notification
    \* the writer
    free_payloads, free_history_size,
    changes,        \* its history: [sn, node], oldest first
    last_seq,       \* last sequence number given
    acked_below,    \* numbers below it are acknowledged
    wr,             \* the writing thread
    \* the reader
    ls,             \* the listener thread and its ReaderPool
    known,          \* WriterProxy::available_changes_max
    samples,        \* its history: [sn, node, isRead], oldest first
    us,             \* the user's thread, in read() or take()
    acks,           \* bases of the ACKNACKs sent
    returned        \* [sn, data] of the samples the user got

sharedVars == <<node, ring, notified_begin, notified_end>>
writerVars == <<free_payloads, free_history_size, changes, last_seq, acked_below, wr>>
userVars   == <<us, returned>>
dsVars     == <<dep, sharedVars, new_data, writerVars, ls, known, samples, userVars, acks>>

(* pool_size_: the history and extra_samples. *)
PoolSize == dep.depth + 1
HistorySize == PoolSize + 1

-----------------------------------------------------------------------------
(* Indices of the ring *)

Base == HistorySize + 1

Position(i) == i % Base
LoopOf(i) == i \div Base

(* advance(): the two statements of it, and both. *)
Incremented(i) == IF Position(i) + 1 <= HistorySize THEN i + 1 ELSE i
Wrapped(i) == IF Position(i) % HistorySize = 0 THEN (LoopOf(i) + 1) * Base ELSE i
Advance(i) == Wrapped(Incremented(i))

(* ensure_reading_reference_is_in_bounds() *)
Overtaken(next, end) ==
    \/ LoopOf(next) + 1 < LoopOf(end)
    \/ LoopOf(next) < LoopOf(end) /\ Position(next) <= Position(end)

InBounds(next, end) ==
    IF Overtaken(next, end) THEN Advance((LoopOf(end) - 1) * Base + Position(end)) ELSE next

(* What is between the ends of the ring, in its order; each end may be     *)
(* between the two stores of advance().                                    *)
BeginTorn == Position(notified_begin) = HistorySize
Begin == IF BeginTorn THEN Wrapped(notified_begin) ELSE notified_begin
End == IF wr.pc = "wrap" THEN Wrapped(notified_end) ELSE notified_end

RECURSIVE EntriesFrom(_)
EntriesFrom(i) ==
    IF i = End THEN <<>> ELSE <<i>> \o EntriesFrom(Advance(i))

-----------------------------------------------------------------------------
Init ==
    /\ dep \in Deployments
    /\ node = [n \in 1..PoolSize |-> [seq |-> 0, data |-> 0, removed |-> FALSE]]
    /\ ring = [p \in 0..(HistorySize - 1) |-> 1]
    /\ notified_begin = 0 /\ notified_end = 0 /\ new_data = dep.keep_all
    /\ free_payloads = [n \in 1..PoolSize |-> n] /\ free_history_size = PoolSize
    /\ changes = <<>> /\ last_seq = 0 /\ acked_below = 1
    /\ wr = [pc |-> "idle", node |-> 0]
    /\ ls = [pc |-> IF dep.keep_all THEN "wait" ELSE "off", next |-> 0, last |-> 0, until |-> 0,
             node |-> 0, sn |-> 0]
    /\ known = 0 /\ samples = <<>> /\ acks = {}
    /\ us = [pc |-> "idle", sn |-> 0, node |-> 0, data |-> 0, take |-> FALSE]
    /\ returned = {}

-----------------------------------------------------------------------------
(* The writer: DataWriterImpl::perform_create_new_change() *)

(* Mutant: a payload keeps its sequence number until it has a new one. *)
GetPayloadKeepsSequence ==
    /\ wr.pc = "idle" /\ ~BeginTorn /\ last_seq < dep.writes /\ free_payloads # <<>>
    /\ node' = [node EXCEPT ![Head(free_payloads)] = [@ EXCEPT !.removed = FALSE]]
    /\ free_payloads' = Tail(free_payloads)
    /\ wr' = [pc |-> "fill", node |-> Head(free_payloads)]
    /\ UNCHANGED <<dep, ring, notified_begin, notified_end, new_data, free_history_size, changes,
                   last_seq, acked_below, ls, known, samples, userVars, acks>>

(* get_payload(): the first free payload is reset. *)
GetPayload ==
    /\ wr.pc = "idle" /\ ~BeginTorn /\ last_seq < dep.writes /\ free_payloads # <<>>
    /\ node' = [node EXCEPT ![Head(free_payloads)] = [@ EXCEPT !.seq = 0, !.removed = FALSE]]
    /\ free_payloads' = Tail(free_payloads)
    /\ wr' = [pc |-> "fill", node |-> Head(free_payloads)]
    /\ UNCHANGED <<dep, ring, notified_begin, notified_end, new_data, free_history_size, changes,
                   last_seq, acked_below, ls, known, samples, userVars, acks>>

(* The sample is serialized to the payload. *)
Serialize ==
    /\ wr.pc = "fill"
    /\ node' = [node EXCEPT ![wr.node].data = last_seq + 1]
    /\ wr' = [wr EXCEPT !.pc = "add"]
    /\ UNCHANGED <<dep, ring, notified_begin, notified_end, new_data, free_payloads,
                   free_history_size, changes, last_seq, acked_below, ls, known, samples,
                   userVars, acks>>

(* Mutant: payloads are freed past the first one that is not removed. *)
AdvanceOverNonRemoved(marked) ==
    LET entries == EntriesFrom(Begin)
        laps == {k \in 1..Len(entries) : Position(entries[k]) = HistorySize - 1}
        n == Min({Len(entries)} \cup laps)
        back == [k \in 1..n |-> ring[Position(entries[k])]]
    IN  /\ node' = [p \in DOMAIN node |-> [marked[p] EXCEPT !.removed = @ /\ p \notin ToSet(back)]]
        /\ free_payloads' = free_payloads \o back
        /\ free_history_size' = free_history_size + n
        /\ notified_begin' = IF n = 0 THEN Begin ELSE Incremented(entries[n])

(* advance_till_first_non_removed(): payloads go back to the free list in  *)
(* the order of the ring.  notified_begin is advanced over each in shared  *)
(* memory; the loop is cut where that takes two stores.                    *)
AdvanceTillFirstNonRemoved(marked) ==
    LET entries == EntriesFrom(Begin)
        stays == {k \in 1..Len(entries) : ~marked[ring[Position(entries[k])]].removed}
        laps == {k \in 1..Len(entries) : Position(entries[k]) = HistorySize - 1}
        n == Min({Len(entries)} \cup {k - 1 : k \in stays} \cup laps)
        back == [k \in 1..n |-> ring[Position(entries[k])]]
    IN  /\ node' = [p \in DOMAIN node |-> [marked[p] EXCEPT !.removed = @ /\ p \notin ToSet(back)]]
        /\ free_payloads' = free_payloads \o back
        /\ free_history_size' = free_history_size + n
        /\ notified_begin' = IF n = 0 THEN Begin ELSE Incremented(entries[n])

(* remove_from_shared_history() and release_payload() of the i-th change *)
RemoveChange(i) ==
    /\ ~BeginTorn
    /\ changes' = RemoveAt(changes, i)
    /\ AdvanceTillFirstNonRemoved([node EXCEPT ![changes[i].node].removed = TRUE])

(* The second store of advance(notified_begin), and the rest of the loop. *)
WrapBegin ==
    /\ BeginTorn
    /\ AdvanceTillFirstNonRemoved(node)
    /\ UNCHANGED <<dep, ring, notified_end, new_data, changes, last_seq, acked_below, wr, ls, known,
                   samples, userVars, acks>>

HistoryFull == Len(changes) = dep.depth

(* Other threads take the writer's mutex between two writes, and while one *)
(* waits in try_remove_change().                                           *)
MutexFree ==
    /\ ~BeginTorn
    /\ wr.pc = "idle" \/ (wr.pc = "add" /\ HistoryFull /\ dep.keep_all)

(* prepare_change() makes room: the oldest sample goes, with KEEP_ALL only *)
(* once it is acknowledged.                                                *)
MakeRoom ==
    /\ wr.pc = "add" /\ HistoryFull
    /\ dep.keep_all => changes[1].sn < acked_below
    /\ RemoveChange(1)
    /\ UNCHANGED <<dep, ring, notified_end, new_data, last_seq, acked_below, wr, ls, known, samples,
                   userVars, acks>>

(* Room was not made in time: release_payload() of a payload that is not   *)
(* in the ring.                                                            *)
WriteTimeout ==
    /\ wr.pc = "add" /\ ~BeginTorn /\ HistoryFull /\ dep.keep_all
    /\ free_payloads' = Append(free_payloads, wr.node)
    /\ wr' = [pc |-> "idle", node |-> 0]
    /\ UNCHANGED <<dep, sharedVars, new_data, free_history_size, changes, last_seq, acked_below,
                   ls, known, samples, userVars, acks>>

(* add_change_(), then add_to_shared_history(): the sequence number is the *)
(* last of the metadata to be set ...                                      *)
AddChange ==
    /\ wr.pc = "add" /\ ~BeginTorn /\ ~HistoryFull
    /\ last_seq' = last_seq + 1
    /\ changes' = Append(changes, [sn |-> last_seq', node |-> wr.node])
    /\ node' = [node EXCEPT ![wr.node].seq = last_seq']
    /\ wr' = [wr EXCEPT !.pc = "ring"]
    /\ UNCHANGED <<dep, ring, notified_begin, notified_end, new_data, free_payloads,
                   free_history_size, acked_below, ls, known, samples, userVars, acks>>

(* ... the offset goes to the ring and notified_end is advanced, in shared *)
(* memory, with two stores.                                                *)
PutInRing ==
    /\ wr.pc = "ring"
    /\ ring' = [ring EXCEPT ![Position(notified_end)] = wr.node]
    /\ notified_end' = Incremented(notified_end)
    /\ wr' = [wr EXCEPT !.pc = "wrap"]
    /\ UNCHANGED <<dep, node, notified_begin, new_data, free_payloads, free_history_size, changes,
                   last_seq, acked_below, ls, known, samples, userVars, acks>>

WrapEnd ==
    /\ wr.pc = "wrap"
    /\ notified_end' = Wrapped(notified_end)
    /\ free_history_size' = free_history_size - 1
    /\ wr' = [wr EXCEPT !.pc = "notify"]
    /\ UNCHANGED <<dep, node, ring, notified_begin, new_data, free_payloads, changes, last_seq,
                   acked_below, ls, known, samples, userVars, acks>>

(* deliver_sample_to_datasharing() notifies the reader. *)
NotifyReader ==
    /\ wr.pc = "notify"
    /\ new_data' = TRUE
    /\ wr' = [pc |-> "idle", node |-> 0]
    /\ UNCHANGED <<dep, sharedVars, free_payloads, free_history_size, changes, last_seq,
                   acked_below, ls, known, samples, userVars, acks>>

(* A sample goes that need not be the oldest: its lifespan ends, it is     *)
(* the oldest of its instance, or remove_instance_changes() drops it.      *)
Expire ==
    /\ dep.expires /\ MutexFree
    /\ \E i \in 1..Len(changes) : RemoveChange(i)
    /\ UNCHANGED <<dep, ring, notified_end, new_data, last_seq, acked_below, wr, ls, known, samples,
                   userVars, acks>>

(* acked_changes_set(): ACKNACKs may be lost, late and out of order. *)
ReceiveAck ==
    /\ MutexFree
    /\ \E base \in acks : base > acked_below /\ acked_below' = base
    /\ UNCHANGED <<dep, sharedVars, new_data, free_payloads, free_history_size, changes, last_seq,
                   wr, ls, known, samples, userVars, acks>>

-----------------------------------------------------------------------------
(* The listener thread: DataSharingListener *)

ListenerGoes(pc) == ls' = [ls EXCEPT !.pc = pc]

listenerFrame == <<dep, sharedVars, writerVars, known, samples, userVars, acks>>

(* add_datasharing_writer() of a non volatile reader, and the simulated    *)
(* notification.                                                           *)
AddDatasharingWriter ==
    /\ ls.pc = "off"
    /\ ls' = [ls EXCEPT !.pc = "wait", !.next = notified_begin]
    /\ new_data' = TRUE
    /\ UNCHANGED listenerFrame

(* run() is woken up; process_new_data() forgets the notification ... *)
ProcessNewData ==
    /\ ls.pc = "wait" /\ new_data
    /\ new_data' = FALSE
    /\ ListenerGoes("end")
    /\ UNCHANGED listenerFrame

(* ... and then reads notified_end. *)
ReadEnd ==
    /\ ls.pc = "end"
    /\ ls' = [ls EXCEPT !.pc = "next", !.until = notified_end]
    /\ UNCHANGED <<new_data, listenerFrame>>

Checked == IF ls.next < ls.until THEN InBounds(ls.next, notified_end) ELSE ls.next

(* get_next_unread_payload(): nothing is left up to until; the listener    *)
(* waits for the next notification.                                        *)
NoneUnread ==
    /\ ls.pc = "next" /\ Checked >= ls.until
    /\ ls' = [ls EXCEPT !.pc = "wait", !.next = Checked]
    /\ UNCHANGED <<new_data, listenerFrame>>

FirstBoundsCheck ==
    /\ ls.pc = "next" /\ Checked < ls.until
    /\ ls' = [ls EXCEPT !.pc = "offset", !.next = Checked]
    /\ UNCHANGED <<new_data, listenerFrame>>

ReadOffset ==
    /\ ls.pc = "offset" /\ Position(ls.next) < HistorySize
    /\ ls' = [ls EXCEPT !.pc = "seq", !.node = ring[Position(ls.next)]]
    /\ UNCHANGED <<new_data, listenerFrame>>

(* A reader that was matched between the two stores of                     *)
(* advance(notified_begin) reads past the end of history_: what it does    *)
(* from here on is undefined, and nothing is said of it.                   *)
ReadOffsetOutOfBounds ==
    /\ ls.pc = "offset" /\ Position(ls.next) = HistorySize
    /\ ListenerGoes("undefined")
    /\ UNCHANGED <<new_data, listenerFrame>>

(* read_from_shared_history() reads the sequence number, the rest, ... *)
ReadSequence ==
    /\ ls.pc = "seq"
    /\ ls' = [ls EXCEPT !.pc = "check", !.sn = node[ls.node].seq]
    /\ UNCHANGED <<new_data, listenerFrame>>

(* ... and the sequence number again: a payload that changed is skipped;   *)
(* one whose number went backwards is read again.                          *)
CheckSequence ==
    LET seq == node[ls.node].seq
    IN  /\ ls.pc = "check"
        /\ ls' = IF seq = 0 \/ seq # ls.sn THEN [ls EXCEPT !.pc = "next", !.next = Advance(@)]
                 ELSE [ls EXCEPT !.pc = IF ls.last >= seq THEN "next" ELSE "bounds"]
        /\ UNCHANGED <<new_data, listenerFrame>>

(* "We may have been taken over and read a payload that is too far         *)
(* forward. Discard and continue"                                          *)
SecondBoundsCheck ==
    LET moved == InBounds(ls.next, notified_end)
    IN  /\ ls.pc = "bounds"
        /\ ls' = IF moved # ls.next THEN [ls EXCEPT !.pc = "next", !.next = moved]
                 ELSE [ls EXCEPT !.pc = "process", !.last = ls.sn]
        /\ UNCHANGED <<new_data, listenerFrame>>

(* Mutant: what is received is acknowledged. *)
AckForReceived(h, up_to, sn) ==
    {up_to + 1}

(* send_datasharing_ack() for number sn, once the history is h. *)
AckFor(h, up_to, sn) ==
    LET unread == {i \in 1..Len(h) : ~h[i].isRead}
    IN  IF unread = {} THEN {up_to + 1}
        ELSE LET first == h[Min(unread)].sn IN IF first < sn THEN {} ELSE {first}

(* Mutant: the reader does not advance to the next payload. *)
ProcessDataMsgStays ==
    LET full == Len(samples) = dep.limit
        kept == IF full THEN Tail(samples) ELSE samples
        new == [sn |-> ls.sn, node |-> ls.node, isRead |-> FALSE]
    IN  /\ ls.pc = "process" /\ us.pc = "idle"
        /\ IF full /\ ~dep.replaces
           THEN /\ known' = ls.sn - 1
                /\ ls' = [ls EXCEPT !.pc = "next"]
                /\ UNCHANGED <<samples, acks>>
           ELSE /\ known' = ls.sn
                /\ samples' = Append(kept, new)
                /\ acks' = IF full THEN acks \cup AckFor(kept, ls.sn - 1, Head(samples).sn) ELSE acks
                /\ ls' = [ls EXCEPT !.pc = "next"]
        /\ UNCHANGED <<dep, sharedVars, new_data, writerVars, userVars>>

(* process_gap_msg() of what was skipped and process_data_msg(), under the *)
(* reader's mutex: a full history rejects the sample, or drops its oldest. *)
ProcessDataMsg ==
    LET full == Len(samples) = dep.limit
        kept == IF full THEN Tail(samples) ELSE samples
        new == [sn |-> ls.sn, node |-> ls.node, isRead |-> FALSE]
    IN  /\ ls.pc = "process" /\ us.pc = "idle"
        /\ IF full /\ ~dep.replaces
           THEN /\ known' = ls.sn - 1
                /\ ls' = [ls EXCEPT !.pc = "next"]
                /\ UNCHANGED <<samples, acks>>
           ELSE /\ known' = ls.sn
                /\ samples' = Append(kept, new)
                /\ acks' = IF full THEN acks \cup AckFor(kept, ls.sn - 1, Head(samples).sn) ELSE acks
                /\ ls' = [ls EXCEPT !.pc = "next", !.next = IF @ < notified_end THEN Advance(@) ELSE @]
        /\ UNCHANGED <<dep, sharedVars, new_data, writerVars, userVars>>

-----------------------------------------------------------------------------
(* The user: ReadTakeCommand::add_instance(), under the reader's mutex *)

Valid(c) == node[c.node].seq = c.sn

(* remove_change_sub() of the sample the user holds. *)
RemoveSample ==
    LET h == SelectSeq(samples, LAMBDA c : c.sn # us.sn)
    IN  samples' = h /\ acks' = acks \cup AckFor(h, known, us.sn)

(* begin_sample_access_nts() *)
BeginAccess ==
    /\ us.pc = "idle"
    /\ \E i \in 1..Len(samples), take \in BOOLEAN :
          /\ take \/ ~samples[i].isRead
          /\ us' = [pc |-> "validate", sn |-> samples[i].sn, node |-> samples[i].node,
                    data |-> 0, take |-> take]
    /\ UNCHANGED <<dep, sharedVars, new_data, writerVars, ls, known, samples, acks, returned>>

(* check_datasharing_validity() before ... *)
ValidateBefore ==
    /\ us.pc = "validate"
    /\ IF Valid(us) THEN us' = [us EXCEPT !.pc = "copy"] /\ UNCHANGED <<samples, acks>>
       ELSE us' = [us EXCEPT !.pc = "idle"] /\ RemoveSample
    /\ UNCHANGED <<dep, sharedVars, new_data, writerVars, ls, known, returned>>

(* ... add_sample(), ... *)
AddSample ==
    /\ us.pc = "copy"
    /\ us' = [us EXCEPT !.pc = "read", !.data = node[us.node].data]
    /\ UNCHANGED <<dep, sharedVars, new_data, writerVars, ls, known, samples, acks, returned>>

(* ... end_sample_access_nts(), which acknowledges, ... *)
EndAccess ==
    LET h == [i \in 1..Len(samples) |->
                 IF samples[i].sn = us.sn THEN [samples[i] EXCEPT !.isRead = TRUE] ELSE samples[i]]
    IN  /\ us.pc = "read"
        /\ samples' = h
        /\ acks' = acks \cup AckFor(h, known, us.sn)
        /\ us' = [us EXCEPT !.pc = "revalidate"]
        /\ UNCHANGED <<dep, sharedVars, new_data, writerVars, ls, known, returned>>

(* ... and check_datasharing_validity() after. *)
ValidateAfter ==
    /\ us.pc = "revalidate"
    /\ us' = [us EXCEPT !.pc = "idle"]
    /\ returned' = IF Valid(us) THEN returned \cup {[sn |-> us.sn, data |-> us.data]} ELSE returned
    /\ IF us.take \/ ~Valid(us) THEN RemoveSample ELSE UNCHANGED <<samples, acks>>
    /\ UNCHANGED <<dep, sharedVars, new_data, writerVars, ls, known>>

-----------------------------------------------------------------------------
WriterStep ==
    \/ Serialize \/ MakeRoom \/ WrapBegin \/ WriteTimeout \/ AddChange \/ PutInRing \/ WrapEnd \/ NotifyReader

ListenerStep ==
    \/ ProcessNewData \/ ReadEnd \/ NoneUnread \/ FirstBoundsCheck \/ ReadOffset
    \/ ReadOffsetOutOfBounds \/ ReadSequence \/ CheckSequence \/ SecondBoundsCheck \/ ProcessDataMsg

UserStep == ValidateBefore \/ AddSample \/ EndAccess \/ ValidateAfter

Next ==
    \/ GetPayload \/ WriterStep \/ Expire \/ ReceiveAck
    \/ AddDatasharingWriter \/ ListenerStep
    \/ BeginAccess \/ UserStep

Spec == Init /\ [][Next]_dsVars

(* The threads run, and the user goes on reading. *)
FairSpec ==
    /\ Spec
    /\ WF_dsVars(WriterStep) /\ WF_dsVars(ListenerStep)
    /\ WF_dsVars(BeginAccess \/ UserStep)

-----------------------------------------------------------------------------
Entries == ToSet(EntriesFrom(Begin))
InRing == {ring[Position(e)] : e \in Entries}
Held == IF wr.pc \in {"fill", "add", "ring"} THEN {wr.node} ELSE {}

(* Each payload is in the ring, in the free list or in the writer's hands, *)
(* and in one of them only; the ring has room for all of them.             *)
TypeOK ==
    /\ Cardinality(InRing) = Cardinality(Entries)
    /\ Cardinality(InRing) + Len(free_payloads) + Cardinality(Held) = PoolSize
    /\ InRing \cup ToSet(free_payloads) \cup Held = 1..PoolSize
    /\ free_history_size = PoolSize - Cardinality(Entries) + (IF wr.pc = "wrap" THEN 1 ELSE 0)

(* A payload is not given to another sample while its sample is in the     *)
(* writer's history, in whatever order samples are removed: the comment of *)
(* remove_from_shared_history().                                           *)
ChangesKeepPayload ==
    \A i \in 1..Len(changes) :
        LET n == changes[i].node
        IN  /\ node[n].seq = changes[i].sn /\ node[n].data = changes[i].sn /\ ~node[n].removed
            /\ n \in InRing \/ n = wr.node

(* What read() and take() copy for the user is the sample, though the      *)
(* writer may reuse its payload any time; but for a reader that started    *)
(* past the end of history_, of which ReadOffsetOutOfBounds is the end.    *)
ReturnedIsIntact == \A r \in returned : r.data = r.sn

Lossless == dep.keep_all /\ ~dep.expires

(* "ACKNACK for datasharing writers is done for changes with status READ": *)
(* what a KEEP_ALL writer sent is not overwritten before it is read.       *)
UnreadIsKept ==
    Lossless => \A i \in 1..Len(samples) : ~samples[i].isRead => Valid(samples[i])

(* The listener skips no sample of a KEEP_ALL writer, though it reads the  *)
(* ring while the writer moves both its ends.                              *)
NothingSkipped == Lossless /\ ls.pc = "process" => ls.sn = known + 1

(* A listener that sleeps has read all that was notified. *)
NoLostNotification ==
    ls.pc = "wait" /\ ~new_data /\ ls.next < notified_end => wr.pc \in {"wrap", "notify"}

(* Each sample of a KEEP_ALL writer gets to the reader's history: again    *)
(* and again the listener has caught up with the writer.  Of a reader that *)
(* never has to reject a sample: get_next_unread_payload() has taken a     *)
(* rejected one as read, and does not return it again.                     *)
PendingIsProcessed ==
    []<>(Lossless /\ (dep.replaces \/ dep.writes <= dep.limit) => known = last_seq)

(* A payload has one owner, and none is free or reused while its sample is *)
(* in the writer's history.                                                *)
PayloadsExact == TypeOK /\ ChangesKeepPayload

(* The reader misses nothing: its listener skips and sleeps over nothing,  *)
(* and what it has not read is not acknowledged, so not overwritten.  The  *)
(* reader of a KEEP_ALL writer is here matched from the start: it reads    *)
(* notified_end between its two stores, never notified_begin.              *)
NothingMissed == UnreadIsKept /\ NothingSkipped /\ NoLostNotification

=============================================================================
