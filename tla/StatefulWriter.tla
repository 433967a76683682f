--------------------------- MODULE StatefulWriter ---------------------------
(***************************************************************************)
(* The reliable writer of src/src/cpp/rtps/writer/StatefulWriter.cpp with  *)
(* its WriterHistory, its flow controller queue and its timers, serving    *)
(* remote reliable readers over Wire.  Every action runs under mp_mutex.   *)
(***************************************************************************)
EXTENDS ReaderProxy, Wire

CONSTANTS
    VolatileReaders,    \* readers whose durability is VOLATILE
    VolatileWriter,     \* the durability of the writer is VOLATILE
    KeepAll,            \* history kind: KEEP_ALL or (FALSE) KEEP_LAST
    PushMode,           \* push_mode_
    SyncPublish,        \* flow controller of SYNCHRONOUS publish mode
    ManualLiveliness,   \* liveliness kind of the writer: MANUAL_BY_TOPIC
    SendMayFail,        \* a send may exceed max_blocking_time (timeout)
    MaxSamples,         \* maximumReservedCaches of the history
    MaxSeq,             \* bound: number of samples published
    MaxHeartbeats       \* bound: heartbeat_count_

ASSUME WriterAssumption ==
    /\ VolatileReaders \subseteq Readers
    /\ {VolatileWriter, KeepAll, PushMode, SyncPublish,
        ManualLiveliness, SendMayFail} \subseteq BOOLEAN
    /\ VolatileWriter => VolatileReaders = Readers
    /\ {MaxSamples, MaxSeq, MaxHeartbeats} \subseteq Nat

VARIABLES
    history,            \* numbers in m_changes
    last_seq,           \* m_lastCacheChangeSeqNum
    rp,                 \* matched_remote_readers_ and the proxies
    queue,              \* samples linked in the flow controller
    sending,            \* sample the publishing thread delivers, or 0
    periodic_hb,        \* periodic_hb_event_ is armed
    nack_response,      \* nack_response_event_ is armed
    hb_count,           \* heartbeat_count_
    next_all_acked,     \* next_all_acked_notify_sequence_
    join_seq            \* per reader, last number it is not owed

writerVars == <<history, last_seq, rp, queue, sending, periodic_hb,
                nack_response, hb_count, next_all_acked, join_seq>>

NextSeq == last_seq + 1

Matched == {r \in Readers : rp[r].active}

(* No thread is inside the writer: mp_mutex can be taken. *)
Unlocked == sending = 0

WriterInit ==
    /\ history = {} /\ last_seq = 0
    /\ rp = [r \in Readers |-> StoppedReaderProxy]
    /\ queue = {} /\ sending = 0
    /\ periodic_hb = FALSE /\ nack_response = FALSE
    /\ hb_count = 0 /\ next_all_acked = 1
    /\ join_seq = [r \in Readers |-> 0]

-----------------------------------------------------------------------------
(* What the writer sends *)

ToEach(rs, msgs) == [r \in Readers |-> IF r \in rs THEN msgs ELSE {}]

(* send_heartbeat_nts_(number_of_readers): whether it sends, and what.     *)
SendsHeartbeat(n, hist, liveliness) == n > 0 /\ (hist # {} \/ n = 1 \/ liveliness)

HeartbeatOf(hist, next, count, final, liveliness) ==
    IF hist = {} THEN Heartbeat(next, next - 1, count, final, liveliness)
                 ELSE Heartbeat(Min(hist), Max(hist), count, final, liveliness)

(* add_gaps_for_holes_in_history() *)
GapsForHoles(hist) ==
    LET holes == IF hist = {} THEN {} ELSE (Min(hist)..Max(hist)) \ hist
    IN  IF holes = {} THEN {} ELSE {Gap(holes)}

GapIfAny(seqs) == IF seqs = {} THEN {} ELSE {Gap(seqs)}

(* Mutant: the number after the lowest low mark also counts as received. *)
CheckAckedStatusPastLow(rps, hist, next, q) ==
    LET matched  == {r \in Readers : rps[r].active}
        min_low  == IF matched = {} THEN next - 1 ELSE Min({rps[r].low_mark : r \in matched})
        by_all   == {s \in hist : s <= min_low + 1}
    IN  /\ rp' = rps /\ next_all_acked' = min_low + 1
        /\ history' = IF VolatileWriter THEN hist \ by_all ELSE hist
        /\ queue'   = IF VolatileWriter THEN q \ by_all ELSE q

(* check_acked_status(): rps and hist are the proxies and the history it   *)
(* finds.  A VOLATILE writer removes what all matched readers acknowledged *)
(* (DataWriterImpl's on_writer_change_received_by_all).                    *)
CheckAckedStatus(rps, hist, next, q) ==
    LET matched  == {r \in Readers : rps[r].active}
        min_low  == IF matched = {} THEN next - 1 ELSE Min({rps[r].low_mark : r \in matched})
        all_acked == \A r \in matched : DOMAIN rps[r].changes = {}
        by_all   == {s \in hist : next_all_acked <= s /\ s <= min_low}
    IN  /\ rp' = rps
        /\ next_all_acked' = IF all_acked THEN next
                             ELSE IF hist # {} /\ next_all_acked <= min_low THEN min_low + 1
                             ELSE next_all_acked
        /\ history' = IF VolatileWriter THEN hist \ by_all ELSE hist
        /\ queue'   = IF VolatileWriter THEN q \ by_all ELSE q

-----------------------------------------------------------------------------
(* WriterHistory::add_change_ and unsent_change_added_to_history(). *)
UnsentChangeAddedToHistory ==
    /\ Unlocked /\ last_seq < MaxSeq
    /\ Cardinality(history) < MaxSamples
    /\ LET seq    == NextSeq
           status == IF PushMode THEN "UNSENT" ELSE "UNACKNOWLEDGED"
           rps    == [r \in Readers |-> IF rp[r].active
                        THEN AddChange(rp[r], seq, status, Relevant(r, seq)) ELSE rp[r]]
           should_be_sent == PushMode /\ \E r \in Matched : Relevant(r, seq)
       IN  /\ last_seq' = seq
           /\ IF Matched = {}
              THEN /\ CheckAckedStatus(rp, history \cup {seq}, seq + 1, queue)
                   /\ UNCHANGED <<sending, periodic_hb>>
              ELSE /\ rp' = rps /\ history' = history \cup {seq}
                   /\ queue' = IF should_be_sent /\ ~SyncPublish THEN queue \cup {seq} ELSE queue
                   /\ sending' = IF should_be_sent /\ SyncPublish THEN seq ELSE 0
                   /\ periodic_hb' = (periodic_hb \/ ~should_be_sent)
                   /\ UNCHANGED next_all_acked
    /\ UNCHANGED <<nack_response, hb_count, join_seq, wireVars>>

(* Mutant: the flow controller keeps the sample. *)
ChangeRemovedStillQueued(seq) ==
    /\ Unlocked /\ seq \in history
    /\ rp' = [r \in Readers |-> IF rp[r].active
                THEN ChangeHasBeenRemoved(rp[r], seq, history, NextSeq) ELSE rp[r]]
    /\ history' = history \ {seq}
    /\ UNCHANGED <<last_seq, queue, sending, periodic_hb, nack_response, hb_count,
                   next_all_acked, join_seq, wireVars>>

(* WriterHistory::remove_change_nts and change_removed_by_history(). *)
ChangeRemovedByHistory(seq) ==
    /\ Unlocked /\ seq \in history
    /\ queue' = queue \ {seq}
    /\ rp' = [r \in Readers |-> IF rp[r].active
                THEN ChangeHasBeenRemoved(rp[r], seq, history, NextSeq) ELSE rp[r]]
    /\ history' = history \ {seq}
    /\ UNCHANGED <<last_seq, sending, periodic_hb, nack_response, hb_count,
                   next_all_acked, join_seq, wireVars>>

(* KEEP_LAST: the history drops a sample of an instance at its depth. *)
RemoveOldSample(seq) == ~KeepAll /\ ChangeRemovedByHistory(seq)

(* Mutant: the first number not acknowledged by all may go. *)
TryRemoveNextChange ==
    /\ KeepAll /\ history # {} /\ Cardinality(history) = MaxSamples
    /\ Min(history) <= next_all_acked
    /\ ChangeRemovedByHistory(Min(history))

(* KEEP_ALL: try_remove_change() of a publisher that finds the history     *)
(* full, on its path that does not wait.                                   *)
TryRemoveChange ==
    /\ KeepAll /\ history # {} /\ Cardinality(history) = MaxSamples
    /\ Min(history) <= next_all_acked - 1
    /\ ChangeRemovedByHistory(Min(history))

-----------------------------------------------------------------------------
(* deliver_sample_to_network(): the readers the sample is unsent for, and  *)
(* those that need a GAP of their own because the hole before the sample   *)
(* is not a hole of the history.                                           *)
UnsentReaders(seq) == {r \in Matched : ChangeIsUnsent(rp[r], seq)}

GapFor(r, seq) == GapSeq(rp[r], seq, SeqNumMin(history))

GapForAll(seq) ==
    LET prev == {s \in history : s < seq}
    IN  IF prev = {} THEN 0 ELSE Max(prev) + 1

IndividualGaps(seq) ==
    {r \in UnsentReaders(seq) : GapFor(r, seq) \notin {0, GapForAll(seq)}}

GlobalGap(seq) == \E r \in UnsentReaders(seq) : GapFor(r, seq) # 0 /\ GapFor(r, seq) = GapForAll(seq)

(* send_heartbeat_piggyback_nts_(): conditions that force a heartbeat; it  *)
(* may also send one because of the bytes sent so far.                     *)
PiggybackForced == Cardinality(history) = MaxSamples \/ next_all_acked < Min(history)

(* The publishing thread delivers its sample, or the flow controller       *)
(* thread delivers a queued one; a sample not delivered is queued (again). *)
(* sent: add_data() took the sample; piggyback: a heartbeat went with it;  *)
(* delivered: the return code.  A timeout may end the delivery after any   *)
(* of the two.  The individual heartbeats of one delivery share a count:   *)
(* only the counts that one reader gets are ever compared.                 *)
DeliverSample(seq, sent, piggyback, delivered) ==
    LET readers    == UnsentReaders(seq)
        individual == IndividualGaps(seq)
        count1     == hb_count + (IF individual = {} THEN 0 ELSE 1)
        count2     == count1 + (IF piggyback THEN 1 ELSE 0)
        hb(count)  == HeartbeatOf(history, NextSeq, count, FALSE, FALSE)
        own(r)     == IF r \in individual THEN {Gap(GapFor(r, seq)..(seq - 1)), hb(count1)} ELSE {}
        global     == IF GlobalGap(seq) THEN {Gap(GapForAll(seq)..(seq - 1))} ELSE {}
        data       == IF sent THEN {Data(seq)} ELSE {}
        rps        == [r \in Readers |-> IF sent /\ r \in readers
                                         THEN FromUnsentToUnderway(rp[r], seq) ELSE rp[r]]
    IN  /\ IF Unlocked THEN seq \in queue ELSE seq = sending
        /\ IF readers = {} THEN delivered /\ ~sent /\ ~piggyback
           ELSE /\ delivered => sent /\ (PiggybackForced => piggyback)
                /\ ~delivered => SendMayFail
        /\ count2 <= MaxHeartbeats
        /\ SendToReaders([r \in Readers |->
               (IF r \in readers THEN own(r) \cup global \cup data ELSE {}) \cup
               (IF piggyback /\ r \in Matched THEN {hb(count2)} ELSE {})])
        /\ hb_count' = count2
        /\ periodic_hb' = (periodic_hb \/ \E r \in readers : ~rp[r].changes[seq].delivered)
        /\ sending' = 0
        /\ CheckAckedStatus(rps, history, NextSeq,
                            IF delivered THEN queue \ {seq} ELSE queue \cup {seq})
        /\ UNCHANGED <<last_seq, nack_response, join_seq>>

(* The flush of an individual GAP throws out of deliver_sample_nts() and   *)
(* is caught by add_new_sample_impl(), which returns without queueing.     *)
IndividualGapThrows ==
    /\ SendMayFail /\ ~Unlocked
    /\ IndividualGaps(sending) # {}
    /\ sending' = 0
    /\ UNCHANGED <<history, last_seq, rp, queue, periodic_hb, nack_response,
                   hb_count, next_all_acked, join_seq, wireVars>>

-----------------------------------------------------------------------------
(* send_periodic_heartbeat(), the callback of periodic_hb_event_. *)
SendPeriodicHeartbeat ==
    LET first   == IF history = {} THEN last_seq ELSE Min(history)
        unacked == \E r \in Matched : HasUnacknowledged(rp[r], first)
        sends   == unacked /\ SendsHeartbeat(Cardinality(Matched), history, FALSE)
        hb      == HeartbeatOf(history, NextSeq, hb_count + 1, FALSE, FALSE)
    IN  /\ Unlocked /\ periodic_hb
        /\ periodic_hb' = unacked
        /\ hb_count' = IF sends THEN hb_count + 1 ELSE hb_count
        /\ hb_count' <= MaxHeartbeats
        /\ SendToReaders(ToEach(Matched, (IF unacked THEN GapsForHoles(history) ELSE {}) \cup
                                         (IF sends THEN {hb} ELSE {})))
        /\ UNCHANGED <<history, last_seq, rp, queue, sending, nack_response,
                       next_all_acked, join_seq>>

(* send_periodic_heartbeat(true, true): a MANUAL_BY_TOPIC assertion. *)
SendLivelinessHeartbeat ==
    /\ ManualLiveliness /\ Unlocked /\ Matched # {} /\ hb_count < MaxHeartbeats
    /\ hb_count' = hb_count + 1
    /\ SendToReaders(ToEach(Matched, {HeartbeatOf(history, NextSeq, hb_count + 1, TRUE, TRUE)}))
    /\ UNCHANGED <<history, last_seq, rp, queue, sending, periodic_hb, nack_response,
                   next_all_acked, join_seq>>

(* perform_nack_response(), the callback of nack_response_event_. *)
PerformNackResponse ==
    /\ Unlocked /\ nack_response
    /\ nack_response' = FALSE
    /\ rp' = [r \in Readers |-> IF rp[r].active THEN PerformAcknackResponse(rp[r]) ELSE rp[r]]
    /\ queue' = queue \cup UNION {WithStatus(rp[r], "REQUESTED") : r \in Matched}
    /\ UNCHANGED <<history, last_seq, sending, periodic_hb, hb_count, next_all_acked,
                   join_seq, wireVars>>

(* Mutant: the periodic heartbeat is not restarted. *)
NackSupressionExpiresSilently(r) ==
    /\ Unlocked /\ rp[r].nack_supression
    /\ rp' = [rp EXCEPT ![r] = PerformNackSupression(@)]
    /\ UNCHANGED <<history, last_seq, queue, sending, periodic_hb, nack_response, hb_count,
                   next_all_acked, join_seq, wireVars>>

(* perform_nack_supression(), the callback of a nack_supression_event_. *)
NackSupressionExpires(r) ==
    /\ Unlocked /\ rp[r].nack_supression
    /\ rp' = [rp EXCEPT ![r] = PerformNackSupression(@)]
    /\ periodic_hb' = TRUE
    /\ UNCHANGED <<history, last_seq, queue, sending, nack_response, hb_count,
                   next_all_acked, join_seq, wireVars>>

-----------------------------------------------------------------------------
(* process_acknack() *)
AcknackInRange(m) == Max({m.base} \cup m.seqs) <= NextSeq

ProcessAcknack(r, m) ==
    LET acked   == AckedChangesSet([rp[r] EXCEPT !.next_acknack = m.count + 1],
                                   m.base, history, NextSeq)
        marked  == RequestedChanges(acked, m.seqs, history)
        gaps    == GapsForRequest(acked, m.seqs, history)
        request == m.base > 0
        preemptive == ~request /\ m.seqs = {} /\ ~m.final
        hb      == HeartbeatOf(history, NextSeq, hb_count + 1, FALSE, FALSE)
    IN  /\ Unlocked /\ m \in toWriter[r] /\ AcknackInRange(m)
        /\ rp[r].active /\ AcknackCountAccepted(rp[r], m.count)
        /\ hb_count' = IF preemptive THEN hb_count + 1 ELSE hb_count
        /\ hb_count' <= MaxHeartbeats
        /\ nack_response' = (nack_response \/ (request /\ marked # {}))
        /\ periodic_hb' = (periodic_hb \/ (request /\ marked = {} /\ ~m.final) \/ preemptive)
        /\ SendToReaders(ToEach({r}, (IF request THEN GapIfAny(gaps) ELSE {}) \cup
                                     (IF preemptive THEN GapsForHoles(history) \cup {hb} ELSE {})))
        /\ CheckAckedStatus([rp EXCEPT ![r] = IF request
                                              THEN RequestedChangesSet(acked, m.seqs, history)
                                              ELSE acked],
                            history, NextSeq, queue)
        /\ UNCHANGED <<last_seq, sending, join_seq>>

-----------------------------------------------------------------------------
(* matched_reader_add_edp() for a remote reliable reader. *)
MatchedReaderAdd(r) ==
    LET durable == r \notin VolatileReaders /\ ~VolatileWriter
        fresh   == StartReaderProxy(r \in VolatileReaders, history, NextSeq)
        late    == [fresh EXCEPT !.changes =
                      [s \in {t \in history : Relevant(r, t)} |-> NewChange("UNACKNOWLEDGED")]]
    IN  /\ Unlocked /\ ~rp[r].active /\ hb_count < MaxHeartbeats
        /\ rp' = [rp EXCEPT ![r] = IF durable THEN late ELSE fresh]
        /\ join_seq' = [join_seq EXCEPT ![r] = IF durable THEN fresh.low_mark ELSE last_seq]
        /\ periodic_hb' = (periodic_hb \/ history # {})
        /\ hb_count' = hb_count + 1
        /\ SendToReaders(ToEach({r}, {HeartbeatOf(history, NextSeq, hb_count + 1, FALSE, FALSE)} \cup
               (IF history # {} /\ ~durable THEN {Gap(Min(history)..last_seq)} ELSE {})))
        /\ UNCHANGED <<history, last_seq, queue, sending, nack_response, next_all_acked>>

(* matched_reader_remove() *)
MatchedReaderRemove(r) ==
    /\ MayUnmatch /\ Unlocked /\ rp[r].active
    /\ periodic_hb' = (periodic_hb /\ Matched # {r})
    /\ CheckAckedStatus([rp EXCEPT ![r] = StoppedReaderProxy], history, NextSeq, queue)
    /\ UNCHANGED <<last_seq, sending, nack_response, hb_count, join_seq, wireVars>>

WriterNext ==
    \/ UnsentChangeAddedToHistory
    \/ \E seq \in history : RemoveOldSample(seq)
    \/ TryRemoveChange
    \/ \E seq \in history, sent, piggyback, delivered \in BOOLEAN :
          DeliverSample(seq, sent, piggyback, delivered)
    \/ IndividualGapThrows
    \/ SendPeriodicHeartbeat
    \/ SendLivelinessHeartbeat
    \/ PerformNackResponse
    \/ \E r \in Readers :
          \/ NackSupressionExpires(r)
          \/ \E m \in toWriter[r] : ProcessAcknack(r, m)
          \/ MatchedReaderAdd(r)
          \/ MatchedReaderRemove(r)

=============================================================================
