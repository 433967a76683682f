--------------------------- MODULE StatefulReader ---------------------------
(***************************************************************************)
(* The reliable readers of src/src/cpp/rtps/reader/StatefulReader.cpp with *)
(* their DataReaderHistory, each matched with at most the one writer of    *)
(* Wire.  Every action runs under the reader's mp_mutex.                   *)
(***************************************************************************)
EXTENDS WriterProxy, Wire

CONSTANTS
    KeepAllReaders,     \* readers of history kind KEEP_ALL (others: KEEP_LAST)
    ReaderDepth,        \* max_samples (KEEP_ALL) or depth (KEEP_LAST)
    LeaseOnly,          \* writers are only unmatched by lease expiration
    MaxAcknacks         \* bound: acknack_count_

ASSUME ReaderAssumption ==
    /\ KeepAllReaders \subseteq Readers /\ LeaseOnly \in BOOLEAN
    /\ ReaderDepth \in Nat \ {0} /\ MaxAcknacks \in Nat

VARIABLES
    wp,                 \* matched_writers_ and the proxies
    rhist,              \* numbers in the reader history
    record,             \* history_record: last number notified
    acknack_count,      \* acknack_count_
    notified            \* numbers ever notified to the user

readerVars == <<wp, rhist, record, acknack_count, notified>>

ReaderInit ==
    /\ wp = [r \in Readers |-> StoppedWriterProxy]
    /\ rhist = [r \in Readers |-> {}]
    /\ record = [r \in Readers |-> 0]
    /\ acknack_count = [r \in Readers |-> 0]
    /\ notified = [r \in Readers |-> {}]

-----------------------------------------------------------------------------
(* NotifyChanges(): proxy and hist are what it finds.  Everything in the   *)
(* history up to the low mark that was not notified yet is notified.       *)
NotifyChanges(r, proxy, hist) ==
    /\ wp' = [wp EXCEPT ![r] = [proxy EXCEPT !.last_notified = proxy.low_mark]]
    /\ rhist' = [rhist EXCEPT ![r] = hist]
    /\ record' = [record EXCEPT ![r] = Max({@, proxy.low_mark})]
    /\ notified' = [notified EXCEPT ![r] =
           @ \cup {s \in hist : proxy.last_notified < s /\ s <= proxy.low_mark}]

(* DataReaderHistory::received_change(): whether it takes the sample, and  *)
(* the history then.  KEEP_LAST replaces the oldest sample, or takes and   *)
(* discards one that is older than all it has.                             *)
(* Mutant: no room is kept for the missing samples. *)
HistoryAcceptsAhead(r, missing) == r \in KeepAllReaders => Cardinality(rhist[r]) < ReaderDepth

HistoryAccepts(r, missing) ==
    r \in KeepAllReaders => Cardinality(rhist[r]) + missing < ReaderDepth

(* Mutant: a full KEEP_LAST history discards the new sample. *)
HistoryAfterDiscards(r, seq) ==
    IF Cardinality(rhist[r]) < ReaderDepth THEN rhist[r] \cup {seq} ELSE rhist[r]

HistoryAfter(r, seq) ==
    IF r \in KeepAllReaders \/ Cardinality(rhist[r]) < ReaderDepth THEN rhist[r] \cup {seq}
    ELSE IF seq < Min(rhist[r]) THEN rhist[r] ELSE (rhist[r] \ {Min(rhist[r])}) \cup {seq}

(* process_data_msg() and change_received() *)
ProcessDataMsg(r, m) ==
    LET missing == UnknownMissingChangesUpTo(wp[r], m.seq)
    IN  /\ m \in toReader[r] /\ m.type = "DATA"
        /\ wp[r].alive /\ ~ChangeWasReceived(wp[r], m.seq)
        /\ \/ /\ Relevant(r, m.seq)
              /\ HistoryAccepts(r, missing)
              /\ NotifyChanges(r, ReceivedChangeSet(wp[r], m.seq), HistoryAfter(r, m.seq))
           \/ /\ ~Relevant(r, m.seq)
              /\ NotifyChanges(r, ReceivedChangeSet(wp[r], m.seq), rhist[r])
        /\ UNCHANGED <<acknack_count, wireVars>>

(* process_heartbeat_msg() *)
ProcessHeartbeatMsg(r, m) ==
    /\ m \in toReader[r] /\ m.type = "HEARTBEAT"
    /\ HeartbeatAccepted(wp[r], m.count)
    /\ NotifyChanges(r, ProcessHeartbeat(wp[r], m.first, m.last, m.count, m.final, m.liveliness),
                     rhist[r])
    /\ UNCHANGED <<acknack_count, wireVars>>

(* process_gap_msg() *)
ProcessGapMsg(r, m) ==
    /\ m \in toReader[r] /\ m.type = "GAP" /\ wp[r].alive
    /\ NotifyChanges(r, IrrelevantChangesSet(wp[r], m.seqs), rhist[r])
    /\ UNCHANGED <<acknack_count, wireVars>>

-----------------------------------------------------------------------------
(* perform_initial_ack_nack(), the callback of initial_acknack_, repeats   *)
(* until a heartbeat arrives.  It also stops when its doubling period has  *)
(* grown to 1 hour, which is beyond MaxAcknacks.                           *)
PerformInitialAckNack(r) ==
    LET asks == wp[r].hb_count = 0
    IN  /\ wp[r].init_acknack
        /\ asks => acknack_count[r] < MaxAcknacks
        /\ wp' = [wp EXCEPT ![r].init_acknack = asks]
        /\ IF asks
           THEN /\ acknack_count' = [acknack_count EXCEPT ![r] = @ + 1]
                /\ SendToWriter(r, Acknack(0, {}, acknack_count[r] + 1, FALSE))
           ELSE UNCHANGED <<acknack_count, wireVars>>
        /\ UNCHANGED <<rhist, record, notified>>

(* Mutant: everything heard of is acknowledged. *)
PerformHeartbeatResponseMax(r) ==
    /\ wp[r].hb_response /\ acknack_count[r] < MaxAcknacks
    /\ wp' = [wp EXCEPT ![r].hb_response = FALSE]
    /\ acknack_count' = [acknack_count EXCEPT ![r] = @ + 1]
    /\ SendToWriter(r, Acknack(wp[r].max_seq + 1, {}, acknack_count[r] + 1, TRUE))
    /\ UNCHANGED <<rhist, record, notified>>

(* perform_heartbeat_response(), the callback of heartbeat_response_, and  *)
(* send_acknack().                                                         *)
PerformHeartbeatResponse(r) ==
    LET missing == MissingChanges(wp[r])
        answers == missing # {} \/ ~wp[r].hb_final
    IN  /\ wp[r].hb_response
        /\ answers => acknack_count[r] < MaxAcknacks
        /\ wp' = [wp EXCEPT ![r].hb_response = FALSE]
        /\ IF answers
           THEN /\ acknack_count' = [acknack_count EXCEPT ![r] = @ + 1]
                /\ SendToWriter(r, Acknack(wp[r].low_mark + 1, missing,
                                           acknack_count[r] + 1, missing = {}))
           ELSE UNCHANGED <<acknack_count, wireVars>>
        /\ UNCHANGED <<rhist, record, notified>>

-----------------------------------------------------------------------------
(* matched_writer_add_edp() for a remote writer. *)
MatchedWriterAdd(r) ==
    /\ ~wp[r].alive
    /\ wp' = [wp EXCEPT ![r] = StartWriterProxy(record[r])]
    /\ UNCHANGED <<rhist, record, acknack_count, notified, wireVars>>

(* Mutant: the record is erased also when a lease expires. *)
MatchedWriterRemoveForgets(r, removed_by_lease) ==
    /\ MayUnmatch /\ wp[r].alive /\ (LeaseOnly => removed_by_lease)
    /\ rhist' = [rhist EXCEPT ![r] = {s \in @ : s <= record[r]}]
    /\ record' = [record EXCEPT ![r] = 0]
    /\ wp' = [wp EXCEPT ![r] = StoppedWriterProxy]
    /\ UNCHANGED <<acknack_count, notified, wireVars>>

(* matched_writer_remove(): only the expiration of a lease keeps the       *)
(* record of what was notified.                                            *)
MatchedWriterRemove(r, removed_by_lease) ==
    /\ MayUnmatch /\ wp[r].alive /\ (LeaseOnly => removed_by_lease)
    /\ rhist' = [rhist EXCEPT ![r] = {s \in @ : s <= record[r]}]
    /\ record' = [record EXCEPT ![r] = IF removed_by_lease THEN @ ELSE 0]
    /\ wp' = [wp EXCEPT ![r] = StoppedWriterProxy]
    /\ UNCHANGED <<acknack_count, notified, wireVars>>

(* DataReader::take_next_sample(): begin_sample_access_nts() hides samples *)
(* above the low mark of a matched writer.                                 *)
TakeNextSample(r) ==
    /\ rhist[r] # {}
    /\ wp[r].alive => Min(rhist[r]) <= wp[r].low_mark
    /\ rhist' = [rhist EXCEPT ![r] = @ \ {Min(@)}]
    /\ UNCHANGED <<wp, record, acknack_count, notified, wireVars>>

ReaderNext ==
    \E r \in Readers :
        \/ \E m \in toReader[r] :
              \/ ProcessDataMsg(r, m)
              \/ ProcessHeartbeatMsg(r, m)
              \/ ProcessGapMsg(r, m)
        \/ PerformInitialAckNack(r)
        \/ PerformHeartbeatResponse(r)
        \/ MatchedWriterAdd(r)
        \/ \E removed_by_lease \in BOOLEAN : MatchedWriterRemove(r, removed_by_lease)
        \/ TakeNextSample(r)

=============================================================================
