---------------------------- MODULE ReaderProxy ----------------------------
(***************************************************************************)
(* The writer's view of one remote reliable reader: the bookkeeping of     *)
(* src/src/cpp/rtps/writer/ReaderProxy.cpp as functions of a proxy record. *)
(* StatefulWriter.tla turns them into actions.                             *)
(*                                                                         *)
(*   active         is_active_                                             *)
(*   volatile       durability_kind_ is VOLATILE                           *)
(*   low_mark       changes_low_mark_: all numbers up to it are done       *)
(*   changes        changes_for_reader_: number -> status, delivered_      *)
(*   next_acknack   next_expected_acknack_count_                           *)
(*   nack_supression  nack_supression_event_ is armed                      *)
(*                                                                         *)
(* hist stands for the sequence numbers in the writer history and next for *)
(* its next_sequence_number(); 0 is SequenceNumber_t::unknown().           *)
(* Only intraprocess readers get entries with status ACKNOWLEDGED, so the  *)
(* loop of acked_changes_set that skips them is not needed here.           *)
(***************************************************************************)
EXTENDS Integers, FiniteSetsExt

ChangeForReaderStatus == {"UNSENT", "REQUESTED", "UNACKNOWLEDGED", "UNDERWAY"}

ChangeForReader == [status : ChangeForReaderStatus, delivered : BOOLEAN]

(* The constructor of ChangeForReader_t followed by setStatus(). *)
NewChange(status) == [status |-> status, delivered |-> FALSE]

(* get_seq_num_min() *)
SeqNumMin(hist) == IF hist = {} THEN 0 ELSE Min(hist)

StoppedReaderProxy ==
    [active |-> FALSE, volatile |-> FALSE, low_mark |-> 0, changes |-> <<>>,
     next_acknack |-> 0, nack_supression |-> FALSE]

(* changes with an entry for each number of seqs that has none. *)
WithChanges(changes, seqs, status) ==
    [s \in DOMAIN changes \cup seqs |->
        IF s \in DOMAIN changes THEN changes[s] ELSE NewChange(status)]

WithStatus(rp, status) == {s \in DOMAIN rp.changes : rp.changes[s].status = status}

(* Mutant: seq itself is also acknowledged. *)
AckedChangesSetInclusive(rp, seq, hist, next) ==
    IF seq > rp.low_mark /\ seq < next
    THEN [rp EXCEPT !.low_mark = seq,
                    !.changes  = Restrict(rp.changes, {s \in DOMAIN rp.changes : s > seq})]
    ELSE rp

(* acked_changes_set(seq): numbers below seq are done.  An argument of 0   *)
(* for a durable reader rewinds the low mark to the start of the history.  *)
AckedChangesSet(rp, seq, hist, next) ==
    IF seq > rp.low_mark
    THEN [rp EXCEPT !.low_mark = seq - 1,
                    !.changes  = Restrict(rp.changes, {s \in DOMAIN rp.changes : s >= seq})]
    ELSE IF seq # 0 \/ rp.volatile THEN rp
    ELSE IF hist = {} THEN [rp EXCEPT !.low_mark = next - 1]
    ELSE [rp EXCEPT !.low_mark = Min(hist) - 1,
                    !.changes  = WithChanges(rp.changes, {t \in hist : t <= rp.low_mark},
                                             "UNACKNOWLEDGED")]

(* Mutant: a VOLATILE reader starts with the whole history acknowledged. *)
StartReaderProxyAcked(volatile, hist, next) ==
    [StoppedReaderProxy EXCEPT !.active = TRUE, !.volatile = volatile, !.low_mark = next - 1]

(* start() *)
StartReaderProxy(volatile, hist, next) ==
    LET fresh == [StoppedReaderProxy EXCEPT !.active = TRUE, !.volatile = volatile]
    IN  IF volatile
        THEN [fresh EXCEPT !.low_mark = (IF hist = {} THEN next ELSE Min(hist)) - 1]
        ELSE AckedChangesSet(fresh, 0, hist, next)

(* add_change(): irrelevant changes leave a hole in the collection. *)
AddChange(rp, seq, status, relevant) ==
    IF relevant THEN [rp EXCEPT !.changes = WithChanges(rp.changes, {seq}, status)] ELSE rp

ChangeIsAcked(rp, seq) == seq <= rp.low_mark \/ seq \notin DOMAIN rp.changes

ChangeIsUnsent(rp, seq) ==
    seq > rp.low_mark /\ seq \in DOMAIN rp.changes /\ rp.changes[seq].status = "UNSENT"

(* Mutant: the hole is measured from the low mark. *)
GapSeqFromLowMark(rp, seq, min_seq) ==
    LET gap == Max({rp.low_mark + 1, min_seq})
    IN  IF rp.changes[seq].delivered \/ gap >= seq THEN 0 ELSE gap

(* The hole before an unsent change that was never delivered: its first    *)
(* number that may still be in the history, or 0 when there is no hole.    *)
GapSeq(rp, seq, min_seq) ==
    LET prev == Max({rp.low_mark} \cup {s \in DOMAIN rp.changes : s < seq}) + 1
        gap  == Max({prev, min_seq})
    IN  IF rp.changes[seq].delivered \/ gap >= seq THEN 0 ELSE gap

(* from_unsent_to_status(seq, UNDERWAY, true) *)
FromUnsentToUnderway(rp, seq) ==
    [rp EXCEPT !.changes[seq] = [status |-> "UNDERWAY", delivered |-> TRUE],
               !.nack_supression = TRUE]

ConvertStatusOnAllChanges(rp, previous, next) ==
    [rp EXCEPT !.changes =
        [s \in DOMAIN rp.changes |->
            IF rp.changes[s].status = previous
            THEN [rp.changes[s] EXCEPT !.status = next] ELSE rp.changes[s]]]

PerformNackSupression(rp) ==
    [ConvertStatusOnAllChanges(rp, "UNDERWAY", "UNACKNOWLEDGED") EXCEPT !.nack_supression = FALSE]

PerformAcknackResponse(rp) == ConvertStatusOnAllChanges(rp, "REQUESTED", "UNSENT")

(* requested_changes_set(): the changes it marks, and the numbers it gaps. *)
RequestedChanges(rp, sns, hist) ==
    IF hist = {} THEN {} ELSE sns \cap WithStatus(rp, "UNACKNOWLEDGED")

GapsForRequest(rp, sns, hist) ==
    IF hist = {} THEN {}
    ELSE {s \in sns : s \notin DOMAIN rp.changes /\ s >= Min(hist) /\ s > rp.low_mark}

RequestedChangesSet(rp, sns, hist) ==
    [rp EXCEPT !.changes =
        [s \in DOMAIN rp.changes |->
            IF s \in RequestedChanges(rp, sns, hist)
            THEN [rp.changes[s] EXCEPT !.status = "REQUESTED"] ELSE rp.changes[s]]]

(* change_has_been_removed(): removing the next to be acknowledged         *)
(* acknowledges it.                                                        *)
ChangeHasBeenRemoved(rp, seq, hist, next) ==
    IF seq \notin DOMAIN rp.changes THEN rp
    ELSE LET erased == [rp EXCEPT !.changes = Restrict(rp.changes, DOMAIN rp.changes \ {seq})]
         IN  IF seq = rp.low_mark + 1 THEN AckedChangesSet(erased, seq + 1, hist, next) ELSE erased

(* Mutant: only the low mark is looked at. *)
HasUnacknowledgedBelow(rp, first_seq_in_history) == first_seq_in_history > rp.low_mark

HasUnacknowledged(rp, first_seq_in_history) ==
    first_seq_in_history > rp.low_mark \/ WithStatus(rp, "UNACKNOWLEDGED") # {}

(* check_and_set_acknack_count() *)
AcknackCountAccepted(rp, count) == count >= rp.next_acknack

=============================================================================
