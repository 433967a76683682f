---------------------------- MODULE ReliableRTPS ----------------------------
(***************************************************************************)
(* The reliable RTPS protocol: one StatefulWriter and its StatefulReaders  *)
(* over an unreliable network.  Discovery matches and unmatches them at    *)
(* each side independently.                                                *)
(***************************************************************************)
EXTENDS StatefulWriter, StatefulReader

vars == <<writerVars, readerVars, wireVars>>

Init == WriterInit /\ ReaderInit /\ WireInit

Next ==
    \/ WriterNext /\ UNCHANGED readerVars
    \/ ReaderNext /\ UNCHANGED writerVars

Spec == Init /\ [][Next]_vars

-----------------------------------------------------------------------------
(* The shapes of all state, with the structure the code relies on: the     *)
(* flow controller and the reader proxies only point into the history      *)
(* (change_removed_by_history() must unlink a sample everywhere), and the  *)
(* entries of a proxy lie above its low mark (the assertions of add_change *)
(* and from_unsent_to_status in ReaderProxy.cpp).                          *)
TypeOK ==
    /\ last_seq \in Nat /\ hb_count \in Nat
    /\ history \subseteq 1..last_seq
    /\ queue \subseteq history /\ sending \in history \cup {0}
    /\ {periodic_hb, nack_response} \subseteq BOOLEAN
    /\ next_all_acked \in 1..(last_seq + 1)
    /\ \A r \in Readers :
          /\ rp[r].low_mark \in 0..last_seq /\ join_seq[r] \in 0..last_seq
          /\ DOMAIN rp[r].changes \subseteq {s \in history : s > rp[r].low_mark}
          /\ \A s \in DOMAIN rp[r].changes : rp[r].changes[s] \in ChangeForReader
          /\ wp[r] \in WriterProxyType
          /\ toReader[r] \subseteq ToReaderMessage
          /\ toWriter[r] \subseteq ToWriterMessage

(* The numbers reader r is owed among those the writer still has. *)
Owed(r) == {s \in history : s > join_seq[r] /\ Relevant(r, s)}

(* KEEP_LAST readers may drop a sample that enough newer ones replace. *)
Replaced(r, seq) ==
    /\ r \notin KeepAllReaders
    /\ Cardinality({t \in (seq + 1)..wp[r].max_seq : ChangeWasReceived(wp[r], t)}) >= ReaderDepth

(* A reader never passes over a sample it is owed: whatever is below the   *)
(* low mark of its WriterProxy was notified to the user, however DATA, GAP *)
(* and HEARTBEAT submessages were lost, repeated or reordered.             *)
NoSilentSkip ==
    \A r \in Readers : wp[r].alive =>
        \A s \in Owed(r) : s <= wp[r].low_mark => s \in notified[r] \/ Replaced(r, s)

(* Acknowledgements are sound: what change_is_acked() says reader r has    *)
(* acknowledged (and wait_for_all_acked() reports to the user) was         *)
(* notified to the user of r, also with stale or repeated ACKNACKs.        *)
AckSound ==
    \A r \in Readers : rp[r].active =>
        \A s \in Owed(r) : ChangeIsAcked(rp[r], s) => s \in notified[r] \/ Replaced(r, s)

(* A sample that is not sent is in the flow controller or in the hands of  *)
(* the publishing thread: "If this function fails (for example because     *)
(* non-blocking socket is full), this function stores internally the       *)
(* sample to try sending it again asynchronously" (add_new_sample_impl).   *)
UnsentIsQueued ==
    \A r \in Readers : \A s \in WithStatus(rp[r], "UNSENT") : s \in queue \/ sending = s

(* Every change held for a reader has something armed that moves it on: an *)
(* UNSENT one is in the flow controller (or being sent), a REQUESTED one   *)
(* waits for nack_response_event_, an UNDERWAY one for                     *)
(* nack_supression_event_, an UNACKNOWLEDGED one for periodic_hb_event_.   *)
NoStall ==
    UnsentIsQueued /\ \A r \in Readers : \A s \in DOMAIN rp[r].changes :
        LET status == rp[r].changes[s].status
        IN  /\ status = "REQUESTED" => nack_response
            /\ status = "UNDERWAY" => rp[r].nack_supression
            /\ status = "UNACKNOWLEDGED" => periodic_hb

(* Whatever a reader misses and the writer has gets an answer from         *)
(* requested_changes_set(): the sample, or a GAP when it is not for this   *)
(* reader.  A number without either would be asked for forever and hold    *)
(* back all later samples.  (Holes of the history are answered by          *)
(* add_gaps_for_holes_in_history, numbers below it by heartbeats.)         *)
RequestAnswerable ==
    \A r \in Readers : rp[r].active /\ wp[r].alive =>
        \A s \in MissingChanges(wp[r]) \cap history :
            s \in DOMAIN rp[r].changes \/ s > rp[r].low_mark

(* The branch of process_acknack() that drops an inconsistent ACKNACK is   *)
(* never taken: no reader acknowledges or requests a number that was never *)
(* published.                                                              *)
NoInconsistentAcknack ==
    \A r \in Readers : \A m \in toWriter[r] : AcknackInRange(m)

(* NotifyChanges() notifies in order and once, also when a lease expires   *)
(* and the writer is matched again: what a step notifies is above all that *)
(* was ever notified.                                                      *)
InOrderOnce ==
    [][\A r \in Readers : wp[r].alive /\ wp[r]'.alive =>
          \A s \in rhist[r]' : wp[r].last_notified < s /\ s <= wp[r]'.last_notified =>
              \A t \in notified[r] : t < s]_vars

(* The samples a KEEP_ALL reader holds ahead of a hole leave room for the  *)
(* one that fills it: received_change() counts the missing ones in.        *)
FutureSamplesLeaveRoom ==
    \A r \in KeepAllReaders : wp[r].alive =>
        Cardinality({s \in rhist[r] : s > wp[r].low_mark}) < ReaderDepth

RemovesAcked ==
    TryRemoveChange => \A r \in Matched : ChangeIsAcked(rp[r], Min(history))

(* A full KEEP_ALL writer only removes what all matched readers have       *)
(* acknowledged:                                                           *)
(* "If change was removed (ret == 1) in KeepAllHistory, it must have been  *)
(* acked" (DataWriterHistory::prepare_change).                             *)
RemovedIsAcked == [][RemovesAcked]_vars

(* End to end, a KEEP_ALL writer loses nothing: a sample that left its     *)
(* history was notified by every matched reader that is owed it.           *)
KeepAllNoLoss ==
    KeepAll =>
        \A r \in KeepAllReaders : rp[r].active =>
            \A s \in (join_seq[r] + 1)..last_seq :
                Relevant(r, s) /\ s \notin history => s \in notified[r]

=============================================================================
