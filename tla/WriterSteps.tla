---------------------------- MODULE WriterSteps -----------------------------
(***************************************************************************)
(* The steps of the writer preserve the first inductive invariant of       *)
(* ReliableRTPS: heartbeats, timers, removals, unmatchings, ACKNACKs,      *)
(* deliveries, samples that are added and readers that are matched.        *)
(***************************************************************************)
EXTENDS ReliableInvariant

(* Submessages the writer may send to r. *)
Sendable(r, msgs) == msgs \subseteq ToReaderMessage /\ \A m \in msgs : ToReaderOK(r, m)

(* Sending true submessages leaves only true ones under way. *)
LEMMA SendFacts ==
    ASSUME toReader \in [Readers -> SUBSET ToReaderMessage], NEW msgs, SendToReaders(msgs),
           \A r \in Readers : Sendable(r, msgs[r])
    PROVE  SendsTrue
BY Zenon DEF SendToReaders, Sendable, SendsTrue

(* So does sending nothing. *)
LEMMA SilentSendsTrue ==
    ASSUME toReader \in [Readers -> SUBSET ToReaderMessage], UNCHANGED <<toReader, toWriter>>
    PROVE  SendsTrue
BY Zenon DEF SendsTrue

(* A heartbeat announces the limits of the history. *)
LEMMA HeartbeatSendable ==
    ASSUME HistoryOK, NEW r \in Readers, NEW count \in Nat,
           NEW final \in BOOLEAN, NEW liveliness \in BOOLEAN
    PROVE  Sendable(r, {HeartbeatOf(history, NextSeq, count, final, liveliness)})
<1> DEFINE m == HeartbeatOf(history, NextSeq, count, final, liveliness)
<1>1. CASE history = {}
  <2>1. m = Heartbeat(last_seq + 1, last_seq, count, final, liveliness)
    BY <1>1 DEF HeartbeatOf, NextSeq, HistoryOK
  <2> QED
    BY <1>1, <2>1 DEF Sendable, Heartbeat, ToReaderMessage, ToReaderOK, HistoryOK
<1>2. CASE history # {}
  <2> DEFINE first == Min(history)
             last == Max(history)
  <2>1. m = Heartbeat(first, last, count, final, liveliness)
    BY Zenon, <1>2 DEF HeartbeatOf
  <2>2. first \in history /\ \A y \in history : first <= y
    BY Zenon, <1>2, MinNat DEF HistoryOK
  <2>3. last \in history
    BY Zenon, <1>2, MaxNat DEF HistoryOK
  <2> HIDE DEF first, last
  <2>5. first \in Nat /\ last \in Nat /\ first <= last_seq /\ last <= last_seq /\ last_seq \in Nat
    BY Zenon, <2>2, <2>3 DEF HistoryOK
  <2>4. first <= last_seq + 1
    BY <2>5
  <2> QED
    BY <2>1, <2>2, <2>4, <2>5 DEF Sendable, Heartbeat, ToReaderMessage, ToReaderOK
<1> QED
  BY Zenon, <1>1, <1>2

(* A GAP of numbers that r is not owed may be sent. *)
LEMMA GapSendable ==
    ASSUME NEW r \in Readers, NEW seqs \in SUBSET Nat,
           \A s \in seqs : s <= last_seq /\ s \notin Owed(r)
    PROVE  Sendable(r, {Gap(seqs)}) /\ Sendable(r, GapIfAny(seqs))
<1>1. Sendable(r, {Gap(seqs)})
  BY DEF Sendable, Gap, ToReaderMessage, ToReaderOK
<1> QED
  BY Zenon, <1>1 DEF Sendable, GapIfAny

(* add_gaps_for_holes_in_history() covers no sample of the history. *)
LEMMA HolesSendable ==
    ASSUME HistoryOK, NEW r \in Readers
    PROVE  Sendable(r, GapsForHoles(history))
<1>1. CASE history = {}
  BY Zenon, <1>1 DEF GapsForHoles, Sendable
<1>2. CASE history # {}
  <2> DEFINE holes == (Min(history)..Max(history)) \ history
  <2>1. Min(history) \in history /\ Max(history) \in history
    BY Zenon, <1>2, MinNat, MaxNat DEF HistoryOK
  <2>0. Min(history) \in Nat /\ Max(history) \in Nat /\ Max(history) <= last_seq
        /\ last_seq \in Nat
    BY Zenon, <2>1 DEF HistoryOK
  <2>2. holes \in SUBSET Nat /\ \A s \in holes : s <= last_seq /\ s \notin Owed(r)
    <3>1. ASSUME NEW s \in holes PROVE s \in Nat /\ s <= last_seq
      BY <2>0
    <3>2. ASSUME NEW s \in holes PROVE s \notin Owed(r)
      BY Zenon DEF Owed
    <3> QED
      BY Zenon, <3>1, <3>2
  <2>3. GapsForHoles(history) = IF holes = {} THEN {} ELSE {Gap(holes)}
    BY Zenon, <1>2 DEF GapsForHoles
  <2> HIDE DEF holes
  <2>4. Sendable(r, {Gap(holes)})
    BY Zenon, <2>2, GapSendable
  <2> QED
    BY Zenon, <2>3, <2>4 DEF Sendable
<1> QED
  BY Zenon, <1>1, <1>2

(* A step of the writer that changes statuses only, and may send. *)
LEMMA EntriesStep ==
    ASSUME IInv, UNCHANGED readerVars, UNCHANGED <<history, last_seq, join_seq>>,
           ScalarsOK, SendsTrue, rp' \in [Readers -> ReaderProxyType],
           \A r \in Readers : SameEntries(rp[r], rp'[r])
    PROVE  IInv'
<1>1. ASSUME NEW r \in Readers
      PROVE  ReaderProxyOK(rp'[r], history', last_seq) /\ AcksNotified(r, rp'[r], history')
  <2>1. ReaderProxyOK(rp[r], history, last_seq)
    BY Zenon DEF IInv, WriterSide
  <2>2. /\ rp'[r] \in ReaderProxyType /\ rp'[r].active = rp[r].active
        /\ rp'[r].low_mark = rp[r].low_mark /\ DOMAIN rp'[r].changes = DOMAIN rp[r].changes
    BY Zenon DEF SameEntries
  <2> QED
    BY Zenon, <2>1, <2>2 DEF ReaderProxyOK, AcksNotified
<1> QED
  BY Zenon, <1>1, WriterStep

(* Proxies that are not touched have the same entries. *)
LEMMA SameProxies ==
    ASSUME TypesOK
    PROVE  rp \in [Readers -> ReaderProxyType] /\ \A r \in Readers : SameEntries(rp[r], rp[r])
BY Zenon DEF TypesOK, SameEntries

(* A delivery that throws only ends the sending. *)
LEMMA GapThrowsStep ==
    ASSUME IInv, IndividualGapThrows, UNCHANGED readerVars
    PROVE  IInv'
<1>1. TypesOK
  BY Zenon DEF IInv
<1>2. sending' = 0 /\ UNCHANGED <<history, last_seq, rp, queue, periodic_hb, nack_response,
                                  hb_count, next_all_acked, join_seq, toReader, toWriter>>
  BY Zenon DEF IndividualGapThrows, wireVars
<1>3. ScalarsOK
  BY Zenon, <1>1, <1>2 DEF TypesOK, ScalarsOK
<1>4. SendsTrue
  BY Zenon, <1>1, <1>2, SilentSendsTrue DEF TypesOK
<1>5. rp' \in [Readers -> ReaderProxyType] /\ \A r \in Readers : SameEntries(rp[r], rp'[r])
  BY Zenon, <1>1, <1>2, SameProxies
<1> QED
  BY Zenon, <1>2, <1>3, <1>4, <1>5, EntriesStep

(* send_periodic_heartbeat() sends true GAPs and heartbeats. *)
LEMMA PeriodicHeartbeatStep ==
    ASSUME IInv, SendPeriodicHeartbeat, UNCHANGED readerVars
    PROVE  IInv'
<1> DEFINE first == IF history = {} THEN last_seq ELSE Min(history)
           unacked == \E r \in Matched : HasUnacknowledged(rp[r], first)
           sends == unacked /\ SendsHeartbeat(Cardinality(Matched), history, FALSE)
           hb == HeartbeatOf(history, NextSeq, hb_count + 1, FALSE, FALSE)
           out == (IF unacked THEN GapsForHoles(history) ELSE {}) \cup
                  (IF sends THEN {hb} ELSE {})
           msgs == ToEach(Matched, out)
<1>1. TypesOK /\ HistoryOK /\ hb_count + 1 \in Nat
  BY DEF IInv, TypesOK
<1>2. /\ sending = 0 /\ periodic_hb' = unacked
      /\ hb_count' = IF sends THEN hb_count + 1 ELSE hb_count
      /\ SendToReaders(msgs)
      /\ UNCHANGED <<history, last_seq, rp, queue, sending, nack_response,
                     next_all_acked, join_seq>>
  BY Zenon DEF SendPeriodicHeartbeat, Unlocked
<1>3. ASSUME NEW r \in Readers PROVE Sendable(r, msgs[r])
  <2>1. Sendable(r, {hb}) /\ Sendable(r, GapsForHoles(history))
    BY Zenon, <1>1, HeartbeatSendable, HolesSendable
  <2>2. msgs[r] \subseteq GapsForHoles(history) \cup {hb}
    BY Zenon DEF ToEach
  <2> QED
    BY Zenon, <2>1, <2>2 DEF Sendable
<1>4. periodic_hb' \in BOOLEAN /\ nack_response' \in BOOLEAN
  BY Zenon, <1>1, <1>2 DEF TypesOK
<1> HIDE DEF unacked, sends, msgs
<1>5. ScalarsOK
  BY Zenon, <1>1, <1>2, <1>4 DEF TypesOK, ScalarsOK
<1>6. SendsTrue
  BY Zenon, <1>1, <1>2, <1>3, SendFacts DEF TypesOK
<1>7. rp' \in [Readers -> ReaderProxyType] /\ \A r \in Readers : SameEntries(rp[r], rp'[r])
  BY Zenon, <1>1, <1>2, SameProxies
<1> QED
  BY Zenon, <1>2, <1>5, <1>6, <1>7, EntriesStep

(* A liveliness assertion sends a true heartbeat. *)
LEMMA LivelinessHeartbeatStep ==
    ASSUME IInv, SendLivelinessHeartbeat, UNCHANGED readerVars
    PROVE  IInv'
<1> DEFINE hb == HeartbeatOf(history, NextSeq, hb_count + 1, TRUE, TRUE)
           msgs == ToEach(Matched, {hb})
<1>1. TypesOK /\ HistoryOK /\ hb_count + 1 \in Nat
  BY DEF IInv, TypesOK
<1>2. /\ sending = 0 /\ hb_count' = hb_count + 1
      /\ SendToReaders(msgs)
      /\ UNCHANGED <<history, last_seq, rp, queue, sending, periodic_hb, nack_response,
                     next_all_acked, join_seq>>
  BY Zenon DEF SendLivelinessHeartbeat, Unlocked
<1>3. ASSUME NEW r \in Readers PROVE Sendable(r, msgs[r])
  <2>1. Sendable(r, {hb})
    BY Zenon, <1>1, HeartbeatSendable
  <2> QED
    BY Zenon, <2>1 DEF Sendable, ToEach
<1> HIDE DEF msgs
<1>4. periodic_hb' \in BOOLEAN /\ nack_response' \in BOOLEAN
  BY Zenon, <1>1, <1>2 DEF TypesOK
<1>5. ScalarsOK
  BY Zenon, <1>1, <1>2, <1>4 DEF TypesOK, ScalarsOK
<1>6. SendsTrue
  BY Zenon, <1>1, <1>2, <1>3, SendFacts DEF TypesOK
<1>7. rp' \in [Readers -> ReaderProxyType] /\ \A r \in Readers : SameEntries(rp[r], rp'[r])
  BY Zenon, <1>1, <1>2, SameProxies
<1> QED
  BY Zenon, <1>2, <1>5, <1>6, <1>7, EntriesStep

(* perform_nack_response() queues samples of the history. *)
LEMMA NackResponseStep ==
    ASSUME IInv, PerformNackResponse, UNCHANGED readerVars
    PROVE  IInv'
<1>1. TypesOK
  BY Zenon DEF IInv
<1>2. /\ nack_response' = FALSE
      /\ rp' = [r \in Readers |-> IF rp[r].active THEN PerformAcknackResponse(rp[r]) ELSE rp[r]]
      /\ queue' = queue \cup UNION {WithStatus(rp[r], "REQUESTED") : r \in Matched}
      /\ UNCHANGED <<history, last_seq, sending, periodic_hb, hb_count, next_all_acked,
                     join_seq, toReader, toWriter>>
  BY Zenon DEF PerformNackResponse, wireVars
<1>3. ASSUME NEW r \in Readers PROVE rp'[r] \in ReaderProxyType /\ SameEntries(rp[r], rp'[r])
  <2>1. rp[r] \in ReaderProxyType
    BY Zenon, <1>1 DEF TypesOK
  <2>2. SameEntries(rp[r], rp[r]) /\ SameEntries(rp[r], PerformAcknackResponse(rp[r]))
    BY Zenon, <1>1, <2>1, SameProxies, AcknackResponseEntries
  <2>3. SameEntries(rp[r], rp'[r])
    BY Zenon, <1>2, <2>2
  <2> QED
    BY Zenon, <2>3 DEF SameEntries
<1>4. rp' \in [Readers -> ReaderProxyType]
  <2>1. rp' = [r \in Readers |-> rp'[r]]
    BY Zenon, <1>2
  <2> QED
    BY Zenon, <1>3, <2>1
<1>5. queue' \subseteq history
  <2>1. \A r \in Readers : DOMAIN rp[r].changes \subseteq history
    BY Zenon DEF IInv, WriterSide, ReaderProxyOK
  <2>2. \A r \in Matched : WithStatus(rp[r], "REQUESTED") \subseteq history
    BY Zenon, <2>1 DEF WithStatus, Matched
  <2> QED
    BY Zenon, <1>1, <1>2, <2>2 DEF TypesOK
<1>6. periodic_hb' \in BOOLEAN /\ nack_response' \in BOOLEAN
  BY Zenon, <1>1, <1>2 DEF TypesOK
<1>7. ScalarsOK
  BY Zenon, <1>1, <1>2, <1>5, <1>6 DEF TypesOK, ScalarsOK
<1>8. SendsTrue
  BY Zenon, <1>1, <1>2, SilentSendsTrue DEF TypesOK
<1> QED
  BY Zenon, <1>2, <1>3, <1>4, <1>7, <1>8, EntriesStep

(* perform_nack_supression() only changes statuses. *)
LEMMA NackSupressionStep ==
    ASSUME IInv, NEW r \in Readers, NackSupressionExpires(r), UNCHANGED readerVars
    PROVE  IInv'
<1>1. TypesOK
  BY Zenon DEF IInv
<1>2. /\ rp' = [rp EXCEPT ![r] = PerformNackSupression(rp[r])]
      /\ periodic_hb' = TRUE
      /\ UNCHANGED <<history, last_seq, queue, sending, nack_response, hb_count,
                     next_all_acked, join_seq, toReader, toWriter>>
  BY Zenon DEF NackSupressionExpires, wireVars
<1>3. SameEntries(rp[r], PerformNackSupression(rp[r]))
  BY Zenon, <1>1, NackSupressionEntries DEF TypesOK
<1>4. rp' \in [Readers -> ReaderProxyType]
  BY Zenon, <1>1, <1>2, <1>3 DEF TypesOK, SameEntries
<1>5. ASSUME NEW x \in Readers PROVE SameEntries(rp[x], rp'[x])
  <2>1. SameEntries(rp[x], rp[x])
    BY Zenon, <1>1, SameProxies
  <2> QED
    BY Zenon, <1>1, <1>2, <1>3, <2>1 DEF TypesOK
<1>6. periodic_hb' \in BOOLEAN /\ nack_response' \in BOOLEAN
  BY Zenon, <1>1, <1>2 DEF TypesOK
<1>7. ScalarsOK
  BY Zenon, <1>1, <1>2, <1>6 DEF TypesOK, ScalarsOK
<1>8. SendsTrue
  BY Zenon, <1>1, <1>2, SilentSendsTrue DEF TypesOK
<1> QED
  BY Zenon, <1>2, <1>4, <1>5, <1>7, <1>8, EntriesStep

(* A removal keeps what the other samples have and acknowledges nothing    *)
(* but the removed one.                                                    *)
LEMMA RemovedStep ==
    ASSUME IInv, NEW seq, ChangeRemovedByHistory(seq), UNCHANGED readerVars
    PROVE  IInv'
<1>1. TypesOK /\ HistoryOK /\ last_seq \in Nat /\ history \in SUBSET Nat
      /\ \A s \in history : 0 < s /\ s <= last_seq
  BY Zenon DEF IInv, TypesOK, HistoryOK
<1>2. /\ sending = 0 /\ seq \in history /\ queue' = queue \ {seq}
      /\ rp' = [r \in Readers |-> IF rp[r].active
                  THEN ChangeHasBeenRemoved(rp[r], seq, history, last_seq + 1) ELSE rp[r]]
      /\ history' = history \ {seq}
      /\ UNCHANGED <<last_seq, sending, periodic_hb, nack_response, hb_count,
                     next_all_acked, join_seq, toReader, toWriter>>
  BY Zenon DEF ChangeRemovedByHistory, Unlocked, NextSeq, wireVars
<1>3. ASSUME NEW r \in Readers
      PROVE  ReaderProxyOK(rp'[r], history', last_seq)
             /\ Acknowledges(rp[r], rp'[r], {}, history')
  <2>1. ReaderProxyOK(rp[r], history, last_seq)
    BY Zenon DEF IInv, WriterSide
  <2>2. CASE rp[r].active
    BY Zenon, <1>1, <1>2, <2>1, <2>2, ChangeHasBeenRemovedAcks
  <2>3. CASE ~rp[r].active
    <3>1. rp'[r] = rp[r]
      BY Zenon, <1>2, <2>3
    <3> QED
      BY Zenon, <2>1, <2>3, <3>1 DEF ReaderProxyOK, Acknowledges
  <2> QED
    BY Zenon, <2>2, <2>3
<1>4. rp' \in [Readers -> ReaderProxyType]
  <2>1. rp' = [r \in Readers |-> rp'[r]] /\ \A r \in Readers : rp'[r] \in ReaderProxyType
    BY Zenon, <1>2, <1>3 DEF ReaderProxyOK
  <2> QED
    BY Zenon, <2>1
<1>5. periodic_hb' \in BOOLEAN /\ nack_response' \in BOOLEAN
  BY Zenon, <1>1, <1>2 DEF TypesOK
<1>6. ScalarsOK
  BY Zenon, <1>1, <1>2, <1>5 DEF TypesOK, ScalarsOK
<1>7. SendsTrue
  BY Zenon, <1>1, <1>2, SilentSendsTrue DEF TypesOK
<1>8. \A r \in Readers : AcksNotified(r, rp'[r], history')
  BY Zenon, <1>3 DEF Acknowledges, AcksNotified
<1>9. history' \subseteq history /\ UNCHANGED <<last_seq, join_seq>>
  BY Zenon, <1>2
<1>10. \A r \in Readers : ReaderProxyOK(rp'[r], history', last_seq)
  BY Zenon, <1>3
<1> QED
  BY Zenon, <1>4, <1>6, <1>7, <1>8, <1>9, <1>10, WriterStep

(* A step that acknowledges what was notified and ends in                  *)
(* check_acked_status().                                                   *)
LEMMA AckedStep ==
    ASSUME IInv, UNCHANGED readerVars, UNCHANGED <<last_seq, join_seq>>, SendsTrue,
           NEW rps \in [Readers -> ReaderProxyType], NEW q, q \subseteq history,
           CheckAckedStatus(rps, history, NextSeq, q),
           \A r \in Readers : ReaderProxyOK(rps[r], history, last_seq),
           \A r \in Readers : AcksNotified(r, rps[r], history),
           hb_count' \in Nat, sending' = 0, periodic_hb' \in BOOLEAN, nack_response' \in BOOLEAN
    PROVE  IInv'
<1>1. /\ last_seq \in Nat /\ history \in SUBSET Nat
      /\ next_all_acked \in Nat /\ 1 <= next_all_acked /\ next_all_acked <= last_seq + 1
      /\ CheckAckedStatus(rps, history, last_seq + 1, q)
  BY Zenon DEF IInv, TypesOK, HistoryOK, NextSeq
<1>2. /\ rp' = rps /\ history' \subseteq history /\ queue' \subseteq history'
      /\ next_all_acked' \in Nat /\ 1 <= next_all_acked' /\ next_all_acked' <= last_seq + 1
      /\ \A r \in Readers : ReaderProxyOK(rps[r], history', last_seq)
  BY Zenon, <1>1, CheckAckedFacts
<1>3. ScalarsOK
  BY Zenon, <1>2 DEF ScalarsOK
<1>4. \A r \in Readers : AcksNotified(r, rp'[r], history')
  BY Zenon, <1>2 DEF AcksNotified
<1>5. rp' \in [Readers -> ReaderProxyType]
      /\ \A r \in Readers : ReaderProxyOK(rp'[r], history', last_seq)
  BY Zenon, <1>2
<1>6. history' \subseteq history
  BY Zenon, <1>2
<1> QED
  BY Zenon, <1>3, <1>4, <1>5, <1>6, WriterStep

(* matched_reader_remove() forgets one proxy. *)
LEMMA ReaderRemoveStep ==
    ASSUME IInv, NEW r \in Readers, MatchedReaderRemove(r), UNCHANGED readerVars
    PROVE  IInv'
<1> DEFINE rps == [rp EXCEPT ![r] = StoppedReaderProxy]
<1>1. TypesOK /\ last_seq \in Nat
  BY Zenon DEF IInv, TypesOK, HistoryOK
<1>2. /\ sending = 0 /\ CheckAckedStatus(rps, history, NextSeq, queue)
      /\ periodic_hb' = (periodic_hb /\ Matched # {r})
      /\ UNCHANGED <<last_seq, sending, nack_response, hb_count, join_seq, toReader, toWriter>>
  BY Zenon DEF MatchedReaderRemove, Unlocked, wireVars
<1>3. ReaderProxyOK(StoppedReaderProxy, history, last_seq) /\ StoppedReaderProxy.active = FALSE
      /\ StoppedReaderProxy \in ReaderProxyType
  BY Zenon, <1>1, StoppedReaderProxyOK DEF ReaderProxyOK
<1>4. rps \in [Readers -> ReaderProxyType]
      /\ \A x \in Readers : rps[x] = IF x = r THEN StoppedReaderProxy ELSE rp[x]
  BY Zenon, <1>1, <1>3 DEF TypesOK
<1> HIDE DEF rps
<1>5. \A x \in Readers : ReaderProxyOK(rps[x], history, last_seq)
  BY Zenon, <1>3, <1>4 DEF IInv, WriterSide
<1>6. \A x \in Readers : AcksNotified(x, rps[x], history)
  BY Zenon, <1>3, <1>4 DEF AcksNotified
<1>7. periodic_hb' \in BOOLEAN /\ nack_response' \in BOOLEAN
  BY Zenon, <1>1, <1>2 DEF TypesOK
<1>8. hb_count' \in Nat /\ sending' = 0 /\ queue \subseteq history
  BY Zenon, <1>1, <1>2 DEF TypesOK
<1>9. SendsTrue
  BY Zenon, <1>1, <1>2, SilentSendsTrue DEF TypesOK
<1> QED
  BY Zenon, <1>2, <1>4, <1>5, <1>6, <1>7, <1>8, <1>9, AckedStep

-----------------------------------------------------------------------------
(* An ACKNACK acknowledges only what its reader notified, and the GAP that *)
(* answers it covers nothing the reader is owed.                           *)
LEMMA AcknackStep ==
    ASSUME IInv, NEW r \in Readers, NEW m \in toWriter[r], ProcessAcknack(r, m),
           UNCHANGED readerVars
    PROVE  IInv'
<1> DEFINE p0 == [rp[r] EXCEPT !.next_acknack = m.count + 1]
           acked == AckedChangesSet(p0, m.base, history, last_seq + 1)
           marked == RequestedChanges(acked, m.seqs, history)
           gaps == GapsForRequest(acked, m.seqs, history)
           request == m.base > 0
           preemptive == ~request /\ m.seqs = {} /\ ~m.final
           hb == HeartbeatOf(history, NextSeq, hb_count + 1, FALSE, FALSE)
           q == IF request THEN RequestedChangesSet(acked, m.seqs, history) ELSE acked
           rps == [rp EXCEPT ![r] = q]
           out == (IF request THEN GapIfAny(gaps) ELSE {}) \cup
                  (IF preemptive THEN GapsForHoles(history) \cup {hb} ELSE {})
           msgs == ToEach({r}, out)
           A == {s \in Nat : s < m.base}
<1>1. TypesOK /\ HistoryOK /\ last_seq \in Nat /\ history \in SUBSET Nat /\ hb_count + 1 \in Nat
      /\ (\A s \in history : 0 < s /\ s <= last_seq) /\ rp[r] \in ReaderProxyType
      /\ m \in ToWriterMessage
  BY DEF IInv, TypesOK, HistoryOK
<1>2. /\ sending = 0 /\ rp[r].active
      /\ hb_count' = IF preemptive THEN hb_count + 1 ELSE hb_count
      /\ nack_response' = (nack_response \/ (request /\ marked # {}))
      /\ periodic_hb' = (periodic_hb \/ (request /\ marked = {} /\ ~m.final) \/ preemptive)
      /\ SendToReaders(msgs)
      /\ CheckAckedStatus(rps, history, NextSeq, queue)
      /\ UNCHANGED <<last_seq, sending, join_seq>>
  BY Zenon DEF ProcessAcknack, Unlocked, NextSeq
<1>3. /\ m.base \in Nat /\ m.seqs \in SUBSET Nat /\ m.count \in Nat /\ m.final \in BOOLEAN
      /\ m.base <= last_seq + 1 /\ (\A s \in m.seqs : s <= last_seq)
      /\ r \in KeepAllReaders => \A s \in Owed(r) : s < m.base => s \in notified[r]
  BY Zenon, <1>1 DEF IInv, WireSide, ToWriterOK, ToWriterMessage
<1>4. ReaderProxyOK(p0, history, last_seq) /\ p0.active = rp[r].active
      /\ p0.low_mark = rp[r].low_mark /\ p0.changes = rp[r].changes
  <2>1. ReaderProxyOK(rp[r], history, last_seq)
    BY Zenon DEF IInv, WriterSide
  <2>2. p0 \in ReaderProxyType /\ p0.active = rp[r].active
        /\ p0.low_mark = rp[r].low_mark /\ p0.changes = rp[r].changes
    BY SMTT(60), <1>1, <1>3 DEF ReaderProxyType
  <2> QED
    BY Zenon, <2>1, <2>2 DEF ReaderProxyOK
<1> HIDE DEF p0
<1>5. ReaderProxyOK(acked, history, last_seq) /\ Acknowledges(p0, acked, A, history)
  BY Zenon, <1>1, <1>2, <1>3, <1>4, AckedChangesSetAcks
<1>6. acked \in ReaderProxyType /\ acked.low_mark \in Nat
  BY Zenon, <1>5 DEF ReaderProxyOK, ReaderProxyType
<1> HIDE DEF acked
<1>7. SameEntries(acked, q)
  <2>1. SameEntries(acked, acked) /\ SameEntries(acked, RequestedChangesSet(acked, m.seqs, history))
    BY Zenon, <1>6, RequestedEntries DEF SameEntries
  <2> QED
    BY Zenon, <2>1
<1> HIDE DEF q
<1>8. ReaderProxyOK(q, history, last_seq) /\ Acknowledges(rp[r], q, A, history)
      /\ q \in ReaderProxyType
  BY Zenon, <1>4, <1>5, <1>7 DEF ReaderProxyOK, Acknowledges, SameEntries
<1>9. gaps \in SUBSET Nat /\ \A s \in gaps : s <= last_seq /\ s \notin Owed(r)
  <2>1. ASSUME NEW s \in gaps
        PROVE  s \in m.seqs /\ s \notin DOMAIN acked.changes /\ s > acked.low_mark
    BY Zenon DEF GapsForRequest
  <2>2. ASSUME NEW s \in gaps PROVE s \in Nat /\ s <= last_seq
    BY Zenon, <1>3, <2>1
  <2>3. ASSUME NEW s \in Owed(r) PROVE s <= acked.low_mark \/ s \in DOMAIN acked.changes
    <3>1. s <= rp[r].low_mark \/ s \in DOMAIN rp[r].changes
      BY Zenon, <1>2 DEF IInv, WriterSide
    <3>2. s \in history
      BY Zenon DEF Owed
    <3> QED
      BY Zenon, <1>4, <1>5, <3>1, <3>2 DEF Acknowledges
  <2>4. ASSUME NEW s \in gaps PROVE s \notin Owed(r)
    <3>1. s \in Nat /\ acked.low_mark \in Nat /\ s > acked.low_mark /\ s \notin DOMAIN acked.changes
      BY Zenon, <1>6, <2>1, <2>2
    <3>2. ~(s <= acked.low_mark)
      BY SMTT(60), <3>1
    <3> QED
      BY Zenon, <2>3, <3>1, <3>2
  <2> QED
    BY Zenon, <2>2, <2>4
<1> HIDE DEF gaps
<1>10. ASSUME NEW x \in Readers PROVE Sendable(x, msgs[x])
  <2>1. CASE x = r
    <3>1. Sendable(r, {hb}) /\ Sendable(r, GapsForHoles(history)) /\ Sendable(r, GapIfAny(gaps))
      BY Zenon, <1>1, <1>9, HeartbeatSendable, HolesSendable, GapSendable
    <3>2. msgs[r] \subseteq GapIfAny(gaps) \cup GapsForHoles(history) \cup {hb}
      BY Zenon DEF ToEach
    <3> QED
      BY Zenon, <2>1, <3>1, <3>2 DEF Sendable
  <2>2. CASE x # r
    <3>1. msgs[x] = {}
      BY Zenon, <2>2 DEF ToEach
    <3> QED
      BY Zenon, <3>1 DEF Sendable
  <2> QED
    BY Zenon, <2>1, <2>2
<1>11. periodic_hb' \in BOOLEAN /\ nack_response' \in BOOLEAN
  BY Zenon, <1>1, <1>2, <1>3 DEF TypesOK
<1>12. /\ rps \in [Readers -> ReaderProxyType]
       /\ \A x \in Readers : rps[x] = IF x = r THEN q ELSE rp[x]
  BY Zenon, <1>1, <1>8 DEF TypesOK
<1> HIDE DEF msgs, preemptive, request, rps
<1>13. \A x \in Readers : ReaderProxyOK(rps[x], history, last_seq)
  BY Zenon, <1>8, <1>12 DEF IInv, WriterSide
<1>14. ASSUME NEW x \in Readers PROVE AcksNotified(x, rps[x], history)
  <2>1. CASE x = r
    <3>1. rps[r] = q /\ Owed(r) \subseteq Nat
      BY Zenon, <1>1, <1>12 DEF Owed
    <3>2. AcksNotified(r, q, history)
      BY Zenon, <1>2, <1>3, <1>8, <3>1 DEF AcksNotified, Acknowledges
    <3> QED
      BY Zenon, <2>1, <3>1, <3>2
  <2>2. CASE x # r
    BY Zenon, <1>12, <2>2 DEF AcksNotified
  <2> QED
    BY Zenon, <2>1, <2>2
<1>15. hb_count' \in Nat /\ sending' = 0 /\ queue \subseteq history
  BY Zenon, <1>1, <1>2 DEF TypesOK
<1>16. SendsTrue
  BY Zenon, <1>1, <1>2, <1>10, SendFacts DEF TypesOK
<1> QED
  BY Zenon, <1>2, <1>11, <1>12, <1>13, <1>14, <1>15, <1>16, AckedStep

(* The GAP of deliver_sample() for one reader covers nothing it is owed. *)
LEMMA OwnGapSendable ==
    ASSUME IInv, NEW r \in Readers, rp[r].active, NEW seq \in history, GapFor(r, seq) # 0
    PROVE  Sendable(r, {Gap(GapFor(r, seq)..(seq - 1))})
<1> DEFINE min_seq == SeqNumMin(history)
           gap == GapSeq(rp[r], seq, min_seq)
           seqs == gap..(seq - 1)
<1>1. /\ last_seq \in Nat /\ history \in SUBSET Nat /\ seq \in Nat /\ seq <= last_seq
      /\ \A s \in history : s <= last_seq
  BY Zenon DEF IInv, TypesOK, HistoryOK
<1>2. min_seq \in Nat
  BY Zenon, <1>1, MinNat DEF SeqNumMin
<1>3. ReaderProxyOK(rp[r], history, last_seq)
  BY Zenon DEF IInv, WriterSide
<1>4. gap \in Nat /\ \A s \in Nat : gap <= s /\ s < seq =>
         ~(s <= rp[r].low_mark) /\ s \notin DOMAIN rp[r].changes
  <2>1. gap # 0
    BY Zenon DEF GapFor
  <2> HIDE DEF min_seq
  <2> QED
    BY Zenon, <1>1, <1>2, <1>3, <2>1, GapSeqHole
<1> HIDE DEF gap
<1>5. ASSUME NEW s \in seqs PROVE s \in Nat /\ s <= last_seq /\ gap <= s /\ s < seq
  BY <1>1, <1>4
<1>6. ASSUME NEW s \in seqs PROVE s \notin Owed(r)
  <2>1. ~(s <= rp[r].low_mark) /\ s \notin DOMAIN rp[r].changes
    BY Zenon, <1>4, <1>5
  <2> QED
    BY Zenon, <2>1 DEF IInv, WriterSide
<1>7. seqs \in SUBSET Nat /\ \A s \in seqs : s <= last_seq /\ s \notin Owed(r)
  BY Zenon, <1>5, <1>6
<1> HIDE DEF seqs
<1>8. Sendable(r, {Gap(seqs)})
  BY Zenon, <1>7, GapSendable
<1> QED
  BY Zenon, <1>8 DEF seqs, gap, GapFor

(* The GAP of deliver_sample() for all covers no sample of the history. *)
LEMMA GlobalGapSendable ==
    ASSUME HistoryOK, NEW r \in Readers, NEW seq \in history, GapForAll(seq) # 0
    PROVE  Sendable(r, {Gap(GapForAll(seq)..(seq - 1))})
<1> DEFINE prev == {s \in history : s < seq}
           gap == Max(prev) + 1
           seqs == gap..(seq - 1)
<1>1. /\ last_seq \in Nat /\ history \in SUBSET Nat /\ seq \in Nat /\ seq <= last_seq
      /\ \A s \in history : s <= last_seq
  BY Zenon DEF HistoryOK
<1>2. prev # {} /\ GapForAll(seq) = gap
  BY Zenon DEF GapForAll
<1>3. prev \in SUBSET Nat /\ \A s \in prev : s <= last_seq
  BY Zenon, <1>1
<1>4. Max(prev) \in prev /\ \A s \in prev : Max(prev) >= s
  <2> HIDE DEF prev
  <2> QED
    BY Zenon, <1>1, <1>2, <1>3, MaxNat
<1>5. Max(prev) \in Nat
  BY Zenon, <1>3, <1>4
<1>6. ASSUME NEW s \in seqs PROVE s \in Nat /\ s <= last_seq /\ s < seq /\ s > Max(prev)
  <2> HIDE DEF prev
  <2> QED
    BY <1>1, <1>5
<1>7. ASSUME NEW s \in seqs PROVE s \notin Owed(r)
  <2>1. s \notin prev
    <3> HIDE DEF prev
    <3>1. s \in Nat /\ s > Max(prev)
      BY Zenon, <1>6
    <3>2. ~(Max(prev) >= s)
      BY <1>5, <3>1
    <3> QED
      BY Zenon, <1>4, <3>2
  <2>2. s \notin history
    BY Zenon, <1>6, <2>1
  <2> QED
    BY Zenon, <2>2 DEF Owed
<1>8. seqs \in SUBSET Nat /\ \A s \in seqs : s <= last_seq /\ s \notin Owed(r)
  BY Zenon, <1>6, <1>7
<1> HIDE DEF seqs
<1>9. Sendable(r, {Gap(seqs)})
  BY Zenon, <1>8, GapSendable
<1> QED
  BY Zenon, <1>2, <1>9 DEF seqs

(* A delivery sends the sample, true GAPs and a true heartbeat, and only   *)
(* marks entries.                                                          *)
LEMMA DeliverStep ==
    ASSUME IInv, NEW seq \in history, NEW sent \in BOOLEAN, NEW piggyback \in BOOLEAN,
           NEW delivered \in BOOLEAN, DeliverSample(seq, sent, piggyback, delivered),
           UNCHANGED readerVars
    PROVE  IInv'
<1> DEFINE readers == UnsentReaders(seq)
           individual == IndividualGaps(seq)
           count1 == hb_count + (IF individual = {} THEN 0 ELSE 1)
           count2 == count1 + (IF piggyback THEN 1 ELSE 0)
           hb(count) == HeartbeatOf(history, NextSeq, count, FALSE, FALSE)
           own(r) == IF r \in individual
                     THEN {Gap(GapFor(r, seq)..(seq - 1)), hb(count1)} ELSE {}
           global == IF GlobalGap(seq) THEN {Gap(GapForAll(seq)..(seq - 1))} ELSE {}
           data == IF sent THEN {Data(seq)} ELSE {}
           rps == [r \in Readers |-> IF sent /\ r \in readers
                                     THEN FromUnsentToUnderway(rp[r], seq) ELSE rp[r]]
           q == IF delivered THEN queue \ {seq} ELSE queue \cup {seq}
           msgs == [r \in Readers |->
                      (IF r \in readers THEN own(r) \cup global \cup data ELSE {}) \cup
                      (IF piggyback /\ r \in Matched THEN {hb(count2)} ELSE {})]
<1>1. TypesOK /\ HistoryOK /\ count1 \in Nat /\ count2 \in Nat
  BY DEF IInv, TypesOK
<1>2. /\ SendToReaders(msgs) /\ hb_count' = count2 /\ sending' = 0
      /\ periodic_hb' = (periodic_hb \/ \E r \in readers : ~rp[r].changes[seq].delivered)
      /\ CheckAckedStatus(rps, history, NextSeq, q)
      /\ UNCHANGED <<last_seq, nack_response, join_seq>>
  BY Zenon DEF DeliverSample
<1>3. ASSUME NEW r \in Readers PROVE Sendable(r, msgs[r])
  <2>1. Sendable(r, {hb(count1)}) /\ Sendable(r, {hb(count2)})
    BY Zenon, <1>1, HeartbeatSendable
  <2>2. Sendable(r, global)
    <3>1. CASE GlobalGap(seq)
      <4>1. GapForAll(seq) # 0
        BY Zenon, <3>1 DEF GlobalGap
      <4> QED
        BY Zenon, <1>1, <3>1, <4>1, GlobalGapSendable
    <3>2. CASE ~GlobalGap(seq)
      BY Zenon, <3>2 DEF Sendable
    <3> QED
      BY Zenon, <3>1, <3>2
  <2>3. Sendable(r, data)
    <3>1. seq \in Nat /\ 0 < seq /\ seq <= last_seq
      BY Zenon, <1>1 DEF HistoryOK
    <3> QED
      BY <3>1 DEF Sendable, Data, ToReaderMessage, ToReaderOK
  <2>4. Sendable(r, own(r))
    <3>1. CASE r \in individual
      <4>1. rp[r].active /\ GapFor(r, seq) # 0
        BY Zenon, <3>1 DEF IndividualGaps, UnsentReaders, Matched
      <4>2. Sendable(r, {Gap(GapFor(r, seq)..(seq - 1))})
        BY Zenon, <4>1, OwnGapSendable
      <4> HIDE DEF individual, hb, count1
      <4> QED
        BY Zenon, <2>1, <3>1, <4>2 DEF Sendable
    <3>2. CASE r \notin individual
      BY Zenon, <3>2 DEF Sendable
    <3> QED
      BY Zenon, <3>1, <3>2
  <2> HIDE DEF own, global, data, hb, readers
  <2>5. msgs[r] \subseteq own(r) \cup global \cup data \cup {hb(count2)}
    BY Zenon
  <2> HIDE DEF msgs, count1, count2
  <2> QED
    BY Zenon, <2>1, <2>2, <2>3, <2>4, <2>5 DEF Sendable
<1>4. ASSUME NEW r \in Readers PROVE SameEntries(rp[r], rps[r])
  <2>1. CASE sent /\ r \in readers
    <3>1. rp[r] \in ReaderProxyType /\ seq \in DOMAIN rp[r].changes
      BY Zenon, <1>1, <2>1 DEF TypesOK, UnsentReaders, ChangeIsUnsent
    <3>2. SameEntries(rp[r], FromUnsentToUnderway(rp[r], seq))
      BY Zenon, <3>1, UnderwayEntries
    <3> QED
      BY Zenon, <2>1, <3>2
  <2>2. CASE ~(sent /\ r \in readers)
    <3>1. SameEntries(rp[r], rp[r])
      BY Zenon, <1>1, SameProxies
    <3> QED
      BY Zenon, <2>2, <3>1
  <2> QED
    BY Zenon, <2>1, <2>2
<1>5. rps \in [Readers -> ReaderProxyType]
  <2>1. \A r \in Readers : rps[r] \in ReaderProxyType
    BY Zenon, <1>4 DEF SameEntries
  <2>2. rps = [r \in Readers |-> rps[r]]
    BY Zenon
  <2> HIDE DEF rps
  <2> QED
    BY Zenon, <2>1, <2>2
<1>6. periodic_hb' \in BOOLEAN /\ nack_response' \in BOOLEAN
  <2> HIDE DEF readers
  <2> QED
    BY Zenon, <1>1, <1>2 DEF TypesOK
<1>7. q \subseteq history
  BY Zenon, <1>1 DEF TypesOK
<1> HIDE DEF rps, q, msgs, count2, readers
<1>8. ASSUME NEW r \in Readers
      PROVE  ReaderProxyOK(rps[r], history, last_seq) /\ Acknowledges(rp[r], rps[r], {}, history)
  <2>1. ReaderProxyOK(rp[r], history, last_seq)
    BY Zenon DEF IInv, WriterSide
  <2> QED
    BY Zenon, <1>4, <2>1 DEF ReaderProxyOK, Acknowledges, SameEntries
<1>9. \A r \in Readers : AcksNotified(r, rps[r], history)
  BY Zenon, <1>8 DEF AcksNotified, Acknowledges
<1>10. SendsTrue
  <2>1. toReader \in [Readers -> SUBSET ToReaderMessage]
    BY Zenon, <1>1 DEF TypesOK
  <2> QED
    BY Zenon, <1>2, <1>3, <2>1, SendFacts
<1>11. hb_count' \in Nat /\ \A r \in Readers : ReaderProxyOK(rps[r], history, last_seq)
  BY Zenon, <1>1, <1>2, <1>8
<1> QED
  BY Zenon, <1>2, <1>5, <1>6, <1>7, <1>9, <1>10, <1>11, AckedStep

(* The proxy of r when a sample was added: an entry for it if r is matched *)
(* and it is relevant, otherwise as it was.                                *)
GrownProxy(r) ==
    /\ ReaderProxyOK(rp'[r], history', last_seq')
    /\ rp'[r].active = rp[r].active /\ rp'[r].low_mark = rp[r].low_mark
    /\ DOMAIN rp[r].changes \subseteq DOMAIN rp'[r].changes
    /\ rp[r].active /\ Relevant(r, last_seq') => last_seq' \in DOMAIN rp'[r].changes

(* A new sample is above every mark and every number under way. *)
LEMMA NewSampleStep ==
    ASSUME IInv, UNCHANGED readerVars, UNCHANGED <<join_seq, toReader, toWriter>>,
           last_seq' = last_seq + 1, history' \subseteq history \cup {last_seq + 1},
           ScalarsOK, rp' \in [Readers -> ReaderProxyType], \A r \in Readers : GrownProxy(r)
    PROVE  IInv'
<1> DEFINE new == last_seq + 1
<1>1. TypesOK /\ last_seq \in Nat /\ new \in Nat /\ history \in SUBSET Nat
      /\ \A s \in history : 0 < s /\ s <= last_seq
  BY DEF IInv, TypesOK, HistoryOK
<1>2. TypesOK'
  <2>1. HistoryOK'
    <3>1. ASSUME NEW s \in history' PROVE s \in Nat /\ 0 < s /\ s <= new
      <4>1. CASE s \in history
        <5>1. s \in Nat /\ 0 < s /\ s <= last_seq
          BY Zenon, <1>1, <4>1
        <5> QED
          BY <1>1, <5>1
      <4>2. CASE s = new
        BY <1>1, <4>2
      <4> QED
        BY Zenon, <4>1, <4>2
    <3> QED
      BY Zenon, <1>1, <3>1 DEF HistoryOK
  <2> QED
    BY Zenon, <1>1, <2>1 DEF TypesOK, ScalarsOK, readerVars
<1>3. ASSUME NEW r \in Readers, NEW s \in Owed(r)'
      PROVE  s \in Owed(r) \/ (s = new /\ Relevant(r, new))
  BY Zenon DEF Owed, Relevant
<1>4. ASSUME NEW r \in Readers PROVE WriterSide(r)'
  <2>9. WriterSide(r) /\ join_seq[r] \in Nat
    BY Zenon, <1>1 DEF IInv, TypesOK
  <2>8. ReaderProxyOK(rp[r], history, last_seq)
    BY Zenon, <2>9 DEF WriterSide
  <2>1. WriterSide(r) /\ join_seq[r] \in Nat /\ rp[r].low_mark \in Nat /\ rp[r].low_mark <= last_seq
    BY Zenon, <2>8, <2>9 DEF ReaderProxyOK, ReaderProxyType
  <2>2. join_seq[r] <= last_seq
    BY Zenon, <2>1 DEF WriterSide
  <2>3. join_seq'[r] <= last_seq'
    BY <1>1, <2>1, <2>2
  <2>4. r \notin VolatileReaders => \A s \in history' : s > join_seq'[r]
    <3> SUFFICES ASSUME r \notin VolatileReaders, NEW s \in history' PROVE s > join_seq[r]
      BY Zenon
    <3>1. CASE s \in history
      BY Zenon, <2>1, <3>1 DEF WriterSide
    <3>2. CASE s = new
      BY <1>1, <2>1, <2>2, <3>2
    <3> QED
      BY Zenon, <3>1, <3>2
  <2>0. /\ ReaderProxyOK(rp'[r], history', last_seq')
        /\ rp'[r].active = rp[r].active /\ rp'[r].low_mark = rp[r].low_mark
        /\ DOMAIN rp[r].changes \subseteq DOMAIN rp'[r].changes
        /\ rp[r].active /\ Relevant(r, new) => new \in DOMAIN rp'[r].changes
    BY Zenon DEF GrownProxy
  <2>5. ASSUME rp'[r].active, NEW s \in Owed(r)'
        PROVE  s <= rp'[r].low_mark \/ s \in DOMAIN rp'[r].changes
    <3>1. CASE s \in Owed(r)
      BY Zenon, <2>0, <2>1, <2>5, <3>1 DEF WriterSide
    <3>2. CASE s = new /\ Relevant(r, new)
      BY Zenon, <2>0, <2>5, <3>2
    <3> QED
      BY Zenon, <1>3, <3>1, <3>2
  <2>6. ~(new <= rp'[r].low_mark)
    BY SMTT(60), <1>1, <2>0, <2>1
  <2>7. ASSUME rp'[r].active, r \in KeepAllReaders, NEW s \in Owed(r)', s <= rp'[r].low_mark
        PROVE  s \in notified[r]
    <3>1. s \in Owed(r)
      BY Zenon, <1>3, <2>6, <2>7
    <3> QED
      BY Zenon, <2>0, <2>1, <2>7, <3>1 DEF WriterSide
  <2> QED
    BY Zenon, <2>0, <2>3, <2>4, <2>5, <2>7 DEF WriterSide, readerVars
<1>5. ASSUME NEW r \in Readers PROVE ReaderSide(r)'
  <2>0. ReaderSide(r) /\ record[r] \in Nat
    BY Zenon, <1>1 DEF IInv, TypesOK
  <2>1. ReaderSide(r) /\ record[r] \in Nat /\ record[r] <= last_seq
    BY Zenon, <2>0 DEF ReaderSide
  <2>2. WriterProxyOK(wp[r], last_seq)
    BY Zenon, <2>1 DEF ReaderSide
  <2>3. wp[r].max_seq \in Nat /\ wp[r].max_seq <= last_seq
        /\ \A s \in wp[r].received : s <= wp[r].max_seq
    BY Zenon, <2>2 DEF WriterProxyOK, WriterProxyType
  <2>4. WriterProxyOK(wp[r], new)
    <3>1. wp[r].max_seq <= new
      BY <1>1, <2>3
    <3> QED
      BY Zenon, <2>2, <3>1 DEF WriterProxyOK
  <2>5. new \notin wp[r].received
    <3>1. ~(new <= wp[r].max_seq)
      BY <1>1, <2>3
    <3> QED
      BY Zenon, <2>3, <3>1
  <2>6. ~(new <= record[r]) /\ record[r] <= new
    BY <1>1, <2>1
  <2> QED
    BY Zenon, <1>3, <2>1, <2>4, <2>5, <2>6 DEF ReaderSide, readerVars
<1>6. ASSUME NEW r \in Readers PROVE WireSide(r)'
  <2>1. WireSide(r)
    BY Zenon DEF IInv
  <2>2. ASSUME NEW m \in toReader[r] PROVE ToReaderOK(r, m)'
    <3>1. ToReaderOK(r, m) /\ m \in ToReaderMessage
      BY Zenon, <1>1, <2>1 DEF WireSide, TypesOK
    <3>2. CASE m.type = "DATA"
      <4>1. m.seq \in Nat
        BY Zenon, <3>1, <3>2 DEF ToReaderMessage
      <4> QED
        BY SMTT(60), <1>1, <3>1, <3>2, <4>1 DEF ToReaderOK
    <3>3. CASE m.type = "GAP"
      <4>1. m.seqs \in SUBSET Nat
        BY Zenon, <3>1, <3>3 DEF ToReaderMessage
      <4>2. ASSUME NEW s \in m.seqs PROVE s <= new /\ s # new /\ s \notin Owed(r)
        <5>1. s \in Nat /\ s <= last_seq /\ s \notin Owed(r)
          BY Zenon, <3>1, <3>3, <4>1 DEF ToReaderOK
        <5> QED
          BY <1>1, <5>1
      <4>3. ASSUME NEW s \in m.seqs PROVE s <= last_seq' /\ s \notin Owed(r)'
        BY Zenon, <1>3, <4>2
      <4> QED
        BY Zenon, <3>3, <4>3 DEF ToReaderOK
    <3>4. CASE m.type = "HEARTBEAT"
      <4>1. m.first \in Nat /\ m.last \in Nat
        BY Zenon, <3>1, <3>4 DEF ToReaderMessage
      <4>2. m.first <= new /\ m.last <= last_seq /\ \A s \in history : m.first <= s
        BY Zenon, <3>1, <3>4 DEF ToReaderOK
      <4>3. m.first <= new + 1 /\ m.last <= new
        BY <1>1, <4>1, <4>2
      <4>4. \A s \in history' : m.first <= s
        BY Zenon, <4>2
      <4> QED
        BY Zenon, <3>4, <4>3, <4>4 DEF ToReaderOK
    <3> QED
      BY Zenon, <3>1, <3>2, <3>3, <3>4 DEF ToReaderMessage
  <2>3. ASSUME NEW m \in toWriter[r] PROVE ToWriterOK(r, m)'
    <3>1. ToWriterOK(r, m) /\ m.base \in Nat /\ m.seqs \in SUBSET Nat
      BY <1>1, <2>1 DEF WireSide, TypesOK, ToWriterMessage
    <3>2. m.base <= new + 1 /\ ~(new < m.base)
      BY <1>1, <3>1 DEF ToWriterOK
    <3>3. ASSUME NEW s \in m.seqs PROVE s <= new
      <4>1. s \in Nat /\ s <= last_seq
        BY Zenon, <3>1 DEF ToWriterOK
      <4> QED
        BY <1>1, <4>1
    <3> QED
      BY Zenon, <1>3, <3>1, <3>2, <3>3 DEF ToWriterOK, readerVars
  <2> QED
    BY Zenon, <2>2, <2>3 DEF WireSide
<1> QED
  BY Zenon, <1>2, <1>4, <1>5, <1>6 DEF IInv

-----------------------------------------------------------------------------
(* unsent_change_added_to_history() gives every relevant reader an entry. *)
LEMMA AddStep ==
    ASSUME IInv, UnsentChangeAddedToHistory, UNCHANGED readerVars
    PROVE  IInv'
<1> DEFINE new == last_seq + 1
           hist == history \cup {new}
           status == IF PushMode THEN "UNSENT" ELSE "UNACKNOWLEDGED"
           rps == [r \in Readers |-> IF rp[r].active
                     THEN AddChange(rp[r], new, status, Relevant(r, new)) ELSE rp[r]]
           should_be_sent == PushMode /\ \E r \in Matched : Relevant(r, new)
<1>1. TypesOK /\ last_seq \in Nat /\ new \in Nat /\ hist \in SUBSET Nat
      /\ status \in ChangeForReaderStatus
  BY DEF IInv, TypesOK, HistoryOK, ChangeForReaderStatus
<1>2. /\ sending = 0 /\ last_seq' = new
      /\ IF Matched = {}
         THEN /\ CheckAckedStatus(rp, hist, new + 1, queue)
              /\ UNCHANGED <<sending, periodic_hb>>
         ELSE /\ rp' = rps /\ history' = hist
              /\ queue' = IF should_be_sent /\ ~SyncPublish THEN queue \cup {new} ELSE queue
              /\ sending' = IF should_be_sent /\ SyncPublish THEN new ELSE 0
              /\ periodic_hb' = (periodic_hb \/ ~should_be_sent)
              /\ UNCHANGED next_all_acked
      /\ UNCHANGED <<nack_response, hb_count, join_seq, toReader, toWriter>>
  BY Zenon DEF UnsentChangeAddedToHistory, Unlocked, NextSeq, wireVars
<1>3. /\ next_all_acked \in Nat /\ 1 <= next_all_acked /\ next_all_acked <= last_seq + 1
      /\ next_all_acked <= last_seq + 2
  BY <1>1 DEF TypesOK
<1>4. hb_count' \in Nat /\ queue \subseteq history
  BY Zenon, <1>1, <1>2 DEF TypesOK
<1>5. periodic_hb \in BOOLEAN /\ nack_response' \in BOOLEAN
  BY Zenon, <1>1, <1>2 DEF TypesOK
<1>6. ASSUME NEW r \in Readers
      PROVE  /\ ReaderProxyOK(rp[r], history, last_seq) /\ ReaderProxyOK(rp[r], hist, new)
             /\ rp[r].low_mark \in Nat
  <2>1. ReaderProxyOK(rp[r], history, last_seq)
    BY Zenon DEF IInv, WriterSide
  <2>2. rp[r].low_mark \in Nat /\ rp[r].low_mark <= last_seq
    BY Zenon, <2>1 DEF ReaderProxyOK, ReaderProxyType
  <2>3. rp[r].low_mark <= new
    BY <1>1, <2>2
  <2> QED
    BY Zenon, <2>1, <2>2, <2>3 DEF ReaderProxyOK
<1>7. rp \in [Readers -> ReaderProxyType]
  BY Zenon, <1>1 DEF TypesOK
<1>8. CASE Matched = {}
  <2>0. next_all_acked <= new + 1 /\ new + 1 = last_seq + 2
    BY <1>1, <1>3
  <2>5. CheckAckedStatus(rp, hist, new + 1, queue) /\ queue \subseteq hist
    BY Zenon, <1>2, <1>4, <1>8
  <2> HIDE DEF hist, new
  <2>1. /\ rp' = rp /\ history' \subseteq hist /\ queue' \subseteq history'
        /\ next_all_acked' \in Nat /\ 1 <= next_all_acked' /\ next_all_acked' <= new + 1
        /\ \A r \in Readers : ReaderProxyOK(rp[r], history', new)
    BY Zenon, <1>1, <1>3, <1>6, <1>7, <2>0, <2>5, CheckAckedFacts
  <2>2. \A r \in Readers : ~rp[r].active
    BY Zenon, <1>8 DEF Matched
  <2>3. sending' = 0 /\ periodic_hb' \in BOOLEAN
    BY Zenon, <1>2, <1>5, <1>8
  <2>4. ScalarsOK
    BY Zenon, <1>2, <1>4, <1>5, <2>1, <2>3 DEF ScalarsOK
  <2>6. \A r \in Readers : GrownProxy(r)
    BY Zenon, <1>2, <2>1, <2>2 DEF GrownProxy
  <2>7. rp' \in [Readers -> ReaderProxyType] /\ history' \subseteq history \cup {last_seq + 1}
        /\ last_seq' = last_seq + 1
    BY Zenon, <1>2, <1>7, <2>1 DEF hist, new
  <2> QED
    BY Zenon, <1>2, <2>4, <2>6, <2>7, NewSampleStep
<1>9. CASE Matched # {}
  <2>1. /\ rp' = rps /\ history' = hist
        /\ queue' = IF should_be_sent /\ ~SyncPublish THEN queue \cup {new} ELSE queue
        /\ sending' = IF should_be_sent /\ SyncPublish THEN new ELSE 0
        /\ periodic_hb' = (periodic_hb \/ ~should_be_sent)
        /\ UNCHANGED next_all_acked
    BY Zenon, <1>2, <1>9
  <2>2. periodic_hb' \in BOOLEAN
    <3> HIDE DEF should_be_sent
    <3> QED
      BY Zenon, <1>5, <2>1
  <2>3. queue' \subseteq history' /\ sending' \in history' \cup {0}
    <3> HIDE DEF should_be_sent
    <3> QED
      BY Zenon, <1>4, <2>1
  <2>4. ASSUME NEW r \in Readers
        PROVE  /\ ReaderProxyOK(rps[r], hist, new)
               /\ rps[r].active = rp[r].active /\ rps[r].low_mark = rp[r].low_mark
               /\ DOMAIN rp[r].changes \subseteq DOMAIN rps[r].changes
               /\ rp[r].active /\ Relevant(r, new) => new \in DOMAIN rps[r].changes
    <3>1. CASE rp[r].active
      <4> DEFINE q == AddChange(rp[r], new, status, Relevant(r, new))
      <4>2. /\ ReaderProxyOK(q, hist, new)
            /\ q.active = rp[r].active /\ q.low_mark = rp[r].low_mark
            /\ DOMAIN rp[r].changes \subseteq DOMAIN q.changes
            /\ Relevant(r, new) => new \in DOMAIN q.changes
        <5> HIDE DEF status
        <5>0. last_seq \in Nat /\ ReaderProxyOK(rp[r], history, last_seq) /\ rp[r].active
              /\ status \in ChangeForReaderStatus /\ TRUE \in BOOLEAN
          BY Zenon, <1>1, <1>6, <3>1
        <5>1. CASE Relevant(r, new)
          <6>1. q = AddChange(rp[r], last_seq + 1, status, TRUE)
            BY Zenon, <5>1 DEF AddChange
          <6>2. LET p == AddChange(rp[r], last_seq + 1, status, TRUE)
                IN  /\ ReaderProxyOK(p, history \cup {last_seq + 1}, last_seq + 1)
                    /\ p.active = rp[r].active /\ p.low_mark = rp[r].low_mark
                    /\ DOMAIN rp[r].changes \subseteq DOMAIN p.changes
                    /\ TRUE => last_seq + 1 \in DOMAIN p.changes
            BY <5>0, AddedEntry, Zenon
          <6> HIDE DEF q
          <6> QED
            BY Zenon, <6>1, <6>2
        <5>2. CASE ~Relevant(r, new)
          <6>1. q = rp[r]
            BY Zenon, <5>2 DEF AddChange
          <6> HIDE DEF q
          <6> QED
            BY Zenon, <1>6, <5>2, <6>1
        <5> QED
          BY Zenon, <5>1, <5>2
      <4>3. rps[r] = q
        BY Zenon, <3>1
      <4> HIDE DEF q, rps
      <4> QED
        BY Zenon, <4>2, <4>3
    <3>2. CASE ~rp[r].active
      <4>1. rps[r] = rp[r]
        BY Zenon, <3>2
      <4> HIDE DEF rps
      <4> QED
        BY Zenon, <1>6, <3>2, <4>1
    <3> QED
      BY Zenon, <3>1, <3>2
  <2>5. rps \in [Readers -> ReaderProxyType]
    <3>1. \A r \in Readers : rps[r] \in ReaderProxyType
      BY Zenon, <2>4 DEF ReaderProxyOK
    <3>2. rps = [r \in Readers |-> rps[r]]
      BY Zenon
    <3> HIDE DEF rps
    <3> QED
      BY Zenon, <3>1, <3>2
  <2> HIDE DEF rps, should_be_sent
  <2>6. ScalarsOK
    <3>1. next_all_acked' \in Nat /\ 1 <= next_all_acked' /\ next_all_acked' <= last_seq' + 1
      BY SMTT(60), <1>1, <1>2, <1>3, <2>1
    <3> QED
      BY Zenon, <1>4, <1>5, <2>2, <2>3, <3>1 DEF ScalarsOK
  <2>7. \A r \in Readers : GrownProxy(r)
    BY Zenon, <1>2, <2>1, <2>4 DEF GrownProxy
  <2>8. rp' \in [Readers -> ReaderProxyType] /\ history' \subseteq history \cup {last_seq + 1}
        /\ last_seq' = last_seq + 1
    BY Zenon, <1>2, <2>1, <2>5
  <2> QED
    BY Zenon, <1>2, <2>6, <2>7, <2>8, NewSampleStep
<1> QED
  BY Zenon, <1>8, <1>9

(* A reader is matched again with nothing acknowledged: it is owed no more *)
(* than before, and a VOLATILE one nothing of the history.                 *)
LEMMA ReaderAddStep ==
    ASSUME IInv, NEW r \in Readers, MatchedReaderAdd(r), UNCHANGED readerVars
    PROVE  IInv'
<1> DEFINE durable == r \notin VolatileReaders /\ ~VolatileWriter
           volatile == r \in VolatileReaders
           fresh == StartReaderProxy(volatile, history, last_seq + 1)
           D == {t \in history : Relevant(r, t)}
           g == [s \in D |-> NewChange("UNACKNOWLEDGED")]
           late == [fresh EXCEPT !.changes = g]
           q == IF durable THEN late ELSE fresh
           hb == HeartbeatOf(history, NextSeq, hb_count + 1, FALSE, FALSE)
           gap == Gap(Min(history)..last_seq)
           out == {hb} \cup (IF history # {} /\ ~durable THEN {gap} ELSE {})
<1>1. /\ TypesOK /\ HistoryOK /\ last_seq \in Nat /\ history \in SUBSET Nat
      /\ hb_count + 1 \in Nat /\ \A s \in history : 0 < s /\ s <= last_seq
  BY DEF IInv, TypesOK, HistoryOK
<1>2. /\ sending = 0
      /\ rp' = [rp EXCEPT ![r] = q]
      /\ join_seq' = [join_seq EXCEPT ![r] = IF durable THEN fresh.low_mark ELSE last_seq]
      /\ periodic_hb' = (periodic_hb \/ history # {})
      /\ hb_count' = hb_count + 1
      /\ SendToReaders(ToEach({r}, out))
      /\ UNCHANGED <<history, last_seq, queue, sending, nack_response, next_all_acked>>
  BY Zenon DEF MatchedReaderAdd, Unlocked, NextSeq
<1>3. /\ ReaderProxyOK(fresh, history, last_seq) /\ fresh.active
      /\ \A s \in history : s > fresh.low_mark
  <2>1. volatile \in BOOLEAN
    OBVIOUS
  <2> HIDE DEF volatile
  <2> QED
    BY Zenon, <1>1, <2>1, StartedProxy
<1>4. fresh \in ReaderProxyType /\ fresh.low_mark \in Nat /\ fresh.low_mark <= last_seq
  BY Zenon, <1>3 DEF ReaderProxyOK, ReaderProxyType
<1> HIDE DEF fresh
<1>5. late \in ReaderProxyType /\ late.active /\ late.low_mark = fresh.low_mark
      /\ DOMAIN late.changes = D
  <2>1. D \in SUBSET Nat /\ g \in [D -> ChangeForReader]
    BY Zenon, <1>1 DEF NewChange, ChangeForReader, ChangeForReaderStatus
  <2> HIDE DEF D, g
  <2>2. g \in ChangesType /\ DOMAIN g = D
    BY Zenon, <2>1, ChangesIntro
  <2> QED
    BY Zenon, <1>3, <1>4, <2>2 DEF ReaderProxyType
<1> HIDE DEF late
<1>6. /\ ReaderProxyOK(q, history, last_seq) /\ q \in ReaderProxyType /\ q.active
      /\ q.low_mark = fresh.low_mark
      /\ durable => DOMAIN q.changes = D
  <2>1. ReaderProxyOK(late, history, last_seq)
    BY Zenon, <1>3, <1>4, <1>5 DEF ReaderProxyOK
  <2> QED
    BY Zenon, <1>3, <1>4, <1>5, <2>1
<1> HIDE DEF q
<1>7. durable <=> r \notin VolatileReaders
  BY Zenon, WriterAssumption
<1>8. ASSUME NEW x \in Readers, x # r
      PROVE  rp'[x] = rp[x] /\ join_seq'[x] = join_seq[x] /\ Owed(x)' = Owed(x)
  <2>1. rp'[x] = rp[x] /\ join_seq'[x] = join_seq[x]
    BY Zenon, <1>1, <1>2, <1>8 DEF TypesOK
  <2> QED
    BY Zenon, <1>2, <2>1 DEF Owed, Relevant
<1>9. /\ rp'[r] = q
      /\ join_seq'[r] = IF durable THEN fresh.low_mark ELSE last_seq
  BY Zenon, <1>1, <1>2 DEF TypesOK
<1>10. durable => Owed(r)' \subseteq Owed(r) /\ Owed(r)' \subseteq D
  <2>1. r \notin VolatileReaders => \A s \in history : s > join_seq[r]
    BY Zenon DEF IInv, WriterSide
  <2> QED
    BY Zenon, <1>2, <2>1 DEF Owed, Relevant
<1>11. ~durable => Owed(r)' = {}
  <2> SUFFICES ASSUME ~durable, NEW s \in Owed(r)' PROVE FALSE
    BY Zenon
  <2>1. s \in history /\ s > last_seq
    BY Zenon, <1>2, <1>9 DEF Owed
  <2>2. s \in Nat /\ s <= last_seq
    BY Zenon, <1>1, <2>1
  <2> QED
    BY <1>1, <2>1, <2>2
<1>12. \A x \in Readers : Owed(x)' \subseteq Owed(x)
  BY Zenon, <1>8, <1>10, <1>11
<1>13. /\ toWriter' = toWriter
       /\ toReader' = [x \in Readers |-> toReader[x] \cup ToEach({r}, out)[x]]
  BY Zenon, <1>2 DEF SendToReaders
<1>14. out \subseteq {hb, gap} /\ (gap \in out => gap = hb \/ ~durable) /\ hb \in ToReaderMessage
       /\ ToReaderOK(r, hb)
  <2>1. Sendable(r, {hb})
    BY Zenon, <1>1, HeartbeatSendable
  <2> HIDE DEF hb, gap, durable
  <2> QED
    BY Zenon, <2>1 DEF Sendable
<1>15. history # {} => /\ gap \in ToReaderMessage /\ gap.type = "GAP"
                       /\ \A s \in gap.seqs : s <= last_seq
  <2> SUFFICES ASSUME history # {}
               PROVE  /\ gap \in ToReaderMessage /\ gap.type = "GAP"
                      /\ \A s \in gap.seqs : s <= last_seq
    BY Zenon
  <2>1. Min(history) \in Nat
    BY Zenon, <1>1, MinNat
  <2> DEFINE seqs == Min(history)..last_seq
  <2>2. seqs \in SUBSET Nat /\ \A s \in seqs : s <= last_seq
    BY <1>1, <2>1
  <2> HIDE DEF seqs
  <2> QED
    BY Zenon, <2>2 DEF Gap, ToReaderMessage, seqs
<1>16. out \subseteq ToReaderMessage
  <2> HIDE DEF hb, gap, durable
  <2> QED
    BY Zenon, <1>14, <1>15
<1> HIDE DEF hb, gap, g, D
<1>17. TypesOK'
  <2>1. periodic_hb' \in BOOLEAN /\ nack_response' \in BOOLEAN
    BY Zenon, <1>1, <1>2 DEF TypesOK
  <2>2. rp' \in [Readers -> ReaderProxyType] /\ join_seq' \in [Readers -> Nat]
    <3> HIDE DEF durable
    <3> QED
      BY Zenon, <1>1, <1>2, <1>4, <1>6 DEF TypesOK
  <2>3. toReader' \in [Readers -> SUBSET ToReaderMessage]
    <3> HIDE DEF out
    <3> QED
      BY Zenon, <1>1, <1>13, <1>16 DEF TypesOK, ToEach
  <2> HIDE DEF durable, out
  <2> QED
    BY Zenon, <1>1, <1>2, <1>13, <2>1, <2>2, <2>3 DEF TypesOK, HistoryOK, readerVars
<1>18. ASSUME NEW x \in Readers PROVE WriterSide(x)'
  <2>1. WriterSide(x)
    BY Zenon DEF IInv
  <2>2. CASE x # r
    BY Zenon, <1>2, <1>8, <2>1, <2>2 DEF WriterSide, readerVars
  <2>3. CASE x = r
    <3>1. join_seq'[r] <= last_seq
      BY <1>1, <1>4, <1>9
    <3>2. r \notin VolatileReaders => \A s \in history : s > join_seq'[r]
      BY Zenon, <1>3, <1>7, <1>9
    <3>3. \A s \in Owed(r)' : s \in DOMAIN q.changes
      BY Zenon, <1>6, <1>10, <1>11
    <3>4. \A s \in Owed(r)' : ~(s <= q.low_mark)
      <4> SUFFICES ASSUME NEW s \in Owed(r)' PROVE ~(s <= q.low_mark)
        BY Zenon
      <4>1. s \in history
        BY Zenon, <1>2 DEF Owed
      <4>2. s \in Nat /\ s > fresh.low_mark
        BY Zenon, <1>1, <1>3, <4>1
      <4> QED
        BY <1>4, <1>6, <4>2
    <3> HIDE DEF durable
    <3> QED
      BY Zenon, <1>2, <1>6, <1>9, <2>3, <3>1, <3>2, <3>3, <3>4 DEF WriterSide, readerVars
  <2> QED
    BY Zenon, <2>2, <2>3
<1>19. ASSUME NEW x \in Readers PROVE ReaderSide(x)'
  <2>1. ReaderSide(x)
    BY Zenon DEF IInv
  <2>2. last_seq' = last_seq
    BY Zenon, <1>2
  <2> QED
    BY Zenon, <1>12, <2>1, <2>2 DEF ReaderSide, readerVars
<1>20. ASSUME NEW x \in Readers PROVE WireSide(x)'
  <2>0. last_seq' = last_seq /\ history' = history
    BY Zenon, <1>2
  <2>1. WireSide(x)
    BY Zenon DEF IInv
  <2>2. ASSUME NEW m \in toReader'[x] PROVE ToReaderOK(x, m)'
    <3>1. CASE ToReaderOK(x, m)
      BY Zenon, <1>12, <2>0, <3>1 DEF ToReaderOK
    <3>2. CASE ~ToReaderOK(x, m)
      <4>1. x = r /\ m \in out
        <5> HIDE DEF out
        <5> QED
          BY Zenon, <1>13, <2>1, <3>2 DEF WireSide, ToEach
      <4>2. m = gap /\ ~durable
        <5> HIDE DEF hb, gap, durable, out
        <5> QED
          BY Zenon, <1>14, <3>2, <4>1
      <4>3. history # {}
        <5>1. m # hb
          <6> HIDE DEF hb
          <6> QED
            BY Zenon, <1>14, <3>2, <4>1
        <5> HIDE DEF hb, gap, durable
        <5> QED
          BY Zenon, <4>1, <5>1
      <4> HIDE DEF gap, durable
      <4> QED
        BY Zenon, <1>11, <1>15, <2>0, <4>1, <4>2, <4>3 DEF ToReaderOK
    <3> QED
      BY Zenon, <3>1, <3>2
  <2>3. ASSUME NEW m \in toWriter[x] PROVE ToWriterOK(x, m)'
    BY Zenon, <1>12, <2>0, <2>1 DEF WireSide, ToWriterOK, readerVars
  <2> QED
    BY Zenon, <1>13, <2>2, <2>3 DEF WireSide
<1> QED
  BY Zenon, <1>17, <1>18, <1>19, <1>20 DEF IInv

(* Every step of the writer preserves the invariant. *)
LEMMA WriterNextIInv ==
    ASSUME IInv, WriterNext, UNCHANGED readerVars
    PROVE  IInv'
<1>1. CASE UnsentChangeAddedToHistory
  BY Zenon, <1>1, AddStep
<1>2. ASSUME NEW seq \in history, RemoveOldSample(seq) PROVE IInv'
  BY Zenon, <1>2, RemovedStep DEF RemoveOldSample
<1>3. CASE TryRemoveChange
  BY Zenon, <1>3, RemovedStep DEF TryRemoveChange
<1>4. ASSUME NEW seq \in history, NEW sent \in BOOLEAN, NEW piggyback \in BOOLEAN,
             NEW delivered \in BOOLEAN, DeliverSample(seq, sent, piggyback, delivered)
      PROVE  IInv'
  BY Zenon, <1>4, DeliverStep
<1>5. CASE IndividualGapThrows
  BY Zenon, <1>5, GapThrowsStep
<1>6. CASE SendPeriodicHeartbeat
  BY Zenon, <1>6, PeriodicHeartbeatStep
<1>7. CASE SendLivelinessHeartbeat
  BY Zenon, <1>7, LivelinessHeartbeatStep
<1>8. CASE PerformNackResponse
  BY Zenon, <1>8, NackResponseStep
<1>9. ASSUME NEW r \in Readers, NackSupressionExpires(r) PROVE IInv'
  BY Zenon, <1>9, NackSupressionStep
<1>10. ASSUME NEW r \in Readers, NEW m \in toWriter[r], ProcessAcknack(r, m) PROVE IInv'
  BY Zenon, <1>10, AcknackStep
<1>11. ASSUME NEW r \in Readers, MatchedReaderAdd(r) PROVE IInv'
  BY Zenon, <1>11, ReaderAddStep
<1>12. ASSUME NEW r \in Readers, MatchedReaderRemove(r) PROVE IInv'
  BY Zenon, <1>12, ReaderRemoveStep
<1> QED
  BY Zenon, <1>1, <1>2, <1>3, <1>4, <1>5, <1>6, <1>7, <1>8, <1>9, <1>10, <1>11, <1>12
     DEF WriterNext

(* A step of something else preserves the invariant. *)
LEMMA StutterIInv ==
    ASSUME IInv, UNCHANGED vars
    PROVE  IInv'
<1>1. UNCHANGED <<writerVars, readerVars, wireVars>> /\ TypesOK
  BY Zenon DEF vars, IInv
<1>2. UNCHANGED <<history, last_seq, rp, queue, sending, periodic_hb, nack_response,
                  hb_count, next_all_acked, join_seq, toReader, toWriter>>
  BY Zenon, <1>1 DEF writerVars, wireVars
<1>3. ScalarsOK
  BY Zenon, <1>1, <1>2 DEF TypesOK, ScalarsOK
<1>4. SendsTrue
  BY Zenon, <1>1, <1>2, SilentSendsTrue DEF TypesOK
<1>5. rp' \in [Readers -> ReaderProxyType] /\ \A r \in Readers : SameEntries(rp[r], rp'[r])
  BY Zenon, <1>1, <1>2, SameProxies
<1> QED
  BY Zenon, <1>1, <1>2, <1>3, <1>4, <1>5, EntriesStep

=============================================================================
