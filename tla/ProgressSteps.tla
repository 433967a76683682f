--------------------------- MODULE ProgressSteps ----------------------------
(***************************************************************************)
(* The steps of the writer preserve the second inductive invariant of      *)
(* ReliableRTPS: nothing is forgotten on the way to a reader, and nothing  *)
(* is acknowledged or removed that its readers have not passed.            *)
(***************************************************************************)
EXTENDS ReliableInvariant

(* check_acked_status() takes nothing that has an entry out of the flow    *)
(* controller, and its mark stays below every entry.                       *)
LEMMA CheckAckedKeeps ==
    ASSUME NEW n \in Nat, NEW hist \in SUBSET Nat, NEW rps \in [Readers -> ReaderProxyType],
           \A r \in Readers : ReaderProxyOK(rps[r], hist, n), NEW q, q \subseteq hist,
           next_all_acked \in Nat, 1 <= next_all_acked, next_all_acked <= n + 1,
           CheckAckedStatus(rps, hist, n + 1, q)
    PROVE  \A r \in Readers : \A s \in DOMAIN rps[r].changes :
              (s \in q => s \in queue') /\ (next_all_acked <= s => next_all_acked' <= s)
<1> DEFINE matched == {r \in Readers : rps[r].active}
           lows == {rps[r].low_mark : r \in matched}
           min_low == IF matched = {} THEN (n + 1) - 1 ELSE Min(lows)
           all_acked == \A r \in matched : DOMAIN rps[r].changes = {}
           by_all == {s \in hist : next_all_acked <= s /\ s <= min_low}
<1> SUFFICES ASSUME NEW r \in Readers, NEW s \in DOMAIN rps[r].changes
             PROVE  (s \in q => s \in queue') /\ (next_all_acked <= s => next_all_acked' <= s)
  BY Zenon
<1>1. /\ rps[r].active /\ s \in Nat /\ s > rps[r].low_mark /\ ~all_acked /\ matched # {}
  BY Zenon DEF ReaderProxyOK
<1>2. Min(lows) \in Nat /\ Min(lows) <= rps[r].low_mark /\ rps[r].low_mark \in Nat
  <2>1. \A x \in Readers : rps[x].low_mark \in Nat
    BY Zenon DEF ReaderProxyType
  <2>2. lows \in SUBSET Nat /\ rps[r].low_mark \in lows
    BY Zenon, <1>1, <2>1
  <2> HIDE DEF lows
  <2> QED
    BY Zenon, <2>2, MinNat
<1>3. min_low \in Nat /\ ~(s <= min_low) /\ min_low + 1 <= s
  BY <1>1, <1>2
<1>4. queue' = IF VolatileWriter THEN q \ by_all ELSE q
  BY Zenon DEF CheckAckedStatus
<1>5. next_all_acked' = IF all_acked THEN n + 1
                        ELSE IF hist # {} /\ next_all_acked <= min_low THEN min_low + 1
                        ELSE next_all_acked
  BY Zenon DEF CheckAckedStatus
<1> HIDE DEF min_low, all_acked
<1> QED
  BY Zenon, <1>1, <1>3, <1>4, <1>5

(* p, as the next proxy of r, acknowledges only what r has passed, gets no *)
(* new entry unless it is durable, and loses none that r did not notify.   *)
AcksPassed(r, p) ==
    p.active =>
        /\ rp[r].active /\ p.volatile = rp[r].volatile
        /\ RecordKept => \A s \in history :
              s <= p.low_mark => s <= rp[r].low_mark \/ s <= record[r]
        /\ rp[r].volatile => DOMAIN p.changes \subseteq DOMAIN rp[r].changes
        /\ r \in KeepAllReaders => \A s \in Owed(r) : s \in DOMAIN rp[r].changes =>
              s \in DOMAIN p.changes \/ s \in notified[r]

(* Such a step of the writer, that publishes and matches nothing, keeps    *)
(* the numbers in order.                                                   *)
LEMMA PassedStep ==
    ASSUME IInv, PInv, UNCHANGED readerVars, UNCHANGED <<last_seq, join_seq, toWriter>>,
           history' \subseteq history, \A r \in Readers : AcksPassed(r, rp'[r]),
           \A r \in Readers : \A s \in DOMAIN rp'[r].changes :
              next_all_acked <= s => next_all_acked' <= s
    PROVE  /\ RecordKept => \A r \in Readers : Recorded(r)'
           /\ VolatileReaders = Readers => \A r \in Readers : Accounted(r)'
<1> USE DEF readerVars
<1>1. ASSUME RecordKept, NEW r \in Readers PROVE Recorded(r)'
  BY Zenon, <1>1 DEF PInv, Recorded, AcksPassed
<1>2. ASSUME VolatileReaders = Readers, NEW r \in Readers PROVE Accounted(r)'
  <2>1. Accounted(r) /\ Due(r)' = Due(r) /\ AcksPassed(r, rp'[r])
    BY Zenon, <1>2 DEF PInv, Due
  <2>2. SUFFICES ASSUME rp'[r].active PROVE Accounted(r)'
    BY Zenon DEF Accounted
  <2>3. rp[r].active /\ rp[r].volatile /\ rp'[r].volatile
        /\ DOMAIN rp'[r].changes \subseteq DOMAIN rp[r].changes
    BY Zenon, <2>1, <2>2 DEF Accounted, AcksPassed
  <2>4. \A s \in DOMAIN rp'[r].changes : next_all_acked' <= s
    BY Zenon, <2>1, <2>3 DEF Accounted
  <2>5. ASSUME KeepAll, r \in KeepAllReaders, NEW s \in Due(r)
        PROVE  s \in notified[r] \/ s \in DOMAIN rp'[r].changes
    <3>1. CASE s \in notified[r]
      BY Zenon, <3>1
    <3>2. CASE s \in DOMAIN rp[r].changes
      <4>1. s \in history
        BY Zenon, <3>2 DEF IInv, WriterSide, ReaderProxyOK
      <4>2. s \in Owed(r)
        <5>1. join_seq[r] \in Nat /\ last_seq \in Nat
          BY Zenon DEF IInv, TypesOK, HistoryOK
        <5> QED
          BY <4>1, <5>1 DEF Due, Owed
      <4> QED
        BY Zenon, <2>1, <2>2, <2>5, <3>2, <4>2 DEF AcksPassed
    <3> QED
      BY Zenon, <2>1, <2>3, <2>5, <3>1, <3>2 DEF Accounted
  <2> QED
    BY Zenon, <2>1, <2>3, <2>4, <2>5 DEF Accounted
<1> QED
  BY Zenon, <1>1, <1>2

(* Statuses, counts and timers do not matter for the numbers. *)
LEMMA SamePassed ==
    ASSUME NEW r \in Readers, NEW p, SameEntries(rp[r], p), p.volatile = rp[r].volatile
    PROVE  AcksPassed(r, p)
BY Zenon DEF SameEntries, AcksPassed

(* A step that leaves the numbers alone. *)
LEMMA StatusStep ==
    ASSUME IInv, PInv, UNCHANGED readerVars,
           UNCHANGED <<history, last_seq, join_seq, next_all_acked, toWriter>>,
           \A r \in Readers : SameEntries(rp[r], rp'[r]) /\ rp'[r].volatile = rp[r].volatile,
           \A r \in Readers : ArmedFor(rp'[r], nack_response', periodic_hb'),
           ~SyncPublish => sending' = 0,
           FailuresQueued => \A r \in Readers : QueuedFor(rp'[r], queue', sending')
    PROVE  PInv'
<1>1. \A r \in Readers : AcksPassed(r, rp'[r])
  BY Zenon, SamePassed
<1>2. Armed'
  BY Zenon DEF PInv, Armed
<1> QED
  BY Zenon, <1>1, <1>2, PassedStep DEF PInv

(* What IInv and PInv say of one proxy. *)
LEMMA ProxyFacts ==
    ASSUME IInv, PInv, NEW r \in Readers
    PROVE  /\ rp[r] \in ReaderProxyType /\ SameEntries(rp[r], rp[r])
           /\ ReaderProxyOK(rp[r], history, last_seq)
           /\ ArmedFor(rp[r], nack_response, periodic_hb)
           /\ FailuresQueued => QueuedFor(rp[r], queue, sending)
BY Zenon DEF IInv, TypesOK, WriterSide, SameEntries, PInv, Armed

(* A throw out of the delivery forgets a sample only when a send may fail  *)
(* in the publishing thread.                                               *)
LEMMA GapThrowsPInv ==
    ASSUME IInv, PInv, IndividualGapThrows, UNCHANGED readerVars
    PROVE  PInv'
<1>1. sending # 0 /\ SendMayFail /\ sending' = 0
      /\ UNCHANGED <<history, last_seq, rp, queue, periodic_hb, nack_response,
                     next_all_acked, join_seq, toWriter>>
  BY Zenon DEF IndividualGapThrows, Unlocked, wireVars
<1>2. ~FailuresQueued
  BY Zenon, <1>1 DEF PInv, Armed, FailuresQueued
<1> QED
  BY Zenon, <1>1, <1>2, ProxyFacts, StatusStep

(* The periodic heartbeat stays armed while anything is unacknowledged. *)
LEMMA PeriodicHeartbeatPInv ==
    ASSUME IInv, PInv, SendPeriodicHeartbeat, UNCHANGED readerVars
    PROVE  PInv'
<1> DEFINE first == IF history = {} THEN last_seq ELSE Min(history)
           unacked == \E r \in Matched : HasUnacknowledged(rp[r], first)
<1>1. /\ periodic_hb' = unacked
      /\ UNCHANGED <<history, last_seq, rp, queue, sending, nack_response,
                     next_all_acked, join_seq, toWriter>>
  BY Zenon DEF SendPeriodicHeartbeat, SendToReaders
<1>2. ASSUME NEW r \in Readers, WithStatus(rp[r], "UNACKNOWLEDGED") # {} PROVE unacked
  <2>1. rp[r].active
    BY Zenon, <1>2, ProxyFacts DEF ReaderProxyOK, WithStatus
  <2> QED
    BY Zenon, <1>2, <2>1 DEF Matched, HasUnacknowledged
<1> HIDE DEF unacked
<1>3. \A r \in Readers : ArmedFor(rp'[r], nack_response', periodic_hb')
  BY Zenon, <1>1, <1>2, ProxyFacts DEF ArmedFor, WithStatus
<1>4. ~SyncPublish => sending' = 0
  BY Zenon, <1>1 DEF PInv, Armed
<1> QED
  BY Zenon, <1>1, <1>3, <1>4, ProxyFacts, StatusStep

(* A liveliness heartbeat changes nothing else. *)
LEMMA LivelinessHeartbeatPInv ==
    ASSUME IInv, PInv, SendLivelinessHeartbeat, UNCHANGED readerVars
    PROVE  PInv'
<1>1. UNCHANGED <<history, last_seq, rp, queue, sending, periodic_hb, nack_response,
                  next_all_acked, join_seq, toWriter>>
  BY Zenon DEF SendLivelinessHeartbeat, SendToReaders
<1>2. ~SyncPublish => sending' = 0
  BY Zenon, <1>1 DEF PInv, Armed
<1> QED
  BY Zenon, <1>1, <1>2, ProxyFacts, StatusStep

(* perform_nack_response() queues all that was requested. *)
LEMMA NackResponsePInv ==
    ASSUME IInv, PInv, PerformNackResponse, UNCHANGED readerVars
    PROVE  PInv'
<1>1. /\ nack_response' = FALSE
      /\ rp' = [r \in Readers |-> IF rp[r].active THEN PerformAcknackResponse(rp[r]) ELSE rp[r]]
      /\ queue' = queue \cup UNION {WithStatus(rp[r], "REQUESTED") : r \in Matched}
      /\ UNCHANGED <<history, last_seq, sending, periodic_hb, next_all_acked, join_seq, toWriter>>
  BY Zenon DEF PerformNackResponse, wireVars
<1>2. ASSUME NEW r \in Readers
      PROVE  /\ SameEntries(rp[r], rp'[r]) /\ rp'[r].volatile = rp[r].volatile
             /\ ArmedFor(rp'[r], nack_response', periodic_hb')
             /\ FailuresQueued => QueuedFor(rp'[r], queue', sending')
  <2>0. /\ rp[r] \in ReaderProxyType /\ SameEntries(rp[r], rp[r])
        /\ ReaderProxyOK(rp[r], history, last_seq)
        /\ ArmedFor(rp[r], nack_response, periodic_hb)
        /\ FailuresQueued => QueuedFor(rp[r], queue, sending)
    BY Zenon, ProxyFacts
  <2>1. CASE rp[r].active
    <3> DEFINE q == ConvertStatusOnAllChanges(rp[r], "REQUESTED", "UNSENT")
    <3>1. rp'[r] = q
      BY Zenon, <1>1, <2>1 DEF PerformAcknackResponse
    <3>2. SameEntries(rp[r], q)
      BY Zenon, <2>0, AcknackResponseEntries DEF PerformAcknackResponse
    <3>3. /\ q.nack_supression = rp[r].nack_supression /\ q.volatile = rp[r].volatile
          /\ \A s \in DOMAIN rp[r].changes : q.changes[s].status =
                IF rp[r].changes[s].status = "REQUESTED" THEN "UNSENT"
                                                         ELSE rp[r].changes[s].status
      BY <2>0, ConvertedStatus DEF ChangeForReaderStatus
    <3> HIDE DEF q
    <3>4. DOMAIN q.changes = DOMAIN rp[r].changes
      BY Zenon, <3>2 DEF SameEntries
    <3>5. WithStatus(rp[r], "REQUESTED") \subseteq queue' /\ queue \subseteq queue'
      BY Zenon, <1>1, <2>1 DEF Matched
    <3>6. ArmedFor(q, nack_response', periodic_hb')
      BY Zenon, <1>1, <2>0, <3>3, <3>4 DEF ArmedFor
    <3>7. FailuresQueued => QueuedFor(q, queue', sending')
      BY Zenon, <1>1, <2>0, <3>3, <3>4, <3>5 DEF QueuedFor, WithStatus
    <3> QED
      BY Zenon, <3>1, <3>2, <3>3, <3>6, <3>7
  <2>2. CASE ~rp[r].active
    <3>1. rp'[r] = rp[r] /\ DOMAIN rp[r].changes = {}
      BY Zenon, <1>1, <2>0, <2>2 DEF ReaderProxyOK
    <3> QED
      BY Zenon, <2>0, <3>1 DEF ArmedFor, QueuedFor, WithStatus
  <2> QED
    BY Zenon, <2>1, <2>2
<1>3. ~SyncPublish => sending' = 0
  BY Zenon, <1>1 DEF PInv, Armed
<1>4. UNCHANGED <<history, last_seq, join_seq, next_all_acked, toWriter>>
  BY Zenon, <1>1
<1> QED
  BY Zenon, <1>2, <1>3, <1>4, StatusStep

(* perform_nack_supression() restarts the periodic heartbeat. *)
LEMMA NackSupressionPInv ==
    ASSUME IInv, PInv, NEW r \in Readers, NackSupressionExpires(r), UNCHANGED readerVars
    PROVE  PInv'
<1> DEFINE q == PerformNackSupression(rp[r])
           c == ConvertStatusOnAllChanges(rp[r], "UNDERWAY", "UNACKNOWLEDGED")
<1>1. /\ rp' = [rp EXCEPT ![r] = q] /\ periodic_hb' = TRUE
      /\ UNCHANGED <<history, last_seq, queue, sending, nack_response, next_all_acked,
                     join_seq, toWriter>>
  BY Zenon DEF NackSupressionExpires, wireVars
<1>2. /\ rp[r] \in ReaderProxyType
      /\ ArmedFor(rp[r], nack_response, periodic_hb)
      /\ FailuresQueued => QueuedFor(rp[r], queue, sending)
  BY Zenon, ProxyFacts
<1>3. SameEntries(rp[r], q)
  BY Zenon, <1>2, NackSupressionEntries
<1>4. /\ c.volatile = rp[r].volatile
      /\ \A s \in DOMAIN rp[r].changes : c.changes[s].status =
            IF rp[r].changes[s].status = "UNDERWAY" THEN "UNACKNOWLEDGED"
                                                    ELSE rp[r].changes[s].status
  BY <1>2, ConvertedStatus DEF ChangeForReaderStatus
<1>5. q.changes = c.changes /\ q.volatile = c.volatile
  BY Zenon, <1>2 DEF PerformNackSupression, ConvertStatusOnAllChanges, ReaderProxyType
<1> HIDE DEF q, c
<1>6. DOMAIN q.changes = DOMAIN rp[r].changes
  BY Zenon, <1>3 DEF SameEntries
<1>7. ArmedFor(q, nack_response', periodic_hb')
  BY Zenon, <1>1, <1>2, <1>4, <1>5, <1>6 DEF ArmedFor
<1>8. FailuresQueued => QueuedFor(q, queue', sending')
  BY Zenon, <1>1, <1>2, <1>4, <1>5, <1>6 DEF QueuedFor, WithStatus
<1>9. \A x \in Readers : rp'[x] = IF x = r THEN q ELSE rp[x]
  BY Zenon, <1>1 DEF IInv, TypesOK
<1>10. ASSUME NEW x \in Readers, x # r
       PROVE  /\ SameEntries(rp[x], rp'[x]) /\ rp'[x].volatile = rp[x].volatile
              /\ ArmedFor(rp'[x], nack_response', periodic_hb')
              /\ FailuresQueued => QueuedFor(rp'[x], queue', sending')
  <2>1. /\ SameEntries(rp[x], rp[x]) /\ ArmedFor(rp[x], nack_response, periodic_hb)
        /\ FailuresQueued => QueuedFor(rp[x], queue, sending)
    BY Zenon, ProxyFacts
  <2>2. ArmedFor(rp[x], nack_response', periodic_hb')
    BY Zenon, <1>1, <2>1 DEF ArmedFor
  <2> QED
    BY Zenon, <1>1, <1>9, <1>10, <2>1, <2>2
<1>11. ~SyncPublish => sending' = 0
  BY Zenon, <1>1 DEF PInv, Armed
<1>12. \A x \in Readers :
         /\ SameEntries(rp[x], rp'[x]) /\ rp'[x].volatile = rp[x].volatile
         /\ ArmedFor(rp'[x], nack_response', periodic_hb')
         /\ FailuresQueued => QueuedFor(rp'[x], queue', sending')
  BY Zenon, <1>3, <1>4, <1>5, <1>7, <1>8, <1>9, <1>10
<1>13. UNCHANGED <<history, last_seq, join_seq, next_all_acked, toWriter>>
  BY Zenon, <1>1
<1> QED
  BY Zenon, <1>11, <1>12, <1>13, StatusStep

(* A step that acknowledges what was passed and ends in                    *)
(* check_acked_status().                                                   *)
LEMMA AckedPInv ==
    ASSUME IInv, PInv, UNCHANGED readerVars, UNCHANGED <<last_seq, join_seq, toWriter>>,
           NEW rps \in [Readers -> ReaderProxyType], NEW q, q \subseteq history,
           CheckAckedStatus(rps, history, NextSeq, q), sending' = 0,
           \A r \in Readers : ReaderProxyOK(rps[r], history, last_seq),
           \A r \in Readers : AcksPassed(r, rps[r]),
           \A r \in Readers : ArmedFor(rps[r], nack_response', periodic_hb'),
           FailuresQueued => \A r \in Readers : QueuedFor(rps[r], q, 0)
    PROVE  PInv'
<1>1. /\ last_seq \in Nat /\ history \in SUBSET Nat
      /\ next_all_acked \in Nat /\ 1 <= next_all_acked /\ next_all_acked <= last_seq + 1
      /\ CheckAckedStatus(rps, history, last_seq + 1, q)
  BY Zenon DEF IInv, TypesOK, HistoryOK, NextSeq
<1>2. rp' = rps /\ history' \subseteq history
  BY Zenon, <1>1, CheckAckedFacts
<1>3. \A r \in Readers : \A s \in DOMAIN rps[r].changes :
         (s \in q => s \in queue') /\ (next_all_acked <= s => next_all_acked' <= s)
  BY ZenonT(60), <1>1, CheckAckedKeeps
<1>4. FailuresQueued => \A r \in Readers : QueuedFor(rp'[r], queue', sending')
  <2> SUFFICES ASSUME FailuresQueued, NEW r \in Readers, NEW s \in WithStatus(rps[r], "UNSENT")
               PROVE  s \in queue' \/ sending' = s
    BY Zenon, <1>2 DEF QueuedFor
  <2>1. s \in q \/ 0 = s
    BY Zenon DEF QueuedFor
  <2>2. s \in DOMAIN rps[r].changes
    BY Zenon DEF WithStatus
  <2> QED
    BY Zenon, <1>3, <2>1, <2>2
<1>5. \A r \in Readers : \A m \in toWriter'[r] : InitialAsks(m)
  BY Zenon DEF PInv, Armed
<1>6. Armed'
  BY Zenon, <1>2, <1>4, <1>5 DEF Armed
<1>7. /\ RecordKept => \A r \in Readers : Recorded(r)'
      /\ VolatileReaders = Readers => \A r \in Readers : Accounted(r)'
  BY Zenon, <1>2, <1>3, PassedStep
<1> QED
  BY Zenon, <1>6, <1>7 DEF PInv

(* matched_reader_remove() stops the periodic heartbeat with the last      *)
(* reader only.                                                            *)
LEMMA ReaderRemovePInv ==
    ASSUME IInv, PInv, NEW r \in Readers, MatchedReaderRemove(r), UNCHANGED readerVars
    PROVE  PInv'
<1> DEFINE rps == [rp EXCEPT ![r] = StoppedReaderProxy]
<1>1. TypesOK /\ last_seq \in Nat
  BY Zenon DEF IInv, TypesOK, HistoryOK
<1>2. /\ sending = 0 /\ CheckAckedStatus(rps, history, NextSeq, queue)
      /\ periodic_hb' = (periodic_hb /\ Matched # {r})
      /\ UNCHANGED <<last_seq, sending, nack_response, join_seq, toWriter>>
  BY Zenon DEF MatchedReaderRemove, Unlocked, wireVars
<1>3. /\ ReaderProxyOK(StoppedReaderProxy, history, last_seq) /\ StoppedReaderProxy.active = FALSE
      /\ StoppedReaderProxy \in ReaderProxyType /\ DOMAIN StoppedReaderProxy.changes = {}
  BY Zenon, <1>1, StoppedReaderProxyOK DEF ReaderProxyOK
<1>4. rps \in [Readers -> ReaderProxyType]
      /\ \A x \in Readers : rps[x] = IF x = r THEN StoppedReaderProxy ELSE rp[x]
  BY Zenon, <1>1, <1>3 DEF TypesOK
<1> HIDE DEF rps
<1>5. ASSUME NEW x \in Readers
      PROVE  /\ ReaderProxyOK(rps[x], history, last_seq) /\ AcksPassed(x, rps[x])
             /\ ArmedFor(rps[x], nack_response', periodic_hb')
             /\ FailuresQueued => QueuedFor(rps[x], queue, 0)
  <2>1. CASE x = r
    <3>1. rps[x] = StoppedReaderProxy
      BY Zenon, <1>4, <2>1
    <3> QED
      BY Zenon, <1>3, <3>1 DEF AcksPassed, ArmedFor, QueuedFor, WithStatus
  <2>2. CASE x # r
    <3>1. rps[x] = rp[x]
      BY Zenon, <1>4, <2>2
    <3>2. /\ ReaderProxyOK(rp[x], history, last_seq) /\ SameEntries(rp[x], rp[x])
          /\ ArmedFor(rp[x], nack_response, periodic_hb)
          /\ FailuresQueued => QueuedFor(rp[x], queue, sending)
      BY Zenon, ProxyFacts
    <3>3. rp[x].active => Matched # {r}
      BY Zenon, <2>2 DEF Matched
    <3>4. ArmedFor(rp[x], nack_response', periodic_hb')
      BY Zenon, <1>2, <3>2, <3>3 DEF ArmedFor, ReaderProxyOK
    <3>5. AcksPassed(x, rp[x])
      BY Zenon, <3>2, SamePassed
    <3> QED
      BY Zenon, <1>2, <3>1, <3>2, <3>4, <3>5
  <2> QED
    BY Zenon, <2>1, <2>2
<1>6. sending' = 0 /\ queue \subseteq history /\ UNCHANGED <<last_seq, join_seq, toWriter>>
  BY Zenon, <1>1, <1>2 DEF TypesOK
<1> QED
  BY Zenon, <1>2, <1>4, <1>5, <1>6, AckedPInv

(* A delivered sample is underway to all its readers; one that was not     *)
(* delivered is queued again.                                              *)
LEMMA DeliverPInv ==
    ASSUME IInv, PInv, NEW seq \in history, NEW sent \in BOOLEAN, NEW piggyback \in BOOLEAN,
           NEW delivered \in BOOLEAN, DeliverSample(seq, sent, piggyback, delivered),
           UNCHANGED readerVars
    PROVE  PInv'
<1> DEFINE readers == UnsentReaders(seq)
           rps == [r \in Readers |-> IF sent /\ r \in readers
                                     THEN FromUnsentToUnderway(rp[r], seq) ELSE rp[r]]
           q == IF delivered THEN queue \ {seq} ELSE queue \cup {seq}
<1>1. /\ sending' = 0 /\ CheckAckedStatus(rps, history, NextSeq, q)
      /\ periodic_hb' = (periodic_hb \/ \E r \in readers : ~rp[r].changes[seq].delivered)
      /\ IF sending = 0 THEN seq \in queue ELSE seq = sending
      /\ readers # {} /\ delivered => sent
      /\ UNCHANGED <<last_seq, nack_response, join_seq, toWriter>>
  BY Zenon DEF DeliverSample, Unlocked, SendToReaders
<1>2. ASSUME NEW r \in Readers
      PROVE  /\ SameEntries(rp[r], rps[r]) /\ AcksPassed(r, rps[r])
             /\ ReaderProxyOK(rps[r], history, last_seq)
             /\ ArmedFor(rps[r], nack_response', periodic_hb')
             /\ FailuresQueued => QueuedFor(rps[r], q, 0)
  <2>1. /\ rp[r] \in ReaderProxyType /\ SameEntries(rp[r], rp[r])
        /\ ReaderProxyOK(rp[r], history, last_seq)
        /\ ArmedFor(rp[r], nack_response, periodic_hb)
        /\ FailuresQueued => QueuedFor(rp[r], queue, sending)
    BY Zenon, ProxyFacts
  <2>2. ASSUME NEW s \in WithStatus(rp[r], "UNSENT"), FailuresQueued, s # seq PROVE s \in q
    <3>1. s \in queue \/ sending = s
      BY Zenon, <2>1, <2>2 DEF QueuedFor
    <3>2. s # 0
      BY <2>1 DEF IInv, TypesOK, HistoryOK, ReaderProxyOK, WithStatus
    <3> QED
      BY Zenon, <1>1, <2>2, <3>1, <3>2
  <2>3. CASE sent /\ r \in readers
    <3> DEFINE p == FromUnsentToUnderway(rp[r], seq)
    <3>1. rps[r] = p /\ seq \in DOMAIN rp[r].changes
      BY Zenon, <2>3 DEF UnsentReaders, ChangeIsUnsent
    <3>2. SameEntries(rp[r], p)
      BY Zenon, <2>1, <3>1, UnderwayEntries
    <3>3. /\ p.nack_supression = TRUE /\ p.volatile = rp[r].volatile
          /\ \A s \in DOMAIN rp[r].changes : p.changes[s].status =
                IF s = seq THEN "UNDERWAY" ELSE rp[r].changes[s].status
      BY Zenon, <2>1, <3>1, UnderwayStatus
    <3> HIDE DEF p, rps, q
    <3>4. DOMAIN p.changes = DOMAIN rp[r].changes
      BY Zenon, <3>2 DEF SameEntries
    <3>5. ArmedFor(p, nack_response', periodic_hb')
      BY Zenon, <1>1, <2>1, <3>3, <3>4 DEF ArmedFor
    <3>6. FailuresQueued => QueuedFor(p, q, 0)
      BY Zenon, <2>2, <3>3, <3>4 DEF QueuedFor, WithStatus
    <3>7. AcksPassed(r, p)
      BY Zenon, <3>2, <3>3, SamePassed
    <3>8. ReaderProxyOK(p, history, last_seq)
      BY Zenon, <2>1, <3>2 DEF SameEntries, ReaderProxyOK
    <3> QED
      BY Zenon, <3>1, <3>2, <3>5, <3>6, <3>7, <3>8
  <2>4. CASE ~(sent /\ r \in readers)
    <3>1. rps[r] = rp[r]
      BY Zenon, <2>4
    <3>2. ArmedFor(rp[r], nack_response', periodic_hb')
      BY Zenon, <1>1, <2>1 DEF ArmedFor
    <3>3. ASSUME seq \in WithStatus(rp[r], "UNSENT") PROVE seq \in q
      <4>1. r \in readers
        BY Zenon, <2>1, <3>3 DEF UnsentReaders, Matched, ChangeIsUnsent, WithStatus, ReaderProxyOK
      <4> QED
        BY Zenon, <1>1, <2>4, <4>1
    <3>4. FailuresQueued => QueuedFor(rp[r], q, 0)
      BY Zenon, <2>2, <3>3 DEF QueuedFor
    <3>5. AcksPassed(r, rp[r])
      BY Zenon, <2>1, SamePassed
    <3> HIDE DEF rps
    <3> QED
      BY Zenon, <2>1, <3>1, <3>2, <3>4, <3>5
  <2> QED
    BY Zenon, <2>3, <2>4
<1>3. rps \in [Readers -> ReaderProxyType]
  <2>1. \A r \in Readers : rps[r] \in ReaderProxyType
    BY Zenon, <1>2 DEF SameEntries
  <2>2. rps = [r \in Readers |-> rps[r]]
    BY Zenon
  <2> HIDE DEF rps
  <2> QED
    BY Zenon, <2>1, <2>2
<1>4. q \subseteq history
  BY Zenon DEF IInv, TypesOK
<1> HIDE DEF rps, q, readers
<1>5. CheckAckedStatus(rps, history, NextSeq, q) /\ sending' = 0
      /\ UNCHANGED <<last_seq, join_seq, toWriter>>
  BY Zenon, <1>1
<1> QED
  BY Zenon, <1>2, <1>3, <1>4, <1>5, AckedPInv

(* What an ACKNACK requests is answered by the nack response, and the      *)
(* initial ACKNACK starts the periodic heartbeat.                          *)
LEMMA AcknackPInv ==
    ASSUME IInv, PInv, NEW r \in Readers, NEW m \in toWriter[r], ProcessAcknack(r, m),
           UNCHANGED readerVars
    PROVE  PInv'
<1> DEFINE p0 == [rp[r] EXCEPT !.next_acknack = m.count + 1]
           acked == AckedChangesSet(p0, m.base, history, last_seq + 1)
           marked == RequestedChanges(acked, m.seqs, history)
           request == m.base > 0
           preemptive == ~request /\ m.seqs = {} /\ ~m.final
           q == IF request THEN RequestedChangesSet(acked, m.seqs, history) ELSE acked
           rps == [rp EXCEPT ![r] = q]
           A == {s \in Nat : s < m.base}
<1>1. TypesOK /\ last_seq \in Nat /\ history \in SUBSET Nat
      /\ (\A s \in history : 0 < s /\ s <= last_seq) /\ rp[r] \in ReaderProxyType
      /\ m \in ToWriterMessage
  BY Zenon DEF IInv, TypesOK, HistoryOK
<1>2. /\ sending = 0 /\ rp[r].active
      /\ nack_response' = (nack_response \/ (request /\ marked # {}))
      /\ periodic_hb' = (periodic_hb \/ (request /\ marked = {} /\ ~m.final) \/ preemptive)
      /\ CheckAckedStatus(rps, history, NextSeq, queue)
      /\ UNCHANGED <<last_seq, sending, join_seq, toWriter>>
  BY Zenon DEF ProcessAcknack, Unlocked, NextSeq, SendToReaders
<1>3. /\ m.base \in Nat /\ m.seqs \in SUBSET Nat /\ m.count \in Nat
      /\ m.base <= last_seq + 1
      /\ r \in KeepAllReaders => \A s \in Owed(r) : s < m.base => s \in notified[r]
      /\ InitialAsks(m) /\ (RecordKept => m.base <= record[r] + 1)
  BY Zenon, <1>1 DEF IInv, WireSide, ToWriterOK, ToWriterMessage, PInv, Armed, Recorded
<1>4. /\ ReaderProxyOK(p0, history, last_seq) /\ p0 \in ReaderProxyType
      /\ p0.active = rp[r].active /\ p0.volatile = rp[r].volatile
      /\ p0.low_mark = rp[r].low_mark /\ p0.changes = rp[r].changes
      /\ p0.nack_supression = rp[r].nack_supression
  <2>1. ReaderProxyOK(rp[r], history, last_seq)
    BY Zenon DEF IInv, WriterSide
  <2>2. p0 \in ReaderProxyType /\ p0.active = rp[r].active /\ p0.volatile = rp[r].volatile
        /\ p0.low_mark = rp[r].low_mark /\ p0.changes = rp[r].changes
        /\ p0.nack_supression = rp[r].nack_supression
    BY SMTT(60), <1>1, <1>3 DEF ReaderProxyType
  <2> QED
    BY Zenon, <2>1, <2>2 DEF ReaderProxyOK
<1> HIDE DEF p0
<1>5. ReaderProxyOK(acked, history, last_seq) /\ Acknowledges(p0, acked, A, history)
  BY Zenon, <1>1, <1>2, <1>3, <1>4, AckedChangesSetAcks
<1>6. /\ acked.nack_supression = p0.nack_supression /\ acked.volatile = p0.volatile
      /\ m.base # 0 \/ p0.volatile => KeepsStatus(p0, acked)
      /\ \A s \in DOMAIN acked.changes :
            \/ s \in DOMAIN p0.changes /\ acked.changes[s].status = p0.changes[s].status
            \/ acked.changes[s].status = "UNACKNOWLEDGED"
  <2> DEFINE next == last_seq + 1
             x == AckedChangesSet(p0, m.base, history, next)
  <2>1. p0 \in ReaderProxyType /\ m.base \in Nat /\ history \in SUBSET Nat
    BY Zenon, <1>1, <1>3, <1>4
  <2>2. acked = x
    BY Zenon
  <2> HIDE DEF next, acked
  <2> HIDE DEF p0
  <2>3. x.nack_supression = p0.nack_supression /\ x.volatile = p0.volatile
    BY ZenonT(30), <2>1, AckedStatus
  <2>4. m.base # 0 \/ p0.volatile => KeepsStatus(p0, x)
    BY Zenon, <2>1, AckedStatus
  <2>5. \A s \in DOMAIN x.changes :
              \/ s \in DOMAIN p0.changes /\ x.changes[s].status = p0.changes[s].status
              \/ x.changes[s].status = "UNACKNOWLEDGED"
    BY <2>1, AckedStatus
  <2> QED
    BY Zenon, <2>2, <2>3, <2>4, <2>5
<1>7. acked \in ReaderProxyType
  BY Zenon, <1>5 DEF ReaderProxyOK
<1> HIDE DEF acked
<1>8. /\ SameEntries(acked, q) /\ q.nack_supression = acked.nack_supression
      /\ q.volatile = acked.volatile
      /\ \A s \in DOMAIN acked.changes : q.changes[s].status =
            IF request /\ s \in marked THEN "REQUESTED" ELSE acked.changes[s].status
  <2>1. SameEntries(acked, acked) /\ SameEntries(acked, RequestedChangesSet(acked, m.seqs, history))
    BY Zenon, <1>7, RequestedEntries DEF SameEntries
  <2>2. LET x == RequestedChangesSet(acked, m.seqs, history)
        IN  /\ x.nack_supression = acked.nack_supression /\ x.volatile = acked.volatile
            /\ \A s \in DOMAIN acked.changes : x.changes[s].status =
                  IF s \in marked THEN "REQUESTED" ELSE acked.changes[s].status
    BY <1>7, RequestedStatus
  <2> QED
    BY Zenon, <2>1, <2>2
<1> HIDE DEF q, marked
<1>9. /\ ReaderProxyOK(q, history, last_seq) /\ Acknowledges(rp[r], q, A, history)
      /\ q \in ReaderProxyType /\ DOMAIN q.changes = DOMAIN acked.changes
  BY Zenon, <1>4, <1>5, <1>8 DEF ReaderProxyOK, Acknowledges, SameEntries
<1>10. ~request => preemptive
  <2>1. m.base \in Nat /\ (m.base = 0 => m.seqs = {} /\ ~m.final)
    BY Zenon, <1>3 DEF InitialAsks
  <2> QED
    BY <2>1
<1>11. ArmedFor(rp[r], nack_response, periodic_hb)
       /\ (FailuresQueued => QueuedFor(rp[r], queue, sending))
  BY Zenon, ProxyFacts
<1>12. ASSUME NEW s \in DOMAIN q.changes
       PROVE  \/ s \in DOMAIN rp[r].changes /\ q.changes[s].status = rp[r].changes[s].status
              \/ request /\ s \in marked /\ q.changes[s].status = "REQUESTED"
              \/ preemptive /\ q.changes[s].status = "UNACKNOWLEDGED"
  <2>1. CASE request
    <3>1. s \in DOMAIN rp[r].changes /\ acked.changes[s].status = rp[r].changes[s].status
      BY <1>3, <1>4, <1>6, <1>9, <2>1 DEF KeepsStatus
    <3> QED
      BY Zenon, <1>8, <1>9, <2>1, <3>1
  <2>2. CASE ~request
    BY Zenon, <1>4, <1>6, <1>8, <1>9, <1>10, <2>2
  <2> QED
    BY Zenon, <2>1, <2>2
<1> HIDE DEF request, preemptive
<1>13. q.nack_supression = rp[r].nack_supression /\ q.volatile = rp[r].volatile
  BY Zenon, <1>4, <1>6, <1>8
<1>14. ArmedFor(q, nack_response', periodic_hb')
  <2> SUFFICES ASSUME NEW s \in DOMAIN q.changes
               PROVE  /\ q.changes[s].status = "REQUESTED" => nack_response'
                      /\ q.changes[s].status = "UNDERWAY" => q.nack_supression
                      /\ q.changes[s].status = "UNACKNOWLEDGED" => periodic_hb'
    BY Zenon DEF ArmedFor
  <2>1. CASE s \in DOMAIN rp[r].changes /\ q.changes[s].status = rp[r].changes[s].status
    BY Zenon, <1>2, <1>11, <1>13, <2>1 DEF ArmedFor
  <2>2. CASE request /\ s \in marked /\ q.changes[s].status = "REQUESTED"
    BY Zenon, <1>2, <2>2
  <2>3. CASE preemptive /\ q.changes[s].status = "UNACKNOWLEDGED"
    BY Zenon, <1>2, <2>3
  <2> QED
    BY Zenon, <1>12, <2>1, <2>2, <2>3
<1>15. FailuresQueued => QueuedFor(q, queue, 0)
  BY Zenon, <1>2, <1>11, <1>12 DEF QueuedFor, WithStatus
<1>16. AcksPassed(r, q)
  <2>1. ASSUME RecordKept, NEW s \in history, s <= q.low_mark
        PROVE  s <= rp[r].low_mark \/ s <= record[r]
    <3>1. s <= rp[r].low_mark \/ s \in A
      BY Zenon, <1>9, <2>1 DEF Acknowledges
    <3>2. s \in Nat /\ record[r] \in Nat /\ m.base \in Nat /\ m.base <= record[r] + 1
      BY Zenon, <1>1, <1>3, <2>1 DEF TypesOK
    <3> QED
      BY <3>1, <3>2
  <2>2. rp[r].volatile => DOMAIN q.changes \subseteq DOMAIN rp[r].changes
    BY Zenon, <1>4, <1>6, <1>9 DEF KeepsStatus
  <2>3. ASSUME r \in KeepAllReaders, NEW s \in Owed(r), s \in DOMAIN rp[r].changes
        PROVE  s \in DOMAIN q.changes \/ s \in notified[r]
    <3>1. s \in history /\ s \in Nat /\ ~(s <= rp[r].low_mark)
      <4>1. ReaderProxyOK(rp[r], history, last_seq) /\ rp[r].low_mark \in Nat
        BY Zenon, <1>1, ProxyFacts DEF ReaderProxyType
      <4>2. s \in history /\ s > rp[r].low_mark
        BY Zenon, <2>3, <4>1 DEF ReaderProxyOK
      <4>3. s \in Nat
        BY Zenon, <1>1, <4>2
      <4>4. ASSUME NEW l \in Nat, s > l PROVE ~(s <= l)
        BY <4>3, <4>4
      <4> QED
        BY Zenon, <4>1, <4>2, <4>3, <4>4
    <3>2. s \in DOMAIN q.changes \/ s <= q.low_mark
      BY Zenon, <1>9, <2>3, <3>1 DEF Acknowledges
    <3>3. s <= q.low_mark => s \in A
      BY Zenon, <1>9, <3>1 DEF Acknowledges
    <3> QED
      BY Zenon, <1>3, <2>3, <3>2, <3>3
  <2> QED
    BY Zenon, <1>2, <1>13, <2>1, <2>2, <2>3 DEF AcksPassed
<1>17. /\ rps \in [Readers -> ReaderProxyType]
       /\ \A x \in Readers : rps[x] = IF x = r THEN q ELSE rp[x]
  BY Zenon, <1>1, <1>9 DEF TypesOK
<1> HIDE DEF rps
<1>18. ASSUME NEW x \in Readers
       PROVE  /\ ReaderProxyOK(rps[x], history, last_seq) /\ AcksPassed(x, rps[x])
              /\ ArmedFor(rps[x], nack_response', periodic_hb')
              /\ FailuresQueued => QueuedFor(rps[x], queue, 0)
  <2>1. CASE x = r
    BY Zenon, <1>9, <1>14, <1>15, <1>16, <1>17, <2>1
  <2>2. CASE x # r
    <3>1. /\ SameEntries(rp[x], rp[x]) /\ ReaderProxyOK(rp[x], history, last_seq)
          /\ ArmedFor(rp[x], nack_response, periodic_hb)
          /\ FailuresQueued => QueuedFor(rp[x], queue, sending)
      BY Zenon, ProxyFacts
    <3>2. AcksPassed(x, rp[x])
      BY Zenon, <3>1, SamePassed
    <3>3. ArmedFor(rp[x], nack_response', periodic_hb')
      BY Zenon, <1>2, <3>1 DEF ArmedFor
    <3> QED
      BY Zenon, <1>2, <1>17, <2>2, <3>1, <3>2, <3>3
  <2> QED
    BY Zenon, <2>1, <2>2
<1>19. sending' = 0 /\ queue \subseteq history /\ UNCHANGED <<last_seq, join_seq, toWriter>>
  BY Zenon, <1>1, <1>2 DEF TypesOK
<1> QED
  BY Zenon, <1>2, <1>17, <1>18, <1>19, AckedPInv

(* A removal takes an entry away only with its sample. *)
LEMMA RemovedPInv ==
    ASSUME IInv, PInv, NEW seq, ChangeRemovedByHistory(seq), UNCHANGED readerVars,
           KeepAll => seq < next_all_acked
    PROVE  PInv'
<1>1. TypesOK /\ HistoryOK /\ last_seq \in Nat /\ history \in SUBSET Nat
      /\ next_all_acked \in Nat /\ \A s \in history : 0 < s /\ s <= last_seq
  BY Zenon DEF IInv, TypesOK, HistoryOK
<1>2. /\ sending = 0 /\ seq \in history /\ queue' = queue \ {seq}
      /\ rp' = [r \in Readers |-> IF rp[r].active
                  THEN ChangeHasBeenRemoved(rp[r], seq, history, last_seq + 1) ELSE rp[r]]
      /\ history' = history \ {seq}
      /\ UNCHANGED <<last_seq, sending, periodic_hb, nack_response, next_all_acked,
                     join_seq, toWriter>>
  BY Zenon DEF ChangeRemovedByHistory, Unlocked, NextSeq, wireVars
<1>3. ASSUME NEW r \in Readers
      PROVE  /\ ReaderProxyOK(rp'[r], history', last_seq)
             /\ Acknowledges(rp[r], rp'[r], {}, history')
             /\ KeepsStatus(rp[r], rp'[r])
  <2>1. ReaderProxyOK(rp[r], history, last_seq) /\ rp[r] \in ReaderProxyType
    BY Zenon DEF IInv, WriterSide, ReaderProxyOK
  <2>2. CASE rp[r].active
    <3> DEFINE next == last_seq + 1
               q == ChangeHasBeenRemoved(rp[r], seq, history, next)
    <3>1. ReaderProxyOK(q, history \ {seq}, last_seq) /\ Acknowledges(rp[r], q, {}, history \ {seq})
      BY Zenon, <1>1, <1>2, <2>1, <2>2, ChangeHasBeenRemovedAcks
    <3>2. rp'[r] = q /\ seq \in Nat
      BY Zenon, <1>1, <1>2, <2>2
    <3>3. KeepsStatus(rp[r], q)
      <4> HIDE DEF next
      <4> QED
        BY Zenon, <1>1, <2>1, <3>2, RemovedStatus
    <3> QED
      BY Zenon, <1>2, <3>1, <3>2, <3>3
  <2>3. CASE ~rp[r].active
    <3>1. rp'[r] = rp[r]
      BY Zenon, <1>2, <2>3
    <3> QED
      BY Zenon, <2>1, <2>3, <3>1 DEF ReaderProxyOK, Acknowledges, KeepsStatus
  <2> QED
    BY Zenon, <2>2, <2>3
<1>4. ASSUME NEW r \in Readers
      PROVE  /\ ArmedFor(rp'[r], nack_response', periodic_hb')
             /\ FailuresQueued => QueuedFor(rp'[r], queue', sending')
  <2>1. /\ ArmedFor(rp[r], nack_response, periodic_hb)
        /\ FailuresQueued => QueuedFor(rp[r], queue, sending)
    BY Zenon, ProxyFacts
  <2>2. \A s \in DOMAIN rp'[r].changes : s # seq
    BY Zenon, <1>2, <1>3 DEF ReaderProxyOK
  <2>3. ArmedFor(rp'[r], nack_response', periodic_hb')
    BY <1>2, <1>3, <2>1, KeptArmed
  <2>4. \A s \in DOMAIN rp'[r].changes : s \in queue \/ sending = s => s \in queue' \/ sending' = s
    BY Zenon, <1>2, <2>2
  <2>5. FailuresQueued => QueuedFor(rp'[r], queue', sending')
    BY Zenon, <1>3, <2>1, <2>4, KeptQueued
  <2> QED
    BY Zenon, <2>3, <2>5
<1>5. Armed'
  <2>1. (~SyncPublish => sending' = 0) /\ \A r \in Readers : \A m \in toWriter'[r] : InitialAsks(m)
    BY Zenon, <1>2 DEF PInv, Armed
  <2> QED
    BY Zenon, <1>4, <2>1 DEF Armed
<1>6. ASSUME RecordKept, NEW r \in Readers PROVE Recorded(r)'
  <2>1. Recorded(r)
    BY Zenon, <1>6 DEF PInv
  <2> QED
    BY Zenon, <1>2, <1>3, <2>1 DEF Recorded, Acknowledges, readerVars
<1>7. ASSUME VolatileReaders = Readers, NEW r \in Readers PROVE Accounted(r)'
  <2>1. Accounted(r) /\ Due(r)' = Due(r)
    BY Zenon, <1>2, <1>7 DEF PInv, Due, Relevant
  <2>2. SUFFICES ASSUME rp'[r].active PROVE Accounted(r)'
    BY Zenon DEF Accounted
  <2>3. rp[r].active /\ rp[r].volatile /\ rp'[r].volatile = rp[r].volatile
        /\ DOMAIN rp'[r].changes \subseteq DOMAIN rp[r].changes
    BY Zenon, <1>3, <2>1, <2>2 DEF Acknowledges, KeepsStatus, Accounted
  <2>4. \A s \in DOMAIN rp'[r].changes : next_all_acked' <= s
    BY Zenon, <1>2, <2>1, <2>3 DEF Accounted
  <2>5. ASSUME KeepAll, r \in KeepAllReaders, NEW s \in DOMAIN rp[r].changes
        PROVE  s \in DOMAIN rp'[r].changes
    <3>1. /\ s \in history /\ s \in Nat /\ s > rp[r].low_mark /\ next_all_acked <= s
          /\ rp[r].low_mark \in Nat /\ seq \in Nat
      BY Zenon, <1>1, <1>2, <2>1, <2>3, ProxyFacts DEF ReaderProxyOK, ReaderProxyType, Accounted
    <3>2. s # seq /\ ~(s <= rp[r].low_mark)
      BY <1>1, <2>5, <3>1
    <3>3. s \in history'
      BY Zenon, <1>2, <3>1, <3>2
    <3> QED
      BY Zenon, <1>3, <2>5, <3>2, <3>3 DEF Acknowledges
  <2> QED
    BY Zenon, <2>1, <2>3, <2>4, <2>5 DEF Accounted, readerVars
<1> QED
  BY Zenon, <1>5, <1>6, <1>7 DEF PInv

(* A new sample is in the flow controller, in the hands of the publishing  *)
(* thread, or announced by the periodic heartbeat.                         *)
LEMMA AddPInv ==
    ASSUME IInv, PInv, UnsentChangeAddedToHistory, UNCHANGED readerVars
    PROVE  PInv'
<1> DEFINE new == last_seq + 1
           hist == history \cup {new}
           status == IF PushMode THEN "UNSENT" ELSE "UNACKNOWLEDGED"
           rps == [r \in Readers |-> IF rp[r].active
                     THEN AddChange(rp[r], new, status, Relevant(r, new)) ELSE rp[r]]
           should_be_sent == PushMode /\ \E r \in Matched : Relevant(r, new)
<1>1. TypesOK /\ last_seq \in Nat /\ new \in Nat /\ history \in SUBSET Nat
      /\ next_all_acked \in Nat /\ next_all_acked <= new
      /\ \A s \in history : 0 < s /\ s <= last_seq
  BY DEF IInv, TypesOK, HistoryOK
<1>2. /\ sending = 0 /\ last_seq' = new
      /\ IF Matched = {}
         THEN /\ CheckAckedStatus(rp, hist, new + 1, queue)
              /\ UNCHANGED <<sending, periodic_hb>>
         ELSE /\ rp' = rps /\ history' = hist
              /\ queue' = IF should_be_sent /\ ~SyncPublish THEN queue \cup {new} ELSE queue
              /\ sending' = IF should_be_sent /\ SyncPublish THEN new ELSE 0
              /\ periodic_hb' = (periodic_hb \/ ~should_be_sent)
              /\ UNCHANGED next_all_acked
      /\ UNCHANGED <<nack_response, join_seq, toWriter>>
  BY Zenon DEF UnsentChangeAddedToHistory, Unlocked, NextSeq, wireVars
<1>3. \A r \in Readers : \A m \in toWriter'[r] : InitialAsks(m)
  BY Zenon, <1>2 DEF PInv, Armed
<1>4. CASE Matched = {}
  <2>1. rp' = rp /\ sending' = 0
    BY Zenon, <1>2, <1>4 DEF CheckAckedStatus
  <2>2. \A r \in Readers : ~rp'[r].active /\ DOMAIN rp'[r].changes = {}
    BY Zenon, <1>4, <2>1, ProxyFacts DEF Matched, ReaderProxyOK
  <2>3. Armed'
    BY Zenon, <1>3, <2>1, <2>2 DEF Armed, ArmedFor, QueuedFor, WithStatus
  <2>4. ASSUME NEW r \in Readers
        PROVE  (RecordKept => Recorded(r)') /\ Accounted(r)'
    BY Zenon, <1>2, <2>2 DEF PInv, Recorded, Accounted, readerVars
  <2> QED
    BY Zenon, <2>3, <2>4 DEF PInv
<1>5. CASE Matched # {}
  <2>1. /\ rp' = rps /\ history' = hist
        /\ queue' = IF should_be_sent /\ ~SyncPublish THEN queue \cup {new} ELSE queue
        /\ sending' = IF should_be_sent /\ SyncPublish THEN new ELSE 0
        /\ periodic_hb' = (periodic_hb \/ ~should_be_sent)
        /\ UNCHANGED next_all_acked
    BY Zenon, <1>2, <1>5
  <2>2. ASSUME NEW r \in Readers
        PROVE  /\ rp'[r].active = rp[r].active /\ rp'[r].low_mark = rp[r].low_mark
               /\ rp'[r].volatile = rp[r].volatile
               /\ rp'[r].nack_supression = rp[r].nack_supression
               /\ DOMAIN rp[r].changes \subseteq DOMAIN rp'[r].changes
               /\ rp[r].active /\ Relevant(r, new) => new \in DOMAIN rp'[r].changes
               /\ \A s \in DOMAIN rp'[r].changes :
                     \/ s \in DOMAIN rp[r].changes
                        /\ rp'[r].changes[s].status = rp[r].changes[s].status
                     \/ /\ r \in Matched /\ Relevant(r, new) /\ s = new
                        /\ rp'[r].changes[s].status = status
    <3>1. rp[r] \in ReaderProxyType /\ ReaderProxyOK(rp[r], history, last_seq)
          /\ Relevant(r, new) \in BOOLEAN /\ status \in ChangeForReaderStatus
      BY Zenon, ProxyFacts DEF Relevant, ChangeForReaderStatus
    <3>2. CASE rp[r].active
      <4> DEFINE q == AddChange(rp[r], new, status, Relevant(r, new))
      <4>1. rp'[r] = q /\ r \in Matched
        BY Zenon, <2>1, <3>2 DEF Matched
      <4>2. /\ q.nack_supression = rp[r].nack_supression /\ q.volatile = rp[r].volatile
            /\ \A s \in DOMAIN q.changes :
                  \/ s \in DOMAIN rp[r].changes /\ q.changes[s].status = rp[r].changes[s].status
                  \/ Relevant(r, new) /\ s = new /\ q.changes[s].status = status
        <5> HIDE DEF new, status
        <5> QED
          BY <3>1, AddedStatus
      <4>3. /\ q.active = rp[r].active /\ q.low_mark = rp[r].low_mark
            /\ DOMAIN rp[r].changes \subseteq DOMAIN q.changes
            /\ Relevant(r, new) => new \in DOMAIN q.changes
        <5> DEFINE f == WithChanges(rp[r].changes, {new}, status)
        <5>1. DOMAIN f = DOMAIN rp[r].changes \cup {new}
          BY Zenon DEF WithChanges
        <5> HIDE DEF f, new, status
        <5>2. q = IF Relevant(r, new) THEN [rp[r] EXCEPT !.changes = f] ELSE rp[r]
          BY Zenon DEF AddChange, f
        <5> HIDE DEF q
        <5> QED
          BY Zenon, <3>1, <5>1, <5>2 DEF ReaderProxyType
      <4> HIDE DEF q, new, status
      <4> QED
        BY Zenon, <4>1, <4>2, <4>3
    <3>3. CASE ~rp[r].active
      <4>1. rp'[r] = rp[r]
        BY Zenon, <2>1, <3>3
      <4> QED
        BY Zenon, <3>3, <4>1
    <3> QED
      BY Zenon, <3>2, <3>3
  <2>3. ASSUME NEW r \in Readers
        PROVE  /\ ArmedFor(rp'[r], nack_response', periodic_hb')
               /\ FailuresQueued => QueuedFor(rp'[r], queue', sending')
    <3>1. /\ ArmedFor(rp[r], nack_response, periodic_hb)
          /\ FailuresQueued => QueuedFor(rp[r], queue, sending)
      BY Zenon, ProxyFacts
    <3>2. PushMode /\ r \in Matched /\ Relevant(r, new) =>
             new \in queue' \/ sending' = new
      BY Zenon, <2>1
    <3>3. /\ nack_response' = nack_response /\ (periodic_hb => periodic_hb')
          /\ (~PushMode => periodic_hb') /\ queue \subseteq queue'
      BY Zenon, <1>2, <2>1
    <3>4. ASSUME NEW s \in DOMAIN rp[r].changes PROVE s # 0
      <4>1. ReaderProxyOK(rp[r], history, last_seq)
        BY Zenon, ProxyFacts
      <4>2. s \in history
        BY Zenon, <3>4, <4>1 DEF ReaderProxyOK
      <4> QED
        BY <1>1, <4>2
    <3>5. ArmedFor(rp'[r], nack_response', periodic_hb')
      <4> HIDE DEF new, should_be_sent
      <4> QED
        BY Zenon, <2>2, <3>1, <3>3 DEF ArmedFor
    <3>6. FailuresQueued => QueuedFor(rp'[r], queue', sending')
      <4> HIDE DEF new, should_be_sent
      <4> QED
        BY Zenon, <1>2, <2>2, <3>1, <3>2, <3>3, <3>4 DEF QueuedFor, WithStatus
    <3> QED
      BY Zenon, <3>5, <3>6
  <2>4. Armed'
    <3>1. ~SyncPublish => sending' = 0
      BY Zenon, <2>1
    <3> QED
      BY Zenon, <1>3, <2>3, <3>1 DEF Armed
  <2>5. ASSUME RecordKept, NEW r \in Readers PROVE Recorded(r)'
    <3>1. Recorded(r) /\ rp[r].low_mark \in Nat /\ rp[r].low_mark <= last_seq
      BY Zenon, <2>5, ProxyFacts DEF PInv, ReaderProxyOK, ReaderProxyType
    <3>2. ~(new <= rp[r].low_mark)
      BY <1>1, <3>1
    <3> HIDE DEF new, should_be_sent
    <3> QED
      BY Zenon, <1>2, <2>1, <2>2, <3>1, <3>2 DEF Recorded, readerVars
  <2>6. ASSUME VolatileReaders = Readers, NEW r \in Readers PROVE Accounted(r)'
    <3>1. Accounted(r) /\ join_seq[r] \in Nat
      BY Zenon, <1>1, <2>6 DEF PInv, TypesOK
    <3>2. ASSUME NEW s \in Due(r)' PROVE s \in Due(r) \/ (s = new /\ Relevant(r, new))
      <4>1. join_seq' = join_seq /\ last_seq' = new
        BY Zenon, <1>2
      <4>2. s \in (join_seq[r] + 1)..new /\ Relevant(r, s)
        BY Zenon, <4>1 DEF Due, Relevant
      <4>3. s = new \/ s \in (join_seq[r] + 1)..last_seq
        BY <1>1, <3>1, <4>2
      <4> QED
        BY Zenon, <4>2, <4>3 DEF Due
    <3>3. /\ rp'[r].active = rp[r].active /\ rp'[r].volatile = rp[r].volatile
          /\ DOMAIN rp[r].changes \subseteq DOMAIN rp'[r].changes
          /\ rp[r].active /\ Relevant(r, new) => new \in DOMAIN rp'[r].changes
          /\ \A s \in DOMAIN rp'[r].changes : s \in DOMAIN rp[r].changes \/ s = new
      BY Zenon, <2>2
    <3>4. /\ next_all_acked' = next_all_acked /\ notified' = notified
          /\ next_all_acked <= new
      <4>1. next_all_acked' = next_all_acked /\ notified' = notified
        BY Zenon, <2>1 DEF readerVars
      <4> QED
        BY Zenon, <1>1, <4>1
    <3> HIDE DEF new, should_be_sent
    <3> QED
      BY Zenon, <3>1, <3>2, <3>3, <3>4 DEF Accounted
  <2> QED
    BY Zenon, <2>4, <2>5, <2>6 DEF PInv
<1> QED
  BY Zenon, <1>4, <1>5

(* The proxy of a VOLATILE reader starts without entries. *)
LEMMA StartedVolatile ==
    ASSUME NEW hist, NEW next
    PROVE  LET q == StartReaderProxy(TRUE, hist, next)
           IN  q.volatile = TRUE /\ DOMAIN q.changes = {}
<1>1. StoppedReaderProxy \in ReaderProxyType /\ DOMAIN StoppedReaderProxy.changes = {}
  BY Zenon, StoppedReaderProxyOK DEF ReaderProxyOK
<1> QED
  BY Zenon, <1>1 DEF StartReaderProxy, ReaderProxyType

(* A late joiner's entries are announced by the periodic heartbeat. *)
LEMMA ReaderAddPInv ==
    ASSUME IInv, PInv, NEW r \in Readers, MatchedReaderAdd(r), UNCHANGED readerVars
    PROVE  PInv'
<1> DEFINE durable == r \notin VolatileReaders /\ ~VolatileWriter
           volatile == r \in VolatileReaders
           fresh == StartReaderProxy(volatile, history, last_seq + 1)
           D == {t \in history : Relevant(r, t)}
           g == [s \in D |-> NewChange("UNACKNOWLEDGED")]
           late == [fresh EXCEPT !.changes = g]
           q == IF durable THEN late ELSE fresh
<1>1. /\ TypesOK /\ last_seq \in Nat /\ history \in SUBSET Nat
      /\ \A s \in history : 0 < s /\ s <= last_seq
  BY Zenon DEF IInv, TypesOK, HistoryOK
<1>2. /\ sending = 0
      /\ rp' = [rp EXCEPT ![r] = q]
      /\ join_seq' = [join_seq EXCEPT ![r] = IF durable THEN fresh.low_mark ELSE last_seq]
      /\ periodic_hb' = (periodic_hb \/ history # {})
      /\ UNCHANGED <<history, last_seq, queue, sending, nack_response, next_all_acked, toWriter>>
  BY Zenon DEF MatchedReaderAdd, Unlocked, NextSeq, SendToReaders
<1>3. /\ ReaderProxyOK(fresh, history, last_seq) /\ fresh.active
      /\ \A s \in history : s > fresh.low_mark
  <2>1. volatile \in BOOLEAN
    OBVIOUS
  <2> HIDE DEF volatile
  <2> QED
    BY Zenon, <1>1, <2>1, StartedProxy
<1>4. durable <=> r \notin VolatileReaders
  BY Zenon, WriterAssumption
<1>5. ~durable => fresh.volatile /\ DOMAIN fresh.changes = {}
  <2> SUFFICES ASSUME ~durable PROVE fresh.volatile /\ DOMAIN fresh.changes = {}
    BY Zenon
  <2> DEFINE next == last_seq + 1
  <2>1. fresh = StartReaderProxy(TRUE, history, next)
    <3>1. volatile = TRUE
      BY Zenon, <1>4
    <3> HIDE DEF volatile
    <3> QED
      BY Zenon, <3>1
  <2> HIDE DEF next, fresh
  <2> QED
    BY Zenon, <2>1, StartedVolatile
<1>6. fresh \in ReaderProxyType /\ fresh.low_mark \in Nat
  BY Zenon, <1>3 DEF ReaderProxyOK, ReaderProxyType
<1> HIDE DEF fresh
<1>7. late.changes = g /\ late.low_mark = fresh.low_mark
  BY Zenon, <1>6 DEF ReaderProxyType
<1>8. DOMAIN g = D /\ \A s \in D : g[s].status = "UNACKNOWLEDGED"
  BY Zenon DEF NewChange
<1> HIDE DEF g, late
<1>9. /\ q.low_mark = fresh.low_mark
      /\ \A s \in DOMAIN q.changes : s \in history /\ q.changes[s].status = "UNACKNOWLEDGED"
      /\ ~durable => q.volatile /\ DOMAIN q.changes = {}
  BY Zenon, <1>5, <1>7, <1>8
<1> HIDE DEF q, D
<1>10. \A x \in Readers : /\ rp'[x] = IF x = r THEN q ELSE rp[x]
                          /\ x # r => join_seq'[x] = join_seq[x]
  BY Zenon, <1>1, <1>2 DEF TypesOK
<1>11. ASSUME NEW x \in Readers
       PROVE  /\ ArmedFor(rp'[x], nack_response', periodic_hb')
              /\ FailuresQueued => QueuedFor(rp'[x], queue', sending')
  <2>1. CASE x = r
    <3>1. rp'[x] = q
      BY Zenon, <1>10, <2>1
    <3> QED
      BY Zenon, <1>2, <1>9, <3>1 DEF ArmedFor, QueuedFor, WithStatus
  <2>2. CASE x # r
    <3>1. rp'[x] = rp[x]
      BY Zenon, <1>10, <2>2
    <3>2. /\ ArmedFor(rp[x], nack_response, periodic_hb)
          /\ FailuresQueued => QueuedFor(rp[x], queue, sending)
      BY Zenon, ProxyFacts
    <3> QED
      BY Zenon, <1>2, <3>1, <3>2 DEF ArmedFor
  <2> QED
    BY Zenon, <2>1, <2>2
<1>12. Armed'
  <2>1. (~SyncPublish => sending' = 0) /\ \A x \in Readers : \A m \in toWriter'[x] : InitialAsks(m)
    BY Zenon, <1>2 DEF PInv, Armed
  <2> QED
    BY Zenon, <1>11, <2>1 DEF Armed
<1>13. ASSUME RecordKept, NEW x \in Readers PROVE Recorded(x)'
  <2>1. Recorded(x)
    BY Zenon, <1>13 DEF PInv
  <2>2. CASE x = r
    <3>1. rp'[x] = q
      BY Zenon, <1>10, <2>2
    <3>2. ASSUME NEW s \in history PROVE ~(s <= q.low_mark)
      <4>1. s \in Nat /\ s > fresh.low_mark
        BY Zenon, <1>1, <1>3
      <4> QED
        BY <1>6, <1>9, <4>1
    <3> QED
      BY Zenon, <1>2, <2>1, <3>1, <3>2 DEF Recorded, readerVars
  <2>3. CASE x # r
    BY Zenon, <1>2, <1>10, <2>1, <2>3 DEF Recorded, readerVars
  <2> QED
    BY Zenon, <2>2, <2>3
<1>14. ASSUME VolatileReaders = Readers, NEW x \in Readers PROVE Accounted(x)'
  <2>1. Accounted(x)
    BY Zenon, <1>14 DEF PInv
  <2>2. CASE x = r
    <3>1. ~durable /\ rp'[x] = q
      BY Zenon, <1>4, <1>10, <1>14, <2>2
    <3>2. join_seq'[x] = last_seq
      BY Zenon, <1>1, <1>2, <2>2, <3>1 DEF TypesOK
    <3>3. Due(x)' = {}
      BY <1>1, <1>2, <3>2 DEF Due
    <3> QED
      BY Zenon, <1>9, <3>1, <3>3 DEF Accounted
  <2>3. CASE x # r
    <3>1. rp'[x] = rp[x] /\ join_seq'[x] = join_seq[x]
      BY Zenon, <1>10, <2>3
    <3>2. Due(x)' = Due(x)
      BY Zenon, <1>2, <3>1 DEF Due, Relevant
    <3> QED
      BY Zenon, <1>2, <2>1, <3>1, <3>2 DEF Accounted, readerVars
  <2> QED
    BY Zenon, <2>2, <2>3
<1> QED
  BY Zenon, <1>12, <1>13, <1>14 DEF PInv

(* Every step of the writer preserves PInv. *)
LEMMA WriterNextPInv ==
    ASSUME IInv, PInv, WriterNext, UNCHANGED readerVars
    PROVE  PInv'
<1>1. CASE UnsentChangeAddedToHistory
  BY Zenon, <1>1, AddPInv
<1>2. ASSUME NEW seq \in history, RemoveOldSample(seq) PROVE PInv'
  BY Zenon, <1>2, RemovedPInv DEF RemoveOldSample
<1>3. CASE TryRemoveChange
  <2>1. history \in SUBSET Nat /\ history # {} /\ next_all_acked \in Nat
        /\ Min(history) <= next_all_acked - 1 /\ ChangeRemovedByHistory(Min(history))
    BY Zenon, <1>3 DEF TryRemoveChange, IInv, TypesOK, HistoryOK
  <2>2. Min(history) \in Nat
    BY Zenon, <2>1, MinNat
  <2>3. Min(history) < next_all_acked
    BY <2>1, <2>2
  <2> QED
    BY Zenon, <2>1, <2>3, RemovedPInv
<1>4. ASSUME NEW seq \in history, NEW sent \in BOOLEAN, NEW piggyback \in BOOLEAN,
             NEW delivered \in BOOLEAN, DeliverSample(seq, sent, piggyback, delivered)
      PROVE  PInv'
  BY Zenon, <1>4, DeliverPInv
<1>5. CASE IndividualGapThrows
  BY Zenon, <1>5, GapThrowsPInv
<1>6. CASE SendPeriodicHeartbeat
  BY Zenon, <1>6, PeriodicHeartbeatPInv
<1>7. CASE SendLivelinessHeartbeat
  BY Zenon, <1>7, LivelinessHeartbeatPInv
<1>8. CASE PerformNackResponse
  BY Zenon, <1>8, NackResponsePInv
<1>9. ASSUME NEW r \in Readers, NackSupressionExpires(r) PROVE PInv'
  BY Zenon, <1>9, NackSupressionPInv
<1>10. ASSUME NEW r \in Readers, NEW m \in toWriter[r], ProcessAcknack(r, m) PROVE PInv'
  BY Zenon, <1>10, AcknackPInv
<1>11. ASSUME NEW r \in Readers, MatchedReaderAdd(r) PROVE PInv'
  BY Zenon, <1>11, ReaderAddPInv
<1>12. ASSUME NEW r \in Readers, MatchedReaderRemove(r) PROVE PInv'
  BY Zenon, <1>12, ReaderRemovePInv
<1> QED
  BY SMTT(60), <1>1, <1>2, <1>3, <1>4, <1>5, <1>6, <1>7, <1>8, <1>9, <1>10, <1>11, <1>12
     DEF WriterNext

(* A step of something else preserves it. *)
LEMMA StutterPInv ==
    ASSUME IInv, PInv, UNCHANGED vars
    PROVE  PInv'
<1>1. /\ UNCHANGED readerVars
      /\ UNCHANGED <<history, last_seq, rp, queue, sending, periodic_hb, nack_response,
                     next_all_acked, join_seq, toWriter>>
  BY Zenon DEF vars, writerVars, wireVars
<1>2. ~SyncPublish => sending' = 0
  BY Zenon, <1>1 DEF PInv, Armed
<1> QED
  BY Zenon, <1>1, <1>2, ProxyFacts, StatusStep

=============================================================================
