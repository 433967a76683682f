--------------------------- MODULE ReliableProofs ---------------------------
(***************************************************************************)
(* Theorems about ReliableRTPS for any number of readers and samples, any  *)
(* QoS and any bound: type correctness, no sample passed over, sound       *)
(* acknowledgements, ordered notification, no stalled or unanswerable      *)
(* sample, no loss with KEEP_ALL, and the refinement of ReliableDelivery.  *)
(***************************************************************************)
EXTENDS WriterSteps, ProgressSteps, ReliableRefinement

(* Every step of the writer, of a reader and of their timers preserves     *)
(* IInv.                                                                   *)
THEOREM Invariance == Spec => []IInv
<1>1. IInv /\ [Next]_vars => IInv'
  BY Zenon, WriterNextIInv, ReaderNextIInv, StutterIInv DEF Next
<1> QED
  BY InitIInv, <1>1, PTL DEF Spec

-----------------------------------------------------------------------------
(* The writer's and the reader's collections keep their shapes: proxies    *)
(* and flow controller point into the history, low marks stay below what   *)
(* was published.                                                          *)
THEOREM TypeCorrect == Spec => []TypeOK
BY Invariance, IInvTypeOK, PTL

(* process_acknack() never drops an ACKNACK as inconsistent. *)
THEOREM AcknacksConsistent == Spec => []NoInconsistentAcknack
BY Invariance, IInvNoInconsistentAcknack, PTL

(* If all readers are KEEP_ALL, no low mark of a WriterProxy passes a      *)
(* sample its reader is owed before NotifyChanges() notified it, whatever  *)
(* the network and the matching do.                                        *)
THEOREM NothingSkipped ==
    ASSUME KeepAllReaders = Readers
    PROVE  Spec => []NoSilentSkip
<1>1. IInv => NoSilentSkip
  BY Zenon, IInvNoSilentSkip
<1> QED
  BY Invariance, <1>1, PTL

(* If all readers are KEEP_ALL, what change_is_acked() reports of a        *)
(* ReaderProxy was notified to the user of its reader.                     *)
THEOREM AcksSound ==
    ASSUME KeepAllReaders = Readers
    PROVE  Spec => []AckSound
<1>1. IInv => AckSound
  BY Zenon, IInvAckSound
<1> QED
  BY Invariance, <1>1, PTL

(* If writers are only unmatched by lease, NotifyChanges() notifies in     *)
(* order and once, over any number of matchings.                           *)
THEOREM NotifiedInOrder ==
    ASSUME RecordKept
    PROVE  Spec => InOrderOnce
<1> DEFINE Step == \A r \in Readers : wp[r].alive /\ wp[r]'.alive =>
              \A s \in rhist[r]' : wp[r].last_notified < s /\ s <= wp[r]'.last_notified =>
                  \A t \in notified[r] : t < s
<1>1. IInv /\ IInv' => Step
  <2> SUFFICES ASSUME IInv, IInv', NEW r \in Readers, wp[r].alive, NEW s \in rhist[r]',
                      wp[r].last_notified < s, NEW t \in notified[r]
               PROVE  t < s
    BY Zenon
  <2>1. s \in Nat /\ t \in Nat /\ record[r] \in Nat
    <3>1. TypesOK /\ rhist' \in [Readers -> SUBSET Nat]
      BY Zenon DEF IInv, TypesOK
    <3> QED
      BY Zenon, <3>1 DEF TypesOK
  <2>2. t <= record[r] /\ wp[r].last_notified = record[r]
    BY Zenon DEF IInv, ReaderSide
  <2> QED
    BY SMTT(60), <2>1, <2>2
<1>2. IInv /\ IInv' /\ [Next]_vars => [Step]_vars
  BY Zenon, <1>1
<1>3. InOrderOnce <=> [][Step]_vars
  BY Zenon DEF InOrderOnce
<1> QED
  BY Invariance, <1>2, <1>3, PTL DEF Spec

(* Every step of the writer, of a reader and of their timers preserves     *)
(* both invariants.                                                        *)
LEMMA ProgressInvariance == Spec => [](IInv /\ PInv)
<1>1. IInv /\ PInv /\ [Next]_vars => PInv'
  BY Zenon, WriterNextPInv, ReaderNextPInv, StutterPInv DEF Next
<1> QED
  BY Invariance, InitPInv, <1>1, PTL DEF Spec

-----------------------------------------------------------------------------
(* If no send fails, or only the flow controller thread sends, every       *)
(* change held for a reader has something armed that moves it on: it is in *)
(* the flow controller or being sent, or the nack response, the nack       *)
(* suppression or the periodic heartbeat is armed.                         *)
THEOREM NothingStalls ==
    ASSUME FailuresQueued
    PROVE  Spec => []NoStall
<1>1. PInv => NoStall
  BY Zenon, PInvNoStall
<1> QED
  BY ProgressInvariance, <1>1, PTL

(* If writers are unmatched by lease only, or not at all, whatever a       *)
(* reader misses and the writer has, requested_changes_set() answers with  *)
(* the sample or with a GAP.                                               *)
THEOREM RequestsAnswerable ==
    ASSUME RecordKept
    PROVE  Spec => []RequestAnswerable
<1>1. IInv /\ PInv => RequestAnswerable
  BY Zenon, PInvRequestAnswerable
<1> QED
  BY ProgressInvariance, <1>1, PTL

(* If all readers are VOLATILE, a sample that left the history of a        *)
(* KEEP_ALL writer was notified by every matched KEEP_ALL reader that is   *)
(* owed it.                                                                *)
THEOREM KeepAllLosesNothing ==
    ASSUME VolatileReaders = Readers
    PROVE  Spec => []KeepAllNoLoss
<1>1. IInv /\ PInv => KeepAllNoLoss
  BY Zenon, PInvKeepAllNoLoss
<1> QED
  BY ProgressInvariance, <1>1, PTL

(* If all readers are VOLATILE, try_remove_change() of a full KEEP_ALL     *)
(* writer removes only what every matched reader acknowledged.             *)
THEOREM OnlyAckedRemoved ==
    ASSUME VolatileReaders = Readers
    PROVE  Spec => RemovedIsAcked
<1>1. IInv /\ PInv => RemovesAcked
  BY Zenon, PInvRemovesAcked
<1> QED
  BY ProgressInvariance, <1>1, PTL DEF RemovedIsAcked, Spec

-----------------------------------------------------------------------------
(* check_acked_status() only removes samples. *)
LEMMA CheckAckedRemoves ==
    ASSUME NEW rps, NEW hist, NEW next, NEW q, CheckAckedStatus(rps, hist, next, q)
    PROVE  history' \subseteq hist
BY Zenon DEF CheckAckedStatus

Keeps == last_seq' = last_seq /\ history' \subseteq history /\ join_seq' = join_seq

(* What a step of the writer may do to the samples and to what is owed. *)
LEMMA WriterMoves ==
    ASSUME IInv, WriterNext
    PROVE  \/ Keeps
           \/ /\ last_seq' = last_seq + 1 /\ history' \subseteq history \cup {last_seq + 1}
              /\ join_seq' = join_seq
           \/ \E r \in Readers :
                /\ last_seq' = last_seq /\ history' = history
                /\ join_seq' = [join_seq EXCEPT ![r] = join_seq'[r]]
<1>1. CASE UnsentChangeAddedToHistory
  <2>1. last_seq' = last_seq + 1 /\ join_seq' = join_seq
    BY Zenon, <1>1 DEF UnsentChangeAddedToHistory, NextSeq
  <2>2. history' \subseteq history \cup {last_seq + 1}
    <3>1. \/ CheckAckedStatus(rp, history \cup {NextSeq}, NextSeq + 1, queue)
          \/ history' = history \cup {NextSeq}
      BY Zenon, <1>1 DEF UnsentChangeAddedToHistory
    <3> QED
      BY Zenon, <3>1, CheckAckedRemoves DEF NextSeq
  <2> QED
    BY Zenon, <2>1, <2>2
<1>2. ASSUME NEW seq \in history, ChangeRemovedByHistory(seq) PROVE Keeps
  BY Zenon, <1>2 DEF ChangeRemovedByHistory, Keeps
<1>3. CASE TryRemoveChange
  <2>1. PICK seq \in history : ChangeRemovedByHistory(seq)
    BY Zenon, <1>3 DEF TryRemoveChange, ChangeRemovedByHistory
  <2> QED
    BY Zenon, <1>2, <2>1
<1>4. ASSUME NEW seq \in history, NEW sent \in BOOLEAN, NEW piggyback \in BOOLEAN,
             NEW delivered \in BOOLEAN, DeliverSample(seq, sent, piggyback, delivered)
      PROVE  Keeps
  <2>1. last_seq' = last_seq /\ join_seq' = join_seq
    BY Zenon, <1>4 DEF DeliverSample
  <2>2. history' \subseteq history
    BY Zenon, <1>4, CheckAckedRemoves DEF DeliverSample
  <2> QED
    BY Zenon, <2>1, <2>2 DEF Keeps
<1>5. CASE IndividualGapThrows \/ PerformNackResponse
  BY Zenon, <1>5 DEF IndividualGapThrows, PerformNackResponse, Keeps
<1>6. CASE SendPeriodicHeartbeat \/ SendLivelinessHeartbeat
  BY Zenon, <1>6 DEF SendPeriodicHeartbeat, SendLivelinessHeartbeat, Keeps
<1>7. ASSUME NEW r \in Readers, NackSupressionExpires(r) PROVE Keeps
  BY Zenon, <1>7 DEF NackSupressionExpires, Keeps
<1>8. ASSUME NEW r \in Readers, NEW m \in toWriter[r], ProcessAcknack(r, m) PROVE Keeps
  <2>1. last_seq' = last_seq /\ join_seq' = join_seq
    BY Zenon, <1>8 DEF ProcessAcknack
  <2>2. history' \subseteq history
    BY Zenon, <1>8, CheckAckedRemoves DEF ProcessAcknack
  <2> QED
    BY Zenon, <2>1, <2>2 DEF Keeps
<1>9. ASSUME NEW r \in Readers, MatchedReaderAdd(r)
      PROVE  /\ last_seq' = last_seq /\ history' = history
             /\ join_seq' = [join_seq EXCEPT ![r] = join_seq'[r]]
  <2>1. last_seq' = last_seq /\ history' = history
    BY Zenon, <1>9 DEF MatchedReaderAdd
  <2>2. PICK n : join_seq' = [join_seq EXCEPT ![r] = n]
    BY Zenon, <1>9 DEF MatchedReaderAdd
  <2>3. join_seq \in [Readers -> Nat]
    BY Zenon DEF IInv, TypesOK
  <2> QED
    BY Zenon, <2>1, <2>2, <2>3
<1>10. ASSUME NEW r \in Readers, MatchedReaderRemove(r) PROVE Keeps
  <2>1. last_seq' = last_seq /\ join_seq' = join_seq
    BY Zenon, <1>10 DEF MatchedReaderRemove
  <2>2. history' \subseteq history
    BY Zenon, <1>10, CheckAckedRemoves DEF MatchedReaderRemove
  <2> QED
    BY Zenon, <2>1, <2>2 DEF Keeps
<1> QED
  BY ZenonT(60), <1>1, <1>2, <1>3, <1>4, <1>5, <1>6, <1>7, <1>8, <1>9, <1>10
     DEF WriterNext, RemoveOldSample

(* A step of the writer publishes, settles or lets a reader join. *)
LEMMA WriterSimulates ==
    ASSUME IInv, IInv', WriterNext, UNCHANGED readerVars
    PROVE  Delivery!Next
<1>1. ASSUME NEW r \in KeepAllReaders PROVE Confirmed'[r] \subseteq notified[r]
  <2>1. r \in Readers /\ WriterSide(r)' /\ notified' = notified
    BY Zenon, ReaderAssumption DEF IInv, readerVars
  <2> QED
    BY Zenon, <2>1 DEF Confirmed, ChangeIsAcked, WriterSide
<1>2. Delivery!ConfirmationsTrue /\ UNCHANGED <<record, notified>>
  BY Zenon, <1>1 DEF Delivery!ConfirmationsTrue, readerVars
<1>3. CASE Keeps
  BY Zenon, <1>2, <1>3 DEF Keeps, Delivery!Next, Delivery!Settle
<1>4. CASE /\ last_seq' = last_seq + 1 /\ history' \subseteq history \cup {last_seq + 1}
           /\ join_seq' = join_seq
  BY Zenon, <1>2, <1>4 DEF Delivery!Next, Delivery!Publish
<1>5. ASSUME NEW r \in Readers, last_seq' = last_seq, history' = history,
             join_seq' = [join_seq EXCEPT ![r] = join_seq'[r]]
      PROVE  Delivery!Next
  <2>1. join_seq'[r] <= last_seq
    BY Zenon, <1>5 DEF IInv, WriterSide
  <2>2. ASSUME r \in KeepAllReaders PROVE Delivery!NothingPassed(r)
    <3>1. \A s \in Owed(r)' : s <= record'[r] => s \in notified'[r]
      BY Zenon, <2>2 DEF IInv, ReaderSide
    <3> QED
      BY Zenon, <1>2, <3>1 DEF Delivery!NothingPassed, Delivery!Owed, Owed, Relevant
  <2>3. Delivery!Join(r)
    BY Zenon, <1>2, <1>5, <2>1, <2>2 DEF Delivery!Join
  <2> QED
    BY Zenon, <2>3 DEF Delivery!Next
<1> QED
  BY Zenon, <1>3, <1>4, <1>5, WriterMoves

(* A step of a reader delivers what it is owed on the way. *)
LEMMA ReaderSimulates ==
    ASSUME RecordKept, IInv, ReaderNext, UNCHANGED writerVars
    PROVE  Delivery!Next
<1>1. PICK r \in Readers : IInv' /\ Advanced(r)
  BY Zenon, ReaderNextSound DEF Sound
<1>2. /\ record \in [Readers -> Nat] /\ record' \in [Readers -> Nat] /\ last_seq' = last_seq
      /\ history' = history /\ join_seq' = join_seq /\ last_seq \in Nat
      /\ notified \in [Readers -> SUBSET Nat] /\ notified' \in [Readers -> SUBSET Nat]
  BY Zenon, <1>1 DEF IInv, TypesOK, HistoryOK, writerVars
<1> DEFINE passed == (record[r] + 1)..record'[r]
           given  == notified'[r] \ notified[r]
<1>3. record'[r] <= last_seq
  BY Zenon, <1>1, <1>2 DEF IInv, ReaderSide
<1>4. given \subseteq passed
  BY SMTT(60), <1>1, <1>2 DEF Advanced
<1>5. ASSUME r \in KeepAllReaders PROVE Delivery!Owed(r) \cap passed \subseteq given
  <2> SUFFICES ASSUME NEW s \in Owed(r), record[r] < s, s <= record'[r] PROVE s \in given
    BY SMTT(60), <1>2 DEF Delivery!Owed, Owed, Relevant
  <2>1. s \in Owed(r)'
    BY Zenon, <1>2 DEF Owed
  <2>2. s \in notified'[r]
    BY Zenon, <1>1, <1>5, <2>1 DEF IInv, ReaderSide
  <2>3. \A t \in notified[r] : t <= record[r]
    BY Zenon DEF IInv, ReaderSide
  <2> QED
    BY SMTT(60), <1>2, <2>2, <2>3
<1>6. notified' = [notified EXCEPT ![r] = notified[r] \cup given]
  BY Zenon, <1>1, <1>2 DEF Advanced
<1>7. Confirmed' = Confirmed
  BY Zenon DEF Confirmed, Owed, writerVars
<1> HIDE DEF passed, given
<1>8. Delivery!Deliver(r)
  BY Zenon, <1>1, <1>2, <1>3, <1>4, <1>5, <1>6, <1>7 DEF Delivery!Deliver, Advanced, passed, given
<1> QED
  BY Zenon, <1>8 DEF Delivery!Next

(* If writers are only unmatched by lease, the writer, its readers, their  *)
(* timers and the network implement ReliableDelivery, for any number of    *)
(* readers, filters, depths and losses.                                    *)
THEOREM ImplementsReliableDelivery ==
    ASSUME RecordKept
    PROVE  Spec => ImplementsDelivery
<1>1. Init => Delivery!Init
  <2> SUFFICES ASSUME Init PROVE Delivery!Init
    BY Zenon
  <2>1. Confirmed = [r \in Readers |-> {}]
    BY Zenon DEF Init, WriterInit, Confirmed, StoppedReaderProxy
  <2> QED
    BY Zenon, <2>1 DEF Init, WriterInit, ReaderInit, Delivery!Init
<1>2. IInv /\ IInv' /\ [Next]_vars => [Delivery!Next]_(Delivery!deliveryVars)
  <2> SUFFICES ASSUME IInv, IInv', [Next]_vars
               PROVE  Delivery!Next \/ UNCHANGED Delivery!deliveryVars
    BY Zenon
  <2>1. CASE UNCHANGED vars
    BY Zenon, <2>1 DEF vars, writerVars, readerVars, Delivery!deliveryVars, Confirmed, Owed
  <2> QED
    BY Zenon, <2>1, WriterSimulates, ReaderSimulates DEF Next
<1> QED
  BY Invariance, <1>1, <1>2, PTL DEF Spec, ImplementsDelivery, Delivery!Spec

=============================================================================
