------------------------- MODULE ReliableInvariant --------------------------
(***************************************************************************)
(* The two inductive invariants of ReliableRTPS and what they imply, and   *)
(* the proof that every step of a reader preserves them.                   *)
(*                                                                         *)
(* IInv: marks, entries and submessages are true of what was published,    *)
(* notified and acknowledged.  PInv, relative to IInv: every entry of a    *)
(* proxy has something armed that moves it on, and what is acknowledged    *)
(* or removed was passed by its readers.                                   *)
(***************************************************************************)
EXTENDS ReliableRTPS, ProxyLemmas

(* The numbers in the history were published. *)
HistoryOK ==
    /\ last_seq \in Nat /\ history \in SUBSET Nat
    /\ \A s \in history : 0 < s /\ s <= last_seq

TypesOK ==
    /\ HistoryOK
    /\ hb_count \in Nat
    /\ queue \subseteq history /\ sending \in history \cup {0}
    /\ periodic_hb \in BOOLEAN /\ nack_response \in BOOLEAN
    /\ next_all_acked \in Nat /\ 1 <= next_all_acked /\ next_all_acked <= last_seq + 1
    /\ rp \in [Readers -> ReaderProxyType]
    /\ join_seq \in [Readers -> Nat]
    /\ wp \in [Readers -> WriterProxyType]
    /\ rhist \in [Readers -> SUBSET Nat] /\ notified \in [Readers -> SUBSET Nat]
    /\ record \in [Readers -> Nat] /\ acknack_count \in [Readers -> Nat]
    /\ toReader \in [Readers -> SUBSET ToReaderMessage]
    /\ toWriter \in [Readers -> SUBSET ToWriterMessage]

(* The writer's proxy of r covers what r is owed: every such sample is     *)
(* acknowledged, and then r notified it, or has an entry.                  *)
WriterSide(r) ==
    /\ ReaderProxyOK(rp[r], history, last_seq)
    /\ join_seq[r] <= last_seq
    /\ r \notin VolatileReaders => \A s \in history : s > join_seq[r]
    /\ rp[r].active => \A s \in Owed(r) :
          s <= rp[r].low_mark \/ s \in DOMAIN rp[r].changes
    /\ rp[r].active /\ r \in KeepAllReaders => \A s \in Owed(r) :
          s <= rp[r].low_mark => s \in notified[r]

(* Nothing makes a reader forget how far it notified: writers are only     *)
(* unmatched by lease, or not at all.                                      *)
RecordKept == LeaseOnly \/ ~MayUnmatch

(* The reader's marks are one: it has notified up to its low mark, which   *)
(* is also its history record; what it received ahead is in its history.   *)
ReaderSide(r) ==
    /\ WriterProxyOK(wp[r], last_seq)
    /\ record[r] <= last_seq
    /\ wp[r].hb_response => wp[r].alive
    /\ wp[r].alive => wp[r].low_mark = record[r] /\ wp[r].last_notified = record[r]
    /\ RecordKept => \A s \in notified[r] : s <= record[r]
    /\ r \in KeepAllReaders => \A s \in Owed(r) : s <= record[r] => s \in notified[r]
    /\ r \in KeepAllReaders /\ wp[r].alive =>
          \A s \in Owed(r) : s \in wp[r].received => s \in rhist[r]

(* Whatever is under way to r, or was and may arrive again, is still true. *)
ToReaderOK(r, m) ==
    /\ m.type = "DATA" => 0 < m.seq /\ m.seq <= last_seq
    /\ m.type = "GAP" => \A s \in m.seqs : s <= last_seq /\ s \notin Owed(r)
    /\ m.type = "HEARTBEAT" => /\ m.first <= last_seq + 1 /\ m.last <= last_seq
                               /\ \A s \in history : m.first <= s

ToWriterOK(r, m) ==
    /\ m.base <= last_seq + 1
    /\ \A s \in m.seqs : s <= last_seq
    /\ r \in KeepAllReaders => \A s \in Owed(r) : s < m.base => s \in notified[r]

WireSide(r) ==
    /\ \A m \in toReader[r] : ToReaderOK(r, m)
    /\ \A m \in toWriter[r] : ToWriterOK(r, m)

(* The inductive invariant. *)
IInv ==
    /\ TypesOK
    /\ \A r \in Readers : WriterSide(r)
    /\ \A r \in Readers : ReaderSide(r)
    /\ \A r \in Readers : WireSide(r)

-----------------------------------------------------------------------------
(* The larger of two numbers, as update_last_notified() takes it. *)
LEMMA MaxOfTwo ==
    ASSUME NEW a \in Nat, NEW b \in Nat, a <= b
    PROVE  Max({a, b}) = b
<1>1. {a, b} \in SUBSET Nat /\ {a, b} # {} /\ \A s \in {a, b} : s <= b
  OBVIOUS
<1>2. Max({a, b}) \in {a, b} /\ \A y \in {a, b} : Max({a, b}) >= y
  BY Zenon, <1>1, MaxNat
<1> QED
  BY <1>2

(* Before anything is matched or published the invariant holds. *)
LEMMA InitIInv == Init => IInv
<1> SUFFICES ASSUME Init PROVE IInv
  BY Zenon
<1> USE DEF Init, WriterInit, ReaderInit, WireInit
<1>1. StoppedWriterProxy \in WriterProxyType
  BY Zenon DEF StoppedWriterProxy, WriterProxyType
<1>2. ReaderProxyOK(StoppedReaderProxy, {}, 0) /\ StoppedReaderProxy.active = FALSE
  BY Zenon, StoppedReaderProxyOK
<1>3. StoppedReaderProxy \in ReaderProxyType
  BY Zenon, <1>2 DEF ReaderProxyOK
<1>4. TypesOK
  <2>1. HistoryOK /\ hb_count \in Nat /\ next_all_acked \in Nat
        /\ 1 <= next_all_acked /\ next_all_acked <= last_seq + 1
        /\ queue \subseteq history /\ sending \in history \cup {0}
    BY DEF HistoryOK
  <2>5. periodic_hb \in BOOLEAN /\ nack_response \in BOOLEAN
    BY Zenon
  <2>2. rp \in [Readers -> ReaderProxyType] /\ wp \in [Readers -> WriterProxyType]
    BY Zenon, <1>1, <1>3
  <2>3. join_seq \in [Readers -> Nat] /\ record \in [Readers -> Nat]
        /\ acknack_count \in [Readers -> Nat]
    BY Zenon
  <2>4. rhist \in [Readers -> SUBSET Nat] /\ notified \in [Readers -> SUBSET Nat]
        /\ toReader \in [Readers -> SUBSET ToReaderMessage]
        /\ toWriter \in [Readers -> SUBSET ToWriterMessage]
    BY Zenon
  <2> QED
    BY Zenon, <2>1, <2>2, <2>3, <2>4, <2>5 DEF TypesOK
<1>5. \A r \in Readers : Owed(r) = {}
  BY Zenon DEF Owed
<1>6. \A r \in Readers : WriterSide(r)
  BY <1>2, <1>5 DEF WriterSide
<1>7. WriterProxyOK(StoppedWriterProxy, 0)
      /\ ~StoppedWriterProxy.alive /\ ~StoppedWriterProxy.hb_response
  BY <1>1 DEF WriterProxyOK, StoppedWriterProxy
<1>8. \A r \in Readers : ReaderSide(r)
  BY <1>5, <1>7 DEF ReaderSide
<1>9. \A r \in Readers : WireSide(r)
  BY Zenon DEF WireSide
<1> QED
  BY Zenon, <1>4, <1>6, <1>8, <1>9 DEF IInv

(* The invariant implies the shapes of TypeOK. *)
LEMMA IInvTypeOK == IInv => TypeOK
<1> SUFFICES ASSUME IInv PROVE TypeOK
  BY Zenon
<1>1. TypesOK
  BY Zenon DEF IInv
<1>2. /\ last_seq \in Nat /\ hb_count \in Nat
      /\ history \subseteq 1..last_seq
      /\ queue \subseteq history /\ sending \in history \cup {0}
      /\ {periodic_hb, nack_response} \subseteq BOOLEAN
      /\ next_all_acked \in 1..(last_seq + 1)
  BY <1>1 DEF TypesOK, HistoryOK
<1>3. ASSUME NEW r \in Readers
      PROVE  /\ rp[r].low_mark \in 0..last_seq /\ join_seq[r] \in 0..last_seq
             /\ DOMAIN rp[r].changes \subseteq {s \in history : s > rp[r].low_mark}
             /\ \A s \in DOMAIN rp[r].changes : rp[r].changes[s] \in ChangeForReader
             /\ wp[r] \in WriterProxyType
             /\ toReader[r] \subseteq ToReaderMessage
             /\ toWriter[r] \subseteq ToWriterMessage
  <2>1. ReaderProxyOK(rp[r], history, last_seq) /\ join_seq[r] <= last_seq
    BY Zenon DEF IInv, WriterSide
  <2>2. rp[r].low_mark \in Nat /\ rp[r].changes \in ChangesType /\ join_seq[r] \in Nat
    BY Zenon, <1>1, <2>1 DEF ReaderProxyOK, ReaderProxyType, TypesOK
  <2>3. \A s \in DOMAIN rp[r].changes : rp[r].changes[s] \in ChangeForReader
    BY Zenon, <2>2, ChangesElim
  <2>4. rp[r].low_mark \in 0..last_seq /\ join_seq[r] \in 0..last_seq
    BY <1>2, <2>1, <2>2 DEF ReaderProxyOK
  <2> QED
    BY Zenon, <1>1, <2>1, <2>3, <2>4 DEF TypesOK, ReaderProxyOK
<1> QED
  BY Zenon, <1>2, <1>3 DEF TypeOK

(* A low mark is a notified mark, so nothing below it was skipped. *)
LEMMA IInvNoSilentSkip ==
    ASSUME KeepAllReaders = Readers, IInv
    PROVE  NoSilentSkip
<1> SUFFICES ASSUME NEW r \in Readers, wp[r].alive, NEW s \in Owed(r), s <= wp[r].low_mark
             PROVE  s \in notified[r]
  BY Zenon DEF NoSilentSkip
<1> QED
  BY Zenon DEF IInv, ReaderSide

(* What a ReaderProxy has no entry for was notified or is not owed. *)
LEMMA IInvAckSound ==
    ASSUME KeepAllReaders = Readers, IInv
    PROVE  AckSound
<1> SUFFICES ASSUME NEW r \in Readers, rp[r].active, NEW s \in Owed(r),
                    s <= rp[r].low_mark \/ s \notin DOMAIN rp[r].changes
             PROVE  s \in notified[r]
  BY Zenon DEF AckSound, ChangeIsAcked
<1> QED
  BY Zenon DEF IInv, WriterSide

(* The check of process_acknack() on an ACKNACK's range succeeds. *)
LEMMA IInvNoInconsistentAcknack == IInv => NoInconsistentAcknack
<1> SUFFICES ASSUME IInv, NEW r \in Readers, NEW m \in toWriter[r] PROVE AcknackInRange(m)
  BY Zenon DEF NoInconsistentAcknack
<1>1. m \in ToWriterMessage /\ last_seq \in Nat
  BY Zenon DEF IInv, TypesOK, HistoryOK
<1>2. m.base \in Nat /\ m.base <= last_seq + 1 /\ m.seqs \in SUBSET Nat
      /\ \A s \in m.seqs : s <= last_seq
  BY Zenon, <1>1 DEF IInv, WireSide, ToWriterOK, ToWriterMessage
<1> DEFINE S == {m.base} \cup m.seqs
<1>3. S \in SUBSET Nat /\ S # {} /\ last_seq + 1 \in Nat
  BY <1>1, <1>2
<1>4. ASSUME NEW s \in S PROVE s <= last_seq + 1
  BY <1>1, <1>2
<1> HIDE DEF S
<1>5. Max(S) \in S
  BY Zenon, <1>3, <1>4, MaxNat
<1> QED
  BY Zenon, <1>4, <1>5 DEF AcknackInRange, NextSeq, S

-----------------------------------------------------------------------------
(* What a step of a reader has to preserve. *)
LEMMA ReaderStep ==
    ASSUME IInv, UNCHANGED writerVars, UNCHANGED toReader, TypesOK',
           \A q \in Readers : notified[q] \subseteq notified'[q],
           \A q \in Readers : ReaderSide(q)',
           \A q \in Readers : \A m \in toWriter'[q] : m \in toWriter[q] \/ ToWriterOK(q, m)
    PROVE  IInv'
<1> USE DEF writerVars
<1>1. \A q \in Readers : Owed(q)' = Owed(q)
  BY Zenon DEF Owed
<1>2. ASSUME NEW q \in Readers PROVE WriterSide(q)'
  <2>1. WriterSide(q)
    BY Zenon DEF IInv
  <2> QED
    BY Zenon, <1>1, <2>1 DEF WriterSide
<1>3. ASSUME NEW q \in Readers PROVE WireSide(q)'
  <2>1. WireSide(q)
    BY Zenon DEF IInv
  <2>2. ASSUME NEW m \in toReader'[q] PROVE ToReaderOK(q, m)'
    BY Zenon, <1>1, <2>1 DEF WireSide, ToReaderOK
  <2>3. ASSUME NEW m \in toWriter'[q] PROVE ToWriterOK(q, m)'
    <3>1. ToWriterOK(q, m)
      BY Zenon, <2>1 DEF WireSide
    <3> QED
      BY Zenon, <1>1, <3>1 DEF ToWriterOK
  <2> QED
    BY Zenon, <2>2, <2>3 DEF WireSide
<1> QED
  BY Zenon, <1>2, <1>3 DEF IInv

(* A step of r notifies what lies between its records, if it only loses    *)
(* writers by lease.                                                       *)
Advanced(r) ==
    /\ record' = [record EXCEPT ![r] = record'[r]] /\ record[r] <= record'[r]
    /\ notified' = [notified EXCEPT ![r] = notified'[r]] /\ notified[r] \subseteq notified'[r]
    /\ \A s \in notified'[r] \ notified[r] : record[r] < s /\ s <= record'[r]

Sound(r) == IInv' /\ (RecordKept => Advanced(r))

(* A reader that does not move keeps its side. *)
LEMMA ReaderFrame ==
    ASSUME NEW q \in Readers, ReaderSide(q), UNCHANGED writerVars,
           wp'[q] = wp[q], record'[q] = record[q], notified'[q] = notified[q],
           rhist'[q] = rhist[q]
    PROVE  ReaderSide(q)'
<1>1. Owed(q)' = Owed(q)
  BY Zenon DEF Owed, writerVars
<1> QED
  BY Zenon, <1>1 DEF ReaderSide, writerVars

(* NotifyChanges() after the proxy advanced over received numbers and X:   *)
(* nothing r is owed is passed over if the history h has what is in X.     *)
LEMMA NotifyStep ==
    ASSUME IInv, NEW r \in Readers, wp[r].alive, NEW v, NEW X, NEW h \in SUBSET Nat,
           Advances(wp[r], v, X, last_seq),
           r \in KeepAllReaders =>
              rhist[r] \subseteq h /\ \A s \in Owed(r) : s \in X => s \in h,
           NotifyChanges(r, v, h), UNCHANGED <<acknack_count, wireVars>>, UNCHANGED writerVars
    PROVE  Sound(r)
<1> DEFINE w == wp[r]
           nv == [v EXCEPT !.last_notified = v.low_mark]
           N == {s \in h : v.last_notified < s /\ s <= v.low_mark}
<1>1. TypesOK /\ ReaderSide(r) /\ last_seq \in Nat
  BY Zenon DEF IInv, TypesOK, HistoryOK
<1>2. w \in WriterProxyType /\ w.low_mark \in Nat /\ w.low_mark = record[r]
      /\ w.last_notified = record[r] /\ record[r] \in Nat
  BY Zenon, <1>1 DEF ReaderSide, TypesOK, WriterProxyType
<1>3. v \in WriterProxyType /\ v.low_mark \in Nat /\ v.max_seq \in Nat
      /\ v.low_mark <= v.max_seq /\ v.max_seq <= last_seq
      /\ v.alive = w.alive /\ v.last_notified = w.last_notified /\ w.low_mark <= v.low_mark
  BY Zenon DEF Advances, WriterProxyOK, WriterProxyType
<1>4. nv \in WriterProxyType /\ nv.low_mark = v.low_mark /\ nv.last_notified = v.low_mark
      /\ nv.max_seq = v.max_seq /\ nv.received = v.received /\ nv.alive = v.alive
  BY Zenon, <1>3 DEF WriterProxyType
<1> HIDE DEF nv
<1>5. Max({record[r], v.low_mark}) = v.low_mark
  BY Zenon, <1>2, <1>3, MaxOfTwo
<1>6. wp' = [wp EXCEPT ![r] = nv] /\ rhist' = [rhist EXCEPT ![r] = h]
      /\ record' = [record EXCEPT ![r] = v.low_mark]
      /\ notified' = [notified EXCEPT ![r] = notified[r] \cup N]
  BY Zenon, <1>1, <1>5 DEF NotifyChanges, TypesOK, nv
<1>7. N \in SUBSET Nat
  BY Zenon
<1> HIDE DEF N, w
<1>8. wp'[r] = nv /\ rhist'[r] = h /\ record'[r] = v.low_mark
      /\ notified'[r] = notified[r] \cup N
  BY Zenon, <1>1, <1>6 DEF TypesOK
<1>9. \A q \in Readers : notified[q] \subseteq notified'[q]
  BY Zenon, <1>1, <1>6 DEF TypesOK
<1>10. TypesOK'
  <2>1. wp' \in [Readers -> WriterProxyType] /\ rhist' \in [Readers -> SUBSET Nat]
    BY Zenon, <1>1, <1>4, <1>6 DEF TypesOK
  <2>2. record' \in [Readers -> Nat]
    BY Zenon, <1>1, <1>3, <1>6 DEF TypesOK
  <2>3. notified' \in [Readers -> SUBSET Nat]
    BY Zenon, <1>1, <1>6, <1>7 DEF TypesOK
  <2> QED
    BY Zenon, <1>1, <2>1, <2>2, <2>3 DEF TypesOK, HistoryOK, writerVars, wireVars
<1>11. ReaderSide(r)'
  <2> USE DEF writerVars
  <2>1. Owed(r)' = Owed(r) /\ last_seq' = last_seq
    BY Zenon DEF Owed
  <2>2. WriterProxyOK(wp[r], last_seq)'
    BY Zenon, <1>3, <1>4, <1>8, <2>1 DEF Advances, WriterProxyOK
  <2>3. record'[r] <= last_seq'
    BY SMTT(60), <1>1, <1>3, <1>8, <2>1
  <2>4. ASSUME RecordKept, NEW s \in notified'[r] PROVE s <= record'[r]
    <3>1. CASE s \in N
      BY Zenon, <1>8, <3>1 DEF N
    <3>2. CASE s \in notified[r]
      <4>1. s \in Nat /\ s <= record[r]
        BY Zenon, <1>1, <2>4, <3>2 DEF ReaderSide, TypesOK
      <4> QED
        BY SMTT(60), <1>2, <1>3, <1>8, <4>1
    <3> QED
      BY Zenon, <1>8, <3>1, <3>2
  <2>5. ASSUME r \in KeepAllReaders, NEW s \in Owed(r), s \in v.received PROVE s \in h
    <3>1. s \in w.received \/ s \in X
      BY Zenon, <2>5 DEF Advances, w
    <3> QED
      BY Zenon, <1>1, <2>5, <3>1 DEF ReaderSide, w
  <2>6. ASSUME r \in KeepAllReaders, NEW s \in Owed(r), s <= v.low_mark
        PROVE  s \in notified'[r]
    <3>0. s \in Nat
      BY Zenon, <1>1 DEF Owed, TypesOK, HistoryOK
    <3>1. CASE s <= record[r]
      BY Zenon, <1>1, <1>8, <2>6, <3>1 DEF ReaderSide
    <3>2. CASE ~(s <= record[r])
      <4>1. s \in w.received \/ s \in X
        BY SMTT(60), <1>2, <2>6, <3>0, <3>2 DEF Advances, w
      <4>2. s \in h
        BY Zenon, <1>1, <2>6, <4>1 DEF ReaderSide, w
      <4>3. s \in N
        BY <1>2, <1>3, <2>6, <3>0, <3>2, <4>2 DEF N
      <4> QED
        BY Zenon, <1>8, <4>3
    <3> QED
      BY Zenon, <3>1, <3>2
  <2>7. wp'[r].alive
    BY Zenon, <1>3, <1>4, <1>8 DEF w
  <2> QED
    BY Zenon, <1>4, <1>8, <2>1, <2>2, <2>3, <2>4, <2>5, <2>6, <2>7 DEF ReaderSide
<1>12. \A q \in Readers : ReaderSide(q)'
  <2>1. ASSUME NEW q \in Readers, q # r PROVE ReaderSide(q)'
    <3>1. wp'[q] = wp[q] /\ record'[q] = record[q] /\ notified'[q] = notified[q]
          /\ rhist'[q] = rhist[q]
      BY Zenon, <1>1, <1>6, <2>1 DEF TypesOK
    <3>2. ReaderSide(q)
      BY Zenon DEF IInv
    <3> QED
      BY Zenon, <3>1, <3>2, ReaderFrame
  <2> QED
    BY Zenon, <1>11, <2>1
<1>13. IInv'
  BY Zenon, <1>9, <1>10, <1>12, ReaderStep DEF wireVars
<1>14. Advanced(r)
  <2>1. record' = [record EXCEPT ![r] = record'[r]] /\ notified' = [notified EXCEPT ![r] = notified'[r]]
    BY Zenon, <1>6, <1>8
  <2>2. record[r] <= record'[r]
    BY Zenon, <1>2, <1>3, <1>8 DEF w
  <2>3. ASSUME NEW s \in notified'[r] \ notified[r] PROVE record[r] < s /\ s <= record'[r]
    BY Zenon, <1>2, <1>3, <1>8 DEF N
  <2> QED
    BY Zenon, <1>9, <2>1, <2>2, <2>3 DEF Advanced
<1> QED
  BY Zenon, <1>13, <1>14 DEF Sound

(* The flags, counters and queues of the writer keep their types. *)
ScalarsOK ==
    /\ hb_count' \in Nat /\ queue' \subseteq history' /\ sending' \in history' \cup {0}
    /\ periodic_hb' \in BOOLEAN /\ nack_response' \in BOOLEAN
    /\ next_all_acked' \in Nat /\ 1 <= next_all_acked' /\ next_all_acked' <= last_seq' + 1

(* p, as the next proxy of r, forgets no sample of hist and acknowledges   *)
(* none that r did not notify.                                             *)
AcksNotified(r, p, hist) ==
    p.active =>
      /\ rp[r].active
      /\ \A s \in hist : s <= rp[r].low_mark \/ s \in DOMAIN rp[r].changes =>
                           s <= p.low_mark \/ s \in DOMAIN p.changes
      /\ r \in KeepAllReaders => \A s \in Owed(r) : s \in hist /\ s <= p.low_mark =>
                           s <= rp[r].low_mark \/ s \in notified[r]

(* What the writer sends is true. *)
SendsTrue ==
    /\ toWriter' = toWriter
    /\ toReader' \in [Readers -> SUBSET ToReaderMessage]
    /\ \A r \in Readers : \A m \in toReader'[r] : m \in toReader[r] \/ ToReaderOK(r, m)

(* Such a step of the writer, that publishes and matches nothing,          *)
(* preserves the invariant.                                                *)
LEMMA WriterStep ==
    ASSUME IInv, UNCHANGED readerVars, UNCHANGED <<last_seq, join_seq>>,
           history' \subseteq history, ScalarsOK, SendsTrue,
           rp' \in [Readers -> ReaderProxyType],
           \A r \in Readers : ReaderProxyOK(rp'[r], history', last_seq),
           \A r \in Readers : AcksNotified(r, rp'[r], history')
    PROVE  IInv'
<1>1. TypesOK
  BY Zenon DEF IInv
<1>2. TypesOK'
  BY Zenon, <1>1 DEF TypesOK, HistoryOK, ScalarsOK, SendsTrue, readerVars
<1>3. ASSUME NEW r \in Readers
      PROVE  Owed(r)' \subseteq Owed(r) /\ Owed(r)' \subseteq history'
  BY Zenon DEF Owed
<1>4. ASSUME NEW r \in Readers PROVE WriterSide(r)'
  <2>1. WriterSide(r)
    BY Zenon DEF IInv
  <2>2. ASSUME rp'[r].active, NEW s \in Owed(r)'
        PROVE  s <= rp'[r].low_mark \/ s \in DOMAIN rp'[r].changes
    BY Zenon, <1>3, <2>1, <2>2 DEF WriterSide, AcksNotified
  <2>3. ASSUME rp'[r].active, r \in KeepAllReaders, NEW s \in Owed(r)', s <= rp'[r].low_mark
        PROVE  s \in notified[r]
    BY Zenon, <1>3, <2>1, <2>3 DEF WriterSide, AcksNotified
  <2> QED
    BY Zenon, <2>1, <2>2, <2>3 DEF WriterSide, readerVars
<1>5. ASSUME NEW r \in Readers PROVE ReaderSide(r)'
  <2>1. ReaderSide(r)
    BY Zenon DEF IInv
  <2> QED
    BY Zenon, <1>3, <2>1 DEF ReaderSide, readerVars
<1>6. ASSUME NEW r \in Readers PROVE WireSide(r)'
  <2>1. WireSide(r)
    BY Zenon DEF IInv
  <2>2. ASSUME NEW m \in toReader'[r] PROVE ToReaderOK(r, m)'
    <3>1. ToReaderOK(r, m)
      BY Zenon, <2>1 DEF WireSide, SendsTrue
    <3> QED
      BY Zenon, <1>3, <3>1 DEF ToReaderOK
  <2>3. ASSUME NEW m \in toWriter'[r] PROVE ToWriterOK(r, m)'
    BY Zenon, <1>3, <2>1 DEF WireSide, ToWriterOK, SendsTrue, readerVars
  <2> QED
    BY Zenon, <2>2, <2>3 DEF WireSide
<1> QED
  BY Zenon, <1>2, <1>4, <1>5, <1>6 DEF IInv

(* check_acked_status() leaves everything that is not acknowledged. *)
LEMMA CheckAckedFacts ==
    ASSUME NEW n \in Nat, NEW hist \in SUBSET Nat, NEW rps \in [Readers -> ReaderProxyType],
           \A r \in Readers : ReaderProxyOK(rps[r], hist, n), NEW q, q \subseteq hist,
           next_all_acked \in Nat, 1 <= next_all_acked, next_all_acked <= n + 1,
           CheckAckedStatus(rps, hist, n + 1, q)
    PROVE  /\ rp' = rps /\ history' \subseteq hist /\ queue' \subseteq history'
           /\ next_all_acked' \in Nat /\ 1 <= next_all_acked' /\ next_all_acked' <= n + 1
           /\ \A r \in Readers : ReaderProxyOK(rps[r], history', n)
           /\ ~VolatileWriter => history' = hist
<1> DEFINE matched == {r \in Readers : rps[r].active}
           lows == {rps[r].low_mark : r \in matched}
           min_low == IF matched = {} THEN (n + 1) - 1 ELSE Min(lows)
           by_all == {s \in hist : next_all_acked <= s /\ s <= min_low}
<1>1. min_low \in Nat /\ min_low <= n /\ \A r \in matched : min_low <= rps[r].low_mark
  <2>1. CASE matched = {}
    BY <2>1
  <2>2. CASE matched # {}
    <3>0. \A r \in Readers : rps[r].low_mark \in Nat /\ rps[r].low_mark <= n
      BY Zenon DEF ReaderProxyOK, ReaderProxyType
    <3>1. lows \in SUBSET Nat /\ lows # {} /\ \A l \in lows : l <= n
      BY Zenon, <2>2, <3>0
    <3>2. Min(lows) \in lows /\ \A l \in lows : Min(lows) <= l
      <4> HIDE DEF lows
      <4> QED
        BY Zenon, <3>1, MinNat
    <3> QED
      BY Zenon, <2>2, <3>1, <3>2
  <2> QED
    BY Zenon, <2>1, <2>2
<1> HIDE DEF min_low
<1>2. /\ rp' = rps
      /\ history' = IF VolatileWriter THEN hist \ by_all ELSE hist
      /\ queue' = IF VolatileWriter THEN q \ by_all ELSE q
  BY Zenon DEF CheckAckedStatus, min_low
<1>3. next_all_acked' \in {n + 1, min_low + 1, next_all_acked}
  BY Zenon DEF CheckAckedStatus, min_low
<1>4. next_all_acked' \in Nat /\ 1 <= next_all_acked' /\ next_all_acked' <= n + 1
  BY <1>1, <1>3
<1>5. ASSUME NEW r \in Readers PROVE ReaderProxyOK(rps[r], history', n)
  <2>1. ReaderProxyOK(rps[r], hist, n) /\ rps[r].low_mark \in Nat
    BY Zenon DEF ReaderProxyOK, ReaderProxyType
  <2>2. ASSUME NEW s \in DOMAIN rps[r].changes PROVE s \in history'
    <3>1. s \in hist /\ s \in Nat /\ s > rps[r].low_mark /\ rps[r].active
      BY Zenon, <2>1 DEF ReaderProxyOK
    <3>2. ~(s <= min_low)
      BY <1>1, <2>1, <3>1
    <3> QED
      BY Zenon, <1>2, <3>1, <3>2
  <2> QED
    BY Zenon, <2>1, <2>2 DEF ReaderProxyOK
<1> QED
  BY Zenon, <1>2, <1>4, <1>5

-----------------------------------------------------------------------------
(* Something is armed for every entry of p that was sent. *)
ArmedFor(p, nack, hb) ==
    \A s \in DOMAIN p.changes :
        /\ p.changes[s].status = "REQUESTED" => nack
        /\ p.changes[s].status = "UNDERWAY" => p.nack_supression
        /\ p.changes[s].status = "UNACKNOWLEDGED" => hb

(* Every entry of p that was not sent is queued or being sent. *)
QueuedFor(p, q, current) == \A s \in WithStatus(p, "UNSENT") : s \in q \/ current = s

(* No send fails, or only the thread of the flow controller sends: then a  *)
(* sample that could not be sent is always queued again.                   *)
FailuresQueued == ~SendMayFail \/ ~SyncPublish

(* An ACKNACK that acknowledges nothing is the initial one, which asks for *)
(* a heartbeat.                                                            *)
InitialAsks(m) == m.base = 0 => m.seqs = {} /\ ~m.final

Armed ==
    /\ \A r \in Readers : ArmedFor(rp[r], nack_response, periodic_hb)
    /\ ~SyncPublish => sending = 0
    /\ FailuresQueued => \A r \in Readers : QueuedFor(rp[r], queue, sending)
    /\ \A r \in Readers : \A m \in toWriter[r] : InitialAsks(m)

(* What the writer takes as acknowledged by r, and what an ACKNACK of r    *)
(* acknowledges, r has notified or passed over.                            *)
Recorded(r) ==
    /\ rp[r].active => \A s \in history : s <= rp[r].low_mark => s <= record[r]
    /\ \A m \in toWriter[r] : m.base <= record[r] + 1

(* The numbers r is to get since it was matched, in the history or not. *)
Due(r) == {s \in (join_seq[r] + 1)..last_seq : Relevant(r, s)}

(* A VOLATILE reader holds no entry below the mark of what all have        *)
(* acknowledged; what a KEEP_ALL writer owes a KEEP_ALL reader was         *)
(* notified or has an entry.                                               *)
Accounted(r) ==
    rp[r].active =>
        /\ rp[r].volatile
        /\ \A s \in DOMAIN rp[r].changes : next_all_acked <= s
        /\ KeepAll /\ r \in KeepAllReaders =>
              \A s \in Due(r) : s \in notified[r] \/ s \in DOMAIN rp[r].changes

(* The second inductive invariant, relative to IInv. *)
PInv ==
    /\ Armed
    /\ RecordKept => \A r \in Readers : Recorded(r)
    /\ VolatileReaders = Readers => \A r \in Readers : Accounted(r)

(* An entry that keeps its status keeps what is armed for it. *)
LEMMA KeptArmed ==
    ASSUME NEW p, NEW q, KeepsStatus(p, q), NEW n1, NEW n2, NEW h1, NEW h2,
           ArmedFor(p, n1, h1), n1 => n2, h1 => h2
    PROVE  ArmedFor(q, n2, h2)
BY Zenon DEF KeepsStatus, ArmedFor

LEMMA KeptQueued ==
    ASSUME NEW p, NEW q, KeepsStatus(p, q), NEW u1, NEW u2, NEW c1, NEW c2, QueuedFor(p, u1, c1),
           \A s \in DOMAIN q.changes : s \in u1 \/ c1 = s => s \in u2 \/ c2 = s
    PROVE  QueuedFor(q, u2, c2)
BY Zenon DEF KeepsStatus, QueuedFor, WithStatus

LEMMA KeepsItself ==
    ASSUME NEW p
    PROVE  KeepsStatus(p, p)
BY Zenon DEF KeepsStatus

(* Before anything is matched there is no entry. *)
LEMMA InitPInv == Init => PInv
<1> SUFFICES ASSUME Init PROVE PInv
  BY Zenon
<1> USE DEF Init, WriterInit, ReaderInit, WireInit
<1>1. DOMAIN StoppedReaderProxy.changes = {} /\ StoppedReaderProxy.active = FALSE
  BY Zenon, StoppedReaderProxyOK DEF ReaderProxyOK
<1>2. \A r \in Readers : rp[r] = StoppedReaderProxy /\ toWriter[r] = {}
  BY Zenon
<1>3. Armed
  BY Zenon, <1>1, <1>2 DEF Armed, ArmedFor, QueuedFor, WithStatus
<1>4. \A r \in Readers : Recorded(r) /\ Accounted(r)
  BY Zenon, <1>1, <1>2 DEF Recorded, Accounted
<1> QED
  BY Zenon, <1>3, <1>4 DEF PInv

(* What the second invariant implies. *)
LEMMA PInvNoStall ==
    ASSUME PInv, FailuresQueued
    PROVE  NoStall
BY Zenon DEF PInv, Armed, NoStall, UnsentIsQueued, ArmedFor, QueuedFor

LEMMA PInvRequestAnswerable ==
    ASSUME IInv, PInv, RecordKept
    PROVE  RequestAnswerable
<1> SUFFICES ASSUME NEW r \in Readers, rp[r].active, wp[r].alive,
                    NEW s \in MissingChanges(wp[r]) \cap history
             PROVE  s > rp[r].low_mark
  BY Zenon DEF RequestAnswerable
<1>1. wp[r] \in WriterProxyType /\ rp[r].low_mark \in Nat /\ record[r] \in Nat /\ s \in Nat
  BY Zenon DEF IInv, TypesOK, HistoryOK, ReaderProxyType
<1>2. wp[r].low_mark \in Nat /\ wp[r].max_seq \in Nat /\ wp[r].low_mark = record[r]
  BY Zenon, <1>1 DEF IInv, ReaderSide, WriterProxyType
<1>3. wp[r].low_mark < s
  BY <1>1, <1>2 DEF MissingChanges
<1>4. s <= rp[r].low_mark => s <= record[r]
  BY Zenon DEF PInv, Recorded
<1> QED
  BY <1>1, <1>2, <1>3, <1>4

LEMMA PInvKeepAllNoLoss ==
    ASSUME IInv, PInv, VolatileReaders = Readers
    PROVE  KeepAllNoLoss
<1> SUFFICES ASSUME KeepAll, NEW r \in KeepAllReaders, rp[r].active,
                    NEW s \in (join_seq[r] + 1)..last_seq, Relevant(r, s), s \notin history
             PROVE  s \in notified[r]
  BY Zenon DEF KeepAllNoLoss
<1>1. r \in Readers
  BY Zenon, ReaderAssumption
<1>2. s \notin DOMAIN rp[r].changes
  BY Zenon, <1>1 DEF IInv, WriterSide, ReaderProxyOK
<1> QED
  BY Zenon, <1>1, <1>2 DEF PInv, Accounted, Due

LEMMA PInvRemovesAcked ==
    ASSUME IInv, PInv, VolatileReaders = Readers
    PROVE  RemovesAcked
<1> SUFFICES ASSUME TryRemoveChange, NEW r \in Matched
             PROVE  Min(history) \notin DOMAIN rp[r].changes
  BY Zenon DEF RemovesAcked, ChangeIsAcked
<1>1. r \in Readers /\ rp[r].active
  BY Zenon DEF Matched
<1>2. \A s \in DOMAIN rp[r].changes : next_all_acked <= s
  BY Zenon, <1>1 DEF PInv, Accounted
<1>3. next_all_acked \in Nat /\ history \in SUBSET Nat /\ history # {}
      /\ Min(history) <= next_all_acked - 1
  BY Zenon DEF IInv, TypesOK, HistoryOK, TryRemoveChange
<1>4. Min(history) \in Nat
  BY Zenon, <1>3, MinNat
<1> QED
  BY <1>2, <1>3, <1>4

-----------------------------------------------------------------------------
(* process_data_msg(): the sample is in the history before the low mark moves. *)
LEMMA DataStep ==
    ASSUME IInv, NEW r \in Readers, NEW m \in toReader[r], ProcessDataMsg(r, m),
           UNCHANGED writerVars
    PROVE  Sound(r)
<1>1. TypesOK /\ ReaderSide(r) /\ last_seq \in Nat /\ rhist[r] \in SUBSET Nat
  BY Zenon DEF IInv, TypesOK, HistoryOK
<1>2. m.type = "DATA" /\ wp[r].alive /\ UNCHANGED <<acknack_count, wireVars>>
  BY Zenon DEF ProcessDataMsg
<1>3. m.seq \in 1..last_seq
  <2>1. m \in ToReaderMessage /\ ToReaderOK(r, m)
    BY Zenon, <1>1 DEF IInv, TypesOK, WireSide
  <2>2. m.seq \in Nat
    BY Zenon, <1>2, <2>1 DEF ToReaderMessage
  <2> QED
    BY <1>1, <1>2, <2>1, <2>2 DEF ToReaderOK
<1>4. Advances(wp[r], ReceivedChangeSet(wp[r], m.seq), {m.seq}, last_seq)
  BY Zenon, <1>1, <1>3, ReceivedAdvances DEF ReaderSide
<1>5. CASE Relevant(r, m.seq)
           /\ NotifyChanges(r, ReceivedChangeSet(wp[r], m.seq), HistoryAfter(r, m.seq))
  <2>1. HistoryAfter(r, m.seq) \in SUBSET Nat
    BY <1>1, <1>3 DEF HistoryAfter
  <2>2. r \in KeepAllReaders => HistoryAfter(r, m.seq) = rhist[r] \cup {m.seq}
    BY Zenon DEF HistoryAfter
  <2> QED
    BY Zenon, <1>2, <1>4, <1>5, <2>1, <2>2, NotifyStep
<1>6. CASE ~Relevant(r, m.seq)
           /\ NotifyChanges(r, ReceivedChangeSet(wp[r], m.seq), rhist[r])
  <2>1. m.seq \notin Owed(r)
    BY Zenon, <1>6 DEF Owed
  <2> QED
    BY Zenon, <1>1, <1>2, <1>4, <1>6, <2>1, NotifyStep
<1> QED
  BY Zenon, <1>5, <1>6 DEF ProcessDataMsg

(* process_heartbeat_msg(): what is below the first number is not owed. *)
LEMMA HeartbeatStep ==
    ASSUME IInv, NEW r \in Readers, NEW m \in toReader[r], ProcessHeartbeatMsg(r, m),
           UNCHANGED writerVars
    PROVE  Sound(r)
<1> DEFINE v == ProcessHeartbeat(wp[r], m.first, m.last, m.count, m.final, m.liveliness)
           X == {s \in Nat : s < m.first}
<1>1. TypesOK /\ ReaderSide(r) /\ last_seq \in Nat /\ rhist[r] \in SUBSET Nat
  BY Zenon DEF IInv, TypesOK, HistoryOK
<1>2. m.type = "HEARTBEAT" /\ wp[r].alive /\ UNCHANGED <<acknack_count, wireVars>>
      /\ NotifyChanges(r, v, rhist[r])
  BY Zenon DEF ProcessHeartbeatMsg, HeartbeatAccepted
<1>3. m \in ToReaderMessage /\ ToReaderOK(r, m)
  BY Zenon, <1>1 DEF IInv, TypesOK, WireSide
<1>4. m.first \in Nat /\ m.last \in Nat /\ m.count \in Nat
      /\ m.final \in BOOLEAN /\ m.liveliness \in BOOLEAN
  BY Zenon, <1>2, <1>3 DEF ToReaderMessage
<1>5. m.first <= last_seq + 1 /\ m.last <= last_seq /\ \A s \in history : m.first <= s
  BY Zenon, <1>2, <1>3 DEF ToReaderOK
<1>6. Advances(wp[r], v, X, last_seq)
  BY Zenon, <1>1, <1>4, <1>5, HeartbeatAdvances DEF ReaderSide
<1>7. ASSUME NEW s \in Owed(r) PROVE s \notin X
  <2>1. s \in history /\ s \in Nat
    BY Zenon, <1>1 DEF Owed, TypesOK, HistoryOK
  <2> QED
    BY <1>4, <1>5, <2>1
<1> HIDE DEF v, X
<1> QED
  BY Zenon, <1>1, <1>2, <1>6, <1>7, NotifyStep

(* process_gap_msg(): what a GAP covers is not owed. *)
LEMMA GapStep ==
    ASSUME IInv, NEW r \in Readers, NEW m \in toReader[r], ProcessGapMsg(r, m),
           UNCHANGED writerVars
    PROVE  Sound(r)
<1> DEFINE v == IrrelevantChangesSet(wp[r], m.seqs)
<1>1. TypesOK /\ ReaderSide(r) /\ last_seq \in Nat /\ rhist[r] \in SUBSET Nat
  BY Zenon DEF IInv, TypesOK, HistoryOK
<1>2. m.type = "GAP" /\ wp[r].alive /\ UNCHANGED <<acknack_count, wireVars>>
      /\ NotifyChanges(r, v, rhist[r])
  BY Zenon DEF ProcessGapMsg
<1>3. m \in ToReaderMessage /\ ToReaderOK(r, m)
  BY Zenon, <1>1 DEF IInv, TypesOK, WireSide
<1>4. m.seqs \in SUBSET Nat /\ \A s \in m.seqs : s <= last_seq /\ s \notin Owed(r)
  BY Zenon, <1>2, <1>3 DEF ToReaderMessage, ToReaderOK
<1>5. Advances(wp[r], v, m.seqs, last_seq)
  BY Zenon, <1>1, <1>4, IrrelevantAdvances DEF ReaderSide
<1> HIDE DEF v
<1> QED
  BY Zenon, <1>1, <1>2, <1>4, <1>5, NotifyStep

(* A reader may also stay where it is. *)
LEMMA StillAdvanced ==
    ASSUME TypesOK, NEW r \in Readers, UNCHANGED <<record, notified>>
    PROVE  Advanced(r)
BY DEF Advanced, TypesOK

(* A timer callback of a reader: its flags change and it may send m. *)
LEMMA TimerStep ==
    ASSUME IInv, NEW r \in Readers, NEW v \in WriterProxyType,
           v.alive = wp[r].alive, v.low_mark = wp[r].low_mark, v.max_seq = wp[r].max_seq,
           v.received = wp[r].received, v.last_notified = wp[r].last_notified,
           v.hb_response => v.alive,
           wp' = [wp EXCEPT ![r] = v], UNCHANGED <<rhist, record, notified>>,
           UNCHANGED writerVars, acknack_count' \in [Readers -> Nat],
           NEW m \in ToWriterMessage, ToWriterOK(r, m),
           SendToWriter(r, m) \/ UNCHANGED wireVars
    PROVE  Sound(r)
<1>1. TypesOK
  BY Zenon DEF IInv
<1>2. wp'[r] = v /\ wp' \in [Readers -> WriterProxyType]
  BY Zenon, <1>1 DEF TypesOK
<1>3. toReader' = toReader /\ toWriter' \in [Readers -> SUBSET ToWriterMessage]
  BY <1>1 DEF TypesOK, SendToWriter, wireVars
<1>4. TypesOK'
  BY Zenon, <1>1, <1>2, <1>3 DEF TypesOK, HistoryOK, writerVars
<1>5. ASSUME NEW q \in Readers PROVE ReaderSide(q)'
  <2>1. ReaderSide(q)
    BY Zenon DEF IInv
  <2>2. CASE q = r
    <3>1. Owed(r)' = Owed(r) /\ last_seq' = last_seq
      BY Zenon DEF Owed, writerVars
    <3>2. WriterProxyOK(v, last_seq)
      <4>1. WriterProxyOK(wp[r], last_seq)
        BY Zenon, <2>1, <2>2 DEF ReaderSide
      <4> QED
        BY Zenon, <4>1 DEF WriterProxyOK
    <3>3. WriterProxyOK(wp[r], last_seq)'
      BY Zenon, <1>2, <3>1, <3>2
    <3>4. wp'[r].alive => wp'[r].low_mark = record[r] /\ wp'[r].last_notified = record[r]
      BY Zenon, <1>2, <2>1, <2>2 DEF ReaderSide
    <3>5. wp'[r].hb_response => wp'[r].alive
      BY Zenon, <1>2
    <3>6. wp'[r].alive = wp[r].alive /\ wp'[r].received = wp[r].received
      BY Zenon, <1>2
    <3>7. record'[r] = record[r] /\ notified'[r] = notified[r] /\ rhist'[r] = rhist[r]
      BY Zenon
    <3> QED
      BY Zenon, <2>1, <2>2, <3>1, <3>3, <3>4, <3>5, <3>6, <3>7 DEF ReaderSide
  <2>3. CASE q # r
    <3>1. wp'[q] = wp[q]
      BY Zenon, <1>1, <2>3 DEF TypesOK
    <3> QED
      BY Zenon, <2>1, <3>1, ReaderFrame
  <2> QED
    BY Zenon, <2>2, <2>3
<1>6. ASSUME NEW q \in Readers, NEW k \in toWriter'[q]
      PROVE  k \in toWriter[q] \/ ToWriterOK(q, k)
  BY <1>1 DEF SendToWriter, wireVars, TypesOK
<1>7. IInv'
  BY Zenon, <1>3, <1>4, <1>5, <1>6, ReaderStep
<1> QED
  BY Zenon, <1>1, <1>7, StillAdvanced DEF Sound

(* perform_initial_ack_nack() acknowledges nothing. *)
LEMMA InitialAckNackStep ==
    ASSUME IInv, NEW r \in Readers, PerformInitialAckNack(r), UNCHANGED writerVars
    PROVE  Sound(r)
<1> DEFINE asks == wp[r].hb_count = 0
           v == [wp[r] EXCEPT !.init_acknack = asks]
           m == Acknack(0, {}, acknack_count[r] + 1, FALSE)
<1>1. TypesOK /\ wp[r] \in WriterProxyType /\ acknack_count[r] \in Nat
  BY Zenon DEF IInv, TypesOK
<1>2. v \in WriterProxyType /\ v.hb_response = wp[r].hb_response
      /\ v.alive = wp[r].alive /\ v.low_mark = wp[r].low_mark /\ v.max_seq = wp[r].max_seq
      /\ v.received = wp[r].received /\ v.last_notified = wp[r].last_notified
  BY Zenon, <1>1 DEF WriterProxyType
<1>3. wp' = [wp EXCEPT ![r] = v] /\ UNCHANGED <<rhist, record, notified>>
      /\ (SendToWriter(r, m) \/ UNCHANGED wireVars)
  BY Zenon DEF PerformInitialAckNack
<1>4. acknack_count' \in [Readers -> Nat]
  <2>1. acknack_count' = [acknack_count EXCEPT ![r] = acknack_count[r] + 1]
        \/ acknack_count' = acknack_count
    BY Zenon DEF PerformInitialAckNack
  <2> QED
    BY <1>1, <2>1 DEF TypesOK
<1>5. m \in ToWriterMessage
  BY <1>1 DEF Acknack, ToWriterMessage
<1>6. ToWriterOK(r, m)
  <2>1. \A s \in Owed(r) : s \in Nat
    BY Zenon, <1>1 DEF Owed, TypesOK, HistoryOK
  <2> QED
    BY <1>1, <2>1 DEF ToWriterOK, Acknack, TypesOK, HistoryOK
<1>7. v.hb_response => v.alive
  BY Zenon, <1>2 DEF IInv, ReaderSide
<1> HIDE DEF v, m
<1> QED
  BY Zenon, <1>7, <1>2, <1>3, <1>4, <1>5, <1>6, TimerStep

(* perform_heartbeat_response() acknowledges up to the low mark. *)
LEMMA HeartbeatResponseStep ==
    ASSUME IInv, NEW r \in Readers, PerformHeartbeatResponse(r), UNCHANGED writerVars
    PROVE  Sound(r)
<1> DEFINE v == [wp[r] EXCEPT !.hb_response = FALSE]
           missing == MissingChanges(wp[r])
           m == Acknack(wp[r].low_mark + 1, missing, acknack_count[r] + 1, missing = {})
<1>1. TypesOK /\ ReaderSide(r) /\ wp[r] \in WriterProxyType /\ acknack_count[r] \in Nat
      /\ last_seq \in Nat
  BY Zenon DEF IInv, TypesOK, HistoryOK
<1>2. v \in WriterProxyType /\ v.hb_response = FALSE
      /\ v.alive = wp[r].alive /\ v.low_mark = wp[r].low_mark /\ v.max_seq = wp[r].max_seq
      /\ v.received = wp[r].received /\ v.last_notified = wp[r].last_notified
  BY Zenon, <1>1 DEF WriterProxyType
<1>3. wp' = [wp EXCEPT ![r] = v] /\ UNCHANGED <<rhist, record, notified>>
      /\ (SendToWriter(r, m) \/ UNCHANGED wireVars) /\ wp[r].alive
  BY Zenon, <1>1 DEF PerformHeartbeatResponse, ReaderSide
<1>4. acknack_count' \in [Readers -> Nat]
  <2>1. acknack_count' = [acknack_count EXCEPT ![r] = acknack_count[r] + 1]
        \/ acknack_count' = acknack_count
    BY Zenon DEF PerformHeartbeatResponse
  <2> QED
    BY <1>1, <2>1 DEF TypesOK
<1>5. wp[r].low_mark \in Nat /\ wp[r].max_seq \in Nat /\ wp[r].max_seq <= last_seq
      /\ wp[r].low_mark <= wp[r].max_seq /\ wp[r].low_mark = record[r]
  BY Zenon, <1>1, <1>3 DEF ReaderSide, WriterProxyOK, WriterProxyType
<1>6. missing \in SUBSET Nat /\ \A s \in missing : s <= last_seq
  BY SMTT(60), <1>1, <1>5 DEF MissingChanges
<1> HIDE DEF missing
<1>7. m \in ToWriterMessage /\ m.base = wp[r].low_mark + 1 /\ m.seqs = missing
  BY <1>1, <1>5, <1>6 DEF Acknack, ToWriterMessage
<1>8. ToWriterOK(r, m)
  <2>1. ASSUME r \in KeepAllReaders, NEW s \in Owed(r), s < wp[r].low_mark + 1
        PROVE  s \in notified[r]
    <3>1. s \in Nat
      BY Zenon, <1>1 DEF Owed, TypesOK, HistoryOK
    <3>2. s <= record[r]
      BY SMTT(60), <1>5, <2>1, <3>1
    <3> QED
      BY Zenon, <1>1, <2>1, <3>2 DEF ReaderSide
  <2>2. wp[r].low_mark + 1 <= last_seq + 1
    BY SMTT(60), <1>1, <1>5
  <2> HIDE DEF m
  <2> QED
    BY Zenon, <1>6, <1>7, <2>1, <2>2 DEF ToWriterOK
<1> HIDE DEF v, m
<1> QED
  BY Zenon, <1>2, <1>3, <1>4, <1>7, <1>8, TimerStep

(* A step of a reader that neither notifies nor sends. *)
LEMMA LocalStep ==
    ASSUME IInv, NEW r \in Readers, NEW v, NEW h \in SUBSET Nat, NEW k \in Nat,
           WriterProxyOK(v, last_seq), v.hb_response => v.alive,
           v.alive => v.low_mark = k /\ v.last_notified = k,
           k <= record[r], RecordKept => k = record[r],
           r \in KeepAllReaders /\ v.alive => \A s \in Owed(r) : s \in v.received => s \in h,
           wp' = [wp EXCEPT ![r] = v], rhist' = [rhist EXCEPT ![r] = h],
           record' = [record EXCEPT ![r] = k],
           UNCHANGED <<acknack_count, notified, wireVars>>, UNCHANGED writerVars
    PROVE  Sound(r)
<1>1. TypesOK /\ last_seq \in Nat
  BY Zenon DEF IInv, TypesOK, HistoryOK
<1>2. v \in WriterProxyType
  BY Zenon DEF WriterProxyOK
<1>3. wp' \in [Readers -> WriterProxyType] /\ rhist' \in [Readers -> SUBSET Nat]
      /\ record' \in [Readers -> Nat]
  BY Zenon, <1>1, <1>2 DEF TypesOK
<1>4. wp'[r] = v /\ rhist'[r] = h /\ record'[r] = k
  BY Zenon, <1>1 DEF TypesOK
<1>5. TypesOK'
  BY Zenon, <1>1, <1>3 DEF TypesOK, HistoryOK, writerVars, wireVars
<1>6. ASSUME NEW q \in Readers PROVE ReaderSide(q)'
  <2>1. ReaderSide(q)
    BY Zenon DEF IInv
  <2>2. CASE q = r
    <3>1. Owed(r)' = Owed(r) /\ last_seq' = last_seq /\ notified' = notified
      <4>1. history' = history /\ join_seq' = join_seq /\ last_seq' = last_seq /\ notified' = notified
        BY Zenon DEF writerVars
      <4> QED
        BY Zenon, <4>1 DEF Owed
    <3>2. record[r] \in Nat /\ record[r] <= last_seq
      BY Zenon, <1>1, <2>1, <2>2 DEF ReaderSide, TypesOK
    <3>3. k <= last_seq
      BY Zenon, <1>1, <3>2, AtMost
    <3>4. ASSUME r \in KeepAllReaders, NEW s \in Owed(r), s <= k PROVE s \in notified[r]
      <4>1. s \in Nat
        BY Zenon, <1>1 DEF Owed, TypesOK, HistoryOK
      <4>2. s <= record[r]
        BY <3>2, <3>4, <4>1
      <4> QED
        BY Zenon, <2>1, <2>2, <3>4, <4>2 DEF ReaderSide
    <3>5. WriterProxyOK(wp[r], last_seq)'
      BY Zenon, <1>4, <3>1
    <3> QED
      BY Zenon, <1>4, <2>1, <2>2, <3>1, <3>3, <3>4, <3>5 DEF ReaderSide
  <2>3. CASE q # r
    <3>1. wp'[q] = wp[q] /\ rhist'[q] = rhist[q] /\ record'[q] = record[q]
      BY Zenon, <1>1, <2>3 DEF TypesOK
    <3> QED
      BY Zenon, <2>1, <2>3, <3>1, ReaderFrame
  <2> QED
    BY Zenon, <2>2, <2>3
<1>7. IInv'
  BY Zenon, <1>5, <1>6, ReaderStep DEF wireVars
<1>8. RecordKept => record' = record
  BY Zenon, <1>1 DEF TypesOK
<1> QED
  BY Zenon, <1>1, <1>7, <1>8, StillAdvanced DEF Sound

(* matched_writer_add_edp() starts a proxy at the history record. *)
LEMMA WriterAddStep ==
    ASSUME IInv, NEW r \in Readers, MatchedWriterAdd(r), UNCHANGED writerVars
    PROVE  Sound(r)
<1> DEFINE k == record[r]
           v == StartWriterProxy(k)
<1>1. TypesOK /\ k \in Nat /\ k <= last_seq /\ last_seq \in Nat /\ rhist[r] \in SUBSET Nat
  BY Zenon DEF IInv, TypesOK, HistoryOK, ReaderSide
<1>2. v \in WriterProxyType /\ v.low_mark = k /\ v.max_seq = k /\ v.last_notified = k
      /\ v.received = {} /\ v.alive
  BY Zenon, <1>1 DEF StartWriterProxy, StoppedWriterProxy, WriterProxyType
<1>3. WriterProxyOK(v, last_seq)
  BY <1>1, <1>2 DEF WriterProxyOK
<1>4. wp' = [wp EXCEPT ![r] = v] /\ UNCHANGED <<acknack_count, notified, wireVars>>
      /\ rhist' = [rhist EXCEPT ![r] = rhist[r]] /\ record' = [record EXCEPT ![r] = k]
  BY Zenon, <1>1 DEF MatchedWriterAdd, TypesOK
<1>5. k <= record[r] /\ (RecordKept => k = record[r])
  BY <1>1
<1> HIDE DEF v, k
<1> QED
  BY Zenon, <1>1, <1>2, <1>3, <1>4, <1>5, LocalStep

(* matched_writer_remove() keeps or forgets what was notified. *)
LEMMA WriterRemoveStep ==
    ASSUME IInv, NEW r \in Readers, NEW removed_by_lease \in BOOLEAN,
           MatchedWriterRemove(r, removed_by_lease), UNCHANGED writerVars
    PROVE  Sound(r)
<1> DEFINE k == IF removed_by_lease THEN record[r] ELSE 0
           h == {s \in rhist[r] : s <= record[r]}
<1>1. TypesOK /\ record[r] \in Nat /\ last_seq \in Nat /\ h \in SUBSET Nat
  BY Zenon DEF IInv, TypesOK, HistoryOK
<1>2. k \in Nat /\ k <= record[r] /\ (RecordKept => k = record[r])
  BY SMTT(60), <1>1 DEF MatchedWriterRemove, RecordKept
<1>3. WriterProxyOK(StoppedWriterProxy, last_seq)
      /\ ~StoppedWriterProxy.alive /\ ~StoppedWriterProxy.hb_response
  BY <1>1 DEF WriterProxyOK, StoppedWriterProxy, WriterProxyType
<1>4. wp' = [wp EXCEPT ![r] = StoppedWriterProxy]
      /\ UNCHANGED <<acknack_count, notified, wireVars>>
      /\ rhist' = [rhist EXCEPT ![r] = h] /\ record' = [record EXCEPT ![r] = k]
  BY Zenon DEF MatchedWriterRemove
<1> HIDE DEF k, h
<1> QED
  BY Zenon, <1>1, <1>2, <1>3, <1>4, LocalStep

(* take_next_sample() takes only notified samples. *)
LEMMA TakeStep ==
    ASSUME IInv, NEW r \in Readers, TakeNextSample(r), UNCHANGED writerVars
    PROVE  Sound(r)
<1> DEFINE first == Min(rhist[r])
           h == rhist[r] \ {first}
<1>1. TypesOK /\ record[r] \in Nat /\ ReaderSide(r)
      /\ rhist[r] \in SUBSET Nat /\ h \in SUBSET Nat /\ wp[r] \in WriterProxyType
  BY Zenon DEF IInv, TypesOK
<1>2. first \in Nat
  BY Zenon, <1>1, MinNat DEF TakeNextSample
<1>3. wp' = [wp EXCEPT ![r] = wp[r]] /\ UNCHANGED <<acknack_count, notified, wireVars>>
      /\ rhist' = [rhist EXCEPT ![r] = h] /\ record' = [record EXCEPT ![r] = record[r]]
      /\ (wp[r].alive => first <= wp[r].low_mark)
  BY Zenon, <1>1 DEF TakeNextSample, TypesOK
<1> HIDE DEF first
<1>4. ASSUME r \in KeepAllReaders, wp[r].alive, NEW s \in Owed(r), s \in wp[r].received
      PROVE  s \in h
  <2>1. s \in rhist[r]
    BY Zenon, <1>1, <1>4 DEF ReaderSide
  <2>2. s \in Nat /\ wp[r].low_mark \in Nat /\ wp[r].low_mark + 1 < s
    BY Zenon, <1>1, <1>4 DEF ReaderSide, WriterProxyOK, WriterProxyType
  <2>3. s # first
    BY SMTT(60), <1>2, <1>3, <1>4, <2>2
  <2> QED
    BY Zenon, <2>1, <2>3
<1>5. WriterProxyOK(wp[r], last_seq) /\ (wp[r].hb_response => wp[r].alive)
      /\ (wp[r].alive => wp[r].low_mark = record[r] /\ wp[r].last_notified = record[r])
      /\ record[r] <= record[r]
  BY SMTT(60), <1>1 DEF ReaderSide
<1> HIDE DEF h
<1> QED
  BY Zenon, <1>1, <1>3, <1>4, <1>5, LocalStep

(* Every step of a reader preserves the invariant, and moves one reader. *)
LEMMA ReaderNextSound ==
    ASSUME IInv, ReaderNext, UNCHANGED writerVars
    PROVE  \E r \in Readers : Sound(r)
BY Zenon, DataStep, HeartbeatStep, GapStep, InitialAckNackStep, HeartbeatResponseStep,
   WriterAddStep, WriterRemoveStep, TakeStep DEF ReaderNext

LEMMA ReaderNextIInv ==
    ASSUME IInv, ReaderNext, UNCHANGED writerVars
    PROVE  IInv'
BY Zenon, ReaderNextSound DEF Sound

-----------------------------------------------------------------------------
(* What the steps of the readers do to the state PInv speaks of. *)
LEMMA ReaderEffects ==
    ASSUME IInv, ReaderNext, UNCHANGED writerVars
    PROVE  /\ \A q \in Readers : notified[q] \subseteq notified'[q]
           /\ \A q \in Readers : \A m \in toWriter'[q] :
                 m \in toWriter[q] \/ (InitialAsks(m) /\ m.base <= record[q] + 1)
           /\ RecordKept => \A q \in Readers : record[q] <= record'[q]
<1>1. TypesOK
  BY Zenon DEF IInv
<1>2. ASSUME NEW r \in Readers, NEW v, NEW h, NotifyChanges(r, v, h), UNCHANGED wireVars
      PROVE  /\ \A q \in Readers : notified[q] \subseteq notified'[q]
             /\ \A q \in Readers : toWriter'[q] = toWriter[q]
  BY Zenon, <1>1, <1>2 DEF NotifyChanges, TypesOK, wireVars
<1>3. ASSUME NEW r \in Readers, PerformInitialAckNack(r)
      PROVE  /\ notified' = notified
             /\ \A q \in Readers : \A m \in toWriter'[q] :
                   m \in toWriter[q] \/ (InitialAsks(m) /\ m.base <= record[q] + 1)
  <2> DEFINE k == Acknack(0, {}, acknack_count[r] + 1, FALSE)
  <2>1. record[r] \in Nat /\ k.base = 0 /\ k.seqs = {} /\ k.final = FALSE
    BY Zenon, <1>1 DEF TypesOK, Acknack
  <2>2. notified' = notified /\ (SendToWriter(r, k) \/ toWriter' = toWriter)
    BY Zenon, <1>3 DEF PerformInitialAckNack, wireVars
  <2> HIDE DEF k
  <2>3. ASSUME NEW q \in Readers, NEW m \in toWriter'[q] PROVE m \in toWriter[q] \/ (m = k /\ q = r)
    BY Zenon, <1>1, <2>2 DEF SendToWriter, TypesOK
  <2> QED
    BY <2>1, <2>2, <2>3 DEF InitialAsks
<1>4. ASSUME NEW r \in Readers, PerformHeartbeatResponse(r)
      PROVE  /\ notified' = notified
             /\ \A q \in Readers : \A m \in toWriter'[q] :
                   m \in toWriter[q] \/ (InitialAsks(m) /\ m.base <= record[q] + 1)
  <2> DEFINE missing == MissingChanges(wp[r])
             k == Acknack(wp[r].low_mark + 1, missing, acknack_count[r] + 1, missing = {})
  <2>1. record[r] \in Nat /\ wp[r].low_mark = record[r] /\ k.base = record[r] + 1
    BY Zenon, <1>1, <1>4 DEF IInv, ReaderSide, TypesOK, Acknack, PerformHeartbeatResponse
  <2>2. notified' = notified /\ (SendToWriter(r, k) \/ toWriter' = toWriter)
    BY Zenon, <1>4 DEF PerformHeartbeatResponse, wireVars
  <2> HIDE DEF k
  <2>3. ASSUME NEW q \in Readers, NEW m \in toWriter'[q] PROVE m \in toWriter[q] \/ (m = k /\ q = r)
    BY Zenon, <1>1, <2>2 DEF SendToWriter, TypesOK
  <2> QED
    BY <2>1, <2>2, <2>3 DEF InitialAsks
<1>5. /\ \A q \in Readers : notified[q] \subseteq notified'[q]
      /\ \A q \in Readers : \A m \in toWriter'[q] :
            m \in toWriter[q] \/ (InitialAsks(m) /\ m.base <= record[q] + 1)
  <2>1. ASSUME NEW r \in Readers, NEW m \in toReader[r],
               ProcessDataMsg(r, m) \/ ProcessHeartbeatMsg(r, m) \/ ProcessGapMsg(r, m)
        PROVE  \E v, h : NotifyChanges(r, v, h) /\ UNCHANGED wireVars
    BY Zenon, <2>1 DEF ProcessDataMsg, ProcessHeartbeatMsg, ProcessGapMsg
  <2>2. ASSUME NEW r \in Readers, NEW b \in BOOLEAN,
               MatchedWriterAdd(r) \/ MatchedWriterRemove(r, b) \/ TakeNextSample(r)
        PROVE  notified' = notified /\ toWriter' = toWriter
    BY Zenon, <2>2 DEF MatchedWriterAdd, MatchedWriterRemove, TakeNextSample, wireVars
  <2>3. PICK r \in Readers :
          \/ \E m \in toReader[r] :
                ProcessDataMsg(r, m) \/ ProcessHeartbeatMsg(r, m) \/ ProcessGapMsg(r, m)
          \/ PerformInitialAckNack(r) \/ PerformHeartbeatResponse(r)
          \/ \E b \in BOOLEAN : MatchedWriterAdd(r) \/ MatchedWriterRemove(r, b) \/ TakeNextSample(r)
    BY Zenon DEF ReaderNext
  <2> QED
    BY Zenon, <1>2, <1>3, <1>4, <2>1, <2>2, <2>3
<1>6. ASSUME RecordKept, NEW q \in Readers PROVE record[q] <= record'[q]
  <2>1. PICK r \in Readers : Advanced(r)
    BY Zenon, <1>6, ReaderNextSound DEF Sound
  <2> QED
    BY <1>1, <2>1 DEF Advanced, TypesOK
<1> QED
  BY Zenon, <1>5, <1>6

(* A step of a reader preserves PInv: its record only grows. *)
LEMMA ReaderNextPInv ==
    ASSUME IInv, PInv, ReaderNext, UNCHANGED writerVars
    PROVE  PInv'
<1> USE DEF writerVars
<1>1. /\ \A q \in Readers : notified[q] \subseteq notified'[q]
      /\ \A q \in Readers : \A m \in toWriter'[q] :
            m \in toWriter[q] \/ (InitialAsks(m) /\ m.base <= record[q] + 1)
      /\ RecordKept => \A q \in Readers : record[q] <= record'[q]
  BY Zenon, ReaderEffects
<1>2. TypesOK /\ IInv'
  BY Zenon, ReaderNextIInv DEF IInv
<1>3. TypesOK'
  BY Zenon, <1>2 DEF IInv
<1>4. Armed'
  BY Zenon, <1>1 DEF PInv, Armed
<1>5. ASSUME RecordKept, NEW r \in Readers PROVE Recorded(r)'
  <2>1. record[r] \in Nat /\ record'[r] \in Nat /\ record[r] <= record'[r] /\ Recorded(r)
    BY Zenon, <1>1, <1>2, <1>3, <1>5 DEF TypesOK, PInv
  <2>2. ASSUME NEW m \in toWriter'[r] PROVE m.base <= record'[r] + 1
    <3>1. m.base \in Nat
      BY <1>3 DEF TypesOK, ToWriterMessage
    <3>2. m.base <= record[r] + 1
      BY Zenon, <1>1, <2>1 DEF Recorded
    <3> QED
      BY <2>1, <3>1, <3>2
  <2>3. ASSUME rp[r].active, NEW s \in history, s <= rp[r].low_mark PROVE s <= record'[r]
    <3>1. s \in Nat /\ s <= record[r]
      BY Zenon, <1>2, <2>1, <2>3 DEF Recorded, TypesOK, HistoryOK
    <3> QED
      BY <2>1, <3>1
  <2> QED
    BY Zenon, <2>2, <2>3 DEF Recorded
<1>6. ASSUME VolatileReaders = Readers, NEW r \in Readers PROVE Accounted(r)'
  <2>1. Accounted(r) /\ Due(r)' = Due(r)
    BY Zenon, <1>6 DEF PInv, Due
  <2> QED
    BY Zenon, <1>1, <2>1 DEF Accounted
<1> QED
  BY Zenon, <1>4, <1>5, <1>6 DEF PInv

=============================================================================
