-------------------------- MODULE PersistenceProofs --------------------------
(***************************************************************************)
(* Proofs about Persistence, for any number of samples, crashes and DATA   *)
(* in flight: what the two processes start again from agrees, a number is  *)
(* not reused, and a sample is notified once and not passed over.          *)
(***************************************************************************)
EXTENDS Persistence, TLAPS

Proxies == [matched : BOOLEAN, low_mark : Nat, ahead : SUBSET Nat]
Samples == Guids \X Nat \X Nat

TypesOK ==
    /\ db = [last_seq |-> db.last_seq, history |-> db.history, record |-> db.record]
    /\ db.last_seq \in Nat /\ db.record \in Nat
    /\ DOMAIN db.history \subseteq Nat
    /\ guid \in Guids /\ last_seq \in Nat /\ writes \in Nat
    /\ wpc \in {"idle", "store_state", "store_change", "send", "forget", "down"}
    /\ wpc = "down" => guid <= WriterCrashes
    /\ rpc \in {"idle", "record", "notify", "down"}
    /\ proxy \in [Guids -> Proxies] /\ record \in Nat
    /\ net \subseteq Samples /\ rhist \subseteq Samples
    /\ got \in Seq(Nat \X Nat) /\ overlapped \in BOOLEAN

(* The highest number that was stored, and so may have left the writer:    *)
(* one that is about to be inserted has not.                               *)
Top == IF wpc = "store_change" THEN db.last_seq - 1 ELSE db.last_seq

(* Where the writer's thread is, its history is that of the database but   *)
(* for the sample it works on.                                             *)
WriterOK ==
    /\ wpc \in {"idle", "send"} => history = db.history
    /\ wpc \in {"idle", "send", "forget", "store_change"} => last_seq = db.last_seq
    /\ wpc = "store_state" => last_seq = db.last_seq + 1
    /\ wpc \in {"store_state", "store_change"} =>
          /\ wseq = last_seq /\ wseq > 0 /\ history[wseq] \in 1..writes
          /\ history = With(db.history, wseq, history[wseq])
    /\ wpc = "send" => wseq \in DOMAIN history
    /\ wpc = "forget" => db.history = Restrict(history, DOMAIN history \ {wseq})

(* What the reader knows of was stored; its marks are on record, but the   *)
(* one that its thread is about to record.                                 *)
ReaderOK ==
    /\ rpc # "down" => record = db.record
    /\ rpc = "down" => rhist = {} /\ \A g \in Guids : ~proxy[g].matched
    /\ rpc \in {"record", "notify"} => rguid \in Guids /\ proxy[rguid].matched
    /\ db.record <= Top
    /\ \A g \in Guids : proxy[g].matched =>
          /\ proxy[g].low_mark <= Top
          /\ \A s \in proxy[g].ahead : s <= Top
          /\ (rpc = "record" /\ g = rguid) \/ proxy[g].low_mark <= record

(* Numbers are unique, and those that were seen were stored. *)
NumbersOK ==
    /\ NumberNotReused
    /\ \A c \in Seen : c[1] \in 1..Top /\ c[2] \in 1..writes
    /\ \A c \in net \cup rhist : c[1] <= guid
    /\ \A c \in rhist : c[1] = guid => proxy[guid].matched \/ wpc = "down"

(* What is in the reader's history is above the mark, but what its thread  *)
(* is about to notify.                                                     *)
HeldOK ==
    \A c \in rhist : proxy[c[1]].matched =>
        (rpc \in {"record", "notify"} /\ c[1] = rguid) \/ proxy[c[1]].low_mark < c[2]

(* While one proxy at a time was matched, what was notified is below the   *)
(* record, and what is held is above what was notified.                    *)
OrderOK ==
    /\ \A g, h \in Guids : proxy[g].matched /\ proxy[h].matched => g = h
    /\ \A g \in Guids : proxy[g].matched =>
          IF rpc = "record" THEN record <= proxy[g].low_mark ELSE proxy[g].low_mark = record
    /\ \A c \in rhist : proxy[c[1]].matched
    /\ \A i \in DOMAIN got : got[i][1] <= db.record /\ \A c \in rhist : got[i][1] < c[2]
    /\ \A i, j \in DOMAIN got : i < j => got[i][1] < got[j][1]

Told == Notified \cup in_doubt

(* What a proxy has passed or received is told to the user, held for the   *)
(* user, or was removed.                                                   *)
PassedOK ==
    /\ \A g \in Guids, s \in DOMAIN db.history :
          proxy[g].matched /\ (s <= proxy[g].low_mark \/ s \in proxy[g].ahead) =>
              s \in Told \/ \E c \in rhist : c[1] = g /\ c[2] = s
    /\ \A s \in DOMAIN db.history : s <= db.record =>
          s \in Told \/ (rpc = "notify" /\ \E c \in Available : c[2] = s)

(* The inductive invariant. *)
PersistenceInv ==
    /\ TypesOK /\ WriterOK /\ ReaderOK /\ NumbersOK /\ HeldOK
    /\ ~overlapped => OrderOK
    /\ PassedOK

(* The GUIDs the writer takes are numbers, and there is one left while it  *)
(* is down.                                                                *)
LEMMA GuidFacts ==
    \A g \in Guids : g \in Nat /\ (g <= WriterCrashes => g + 1 \in Guids)
BY PersistenceAssumption DEF Guids

-----------------------------------------------------------------------------
(* A WriterProxy that hears of S, or that all up to low are gone, only     *)
(* passes or holds what is in S, was held, or is not above low.            *)
LEMMA HeardFacts ==
    ASSUME NEW p \in Proxies, NEW S \in SUBSET Nat, NEW low \in Nat, NEW n \in Nat,
           low <= n, \A s \in p.ahead \cup S : s <= n, NEW q \in Heard(p, S, low)
    PROVE  /\ q \in Proxies /\ q.matched = p.matched
           /\ low <= q.low_mark /\ q.low_mark <= n /\ \A s \in q.ahead : s <= n
           /\ \A s \in Nat : s <= q.low_mark \/ s \in q.ahead => s <= low \/ s \in p.ahead \cup S
<1> DEFINE ahead == {s \in p.ahead \cup S : s > low}
<1>1. PICK m \in {low} \cup ahead :
         /\ (low + 1)..m \subseteq ahead
         /\ q = [p EXCEPT !.low_mark = m, !.ahead = {s \in ahead : s > m}]
  BY Zenon DEF Heard
<1>2. p.ahead \in SUBSET Nat
  BY Zenon DEF Proxies
<1>3. m \in Nat /\ low <= m /\ m <= n
  BY <1>1, <1>2
<1>4. ASSUME NEW s \in Nat, s <= m, ~(s <= low) PROVE s \in p.ahead \cup S
  <2>1. s \in (low + 1)..m
    BY <1>3, <1>4
  <2> QED
    BY Zenon, <1>1, <2>1
<1>5. /\ q \in Proxies /\ q.matched = p.matched /\ q.low_mark = m
      /\ q.ahead = {s \in ahead : s > m}
  BY Zenon, <1>1, <1>2, <1>3 DEF Proxies
<1> QED
  BY Zenon, <1>2, <1>3, <1>4, <1>5

-----------------------------------------------------------------------------
(* Before anything is written the invariant holds. *)
LEMMA InitInv == Init => PersistenceInv
<1> SUFFICES ASSUME Init PROVE PersistenceInv
  BY Zenon
<1> USE DEF Init
<1>1. WriterCrashes \in Nat
  BY Zenon, PersistenceAssumption
<1>2. DOMAIN db.history = {} /\ DOMAIN got = {} /\ Range(got) = {}
  BY DEF Range
<1>3. TypesOK
  <2>1. Unmatched \in Proxies
    BY Zenon DEF Unmatched, Proxies
  <2>2. proxy \in [Guids -> Proxies]
    BY Zenon, <2>1
  <2>3. guid \in Guids
    BY <1>1 DEF Guids
  <2>4. got \in Seq(Nat \X Nat)
    OBVIOUS
  <2> QED
    BY Zenon, <1>2, <2>2, <2>3, <2>4 DEF TypesOK
<1>4. WriterOK
  BY Zenon DEF WriterOK
<1>5. Top = 0
  BY Zenon DEF Top
<1>6. \A g \in Guids : proxy[g].matched = FALSE
  BY Zenon DEF Unmatched
<1>7. ReaderOK
  BY <1>5, <1>6 DEF ReaderOK
<1>8. Seen = {}
  BY Zenon, <1>2 DEF Seen
<1>9. NumbersOK
  BY Zenon, <1>8 DEF NumbersOK, NumberNotReused
<1>10. HeldOK /\ OrderOK /\ PassedOK
  BY Zenon, <1>2, <1>6 DEF HeldOK, OrderOK, PassedOK
<1> QED
  BY Zenon, <1>3, <1>4, <1>7, <1>9, <1>10 DEF PersistenceInv

(* A step that sends or tells nothing new keeps the numbers apart. *)
LEMMA NothingNew ==
    ASSUME PersistenceInv, Seen' \subseteq Seen, Top \in Nat, Top' \in Nat, Top <= Top',
           writes' \in Nat, writes <= writes'
    PROVE  /\ NumberNotReused'
           /\ \A c \in Seen' : c[1] \in 1..Top' /\ c[2] \in 1..writes'
<1>1. NumberNotReused /\ writes \in Nat /\ \A c \in Seen : c[1] \in 1..Top /\ c[2] \in 1..writes
  BY Zenon DEF PersistenceInv, NumbersOK, TypesOK
<1>2. NumberNotReused'
  BY Zenon, <1>1 DEF NumberNotReused
<1>3. ASSUME NEW c \in Seen' PROVE c[1] \in 1..Top' /\ c[2] \in 1..writes'
  BY <1>1
<1> QED
  BY Zenon, <1>2, <1>3

(* The highest number is a number. *)
LEMMA TopNat ==
    ASSUME TypesOK, WriterOK
    PROVE  Top \in Nat
BY DEF TypesOK, WriterOK, Top

(* A step of the writer leaves the reader alone: what was passed or        *)
(* recorded was stored, so a number stored later was not.                  *)
LEMMA WriterFrame ==
    ASSUME PersistenceInv, UNCHANGED readerVars, UNCHANGED ghosts,
           TypesOK', WriterOK', NumbersOK', db'.record = db.record, Top <= Top',
           \A s \in DOMAIN db'.history : s \in DOMAIN db.history \/ s > Top
    PROVE  PersistenceInv'
<1> USE DEF readerVars, ghosts
<1>1. TypesOK /\ WriterOK /\ ReaderOK /\ HeldOK /\ (~overlapped => OrderOK) /\ PassedOK
  BY Zenon DEF PersistenceInv
<1>2. Top \in Nat /\ Top' \in Nat
  BY <1>1, TopNat DEF Top, TypesOK, WriterOK
<1>3. ReaderOK'
  <2>1. \A x \in Nat : x <= Top => x <= Top'
    BY <1>2
  <2>2. \A g \in Guids : proxy[g].low_mark \in Nat /\ proxy[g].ahead \in SUBSET Nat
    BY Zenon, <1>1 DEF TypesOK, Proxies
  <2>3. db.record \in Nat
    BY Zenon, <1>1 DEF TypesOK
  <2> QED
    BY Zenon, <1>1, <2>1, <2>2, <2>3 DEF ReaderOK
<1>4. HeldOK'
  BY Zenon, <1>1 DEF HeldOK
<1>5. ~overlapped' => OrderOK'
  BY Zenon, <1>1 DEF OrderOK
<1>6. Told' = Told /\ Available' = Available
  BY Zenon DEF Told, Notified, Available
<1>7. PassedOK'
  <2>1. ASSUME NEW s \in DOMAIN db'.history, s <= db.record PROVE s \in DOMAIN db.history
    BY <1>1, <1>2, <2>1 DEF ReaderOK, TypesOK
  <2>2. ASSUME NEW s \in DOMAIN db'.history, NEW g \in Guids, proxy[g].matched,
               s <= proxy[g].low_mark \/ s \in proxy[g].ahead
        PROVE  s \in DOMAIN db.history
    <3>1. proxy[g].low_mark \in Nat /\ s \in Nat
      BY Zenon, <1>1 DEF TypesOK, Proxies
    <3>2. s <= Top
      BY <1>1, <1>2, <2>2, <3>1 DEF ReaderOK
    <3> QED
      BY <1>2, <3>1, <3>2
  <2> QED
    BY Zenon, <1>1, <1>6, <2>1, <2>2 DEF PassedOK
<1> QED
  BY Zenon, <1>3, <1>4, <1>5, <1>7 DEF PersistenceInv

-----------------------------------------------------------------------------
(* Numbers stay apart in a step of the writer that shows no new sample. *)
LEMMA WriterNumbers ==
    ASSUME PersistenceInv, UNCHANGED <<readerVars, got>>, Seen' \subseteq Seen,
           Top \in Nat, Top' \in Nat, Top <= Top', writes' \in Nat, writes <= writes',
           \A c \in net' : c[1] <= guid',
           \/ guid' = guid /\ (wpc = "down" => wpc' = "down")
           \/ guid' = guid + 1
    PROVE  NumbersOK'
<1>1. TypesOK /\ NumbersOK
  BY Zenon DEF PersistenceInv
<1>2. NumberNotReused' /\ \A c \in Seen' : c[1] \in 1..Top' /\ c[2] \in 1..writes'
  BY Zenon, NothingNew
<1>3. guid \in Nat
  BY Zenon, <1>1, GuidFacts DEF TypesOK
<1>4. ASSUME NEW c \in rhist
      PROVE  c[1] <= guid' /\ (c[1] = guid' => proxy[guid'].matched \/ wpc' = "down")
  <2>1. c[1] \in Guids /\ c[1] <= guid
    BY Zenon, <1>1 DEF TypesOK, NumbersOK, Samples
  <2>2. c[1] \in Nat
    BY <2>1, PersistenceAssumption DEF Guids
  <2> QED
    BY <1>1, <1>3, <2>1, <2>2 DEF NumbersOK
<1> QED
  BY Zenon, <1>2, <1>4 DEF NumbersOK, readerVars

LEMMA AddChangeInv ==
    ASSUME PersistenceInv, AddChange
    PROVE  PersistenceInv'
<1> USE DEF AddChange
<1>1. TypesOK /\ WriterOK /\ NumbersOK
  BY Zenon DEF PersistenceInv
<1>2. history = db.history /\ last_seq = db.last_seq /\ last_seq \in Nat /\ writes \in Nat
  BY Zenon, <1>1 DEF WriterOK, TypesOK
<1>3. history'[wseq'] = writes'
  BY Zenon DEF With
<1>4. TypesOK'
  BY <1>1, <1>2 DEF TypesOK, readerVars, ghosts
<1>5. WriterOK'
  BY <1>2, <1>3 DEF WriterOK
<1>6. Top' = Top /\ Top \in Nat /\ Seen' = Seen
  BY Zenon, <1>1, TopNat DEF Top, Seen, readerVars, ghosts
<1>7. NumbersOK'
  BY <1>1, <1>2, <1>6, WriterNumbers DEF NumbersOK, ghosts
<1> QED
  BY <1>4, <1>5, <1>6, <1>7, WriterFrame

LEMMA UpdateLastSeqInv ==
    ASSUME PersistenceInv, UpdateLastSeq
    PROVE  PersistenceInv'
<1> USE DEF UpdateLastSeq
<1>1. TypesOK /\ WriterOK /\ NumbersOK
  BY Zenon DEF PersistenceInv
<1>2. db' = [last_seq |-> wseq, history |-> db.history, record |-> db.record]
  BY Zenon, <1>1 DEF TypesOK
<1>3. db'.last_seq = wseq /\ db'.history = db.history /\ db'.record = db.record
  BY Zenon, <1>2
<1>4. wseq \in Nat /\ wseq = db.last_seq + 1 /\ last_seq = wseq
  BY Zenon, <1>1 DEF WriterOK, TypesOK
<1>5. TypesOK'
  BY Zenon, <1>1, <1>2, <1>3, <1>4 DEF TypesOK, readerVars, ghosts
<1>6. WriterOK'
  BY Zenon, <1>1, <1>3, <1>4 DEF WriterOK
<1>7. Top' = Top /\ Top \in Nat /\ Seen' = Seen
  BY <1>1, <1>3, <1>4, TopNat DEF Top, Seen, readerVars, ghosts, TypesOK
<1>8. NumbersOK'
  BY <1>1, <1>7, WriterNumbers DEF NumbersOK, ghosts, TypesOK
<1> QED
  BY <1>3, <1>5, <1>6, <1>7, <1>8, WriterFrame

LEMMA InsertChangeInv ==
    ASSUME PersistenceInv, InsertChange
    PROVE  PersistenceInv'
<1> USE DEF InsertChange
<1>1. TypesOK /\ WriterOK /\ NumbersOK
  BY Zenon DEF PersistenceInv
<1>2. db' = [last_seq |-> db.last_seq, history |-> With(db.history, wseq, history[wseq]),
             record |-> db.record]
  BY Zenon, <1>1 DEF TypesOK
<1>3. db'.last_seq = db.last_seq /\ db'.history = history /\ db'.record = db.record
  BY Zenon, <1>1, <1>2 DEF WriterOK
<1>4. wseq \in Nat /\ wseq > 0 /\ wseq = db.last_seq /\ last_seq = wseq /\ history[wseq] \in 1..writes
  BY Zenon, <1>1 DEF WriterOK, TypesOK
<1>5. /\ DOMAIN history = DOMAIN db.history \cup {wseq}
      /\ \A s \in DOMAIN db.history : s # wseq => history[s] = db.history[s]
  <2>1. history = With(db.history, wseq, history[wseq])
    BY Zenon, <1>1 DEF WriterOK
  <2> QED
    BY Zenon, <2>1 DEF With
<1>6. TypesOK'
  BY Zenon, <1>1, <1>2, <1>3, <1>4, <1>5 DEF TypesOK, readerVars, ghosts
<1>7. WriterOK'
  BY Zenon, <1>3, <1>4, <1>5 DEF WriterOK
<1>8. Top = wseq - 1 /\ Top' = wseq /\ Top \in Nat
  BY <1>3, <1>4 DEF Top
<1>9. ASSUME NEW c \in Seen' PROVE c \in Seen \/ c = <<wseq, history[wseq]>>
  BY Zenon, <1>3, <1>5 DEF Seen, readerVars, ghosts
<1>10. NumbersOK'
  <2>1. \A c \in Seen : c[1] \in 1..Top /\ c[2] \in 1..writes
    BY Zenon, <1>1 DEF NumbersOK
  <2>2. NumberNotReused'
    BY <1>1, <1>8, <1>9, <2>1 DEF NumbersOK, NumberNotReused
  <2>3. \A c \in Seen' : c[1] \in 1..Top' /\ c[2] \in 1..writes
    BY <1>4, <1>8, <1>9, <2>1
  <2> QED
    BY Zenon, <1>1, <2>2, <2>3 DEF NumbersOK, readerVars
<1>11. \A s \in DOMAIN db'.history : s \in DOMAIN db.history \/ s > Top
  BY <1>3, <1>4, <1>5, <1>8
<1> QED
  BY <1>3, <1>4, <1>6, <1>7, <1>8, <1>10, <1>11, WriterFrame

(* What is sent is stored. *)
LEMMA SentFacts ==
    ASSUME PersistenceInv, wpc \in {"idle", "send"}, NEW s \in DOMAIN history, Sent(s),
           UNCHANGED <<db, guid, history, last_seq, readerVars, writes, ghosts>>,
           wpc' = "idle"
    PROVE  PersistenceInv'
<1>1. TypesOK /\ WriterOK /\ NumbersOK
  BY Zenon DEF PersistenceInv
<1>2. history = db.history
  BY Zenon, <1>1 DEF WriterOK
<1>3. \A c \in net' : c \in net \/ c = <<guid, s, history[s]>>
  BY Zenon DEF Sent
<1>4. Seen' \subseteq Seen
  BY <1>2, <1>3 DEF Seen, readerVars, ghosts
<1>5. <<s, history[s]>> \in Seen
  BY Zenon, <1>2 DEF Seen
<1>6. s \in Nat /\ history[s] \in Nat
  BY <1>1, <1>2, <1>5 DEF NumbersOK, TypesOK
<1>7. <<guid, s, history[s]>> \in Samples
  BY Zenon, <1>1, <1>6 DEF TypesOK, Samples
<1>8. TypesOK'
  BY Zenon, <1>1, <1>3, <1>7 DEF TypesOK, readerVars, ghosts
<1>9. WriterOK'
  BY Zenon, <1>1, <1>2 DEF WriterOK
<1>10. Top' = Top /\ Top \in Nat
  BY Zenon, <1>1, TopNat DEF Top
<1>11. guid \in Nat
  BY Zenon, <1>1, GuidFacts DEF TypesOK
<1>12. NumbersOK'
  BY <1>1, <1>3, <1>4, <1>10, <1>11, WriterNumbers DEF NumbersOK, ghosts, TypesOK
<1> QED
  BY <1>8, <1>9, <1>10, <1>12, WriterFrame

LEMMA SendInv ==
    ASSUME PersistenceInv, SendChange \/ Resend
    PROVE  PersistenceInv'
<1>1. CASE SendChange
  <2>1. wseq \in DOMAIN history
    BY Zenon, <1>1 DEF SendChange, PersistenceInv, WriterOK
  <2> QED
    BY Zenon, <1>1, <2>1, SentFacts DEF SendChange
<1>2. CASE Resend
  BY Zenon, <1>2, SentFacts DEF Resend, writerVars
<1> QED
  BY Zenon, <1>1, <1>2

LEMMA RemoveChangeInv ==
    ASSUME PersistenceInv, RemoveChange
    PROVE  PersistenceInv'
<1> USE DEF RemoveChange
<1>1. TypesOK /\ WriterOK /\ NumbersOK
  BY Zenon DEF PersistenceInv
<1> DEFINE kept == Restrict(db.history, DOMAIN db.history \ {wseq'})
<1>2. db' = [last_seq |-> db.last_seq, history |-> kept, record |-> db.record]
  BY Zenon, <1>1 DEF TypesOK
<1>3. /\ DOMAIN kept \subseteq DOMAIN db.history
      /\ \A s \in DOMAIN kept : kept[s] = db.history[s]
  BY Zenon DEF Restrict
<1>4. history = db.history /\ last_seq = db.last_seq
  BY Zenon, <1>1 DEF WriterOK
<1>5. db'.last_seq = db.last_seq /\ db'.history = kept /\ db'.record = db.record
  BY Zenon, <1>2
<1>6. WriterOK'
  BY Zenon, <1>4, <1>5 DEF WriterOK
<1> HIDE DEF kept
<1>7. TypesOK'
  BY Zenon, <1>1, <1>2, <1>3, <1>5 DEF TypesOK, readerVars, ghosts
<1>8. Top' = Top /\ Top \in Nat
  BY Zenon, <1>1, <1>5, TopNat DEF Top
<1>9. Seen' \subseteq Seen
  BY Zenon, <1>3, <1>5 DEF Seen, readerVars, ghosts
<1>10. NumbersOK'
  BY <1>1, <1>8, <1>9, WriterNumbers DEF NumbersOK, ghosts, TypesOK
<1>11. \A s \in DOMAIN db'.history : s \in DOMAIN db.history \/ s > Top
  BY Zenon, <1>3, <1>5
<1> QED
  BY <1>5, <1>6, <1>7, <1>8, <1>10, <1>11, WriterFrame

LEMMA ForgetChangeInv ==
    ASSUME PersistenceInv, ForgetChange
    PROVE  PersistenceInv'
<1> USE DEF ForgetChange
<1>1. TypesOK /\ WriterOK /\ NumbersOK
  BY Zenon DEF PersistenceInv
<1>2. WriterOK'
  BY Zenon, <1>1 DEF WriterOK
<1>3. TypesOK'
  BY Zenon, <1>1 DEF TypesOK, readerVars, ghosts
<1>4. Top' = Top /\ Top \in Nat /\ Seen' = Seen
  BY Zenon, <1>1, TopNat DEF Top, Seen, readerVars, ghosts
<1>5. NumbersOK'
  BY <1>1, <1>4, WriterNumbers DEF NumbersOK, ghosts, TypesOK
<1> QED
  BY <1>2, <1>3, <1>4, <1>5, WriterFrame

(* A crash before a sample is inserted leaves its number unused. *)
LEMMA CrashWriterInv ==
    ASSUME PersistenceInv, CrashWriter
    PROVE  PersistenceInv'
<1> USE DEF CrashWriter
<1>1. TypesOK /\ WriterOK /\ NumbersOK
  BY Zenon DEF PersistenceInv
<1>2. WriterOK'
  BY Zenon DEF WriterOK
<1>3. TypesOK'
  BY Zenon, <1>1 DEF TypesOK, readerVars, ghosts
<1>4. Top <= Top' /\ Top \in Nat /\ Top' \in Nat /\ Seen' = Seen
  BY <1>1, TopNat DEF Top, Seen, readerVars, ghosts, TypesOK
<1>5. NumbersOK'
  BY <1>1, <1>4, WriterNumbers DEF NumbersOK, ghosts, TypesOK
<1> QED
  BY Zenon, <1>2, <1>3, <1>4, <1>5, WriterFrame

LEMMA RestartWriterInv ==
    ASSUME PersistenceInv, RestartWriter
    PROVE  PersistenceInv'
<1> USE DEF RestartWriter
<1>1. TypesOK /\ WriterOK /\ NumbersOK
  BY Zenon DEF PersistenceInv
<1>2. WriterOK'
  BY Zenon DEF WriterOK
<1>3. guid \in Nat /\ guid' \in Guids
  BY Zenon, <1>1, GuidFacts DEF TypesOK
<1>4. TypesOK'
  BY Zenon, <1>1, <1>3 DEF TypesOK, readerVars, ghosts
<1>5. Top' = Top /\ Top \in Nat /\ Seen' = Seen
  BY Zenon, <1>1, TopNat DEF Top, Seen, readerVars, ghosts
<1>6. ASSUME NEW c \in net' PROVE c[1] <= guid'
  <2>1. c \in Samples /\ c[1] <= guid
    BY Zenon, <1>1 DEF TypesOK, NumbersOK
  <2>2. c[1] \in Nat
    BY <2>1, PersistenceAssumption DEF Samples, Guids
  <2> QED
    BY <1>3, <2>1, <2>2
<1>7. NumbersOK'
  BY <1>1, <1>5, <1>6, WriterNumbers DEF ghosts, TypesOK
<1> QED
  BY <1>2, <1>4, <1>5, <1>7, WriterFrame

-----------------------------------------------------------------------------
(* A step of the reader that hears of S, or that all up to low are gone,   *)
(* from the writer of proxy g, and takes the samples H.                    *)
LEMMA HeardStep ==
    ASSUME PersistenceInv, NEW g \in Guids, rpc = "idle", proxy[g].matched,
           NEW S \in SUBSET Nat, \A s \in S : s <= Top,
           NEW low \in Nat, proxy[g].low_mark <= low, low <= Top,
           NEW H \in SUBSET net, \A c \in H : c[1] = g /\ c[2] > proxy[g].low_mark,
           \A s \in DOMAIN db.history :
               (proxy[g].low_mark < s /\ s <= low) \/ s \in S => \E c \in H : c[2] = s,
           NEW q \in Heard(proxy[g], S, low), proxy' = [proxy EXCEPT ![g] = q],
           ThenNotify(g), rhist' = rhist \cup H, net' \subseteq net,
           UNCHANGED <<db, writerVars, record, writes, ghosts>>
    PROVE  PersistenceInv'
<1> USE DEF ThenNotify
<1> DEFINE p == proxy[g]
<1>1. TypesOK /\ WriterOK /\ ReaderOK /\ NumbersOK /\ HeldOK /\ PassedOK
      /\ (~overlapped => OrderOK)
  BY Zenon DEF PersistenceInv
<1>2. Top \in Nat /\ Top' = Top
  BY Zenon, <1>1, TopNat DEF Top, writerVars
<1>3. /\ p \in Proxies /\ p.low_mark \in Nat /\ p.ahead \in SUBSET Nat
      /\ \A s \in p.ahead : s <= Top
  BY Zenon, <1>1 DEF TypesOK, Proxies, ReaderOK
<1>4. /\ q \in Proxies /\ q.matched = p.matched
      /\ low <= q.low_mark /\ q.low_mark <= Top /\ \A s \in q.ahead : s <= Top
      /\ \A s \in Nat : s <= q.low_mark \/ s \in q.ahead => s <= low \/ s \in p.ahead \cup S
  <2>1. \A s \in p.ahead \cup S : s <= Top
    BY Zenon, <1>3
  <2> QED
    BY Zenon, <1>2, <1>3, <2>1, HeardFacts
<1>5. /\ proxy' \in [Guids -> Proxies] /\ proxy'[g] = q
      /\ \A h \in Guids : h # g => proxy'[h] = proxy[h]
      /\ \A h \in Guids : proxy'[h].matched = proxy[h].matched
  BY Zenon, <1>1, <1>4 DEF TypesOK
<1>6. TypesOK'
  BY Zenon, <1>1, <1>5 DEF TypesOK, writerVars, ghosts
<1>7. WriterOK'
  BY Zenon, <1>1 DEF WriterOK, writerVars
<1>8. ReaderOK'
  BY Zenon, <1>1, <1>2, <1>4, <1>5 DEF ReaderOK, ghosts, Proxies
<1>9. NumbersOK'
  <2>1. Seen' \subseteq Seen
    BY Zenon DEF Seen, ghosts
  <2>2. NumberNotReused' /\ \A c \in Seen' : c[1] \in 1..Top' /\ c[2] \in 1..writes'
    BY <1>1, <1>2, <2>1, NothingNew DEF TypesOK
  <2> QED
    BY Zenon, <1>1, <1>5, <2>2 DEF NumbersOK, writerVars, TypesOK
<1>10. HeldOK'
  <2> SUFFICES ASSUME NEW c \in rhist', proxy'[c[1]].matched, c[1] # g
               PROVE  proxy'[c[1]].low_mark < c[2]
    BY Zenon DEF HeldOK
  <2>1. c \in rhist /\ c[1] \in Guids
    BY Zenon, <1>1 DEF TypesOK, Samples
  <2> QED
    BY Zenon, <1>1, <1>5, <2>1 DEF HeldOK
<1>11. ASSUME ~overlapped PROVE OrderOK'
  <2>1. OrderOK /\ record = db.record /\ p.low_mark = record /\ record \in Nat
    BY Zenon, <1>1, <1>11 DEF OrderOK, ReaderOK, TypesOK
  <2>2. \A h \in Guids : proxy[h].matched => h = g
    BY Zenon, <2>1 DEF OrderOK
  <2>3. \A h \in Guids : proxy'[h].matched => record' <= proxy'[h].low_mark
    BY <1>3, <1>4, <1>5, <2>1, <2>2 DEF Proxies
  <2>4. \A c \in rhist' : proxy'[c[1]].matched
    BY <1>1, <1>5, <2>1 DEF OrderOK, TypesOK, Samples
  <2>5. ASSUME NEW i \in DOMAIN got, NEW c \in rhist' PROVE got[i][1] < c[2]
    <3>1. CASE c \in rhist
      BY Zenon, <2>1, <3>1 DEF OrderOK
    <3>2. CASE c \in H
      <4>1. c \in Samples /\ c[2] > record
        BY Zenon, <1>1, <2>1, <3>2 DEF TypesOK
      <4>2. c[2] \in Nat
        BY Zenon, <4>1 DEF Samples
      <4>3. got[i][1] \in Nat /\ got[i][1] <= record
        BY <1>1, <2>1 DEF TypesOK, OrderOK
      <4> QED
        BY <2>1, <4>1, <4>2, <4>3
    <3> QED
      BY Zenon, <3>1, <3>2
  <2> QED
    BY Zenon, <1>5, <2>1, <2>3, <2>4, <2>5 DEF OrderOK, ghosts
<1>12. PassedOK'
  <2>0. Told' = Told
    BY Zenon DEF Told, Notified, ghosts
  <2>1. ASSUME NEW h \in Guids, NEW s \in DOMAIN db.history, proxy'[h].matched,
               s <= proxy'[h].low_mark \/ s \in proxy'[h].ahead
        PROVE  s \in Told \/ \E c \in rhist' : c[1] = h /\ c[2] = s
    <3>1. CASE h # g
      BY <1>1, <1>5, <2>1, <3>1 DEF PassedOK
    <3>2. CASE h = g
      <4>1. s \in Nat /\ (s <= low \/ s \in p.ahead \cup S)
        BY Zenon, <1>1, <1>4, <1>5, <2>1, <3>2 DEF TypesOK
      <4>2. CASE s <= p.low_mark \/ s \in p.ahead
        BY <1>1, <3>2, <4>2 DEF PassedOK
      <4>3. CASE (p.low_mark < s /\ s <= low) \/ s \in S
        BY Zenon, <3>2, <4>3
      <4> QED
        BY <1>3, <4>1, <4>2, <4>3
    <3> QED
      BY Zenon, <3>1, <3>2
  <2>2. \A s \in DOMAIN db.history : s <= db.record => s \in Told
    BY Zenon, <1>1 DEF PassedOK
  <2> QED
    BY <2>0, <2>1, <2>2 DEF PassedOK
<1> QED
  BY Zenon, <1>6, <1>7, <1>8, <1>9, <1>10, <1>11, <1>12 DEF PersistenceInv, ghosts

(* A step that leaves all but net, where DATA is dropped. *)
LEMMA QuietStep ==
    ASSUME PersistenceInv, net' \subseteq net,
           UNCHANGED <<db, writerVars, readerVars, writes, ghosts>>
    PROVE  PersistenceInv'
<1> USE DEF writerVars, readerVars, ghosts
<1>1. TypesOK /\ WriterOK /\ ReaderOK /\ NumbersOK /\ HeldOK /\ PassedOK
      /\ (~overlapped => OrderOK)
  BY Zenon DEF PersistenceInv
<1>2. Top \in Nat /\ Top' = Top /\ Seen' \subseteq Seen
  BY Zenon, <1>1, TopNat DEF Top, Seen
<1>3. TypesOK'
  BY Zenon, <1>1 DEF TypesOK
<1>4. WriterOK' /\ HeldOK' /\ (~overlapped' => OrderOK')
  BY Zenon, <1>1 DEF WriterOK, HeldOK, OrderOK
<1>5. ReaderOK'
  BY Zenon, <1>1, <1>2 DEF ReaderOK
<1>6. NumbersOK'
  <2>1. NumberNotReused' /\ \A c \in Seen' : c[1] \in 1..Top' /\ c[2] \in 1..writes'
    BY <1>1, <1>2, NothingNew DEF TypesOK
  <2> QED
    BY Zenon, <1>1, <2>1 DEF NumbersOK
<1>7. PassedOK'
  BY <1>1 DEF PassedOK, Told, Notified, Available
<1> QED
  BY Zenon, <1>3, <1>4, <1>5, <1>6, <1>7 DEF PersistenceInv

LEMMA ProcessDataMsgInv ==
    ASSUME PersistenceInv, NEW m \in net, ProcessDataMsg(m)
    PROVE  PersistenceInv'
<1> DEFINE g == m[1]
           p == proxy[g]
<1>1. TypesOK /\ ReaderOK /\ NumbersOK
  BY Zenon DEF PersistenceInv
<1>2. CASE p.matched /\ m[2] > p.low_mark /\ m[2] \notin p.ahead
  <2>1. g \in Guids /\ m[2] \in Nat /\ p.low_mark \in Nat
    BY Zenon, <1>1 DEF TypesOK, Samples, Proxies
  <2>2. m[2] <= Top
    <3>1. <<m[2], m[3]>> \in Seen
      BY Zenon DEF Seen
    <3> QED
      BY <1>1, <3>1 DEF NumbersOK
  <2>3. p.low_mark <= Top
    BY Zenon, <1>1, <1>2, <2>1 DEF ReaderOK
  <2> DEFINE S == {m[2]}
             H == {m}
             low == p.low_mark
  <2>4. /\ rpc = "idle" /\ net' \subseteq net /\ ThenNotify(g)
        /\ \E q \in Heard(p, S, low) : proxy' = [proxy EXCEPT ![g] = q]
        /\ rhist' = rhist \cup H
        /\ UNCHANGED <<db, writerVars, record, writes, ghosts>>
    BY Zenon, <1>2 DEF ProcessDataMsg
  <2>5. \A s \in DOMAIN db.history :
           (p.low_mark < s /\ s <= low) \/ s \in S => \E c \in H : c[2] = s
    BY <1>1, <2>1 DEF TypesOK
  <2>6. \A c \in H : c[1] = g /\ c[2] > p.low_mark
    BY Zenon, <1>2
  <2>7. H \in SUBSET net /\ S \in SUBSET Nat /\ (\A s \in S : s <= Top)
        /\ low \in Nat /\ p.low_mark <= low /\ low <= Top
    BY <2>1, <2>2, <2>3
  <2>8. g \in Guids /\ proxy[g].matched
    BY Zenon, <1>2, <2>1
  <2> HIDE DEF g, S, H, low
  <2> QED
    BY Zenon, <2>4, <2>5, <2>6, <2>7, <2>8, HeardStep
<1>3. CASE ~(p.matched /\ m[2] > p.low_mark /\ m[2] \notin p.ahead)
  <2>1. UNCHANGED <<proxy, rhist, rpc, rguid, db, writerVars, record, writes, ghosts>>
        /\ net' \subseteq net
    BY Zenon, <1>3 DEF ProcessDataMsg
  <2> QED
    BY Zenon, <2>1, QuietStep DEF readerVars
<1> QED
  BY Zenon, <1>2, <1>3

LEMMA ProcessHeartbeatMsgInv ==
    ASSUME PersistenceInv, ProcessHeartbeatMsg
    PROVE  PersistenceInv'
<1> DEFINE p == proxy[guid]
<1>1. TypesOK /\ WriterOK /\ NumbersOK
  BY Zenon DEF PersistenceInv
<1>2. PICK first \in DOMAIN history \cup {last_seq + 1} :
         /\ \A s \in DOMAIN history : first <= s
         /\ first > p.low_mark + 1
         /\ \E q \in Heard(p, {}, first - 1) : proxy' = [proxy EXCEPT ![guid] = q]
  BY Zenon DEF ProcessHeartbeatMsg
<1>0. /\ wpc = "idle" /\ rpc = "idle" /\ p.matched /\ ThenNotify(guid)
      /\ UNCHANGED <<db, writerVars, record, rhist, net, writes, ghosts>>
  BY Zenon DEF ProcessHeartbeatMsg
<1>3. history = db.history /\ last_seq = db.last_seq /\ last_seq \in Nat /\ Top = last_seq
  BY Zenon, <1>0, <1>1 DEF WriterOK, TypesOK, Top
<1>4. \A s \in DOMAIN history : s \in 1..last_seq
  <2>1. \A s \in DOMAIN history : <<s, history[s]>> \in Seen
    BY Zenon, <1>3 DEF Seen
  <2> QED
    BY Zenon, <1>1, <1>3, <2>1 DEF NumbersOK
<1>5. first \in Nat /\ first > 0 /\ first <= last_seq + 1
  BY <1>2, <1>3, <1>4
<1> DEFINE low == first - 1
           S == {}
           H == {}
<1>6. p.low_mark \in Nat /\ guid \in Guids
  BY Zenon, <1>1 DEF TypesOK, Proxies
<1>7. low \in Nat /\ p.low_mark <= low /\ low <= Top
  BY <1>2, <1>3, <1>5, <1>6
<1>8. \A s \in DOMAIN db.history :
         (p.low_mark < s /\ s <= low) \/ s \in S => \E c \in H : c[2] = s
  BY <1>2, <1>3, <1>4, <1>5
<1>9. H \in SUBSET net /\ S \in SUBSET Nat /\ rhist' = rhist \cup H /\ net' \subseteq net
      /\ (\A s \in S : s <= Top) /\ \A c \in H : c[1] = guid /\ c[2] > p.low_mark
  BY Zenon, <1>0
<1>10. \E q \in Heard(p, S, low) : proxy' = [proxy EXCEPT ![guid] = q]
  BY Zenon, <1>2
<1>11. rpc = "idle" /\ p.matched /\ ThenNotify(guid)
       /\ UNCHANGED <<db, writerVars, record, writes, ghosts>>
  BY Zenon, <1>0
<1> HIDE DEF low, S, H
<1> QED
  BY Zenon, <1>6, <1>7, <1>8, <1>9, <1>10, <1>11, HeardStep

LEMMA ProcessGapMsgInv ==
    ASSUME PersistenceInv, ProcessGapMsg
    PROVE  PersistenceInv'
<1> DEFINE p == proxy[guid]
<1>1. TypesOK /\ WriterOK /\ NumbersOK /\ ReaderOK
  BY Zenon DEF PersistenceInv
<1>2. PICK gap \in (p.low_mark + 1)..last_seq :
         /\ gap \notin DOMAIN history \cup p.ahead
         /\ \E q \in Heard(p, {gap}, p.low_mark) : proxy' = [proxy EXCEPT ![guid] = q]
  BY Zenon DEF ProcessGapMsg
<1>3. /\ wpc = "idle" /\ rpc = "idle" /\ p.matched /\ ThenNotify(guid)
      /\ UNCHANGED <<db, writerVars, record, rhist, net, writes, ghosts>>
  BY Zenon DEF ProcessGapMsg
<1>4. history = db.history /\ last_seq = db.last_seq /\ last_seq \in Nat /\ Top = last_seq
  BY Zenon, <1>1, <1>3 DEF WriterOK, TypesOK, Top
<1>5. p.low_mark \in Nat /\ guid \in Guids /\ p.low_mark <= Top
  BY Zenon, <1>1, <1>3 DEF TypesOK, Proxies, ReaderOK
<1> DEFINE low == p.low_mark
           S == {gap}
           H == {}
<1>6. \A s \in DOMAIN db.history :
         (p.low_mark < s /\ s <= low) \/ s \in S => \E c \in H : c[2] = s
  BY <1>1, <1>2, <1>4, <1>5 DEF TypesOK
<1>7. /\ H \in SUBSET net /\ S \in SUBSET Nat /\ rhist' = rhist \cup H /\ net' \subseteq net
      /\ (\A s \in S : s <= Top) /\ \A c \in H : c[1] = guid /\ c[2] > p.low_mark
      /\ low \in Nat /\ p.low_mark <= low /\ low <= Top
  BY <1>2, <1>3, <1>4, <1>5
<1>8. \E q \in Heard(p, S, low) : proxy' = [proxy EXCEPT ![guid] = q]
  BY Zenon, <1>2
<1> HIDE DEF low, S, H
<1> QED
  BY Zenon, <1>3, <1>5, <1>6, <1>7, <1>8, HeardStep

(* The writer's side of the invariant in a step of the reader. *)
LEMMA WriterStays ==
    ASSUME PersistenceInv, UNCHANGED <<writerVars, writes>>, net' \subseteq net,
           db'.history = db.history, db'.last_seq = db.last_seq, Seen' \subseteq Seen
    PROVE  /\ WriterOK' /\ Top' = Top /\ Top \in Nat /\ NumberNotReused'
           /\ \A c \in Seen' : c[1] \in 1..Top' /\ c[2] \in 1..writes'
<1> USE DEF writerVars
<1>1. TypesOK /\ WriterOK
  BY Zenon DEF PersistenceInv
<1>2. WriterOK' /\ Top' = Top /\ Top \in Nat
  BY Zenon, <1>1, TopNat DEF WriterOK, Top
<1> QED
  BY <1>1, <1>2, NothingNew DEF TypesOK

(* A proxy starts at the record; nothing of its writer is held. *)
LEMMA MatchedWriterAddInv ==
    ASSUME PersistenceInv, MatchedWriterAdd
    PROVE  PersistenceInv'
<1> USE DEF MatchedWriterAdd, writerVars
<1> DEFINE q == [matched |-> TRUE, low_mark |-> record, ahead |-> {}]
<1>1. TypesOK /\ ReaderOK /\ NumbersOK /\ HeldOK /\ PassedOK /\ (~overlapped => OrderOK)
  BY Zenon DEF PersistenceInv
<1>2. q \in Proxies /\ q.matched /\ q.low_mark = record /\ q.ahead = {}
  BY Zenon, <1>1 DEF Proxies, TypesOK
<1>3. /\ proxy' \in [Guids -> Proxies] /\ proxy'[guid] = q /\ guid \in Guids
      /\ \A h \in Guids : h # guid => proxy'[h] = proxy[h]
  BY Zenon, <1>1, <1>2 DEF TypesOK
<1> HIDE DEF q
<1>4. TypesOK'
  BY Zenon, <1>1, <1>3 DEF TypesOK
<1>5. WriterOK' /\ Top' = Top /\ Top \in Nat /\ NumberNotReused'
      /\ \A c \in Seen' : c[1] \in 1..Top' /\ c[2] \in 1..writes'
  <2>1. Seen' = Seen
    BY Zenon DEF Seen
  <2> QED
    BY Zenon, <2>1, WriterStays
<1>6. record = db.record /\ record \in Nat /\ record <= Top
  BY Zenon, <1>1 DEF ReaderOK, TypesOK
<1>7. ReaderOK'
  BY <1>1, <1>2, <1>3, <1>5, <1>6 DEF ReaderOK
<1>8. \A c \in rhist : c[1] \in Guids /\ c[1] # guid
  BY Zenon, <1>1 DEF NumbersOK, TypesOK, Samples
<1>9. NumbersOK'
  BY Zenon, <1>1, <1>5, <1>8 DEF NumbersOK
<1>10. HeldOK'
  BY Zenon, <1>1, <1>3, <1>8 DEF HeldOK
<1>11. ASSUME ~overlapped' PROVE OrderOK'
  <2>1. OrderOK /\ \A h \in Guids : h # guid => ~proxy[h].matched
    BY Zenon, <1>1, <1>11
  <2>2. \A h \in Guids : proxy'[h].matched => h = guid
    BY Zenon, <1>3, <2>1
  <2> QED
    BY Zenon, <1>2, <1>3, <1>8, <2>1, <2>2 DEF OrderOK
<1>12. Told' = Told /\ \A s \in DOMAIN db.history : s <= db.record => s \in Told
  BY <1>1 DEF Told, Notified, PassedOK
<1>13. PassedOK'
  BY <1>1, <1>2, <1>3, <1>6, <1>12 DEF PassedOK
<1> QED
  BY Zenon, <1>4, <1>5, <1>7, <1>9, <1>10, <1>11, <1>13 DEF PersistenceInv

(* The writer of a proxy that is removed is gone, and what was held of it  *)
(* above the record goes too.                                              *)
LEMMA MatchedWriterRemoveInv ==
    ASSUME PersistenceInv, NEW g \in Guids, MatchedWriterRemove(g)
    PROVE  PersistenceInv'
<1> USE DEF MatchedWriterRemove, writerVars, ghosts
<1>1. TypesOK /\ ReaderOK /\ NumbersOK /\ HeldOK /\ PassedOK /\ (~overlapped => OrderOK)
  BY Zenon DEF PersistenceInv
<1>2. Unmatched \in Proxies /\ ~Unmatched.matched
  BY Zenon DEF Unmatched, Proxies
<1>3. /\ proxy' \in [Guids -> Proxies] /\ ~proxy'[g].matched
      /\ \A h \in Guids : h # g => proxy'[h] = proxy[h]
  BY Zenon, <1>1, <1>2 DEF TypesOK
<1>4. rhist' \subseteq rhist /\ \A c \in rhist : c[1] # g => c \in rhist'
  BY Zenon
<1>5. TypesOK'
  BY Zenon, <1>1, <1>3, <1>4 DEF TypesOK
<1>6. WriterOK' /\ Top' = Top /\ NumberNotReused'
      /\ \A c \in Seen' : c[1] \in 1..Top' /\ c[2] \in 1..writes'
  <2>1. Seen' \subseteq Seen
    BY Zenon, <1>4 DEF Seen
  <2> QED
    BY Zenon, <2>1, WriterStays
<1>7. ReaderOK'
  BY Zenon, <1>1, <1>3, <1>6 DEF ReaderOK
<1>8. \A c \in rhist : c[1] \in Guids
  BY Zenon, <1>1 DEF TypesOK, Samples
<1>9. NumbersOK'
  <2>1. guid \in Guids /\ (g # guid \/ wpc = "down")
    BY Zenon, <1>1 DEF TypesOK
  <2> QED
    BY Zenon, <1>1, <1>3, <1>4, <1>6, <2>1 DEF NumbersOK
<1>10. HeldOK'
  BY Zenon, <1>1, <1>3, <1>4, <1>8 DEF HeldOK
<1>11. ASSUME ~overlapped PROVE OrderOK'
  <2>1. OrderOK
    BY Zenon, <1>1, <1>11
  <2>2. \A h \in Guids : proxy[h].matched => h = g
    BY Zenon, <2>1 DEF OrderOK
  <2>3. ASSUME NEW c \in rhist' PROVE FALSE
    <3>1. c[1] = g /\ c[2] <= record
      BY Zenon, <1>4, <1>8, <2>1, <2>2 DEF OrderOK
    <3>2. proxy[g].low_mark = record /\ proxy[g].low_mark < c[2]
      BY Zenon, <1>1, <1>4, <2>1, <3>1 DEF OrderOK, HeldOK
    <3>3. c[2] \in Nat /\ record \in Nat
      BY Zenon, <1>1, <1>4 DEF TypesOK, Samples
    <3> QED
      BY <3>1, <3>2, <3>3
  <2>4. \A h \in Guids : ~proxy'[h].matched
    BY Zenon, <1>3, <2>2
  <2> QED
    BY Zenon, <2>1, <2>3, <2>4 DEF OrderOK
<1>12. Told' = Told /\ \A s \in DOMAIN db.history : s <= db.record => s \in Told
  BY <1>1 DEF Told, Notified, PassedOK
<1>13. PassedOK'
  <2>1. ASSUME NEW h \in Guids, NEW s \in DOMAIN db.history, proxy'[h].matched,
               s <= proxy'[h].low_mark \/ s \in proxy'[h].ahead
        PROVE  s \in Told \/ \E c \in rhist' : c[1] = h /\ c[2] = s
    BY <1>1, <1>3, <1>4, <2>1 DEF PassedOK
  <2> QED
    BY <1>12, <2>1 DEF PassedOK
<1> QED
  BY Zenon, <1>5, <1>6, <1>7, <1>9, <1>10, <1>11, <1>13 DEF PersistenceInv

(* update_last_notified(): the mark that was not on record is. *)
LEMMA PersistLastNotifiedInv ==
    ASSUME PersistenceInv, PersistLastNotified
    PROVE  PersistenceInv'
<1> USE DEF PersistLastNotified, ghosts
<1> DEFINE seq == proxy[rguid].low_mark
<1>1. TypesOK /\ ReaderOK /\ NumbersOK /\ HeldOK /\ PassedOK /\ (~overlapped => OrderOK)
  BY Zenon DEF PersistenceInv
<1>2. /\ rguid \in Guids /\ proxy[rguid].matched /\ record = db.record /\ record \in Nat
      /\ seq \in Nat /\ seq <= Top
  BY Zenon, <1>1 DEF ReaderOK, TypesOK, Proxies
<1>3. /\ db' = [last_seq |-> db'.last_seq, history |-> db'.history, record |-> db'.record]
      /\ db'.last_seq = db.last_seq /\ db'.history = db.history /\ db'.record = record'
      /\ record' \in Nat /\ record <= record' /\ seq <= record'
      /\ record' = seq \/ record' = record
  <2>1. CASE record < seq
    <3>1. db' = [last_seq |-> db.last_seq, history |-> db.history, record |-> seq] /\ record' = seq
      BY Zenon, <1>1, <2>1 DEF TypesOK
    <3> QED
      BY <1>2, <2>1, <3>1
  <2>2. CASE ~(record < seq)
    BY <1>1, <1>2, <2>2 DEF TypesOK
  <2> QED
    BY Zenon, <2>1, <2>2
<1>4. TypesOK'
  BY Zenon, <1>1, <1>3 DEF TypesOK, writerVars
<1>5. WriterOK' /\ Top' = Top /\ Top \in Nat /\ NumberNotReused'
      /\ \A c \in Seen' : c[1] \in 1..Top' /\ c[2] \in 1..writes'
  <2>1. Seen' = Seen
    BY Zenon, <1>3 DEF Seen
  <2> QED
    BY Zenon, <1>3, <2>1, WriterStays
<1>6. ReaderOK'
  <2>1. db'.record <= Top'
    BY <1>1, <1>2, <1>3, <1>5 DEF ReaderOK, TypesOK
  <2>2. ASSUME NEW g \in Guids, proxy[g].matched PROVE proxy[g].low_mark <= record'
    <3>1. proxy[g].low_mark \in Nat
      BY Zenon, <1>1 DEF TypesOK, Proxies
    <3> QED
      BY <1>1, <1>2, <1>3, <2>2, <3>1 DEF ReaderOK
  <2> QED
    BY Zenon, <1>1, <1>2, <1>3, <1>5, <2>1, <2>2 DEF ReaderOK
<1>7. NumbersOK' /\ HeldOK'
  BY Zenon, <1>1, <1>5 DEF NumbersOK, HeldOK, writerVars
<1>8. ASSUME ~overlapped PROVE OrderOK'
  <2>1. OrderOK /\ record' = seq
    BY <1>1, <1>2, <1>3, <1>8 DEF OrderOK
  <2>2. \A g \in Guids : proxy[g].matched => g = rguid
    BY Zenon, <1>2, <2>1 DEF OrderOK
  <2>3. \A i \in DOMAIN got : got[i][1] <= db'.record
    <3>1. \A i \in DOMAIN got : got[i][1] \in Nat /\ got[i][1] <= record
      BY <1>1, <1>2, <2>1 DEF OrderOK, TypesOK
    <3> QED
      BY <1>2, <1>3, <3>1
  <2> QED
    BY Zenon, <2>1, <2>2, <2>3 DEF OrderOK
<1>9. PassedOK'
  <2>1. Told' = Told /\ Available' = Available
    BY Zenon DEF Told, Notified, Available
  <2>2. ASSUME NEW s \in DOMAIN db.history, s <= record'
        PROVE  s \in Told \/ \E c \in Available : c[2] = s
    <3>1. CASE s <= record
      BY Zenon, <1>1, <1>2, <3>1 DEF PassedOK
    <3>2. CASE s <= seq
      <4>1. s \in Told \/ \E c \in rhist : c[1] = rguid /\ c[2] = s
        BY <1>1, <1>2, <3>2 DEF PassedOK
      <4> QED
        BY Zenon, <3>2, <4>1 DEF Available
    <3> QED
      BY Zenon, <1>3, <2>2, <3>1, <3>2
  <2> QED
    BY Zenon, <1>1, <1>3, <2>1, <2>2 DEF PassedOK
<1> QED
  BY Zenon, <1>4, <1>5, <1>6, <1>7, <1>8, <1>9 DEF PersistenceInv

(* Samples with different numbers, in order. *)
LEMMA InOrderFacts ==
    ASSUME NEW S \in SUBSET (Nat \X Nat), NEW q \in InOrder(S),
           \A x, y \in S : x[1] = y[1] => x = y
    PROVE  /\ q \in Seq(Nat \X Nat) /\ Range(q) = S
           /\ \A i, j \in DOMAIN q : i < j => q[i][1] < q[j][1]
<1>1. MaxWrites \in Nat
  BY Zenon, PersistenceAssumption
<1>2. PICK n \in 0..MaxWrites : q \in [1..n -> S]
  BY Zenon DEF InOrder
<1>3. /\ \A i, j \in 1..n : i # j => q[i] # q[j]
      /\ \A i, j \in 1..n : i < j => q[i][1] <= q[j][1]
  BY Zenon, <1>2 DEF InOrder, IsInjective
<1>4. q \in Seq(Nat \X Nat) /\ Range(q) = S
  BY <1>1, <1>2 DEF InOrder
<1>5. ASSUME NEW i \in DOMAIN q, NEW j \in DOMAIN q, i < j PROVE q[i][1] < q[j][1]
  <2>1. i \in 1..n /\ j \in 1..n /\ q[i] \in S /\ q[j] \in S /\ q[i] # q[j] /\ q[i][1] <= q[j][1]
    BY <1>1, <1>2, <1>3, <1>5
  <2>2. q[i][1] # q[j][1] /\ q[i][1] \in Nat /\ q[j][1] \in Nat
    BY Zenon, <2>1
  <2> QED
    BY <2>1, <2>2
<1> QED
  BY Zenon, <1>4, <1>5

(* c is a followed by b. *)
Joins(a, b, c) ==
    /\ c \in Seq(Nat \X Nat)
    /\ \A i \in DOMAIN a : i \in DOMAIN c /\ c[i] = a[i]
    /\ \A j \in DOMAIN b : \E i \in DOMAIN c : c[i] = b[j]
    /\ \A i \in DOMAIN c : \/ i \in DOMAIN a /\ c[i] = a[i]
                           \/ \E j \in DOMAIN b : i = Len(a) + j /\ c[i] = b[j]

LEMMA JoinFacts ==
    ASSUME NEW a \in Seq(Nat \X Nat), NEW b \in Seq(Nat \X Nat), NEW c, c = a \o b
    PROVE  Joins(a, b, c)
<1>1. Len(a) \in Nat /\ Len(b) \in Nat /\ DOMAIN a = 1..Len(a) /\ DOMAIN b = 1..Len(b)
  OBVIOUS
<1>2. c \in Seq(Nat \X Nat) /\ Len(c) = Len(a) + Len(b) /\ DOMAIN c = 1..(Len(a) + Len(b))
  OBVIOUS
<1>3. ASSUME NEW i \in DOMAIN a PROVE i \in DOMAIN c /\ c[i] = a[i]
  BY <1>1, <1>2
<1>4. ASSUME NEW j \in DOMAIN b PROVE Len(a) + j \in DOMAIN c /\ c[Len(a) + j] = b[j]
  <2>1. j \in 1..Len(b) /\ Len(a) + j \in DOMAIN c
    BY <1>1, <1>2, <1>4
  <2> QED
    BY <1>1, <2>1
<1>5. ASSUME NEW i \in DOMAIN c, i \notin DOMAIN a
      PROVE  \E j \in DOMAIN b : i = Len(a) + j /\ c[i] = b[j]
  <2>1. i - Len(a) \in DOMAIN b /\ i = Len(a) + (i - Len(a))
    BY <1>1, <1>2, <1>5
  <2> QED
    BY Zenon, <1>4, <2>1
<1> QED
  BY Zenon, <1>2, <1>3, <1>4, <1>5 DEF Joins

(* Numbers in order, followed by higher ones in order, are in order. *)
LEMMA JoinInOrder ==
    ASSUME NEW a \in Seq(Nat \X Nat), NEW b \in Seq(Nat \X Nat), NEW c, c = a \o b,
           \A i, j \in DOMAIN a : i < j => a[i][1] < a[j][1],
           \A i, j \in DOMAIN b : i < j => b[i][1] < b[j][1],
           \A i \in DOMAIN a, j \in DOMAIN b : a[i][1] < b[j][1]
    PROVE  \A i, j \in DOMAIN c : i < j => c[i][1] < c[j][1]
<1> SUFFICES ASSUME NEW i \in DOMAIN c, NEW j \in DOMAIN c, i < j PROVE c[i][1] < c[j][1]
  BY Zenon
<1>0. Joins(a, b, c)
  BY Zenon, JoinFacts
<1>1. Len(a) \in Nat /\ DOMAIN a = 1..Len(a) /\ DOMAIN b = 1..Len(b) /\ Len(b) \in Nat
  OBVIOUS
<1>2. \/ i \in DOMAIN a /\ c[i] = a[i]
      \/ \E k \in DOMAIN b : i = Len(a) + k /\ c[i] = b[k]
  BY Zenon, <1>0 DEF Joins
<1>3. \/ j \in DOMAIN a /\ c[j] = a[j]
      \/ \E k \in DOMAIN b : j = Len(a) + k /\ c[j] = b[k]
  BY Zenon, <1>0 DEF Joins
<1>4. CASE i \in DOMAIN a /\ c[i] = a[i]
  <2>1. CASE j \in DOMAIN a /\ c[j] = a[j]
    BY Zenon, <1>4, <2>1
  <2>2. CASE \E k \in DOMAIN b : j = Len(a) + k /\ c[j] = b[k]
    BY Zenon, <1>4, <2>2
  <2> QED
    BY Zenon, <1>3, <2>1, <2>2
<1>5. CASE \E k \in DOMAIN b : i = Len(a) + k /\ c[i] = b[k]
  <2>1. PICK k \in DOMAIN b : i = Len(a) + k /\ c[i] = b[k]
    BY Zenon, <1>5
  <2>2. j \notin DOMAIN a
    BY <1>1, <2>1
  <2>3. PICK l \in DOMAIN b : j = Len(a) + l /\ c[j] = b[l]
    BY Zenon, <1>3, <2>2
  <2>4. k < l
    BY <1>1, <2>1, <2>3
  <2> QED
    BY Zenon, <2>1, <2>3, <2>4
<1> QED
  BY Zenon, <1>2, <1>4, <1>5

(* The listener is told what is available, in order, and above all it was  *)
(* told before if one proxy at a time was matched.                         *)
LEMMA NotifyListenerInv ==
    ASSUME PersistenceInv, NotifyListener
    PROVE  PersistenceInv'
<1> DEFINE S == {<<c[2], c[3]>> : c \in Available}
<1>1. TypesOK /\ ReaderOK /\ NumbersOK /\ HeldOK /\ PassedOK /\ (~overlapped => OrderOK)
  BY Zenon DEF PersistenceInv
<1>2. PICK q \in InOrder(S) : got' = got \o q
  BY Zenon DEF NotifyListener
<1>3. /\ rpc = "notify" /\ rpc' = "idle" /\ rhist' = rhist \ Available
      /\ UNCHANGED <<db, writerVars, proxy, record, net, writes, in_doubt, overlapped, crashes>>
  BY Zenon DEF NotifyListener
<1>4. rguid \in Guids /\ proxy[rguid].matched /\ proxy[rguid].low_mark \in Nat
  BY Zenon, <1>1, <1>3 DEF ReaderOK, TypesOK, Proxies
<1>5. Available \subseteq rhist /\ \A c \in Available : c[1] = rguid /\ c[2] <= proxy[rguid].low_mark
  BY Zenon DEF Available
<1>6. S \subseteq Seen
  BY Zenon, <1>5 DEF Seen
<1>7. \A x \in S : x[1] \in 1..Top /\ x[2] \in 1..writes
  BY Zenon, <1>1, <1>6 DEF NumbersOK
<1>8. \A x \in S : x = <<x[1], x[2]>>
  OBVIOUS
<1> HIDE DEF S
<1>9. Top \in Nat /\ writes \in Nat
  BY Zenon, <1>1, TopNat DEF TypesOK, PersistenceInv
<1>10. S \in SUBSET (Nat \X Nat)
  BY <1>7, <1>8, <1>9
<1>12. \A x, y \in S : x[1] = y[1] => x = y
  <2>1. \A x, y \in S : x[1] = y[1] => x[2] = y[2]
    BY Zenon, <1>1, <1>6 DEF NumbersOK, NumberNotReused
  <2> QED
    BY Zenon, <1>8, <2>1
<1>13. /\ q \in Seq(Nat \X Nat) /\ Range(q) = S
       /\ \A i, j \in DOMAIN q : i < j => q[i][1] < q[j][1]
  BY Zenon, <1>10, <1>12, InOrderFacts
<1>14. got \in Seq(Nat \X Nat)
  BY Zenon, <1>1 DEF TypesOK
<1>15. Joins(got, q, got')
  BY Zenon, <1>2, <1>13, <1>14, JoinFacts
<1>16. \A j \in DOMAIN q : q[j] \in S
  BY Zenon, <1>13 DEF Range
<1>17. Range(got') = Range(got) \cup S
  <2>1. ASSUME NEW x \in Range(got') PROVE x \in Range(got) \cup S
    BY Zenon, <1>15, <1>16 DEF Joins, Range
  <2>2. ASSUME NEW x \in Range(got) PROVE x \in Range(got')
    BY Zenon, <1>15 DEF Joins, Range
  <2>3. ASSUME NEW x \in S PROVE x \in Range(got')
    <3>1. PICK j \in DOMAIN q : q[j] = x
      BY Zenon, <1>13 DEF Range
    <3> QED
      BY Zenon, <1>15, <3>1 DEF Joins, Range
  <2> QED
    BY Zenon, <2>1, <2>2, <2>3
<1>18. TypesOK'
  BY Zenon, <1>1, <1>3, <1>15 DEF TypesOK, writerVars, Joins
<1>19. WriterOK' /\ Top' = Top /\ NumberNotReused'
       /\ \A c \in Seen' : c[1] \in 1..Top' /\ c[2] \in 1..writes'
  <2>1. Seen' \subseteq Seen
    BY Zenon, <1>3, <1>6, <1>17 DEF Seen
  <2> QED
    BY Zenon, <1>3, <2>1, WriterStays
<1>20. ReaderOK'
  BY Zenon, <1>1, <1>3, <1>19 DEF ReaderOK
<1>21. NumbersOK'
  BY Zenon, <1>1, <1>3, <1>19 DEF NumbersOK, writerVars
<1>22. \A c \in rhist' : c[1] = rguid => proxy[rguid].low_mark < c[2]
  <2>1. \A c \in rhist' : c[2] \in Nat
    BY Zenon, <1>1, <1>3 DEF TypesOK, Samples
  <2> QED
    BY <1>3, <1>4, <2>1 DEF Available
<1>23. HeldOK'
  BY Zenon, <1>1, <1>3, <1>22 DEF HeldOK
<1>24. ASSUME ~overlapped PROVE OrderOK'
  <2>1. OrderOK /\ proxy[rguid].low_mark = record /\ record = db.record /\ record \in Nat
    BY Zenon, <1>1, <1>3, <1>4, <1>24 DEF OrderOK, ReaderOK, TypesOK
  <2>2. \A c \in rhist : c[1] = rguid
    BY Zenon, <1>1, <1>4, <2>1 DEF OrderOK, TypesOK, Samples
  <2>3. \A x \in S : x[1] \in Nat /\ x[1] <= record /\ \A i \in DOMAIN got : got[i][1] < x[1]
    BY <1>5, <1>10, <2>1 DEF OrderOK, S
  <2>5. ASSUME NEW i \in DOMAIN got' PROVE got'[i][1] \in Nat /\ got'[i][1] <= record
    <3>1. \A k \in DOMAIN got : got[k][1] \in Nat /\ got[k][1] <= record
      BY <1>14, <2>1 DEF OrderOK
    <3> QED
      BY Zenon, <1>15, <1>16, <2>3, <3>1 DEF Joins
  <2>6. \A i \in DOMAIN got', c \in rhist' : got'[i][1] < c[2]
    <3>1. \A c \in rhist' : c[2] \in Nat /\ record < c[2]
      BY Zenon, <1>1, <1>3, <1>22, <2>1, <2>2 DEF TypesOK, Samples
    <3> QED
      BY <2>1, <2>5, <3>1
  <2>7. \A i, j \in DOMAIN got' : i < j => got'[i][1] < got'[j][1]
    <3>1. \A i, j \in DOMAIN got : i < j => got[i][1] < got[j][1]
      BY Zenon, <2>1 DEF OrderOK
    <3>2. \A i \in DOMAIN got, j \in DOMAIN q : got[i][1] < q[j][1]
      BY Zenon, <1>16, <2>3
    <3> QED
      BY Zenon, <1>2, <1>13, <1>14, <3>1, <3>2, JoinInOrder
  <2> QED
    BY <1>3, <2>1, <2>2, <2>5, <2>6, <2>7 DEF OrderOK
<1>25. PassedOK'
  <2>1. \A s : s \in Told => s \in Told'
    BY <1>3, <1>15 DEF Told, Notified, Joins
  <2>2. ASSUME NEW c \in Available PROVE c[2] \in Told'
    <3>1. <<c[2], c[3]>> \in Range(got')
      BY Zenon, <1>17 DEF S
    <3>2. PICK i \in DOMAIN got' : got'[i] = <<c[2], c[3]>>
      BY Zenon, <3>1 DEF Range
    <3> QED
      BY <3>2 DEF Told, Notified
  <2>3. \A c \in rhist : c \in rhist' \/ c[2] \in Told'
    BY Zenon, <1>3, <2>2
  <2> QED
    BY <1>1, <1>3, <2>1, <2>2, <2>3 DEF PassedOK
<1> QED
  BY Zenon, <1>3, <1>18, <1>19, <1>20, <1>21, <1>23, <1>24, <1>25 DEF PersistenceInv

(* What was recorded and not yet told when the reader crashes is in doubt. *)
LEMMA CrashReaderInv ==
    ASSUME PersistenceInv, CrashReader
    PROVE  PersistenceInv'
<1> USE DEF CrashReader
<1>1. TypesOK /\ ReaderOK /\ NumbersOK /\ PassedOK /\ (~overlapped => OrderOK)
  BY Zenon DEF PersistenceInv
<1>2. proxy' \in [Guids -> Proxies] /\ \A g \in Guids : ~proxy'[g].matched
  BY Zenon DEF Unmatched, Proxies
<1>3. TypesOK'
  BY Zenon, <1>1, <1>2 DEF TypesOK, writerVars
<1>4. WriterOK' /\ Top' = Top /\ NumberNotReused'
      /\ \A c \in Seen' : c[1] \in 1..Top' /\ c[2] \in 1..writes'
  <2>1. Seen' \subseteq Seen
    BY Zenon DEF Seen
  <2> QED
    BY Zenon, <2>1, WriterStays
<1>5. ReaderOK'
  BY Zenon, <1>1, <1>2, <1>4 DEF ReaderOK
<1>6. NumbersOK'
  BY Zenon, <1>1, <1>4 DEF NumbersOK, writerVars
<1>7. HeldOK' /\ (~overlapped' => OrderOK')
  BY Zenon, <1>1, <1>2 DEF HeldOK, OrderOK
<1>8. PassedOK'
  <2>1. ASSUME NEW s \in DOMAIN db.history, s <= db.record PROVE s \in Told'
    <3>1. s \in Told \/ (rpc = "notify" /\ \E c \in Available : c[2] = s)
      BY Zenon, <1>1, <2>1 DEF PassedOK
    <3> QED
      BY Zenon, <3>1 DEF Told, Notified
  <2> QED
    BY Zenon, <1>2, <2>1 DEF PassedOK
<1> QED
  BY Zenon, <1>3, <1>4, <1>5, <1>6, <1>7, <1>8 DEF PersistenceInv

LEMMA RestartReaderInv ==
    ASSUME PersistenceInv, RestartReader
    PROVE  PersistenceInv'
<1> USE DEF RestartReader, ghosts
<1>1. TypesOK /\ ReaderOK /\ NumbersOK /\ HeldOK /\ PassedOK /\ (~overlapped => OrderOK)
  BY Zenon DEF PersistenceInv
<1>2. TypesOK'
  BY Zenon, <1>1 DEF TypesOK, writerVars
<1>3. WriterOK' /\ Top' = Top /\ NumberNotReused'
      /\ \A c \in Seen' : c[1] \in 1..Top' /\ c[2] \in 1..writes'
  <2>1. Seen' = Seen
    BY Zenon DEF Seen
  <2> QED
    BY Zenon, <2>1, WriterStays
<1>4. ReaderOK'
  BY Zenon, <1>1, <1>3 DEF ReaderOK
<1>5. NumbersOK'
  BY Zenon, <1>1, <1>3 DEF NumbersOK, writerVars
<1>6. HeldOK' /\ (~overlapped' => OrderOK')
  BY Zenon, <1>1 DEF HeldOK, OrderOK, ReaderOK
<1>7. PassedOK'
  BY Zenon, <1>1 DEF PassedOK, ReaderOK, Told, Notified
<1> QED
  BY Zenon, <1>2, <1>3, <1>4, <1>5, <1>6, <1>7 DEF PersistenceInv

(* A step that changes nothing. *)
LEMMA StutterInv ==
    ASSUME PersistenceInv, UNCHANGED pVars
    PROVE  PersistenceInv'
BY Zenon, QuietStep DEF pVars

-----------------------------------------------------------------------------
(* The invariant holds in every reachable state. *)
LEMMA PersistenceInvariance == Spec => []PersistenceInv
<1>1. ASSUME PersistenceInv, [Next]_pVars PROVE PersistenceInv'
  <2>1. CASE WriterStep
    BY Zenon, <1>1, <2>1, UpdateLastSeqInv, InsertChangeInv, SendInv, ForgetChangeInv, RestartWriterInv
       DEF WriterStep
  <2>2. CASE AddChange \/ Resend \/ RemoveChange \/ CrashWriter
    BY Zenon, <1>1, <2>2, AddChangeInv, SendInv, RemoveChangeInv, CrashWriterInv
  <2>3. CASE ReaderStep
    BY Zenon, <1>1, <2>3, ProcessHeartbeatMsgInv, ProcessGapMsgInv, PersistLastNotifiedInv,
       NotifyListenerInv, RestartReaderInv DEF ReaderStep
  <2>4. CASE MatchedWriterAdd \/ \E g \in Guids : MatchedWriterRemove(g)
    BY Zenon, <1>1, <2>4, MatchedWriterAddInv, MatchedWriterRemoveInv
  <2>5. CASE Receive
    BY Zenon, <1>1, <2>5, ProcessDataMsgInv DEF Receive
  <2>6. CASE CrashReader
    BY Zenon, <1>1, <2>6, CrashReaderInv
  <2>7. CASE UNCHANGED pVars
    BY Zenon, <1>1, <2>7, StutterInv
  <2> QED
    BY Zenon, <1>1, <2>1, <2>2, <2>3, <2>4, <2>5, <2>6, <2>7 DEF Next
<1> QED
  BY <1>1, InitInv, PTL DEF Spec

(* Wherever a process crashes, what it starts again from agrees: the       *)
(* stored history and last number are the writer's, the stored record is   *)
(* not above them, and what an ACKNACK may acknowledge is on record.       *)
THEOREM StorageAgrees == Spec => []DatabaseAgrees
<1>1. PersistenceInv => DatabaseAgrees
  <2> SUFFICES ASSUME PersistenceInv PROVE DatabaseAgrees
    BY Zenon
  <2>1. TypesOK /\ WriterOK /\ ReaderOK
    BY Zenon DEF PersistenceInv
  <2>2. db.record <= db.last_seq
    BY <2>1 DEF ReaderOK, TypesOK, Top
  <2>3. AckedIsRecorded
    BY Zenon, <2>1 DEF AckedIsRecorded, AcknackMarks, ReaderOK
  <2> QED
    BY Zenon, <2>1, <2>2, <2>3 DEF DatabaseAgrees, StorageMirrors, RecordIsStored, WriterOK
<1> QED
  BY <1>1, PersistenceInvariance, PTL

(* The stored record never falls, whichever proxies of the persistence     *)
(* GUID are matched and notify: what was acknowledged stays on record.     *)
THEOREM RecordKept == Spec => RecordNeverFalls
<1>1. ASSUME PersistenceInv, [Next]_pVars PROVE db'.record >= db.record
  <2>1. db \in [last_seq : Nat, history : {db.history}, record : Nat] /\ db.record \in Nat
    BY Zenon, <1>1 DEF PersistenceInv, TypesOK
  <2>2. CASE PersistLastNotified
    <3>1. record = db.record /\ proxy[rguid].low_mark \in Nat
      BY Zenon, <1>1, <2>2 DEF PersistenceInv, ReaderOK, TypesOK, Proxies, PersistLastNotified
    <3> QED
      BY <2>1, <2>2, <3>1 DEF PersistLastNotified
  <2>3. CASE ~PersistLastNotified
    <3>1. db'.record = db.record
      BY <1>1, <2>1, <2>3 DEF Next, WriterStep, ReaderStep, Receive, pVars, AddChange, UpdateLastSeq,
         InsertChange, SendChange, Resend, RemoveChange, ForgetChange, CrashWriter, RestartWriter,
         MatchedWriterAdd, MatchedWriterRemove, ProcessDataMsg, ProcessHeartbeatMsg, ProcessGapMsg,
         NotifyListener, CrashReader, RestartReader
    <3> QED
      BY <2>1, <3>1
  <2> QED
    BY Zenon, <2>2, <2>3
<1> QED
  BY <1>1, PersistenceInvariance, PTL DEF Spec, RecordNeverFalls

(* A number whose sample a reader may have got is not given to another     *)
(* sample, wherever add_writer_change_to_storage() is cut by a crash.      *)
THEOREM NumbersUnique == Spec => []NumberNotReused
<1>1. PersistenceInv => NumberNotReused
  BY Zenon DEF PersistenceInv, NumbersOK
<1> QED
  BY <1>1, PersistenceInvariance, PTL

(* The listener is told of no sample twice, unless two proxies of the      *)
(* persistence GUID (two starts of the writer) were matched at a time: of  *)
(* such behaviours only the rest is said.  It is told of every sample the  *)
(* record has passed, but what a crash caught between                      *)
(* persist_last_notified_nts() and the listener.                           *)
THEOREM ToldOnce == Spec => []NotifiedExactlyOnce
<1>1. PersistenceInv => NotifiedExactlyOnce
  <2> SUFFICES ASSUME PersistenceInv PROVE NotifiedExactlyOnce
    BY Zenon
  <2>1. NotifiedOnce
    BY Zenon DEF PersistenceInv, OrderOK, NotifiedOnce
  <2>2. OnlyInDoubtIsSkipped
    BY Zenon DEF PersistenceInv, PassedOK, OnlyInDoubtIsSkipped, Told
  <2> QED
    BY Zenon, <2>1, <2>2 DEF NotifiedExactlyOnce
<1> QED
  BY <1>1, PersistenceInvariance, PTL

=============================================================================
