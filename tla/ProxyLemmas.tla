---------------------------- MODULE ProxyLemmas -----------------------------
(***************************************************************************)
(* What the operations of WriterProxy and ReaderProxy do to the numbers    *)
(* that are received, acknowledged or held, and to the statuses of the     *)
(* entries, for proxies of any size.                                       *)
(***************************************************************************)
EXTENDS WriterProxy, ReaderProxy, WellFoundedInduction, TLAPS

(* What is at most a bounded number is bounded. *)
LEMMA AtMost ==
    ASSUME NEW a \in Nat, NEW b \in Nat, NEW c \in Nat, a <= b, b <= c
    PROVE  a <= c
OBVIOUS

(* A set of naturals has its least element as Min(). *)
LEMMA MinNat ==
    ASSUME NEW S \in SUBSET Nat, S # {}
    PROVE  Min(S) \in S /\ \A y \in S : Min(S) <= y
<1> DEFINE R == {ss \in Nat \X Nat : ss[1] < ss[2]}
<1>1. IsWellFoundedOn(R, Nat)
  BY Zenon, NatLessThanWellFounded DEF OpToRel
<1>2. PICK x \in S : \A y \in S : ~(<<y, x>> \in R)
  BY Zenon, <1>1, WFMin
<1>3. \A y \in Nat : y < x => <<y, x>> \in R
  BY Zenon
<1>4. \A y \in S : x <= y
  <2> SUFFICES ASSUME NEW y \in S, y < x PROVE FALSE
    OBVIOUS
  <2> HIDE DEF R
  <2>1. <<y, x>> \in R
    BY Zenon, <1>3
  <2> QED
    BY Zenon, <1>2, <2>1
<1> QED
  BY Zenon, <1>4 DEF Min

(* A bounded set of naturals has its greatest element as Max(). *)
LEMMA MaxNat ==
    ASSUME NEW n \in Nat, NEW S \in SUBSET Nat, S # {}, \A s \in S : s <= n
    PROVE  Max(S) \in S /\ \A y \in S : Max(S) >= y
<1> DEFINE T == {k \in Nat : n - k \in S}
<1>1. T \in SUBSET Nat /\ T # {}
  <2>1. PICK x \in S : TRUE
    BY Zenon
  <2>2. n - x \in T
    BY <2>1
  <2> QED
    BY Zenon, <2>2
<1>2. PICK k \in T : \A j \in T : k <= j
  <2> HIDE DEF T
  <2> QED
    BY Zenon, <1>1, MinNat
<1>3. \A y \in S : n - y \in T
  OBVIOUS
<1>4. \A y \in S : n - k >= y
  BY <1>2, <1>3
<1>5. n - k \in S
  BY Zenon, <1>2
<1> QED
  BY Zenon, <1>4, <1>5 DEF Max

-----------------------------------------------------------------------------
(* A WriterProxy of a writer that has published up to n: the set           *)
(* changes_received_ starts after the first number that is missing.        *)
WriterProxyOK(w, n) ==
    /\ w \in WriterProxyType
    /\ w.low_mark <= w.max_seq /\ w.max_seq <= n
    /\ \A s \in w.received : w.low_mark + 1 < s /\ s <= w.max_seq

(* v follows from w when the numbers of X become received or irrelevant:   *)
(* the low mark only passes numbers that were received or are in X.        *)
Advances(w, v, X, n) ==
    /\ WriterProxyOK(v, n)
    /\ v.alive = w.alive /\ v.last_notified = w.last_notified
    /\ w.low_mark <= v.low_mark
    /\ \A s \in Nat : w.low_mark < s /\ s <= v.low_mark => s \in w.received \cup X
    /\ v.received \subseteq w.received \cup X

(* cleanup() passes the consecutive received numbers and nothing else. *)
LEMMA CleanupAdvances ==
    ASSUME NEW n \in Nat, NEW w \in WriterProxyType,
           w.low_mark <= w.max_seq, w.max_seq <= n,
           \A s \in w.received : w.low_mark < s /\ s <= w.max_seq
    PROVE  Advances(w, Cleanup(w), {}, n)
<1> DEFINE N == {k \in (w.low_mark + 1)..(w.max_seq + 1) : k \notin w.received}
           next == Min(N)
           v == [w EXCEPT !.low_mark = next - 1, !.received = {s \in w.received : s > next}]
<1>1. w.low_mark \in Nat /\ w.max_seq \in Nat /\ w.received \in SUBSET Nat
  BY Zenon DEF WriterProxyType
<1>2. N \in SUBSET Nat /\ w.max_seq + 1 \in N
  BY <1>1
<1>3. next \in N /\ \A y \in N : next <= y
  <2> HIDE DEF N
  <2> QED
    BY Zenon, <1>2, MinNat
<1>4. \A s \in Nat : w.low_mark < s /\ s <= next - 1 => s \in w.received
  <2>1. next \in Nat /\ next <= w.max_seq + 1
    BY <1>1, <1>2, <1>3
  <2>2. ASSUME NEW s \in Nat, w.low_mark < s, s <= next - 1, s \notin w.received PROVE FALSE
    <3>1. s \in (w.low_mark + 1)..(w.max_seq + 1) /\ ~(next <= s)
      <4> HIDE DEF next
      <4> QED
        BY <1>1, <2>1, <2>2
    <3> QED
      BY Zenon, <1>3, <2>2, <3>1
  <2> QED
    BY Zenon, <2>2
<1>5. next \in Nat /\ next - 1 \in Nat /\ w.low_mark <= next - 1 /\ next - 1 <= w.max_seq
  BY <1>1, <1>3
<1>6. Cleanup(w) = v
  BY Zenon DEF Cleanup
<1> HIDE DEF N, next
<1>7. v \in WriterProxyType /\ v.low_mark = next - 1 /\ v.max_seq = w.max_seq
      /\ v.received = {s \in w.received : s > next}
      /\ v.alive = w.alive /\ v.last_notified = w.last_notified
  BY Zenon, <1>1, <1>5 DEF WriterProxyType
<1> HIDE DEF v
<1>8. WriterProxyOK(v, n)
  BY <1>1, <1>5, <1>7 DEF WriterProxyOK
<1> QED
  BY Zenon, <1>4, <1>5, <1>6, <1>7, <1>8 DEF Advances

(* received_change_set() receives its number. *)
LEMMA ReceivedAdvances ==
    ASSUME NEW n \in Nat, NEW w, WriterProxyOK(w, n), NEW seq \in 1..n
    PROVE  Advances(w, ReceivedChangeSet(w, seq), {seq}, n)
<1>1. w \in WriterProxyType /\ w.low_mark \in Nat /\ w.max_seq \in Nat
      /\ w.received \in SUBSET Nat /\ w.low_mark <= w.max_seq /\ w.max_seq <= n
      /\ (\A s \in w.received : w.low_mark + 1 < s /\ s <= w.max_seq) /\ seq \in Nat
  BY DEF WriterProxyOK, WriterProxyType
<1>2. CASE seq <= w.low_mark
  BY <1>1, <1>2 DEF ReceivedChangeSet, Advances, WriterProxyOK
<1>3. CASE seq > w.low_mark /\ seq > w.max_seq /\ seq = w.low_mark + 1
  <2> DEFINE v == [w EXCEPT !.low_mark = seq, !.max_seq = seq]
  <2>1. v \in WriterProxyType /\ v.low_mark = seq /\ v.max_seq = seq
        /\ v.received = w.received /\ v.alive = w.alive /\ v.last_notified = w.last_notified
    BY Zenon, <1>1 DEF WriterProxyType
  <2>2. ReceivedChangeSet(w, seq) = v
    BY <1>1, <1>3 DEF ReceivedChangeSet
  <2> HIDE DEF v
  <2>3. w.received = {}
    BY <1>1, <1>3
  <2> QED
    BY <1>1, <1>3, <2>1, <2>2, <2>3 DEF Advances, WriterProxyOK
<1>4. CASE seq > w.low_mark /\ seq # w.low_mark + 1
  <2> DEFINE top == IF seq > w.max_seq THEN seq ELSE w.max_seq
             v == IF seq > w.max_seq
                  THEN [w EXCEPT !.received = w.received \cup {seq}, !.max_seq = seq]
                  ELSE [w EXCEPT !.received = w.received \cup {seq}]
  <2>0. top \in Nat /\ w.max_seq <= top /\ seq <= top /\ top <= n
    BY <1>1
  <2>1. ReceivedChangeSet(w, seq) = v
    BY <1>1, <1>4 DEF ReceivedChangeSet
  <2>2. v \in WriterProxyType /\ v.low_mark = w.low_mark /\ v.max_seq = top
        /\ v.received = w.received \cup {seq} /\ v.alive = w.alive
        /\ v.last_notified = w.last_notified
    BY Zenon, <1>1, <2>0 DEF WriterProxyType
  <2> HIDE DEF top, v
  <2> QED
    BY <1>1, <1>4, <2>0, <2>1, <2>2 DEF Advances, WriterProxyOK
<1>5. CASE seq = w.low_mark + 1 /\ seq <= w.max_seq
  <2> DEFINE u == [w EXCEPT !.low_mark = seq]
  <2>1. u \in WriterProxyType /\ u.low_mark = seq /\ u.max_seq = w.max_seq
        /\ u.received = w.received /\ u.alive = w.alive /\ u.last_notified = w.last_notified
    BY Zenon, <1>1 DEF WriterProxyType
  <2>2. ReceivedChangeSet(w, seq) = Cleanup(u)
    BY <1>1, <1>5 DEF ReceivedChangeSet
  <2> HIDE DEF u
  <2>3. Advances(u, Cleanup(u), {}, n)
    BY Zenon, <1>1, <1>5, <2>1, CleanupAdvances
  <2> DEFINE v == Cleanup(u)
  <2>4. v.low_mark \in Nat
    BY Zenon, <2>3 DEF Advances, WriterProxyOK, WriterProxyType
  <2> HIDE DEF v
  <2>5. \A s \in Nat : w.low_mark < s /\ s <= v.low_mark => s \in w.received \cup {seq}
    <3> SUFFICES ASSUME NEW s \in Nat, w.low_mark < s, s <= v.low_mark, s # seq
                 PROVE  s \in w.received
      BY Zenon
    <3> QED
      BY <1>1, <1>5, <2>1, <2>3 DEF Advances, v
  <2> QED
    BY <1>1, <1>5, <2>1, <2>2, <2>3, <2>4, <2>5 DEF Advances, v
<1> QED
  BY <1>1, <1>2, <1>3, <1>4, <1>5

(* A GAP makes its numbers irrelevant. *)
LEMMA IrrelevantAdvances ==
    ASSUME NEW n \in Nat, NEW w, WriterProxyOK(w, n),
           NEW seqs \in SUBSET Nat, \A s \in seqs : s <= n
    PROVE  Advances(w, IrrelevantChangesSet(w, seqs), seqs, n)
<1>1. w \in WriterProxyType /\ w.low_mark \in Nat /\ w.max_seq \in Nat
      /\ w.received \in SUBSET Nat /\ w.low_mark <= w.max_seq /\ w.max_seq <= n
      /\ \A s \in w.received : w.low_mark + 1 < s /\ s <= w.max_seq
  BY Zenon DEF WriterProxyOK, WriterProxyType
<1> DEFINE top == Max({w.max_seq} \cup seqs)
           new == w.received \cup {s \in seqs : s > w.low_mark}
           u == [w EXCEPT !.received = new, !.max_seq = top]
<1>2. /\ {w.max_seq} \cup seqs \in SUBSET Nat /\ {w.max_seq} \cup seqs # {}
      /\ \A s \in {w.max_seq} \cup seqs : s <= n
  BY Zenon, <1>1
<1>3. top \in {w.max_seq} \cup seqs /\ \A y \in {w.max_seq} \cup seqs : top >= y
  BY Zenon, <1>2, MaxNat
<1>4. IrrelevantChangesSet(w, seqs) = Cleanup(u)
  BY Zenon DEF IrrelevantChangesSet
<1> HIDE DEF top
<1>5. top \in Nat /\ top <= n /\ w.max_seq <= top /\ \A s \in seqs : s <= top
  BY Zenon, <1>1, <1>2, <1>3
<1>6. new \in SUBSET Nat
  BY Zenon, <1>1
<1>7. ASSUME NEW s \in new PROVE w.low_mark < s /\ s <= top
  BY <1>1, <1>5, <1>6
<1> HIDE DEF new
<1>8. u \in WriterProxyType /\ u.low_mark = w.low_mark /\ u.max_seq = top
      /\ u.received = new /\ u.alive = w.alive /\ u.last_notified = w.last_notified
  BY Zenon, <1>1, <1>5, <1>6 DEF WriterProxyType
<1> HIDE DEF u
<1>9. Advances(u, Cleanup(u), {}, n)
  BY <1>1, <1>5, <1>7, <1>8, CleanupAdvances
<1> QED
  BY Zenon, <1>1, <1>4, <1>9, <1>8 DEF Advances, new

(* lost_changes_update(): what is below seq is lost. *)
LEMMA LostAdvances ==
    ASSUME NEW n \in Nat, NEW w, WriterProxyOK(w, n), NEW seq \in Nat, seq <= n + 1
    PROVE  Advances(w, LostChangesUpdate(w, seq), {s \in Nat : s < seq}, n)
<1>1. w \in WriterProxyType /\ w.low_mark \in Nat /\ w.max_seq \in Nat
      /\ w.received \in SUBSET Nat /\ w.low_mark <= w.max_seq /\ w.max_seq <= n
      /\ \A s \in w.received : w.low_mark + 1 < s /\ s <= w.max_seq
  BY Zenon DEF WriterProxyOK, WriterProxyType
<1>2. CASE ~(seq > w.low_mark + 1)
  <2>1. LostChangesUpdate(w, seq) = w
    BY Zenon, <1>2 DEF LostChangesUpdate
  <2> QED
    BY <1>1, <2>1 DEF Advances
<1>3. CASE seq > w.low_mark + 1
  <2> DEFINE top == IF seq - 1 > w.max_seq THEN seq - 1 ELSE w.max_seq
             new == {s \in w.received : s >= seq}
             u == [w EXCEPT !.received = new, !.low_mark = seq - 1, !.max_seq = top]
  <2>1. LostChangesUpdate(w, seq) = Cleanup(u)
    BY Zenon, <1>3 DEF LostChangesUpdate
  <2>2. top \in Nat /\ top <= n /\ w.max_seq <= top /\ seq - 1 <= top /\ seq - 1 \in Nat
    BY <1>1, <1>3
  <2> HIDE DEF top
  <2>3. new \in SUBSET Nat /\ new \subseteq w.received
    BY Zenon, <1>1
  <2>4. ASSUME NEW s \in new PROVE seq - 1 < s /\ s <= top
    BY <1>1, <2>2
  <2> HIDE DEF new
  <2>5. u \in WriterProxyType /\ u.low_mark = seq - 1 /\ u.max_seq = top
        /\ u.received = new /\ u.alive = w.alive /\ u.last_notified = w.last_notified
    BY Zenon, <1>1, <2>2, <2>3 DEF WriterProxyType
  <2> HIDE DEF u
  <2>6. Advances(u, Cleanup(u), {}, n)
    BY Zenon, <2>2, <2>4, <2>5, CleanupAdvances
  <2> DEFINE v == Cleanup(u)
  <2>7. v.low_mark \in Nat /\ seq - 1 <= v.low_mark
    BY Zenon, <2>5, <2>6 DEF Advances, WriterProxyOK, WriterProxyType
  <2> HIDE DEF v
  <2>8. ASSUME NEW s \in Nat, w.low_mark < s, s <= v.low_mark, ~(s < seq)
        PROVE  s \in w.received
    BY <2>3, <2>5, <2>6, <2>7, <2>8 DEF Advances, v
  <2>9. w.low_mark <= v.low_mark
    BY <1>1, <1>3, <2>7
  <2> QED
    BY Zenon, <2>1, <2>3, <2>5, <2>6, <2>8, <2>9 DEF Advances, v
<1> QED
  BY Zenon, <1>2, <1>3

(* process_heartbeat() *)
LEMMA HeartbeatAdvances ==
    ASSUME NEW n \in Nat, NEW w, WriterProxyOK(w, n),
           NEW first \in Nat, first <= n + 1, NEW last \in Nat, last <= n,
           NEW count \in Nat, NEW final \in BOOLEAN, NEW liveliness \in BOOLEAN
    PROVE  Advances(w, ProcessHeartbeat(w, first, last, count, final, liveliness),
                    {s \in Nat : s < first}, n)
<1> DEFINE u == [w EXCEPT !.hb_count = count, !.hb_final = final]
           lost == LostChangesUpdate(u, first)
           upd == MissingChangesUpdate(lost, last)
           v == ProcessHeartbeat(w, first, last, count, final, liveliness)
           X == {s \in Nat : s < first}
<1>1. u \in WriterProxyType /\ u.low_mark = w.low_mark /\ u.max_seq = w.max_seq
      /\ u.received = w.received /\ u.alive = w.alive /\ u.last_notified = w.last_notified
  BY Zenon DEF WriterProxyOK, WriterProxyType
<1> HIDE DEF u
<1>2. WriterProxyOK(u, n)
  BY Zenon, <1>1 DEF WriterProxyOK
<1>3. Advances(u, lost, X, n)
  BY Zenon, <1>2, LostAdvances
<1> HIDE DEF lost, X
<1>4. lost \in WriterProxyType /\ lost.low_mark \in Nat /\ lost.max_seq \in Nat
      /\ lost.received \in SUBSET Nat /\ lost.low_mark <= lost.max_seq /\ lost.max_seq <= n
      /\ \A s \in lost.received : lost.low_mark + 1 < s /\ s <= lost.max_seq
  BY Zenon, <1>3 DEF Advances, WriterProxyOK, WriterProxyType
<1>5. upd \in WriterProxyType /\ upd.low_mark = lost.low_mark
      /\ upd.max_seq \in Nat /\ lost.max_seq <= upd.max_seq /\ upd.max_seq <= n
      /\ upd.received = lost.received /\ upd.alive = lost.alive
      /\ upd.last_notified = lost.last_notified
  BY <1>4 DEF MissingChangesUpdate, WriterProxyType
<1> HIDE DEF upd
<1>6. v = upd \/ v = [upd EXCEPT !.hb_response = TRUE]
  BY Zenon DEF ProcessHeartbeat, u, lost, upd
<1> HIDE DEF v
<1>7. v \in WriterProxyType /\ v.low_mark = lost.low_mark
      /\ v.max_seq \in Nat /\ lost.max_seq <= v.max_seq /\ v.max_seq <= n
      /\ v.received = lost.received /\ v.alive = lost.alive
      /\ v.last_notified = lost.last_notified
  BY Zenon, <1>5, <1>6 DEF WriterProxyType
<1>8. WriterProxyOK(v, n)
  BY <1>4, <1>7 DEF WriterProxyOK
<1> QED
  BY Zenon, <1>1, <1>3, <1>7, <1>8 DEF Advances, v, X

-----------------------------------------------------------------------------
ChangesType == UNION {[S -> ChangeForReader] : S \in SUBSET Nat}

ReaderProxyType ==
    [active : BOOLEAN, volatile : BOOLEAN, low_mark : Nat, changes : ChangesType,
     next_acknack : Nat, nack_supression : BOOLEAN]

(* A ReaderProxy of a writer that has published up to n and holds hist:    *)
(* its entries are samples of the history above the low mark.              *)
ReaderProxyOK(p, hist, n) ==
    /\ p \in ReaderProxyType
    /\ p.low_mark <= n
    /\ \A s \in DOMAIN p.changes : s \in hist /\ s > p.low_mark
    /\ ~p.active => DOMAIN p.changes = {}

(* q follows from p when the numbers of A are acknowledged: of the history *)
(* hist, nothing is forgotten and nothing else becomes acknowledged.       *)
Acknowledges(p, q, A, hist) ==
    /\ q.active = p.active
    /\ \A s \in hist : s <= p.low_mark \/ s \in DOMAIN p.changes =>
                         s <= q.low_mark \/ s \in DOMAIN q.changes
    /\ \A s \in hist : s <= q.low_mark => s <= p.low_mark \/ s \in A

(* A function from numbers to ChangeForReader_t is a collection of changes. *)
LEMMA ChangesIntro ==
    ASSUME NEW S \in SUBSET Nat, NEW f \in [S -> ChangeForReader]
    PROVE  f \in ChangesType /\ DOMAIN f = S
BY Zenon DEF ChangesType

(* A collection of changes is a function on its numbers. *)
LEMMA ChangesElim ==
    ASSUME NEW f \in ChangesType
    PROVE  DOMAIN f \in SUBSET Nat /\ f \in [DOMAIN f -> ChangeForReader]
BY Zenon DEF ChangesType

(* ReaderProxy::stop() leaves a proxy without changes. *)
LEMMA StoppedReaderProxyOK ==
    ASSUME NEW hist, NEW n \in Nat
    PROVE  /\ ReaderProxyOK(StoppedReaderProxy, hist, n)
           /\ StoppedReaderProxy.active = FALSE /\ StoppedReaderProxy.low_mark = 0
<1>1. <<>> \in [{} -> ChangeForReader] /\ DOMAIN <<>> = {}
  OBVIOUS
<1>2. <<>> \in ChangesType
  BY Zenon, <1>1, ChangesIntro
<1> QED
  BY <1>1, <1>2 DEF ReaderProxyOK, ReaderProxyType, StoppedReaderProxy

(* Inserting entries into changes_for_reader_ adds their numbers. *)
LEMMA WithChangesType ==
    ASSUME NEW f \in ChangesType, NEW S \in SUBSET Nat, NEW status \in ChangeForReaderStatus
    PROVE  WithChanges(f, S, status) \in ChangesType
           /\ DOMAIN WithChanges(f, S, status) = DOMAIN f \cup S
<1> DEFINE D == DOMAIN f \cup S
           g == [s \in D |-> IF s \in DOMAIN f THEN f[s] ELSE NewChange(status)]
<1>1. D \in SUBSET Nat /\ f \in [DOMAIN f -> ChangeForReader]
  BY Zenon, ChangesElim
<1>2. NewChange(status) \in ChangeForReader
  BY Zenon DEF NewChange, ChangeForReader
<1>3. g \in [D -> ChangeForReader]
  BY Zenon, <1>1, <1>2
<1>4. WithChanges(f, S, status) = g
  BY Zenon DEF WithChanges
<1> HIDE DEF D, g
<1>5. g \in ChangesType /\ DOMAIN g = D
  BY Zenon, <1>1, <1>3, ChangesIntro
<1> QED
  BY Zenon, <1>4, <1>5 DEF D

(* Erasing entries of changes_for_reader_ leaves the others. *)
LEMMA RestrictType ==
    ASSUME NEW f \in ChangesType, NEW S \in SUBSET DOMAIN f
    PROVE  Restrict(f, S) \in ChangesType /\ DOMAIN Restrict(f, S) = S
<1>1. S \in SUBSET Nat /\ f \in [DOMAIN f -> ChangeForReader]
  BY Zenon, ChangesElim
<1>2. [s \in S |-> f[s]] \in [S -> ChangeForReader]
  BY Zenon, <1>1
<1> QED
  BY Zenon, <1>1, <1>2, ChangesIntro DEF Restrict

(* acked_changes_set() acknowledges the numbers below its argument; the    *)
(* argument 0 takes back the acknowledgement of what the history holds.    *)
LEMMA AckedChangesSetAcks ==
    ASSUME NEW n \in Nat, NEW hist \in SUBSET Nat, \A s \in hist : 0 < s /\ s <= n,
           NEW p, ReaderProxyOK(p, hist, n), p.active, NEW seq \in Nat, seq <= n + 1
    PROVE  /\ ReaderProxyOK(AckedChangesSet(p, seq, hist, n + 1), hist, n)
           /\ Acknowledges(p, AckedChangesSet(p, seq, hist, n + 1), {s \in Nat : s < seq}, hist)
<1> DEFINE q == AckedChangesSet(p, seq, hist, n + 1)
<1>1. p \in ReaderProxyType /\ p.low_mark \in Nat /\ p.low_mark <= n
      /\ p.changes \in ChangesType
      /\ \A s \in DOMAIN p.changes : s \in hist /\ s > p.low_mark
  BY Zenon DEF ReaderProxyOK, ReaderProxyType
<1>2. CASE seq > p.low_mark
  <2> DEFINE S == {s \in DOMAIN p.changes : s >= seq}
             f == Restrict(p.changes, S)
  <2>1. f \in ChangesType /\ DOMAIN f = S
    BY Zenon, <1>1, RestrictType
  <2>2. q = [p EXCEPT !.low_mark = seq - 1, !.changes = f]
    BY Zenon, <1>2 DEF AckedChangesSet
  <2> HIDE DEF f, q
  <2>0. seq - 1 \in Nat /\ seq - 1 <= n
    BY <1>1, <1>2
  <2>3. q \in ReaderProxyType /\ q.low_mark = seq - 1 /\ q.changes = f /\ q.active = p.active
    BY Zenon, <1>1, <2>0, <2>1, <2>2 DEF ReaderProxyType
  <2>4. ASSUME NEW s \in DOMAIN q.changes PROVE s \in hist /\ s > q.low_mark
    <3>1. s \in hist /\ s >= seq
      BY Zenon, <1>1, <2>1, <2>3
    <3>2. s \in Nat
      BY Zenon, <3>1
    <3> QED
      BY <2>3, <3>1, <3>2
  <2>5. \A s \in hist : s <= p.low_mark \/ s \in DOMAIN p.changes =>
                          s <= q.low_mark \/ s \in DOMAIN q.changes
    BY <1>1, <1>2, <2>1, <2>3
  <2>6. \A s \in hist : s <= q.low_mark => s < seq
    BY <2>3
  <2> QED
    BY Zenon, <2>0, <2>3, <2>4, <2>5, <2>6 DEF ReaderProxyOK, Acknowledges, q
<1>3. CASE ~(seq > p.low_mark) /\ (seq # 0 \/ p.volatile)
  <2>1. q = p
    BY Zenon, <1>3 DEF AckedChangesSet
  <2> QED
    BY Zenon, <2>1 DEF Acknowledges
<1>4. CASE ~(seq > p.low_mark) /\ ~(seq # 0 \/ p.volatile) /\ hist = {}
  <2>1. q = [p EXCEPT !.low_mark = n]
    BY <1>4 DEF AckedChangesSet
  <2> HIDE DEF q
  <2>2. q \in ReaderProxyType /\ q.low_mark = n /\ q.changes = p.changes /\ q.active = p.active
    BY Zenon, <1>1, <2>1 DEF ReaderProxyType
  <2>3. ReaderProxyOK(q, hist, n)
    BY <1>1, <1>4, <2>2 DEF ReaderProxyOK
  <2>4. Acknowledges(p, q, {s \in Nat : s < seq}, hist)
    BY Zenon, <1>4, <2>2 DEF Acknowledges
  <2> QED
    BY Zenon, <2>3, <2>4 DEF q
<1>5. CASE ~(seq > p.low_mark) /\ ~(seq # 0 \/ p.volatile) /\ hist # {}
  <2> DEFINE S == {t \in hist : t <= p.low_mark}
             f == WithChanges(p.changes, S, "UNACKNOWLEDGED")
             first == Min(hist)
  <2>1. first \in hist /\ \A t \in hist : first <= t
    BY Zenon, <1>5, MinNat
  <2>2. f \in ChangesType /\ DOMAIN f = DOMAIN p.changes \cup S
    BY Zenon, <1>1, WithChangesType DEF ChangeForReaderStatus
  <2>3. q = [p EXCEPT !.low_mark = first - 1, !.changes = f]
    BY Zenon, <1>5 DEF AckedChangesSet
  <2> HIDE DEF first, f, q
  <2>4. first - 1 \in Nat /\ first - 1 <= n
    BY <2>1
  <2>5. q \in ReaderProxyType /\ q.low_mark = first - 1 /\ q.changes = f /\ q.active = p.active
    BY Zenon, <1>1, <2>2, <2>3, <2>4 DEF ReaderProxyType
  <2>6. ASSUME NEW s \in DOMAIN q.changes PROVE s \in hist /\ s > q.low_mark
    <3>1. s \in hist
      BY Zenon, <1>1, <2>2, <2>5
    <3>2. s \in Nat /\ first \in Nat /\ first <= s
      BY Zenon, <2>1, <3>1
    <3> QED
      BY <2>5, <3>1, <3>2
  <2>7. \A s \in hist : s <= p.low_mark \/ s \in DOMAIN p.changes => s \in DOMAIN q.changes
    BY Zenon, <2>2, <2>5
  <2>8. \A s \in hist : ~(s <= q.low_mark)
    BY <2>1, <2>5
  <2> QED
    BY Zenon, <2>4, <2>5, <2>6, <2>7, <2>8 DEF ReaderProxyOK, Acknowledges, q
<1> QED
  BY Zenon, <1>2, <1>3, <1>4, <1>5

(* change_has_been_removed() acknowledges at most the removed number. *)
LEMMA ChangeHasBeenRemovedAcks ==
    ASSUME NEW n \in Nat, NEW hist \in SUBSET Nat, \A s \in hist : 0 < s /\ s <= n,
           NEW p, ReaderProxyOK(p, hist, n), p.active, NEW seq \in hist
    PROVE  LET q == ChangeHasBeenRemoved(p, seq, hist, n + 1)
           IN  ReaderProxyOK(q, hist \ {seq}, n) /\ Acknowledges(p, q, {}, hist \ {seq})
<1> DEFINE q == ChangeHasBeenRemoved(p, seq, hist, n + 1)
           e == [p EXCEPT !.changes = Restrict(p.changes, DOMAIN p.changes \ {seq})]
<1>1. p \in ReaderProxyType /\ p.low_mark \in Nat /\ p.low_mark <= n
      /\ p.changes \in ChangesType
      /\ \A s \in DOMAIN p.changes : s \in hist /\ s > p.low_mark
  BY Zenon DEF ReaderProxyOK, ReaderProxyType
<1>2. CASE seq \notin DOMAIN p.changes
  <2>1. q = p
    BY Zenon, <1>2 DEF ChangeHasBeenRemoved
  <2> QED
    BY Zenon, <1>1, <1>2, <2>1 DEF ReaderProxyOK, Acknowledges
<1>3. CASE seq \in DOMAIN p.changes
  <2> DEFINE f == Restrict(p.changes, DOMAIN p.changes \ {seq})
  <2>1. f \in ChangesType /\ DOMAIN f = DOMAIN p.changes \ {seq}
    BY Zenon, <1>1, RestrictType
  <2> HIDE DEF f
  <2>2. e \in ReaderProxyType /\ e.low_mark = p.low_mark /\ e.changes = f /\ e.active = p.active
    BY Zenon, <1>1, <2>1 DEF ReaderProxyType, f
  <2>3. q = IF seq = p.low_mark + 1 THEN AckedChangesSet(e, seq + 1, hist, n + 1) ELSE e
    BY Zenon, <1>3 DEF ChangeHasBeenRemoved
  <2> HIDE DEF e, q
  <2>4. ReaderProxyOK(e, hist \ {seq}, n) /\ Acknowledges(p, e, {}, hist \ {seq})
    BY Zenon, <1>1, <2>1, <2>2 DEF ReaderProxyOK, Acknowledges
  <2>5. CASE seq # p.low_mark + 1
    BY Zenon, <2>3, <2>4, <2>5 DEF q
  <2>6. CASE seq = p.low_mark + 1
    <3> DEFINE h == hist \ {seq}
               S == {s \in DOMAIN e.changes : s >= seq + 1}
               g == Restrict(e.changes, S)
    <3>1. g \in ChangesType /\ DOMAIN g = S
      BY Zenon, <2>1, <2>2, RestrictType
    <3>2. q = [e EXCEPT !.low_mark = seq, !.changes = g]
      <4>1. seq + 1 > e.low_mark /\ (seq + 1) - 1 = seq
        BY <1>1, <2>2, <2>6
      <4> QED
        BY Zenon, <2>3, <2>6, <4>1 DEF AckedChangesSet
    <3> HIDE DEF g
    <3>3. q \in ReaderProxyType /\ q.low_mark = seq /\ q.changes = g /\ q.active = p.active
      BY Zenon, <2>2, <3>1, <3>2 DEF ReaderProxyType
    <3>0. \A s \in hist : s \in Nat
      BY Zenon
    <3>4. ASSUME NEW s \in DOMAIN q.changes PROVE s \in h /\ s > q.low_mark
      <4>1. s \in DOMAIN p.changes /\ s # seq /\ s >= seq + 1
        BY Zenon, <2>1, <2>2, <3>1, <3>3
      <4>2. s \in hist /\ s \in Nat /\ seq \in Nat
        BY Zenon, <1>1, <3>0, <4>1
      <4> QED
        BY <3>3, <4>1, <4>2
    <3>5. ASSUME NEW s \in h, s \in DOMAIN p.changes PROVE s \in DOMAIN q.changes
      <4>0. s \in Nat /\ seq \in Nat /\ s > p.low_mark /\ s # seq
        BY Zenon, <1>1, <3>0, <3>5
      <4>1. s >= seq + 1
        BY <1>1, <2>6, <4>0
      <4> QED
        BY Zenon, <2>1, <2>2, <3>1, <3>3, <3>5, <4>1
    <3>6. ASSUME NEW s \in h PROVE s <= q.low_mark <=> s <= p.low_mark
      <4>1. s \in Nat /\ s # seq
        BY Zenon, <3>0
      <4> QED
        BY <1>1, <2>6, <3>3, <4>1
    <3> QED
      BY Zenon, <3>3, <3>4, <3>5, <3>6 DEF ReaderProxyOK, Acknowledges, q
  <2> QED
    BY Zenon, <2>5, <2>6
<1> QED
  BY Zenon, <1>2, <1>3

(* q differs from p in statuses, counts and timers only. *)
SameEntries(p, q) ==
    /\ q \in ReaderProxyType
    /\ q.active = p.active /\ q.low_mark = p.low_mark
    /\ DOMAIN q.changes = DOMAIN p.changes

(* Changing the statuses of a proxy keeps its entries. *)
LEMMA RemarkedEntries ==
    ASSUME NEW p \in ReaderProxyType, NEW g \in [DOMAIN p.changes -> ChangeForReader]
    PROVE  SameEntries(p, [p EXCEPT !.changes = g])
<1>1. p.changes \in ChangesType
  BY Zenon DEF ReaderProxyType
<1>2. DOMAIN p.changes \in SUBSET Nat
  BY Zenon, <1>1, ChangesElim
<1>3. g \in ChangesType /\ DOMAIN g = DOMAIN p.changes
  BY Zenon, <1>2, ChangesIntro
<1> QED
  BY Zenon, <1>3 DEF SameEntries, ReaderProxyType

(* convert_status_on_all_changes() keeps the entries. *)
LEMMA ConvertedEntries ==
    ASSUME NEW p \in ReaderProxyType, NEW previous, NEW next \in ChangeForReaderStatus
    PROVE  SameEntries(p, ConvertStatusOnAllChanges(p, previous, next))
<1> DEFINE g == [s \in DOMAIN p.changes |->
                    IF p.changes[s].status = previous
                    THEN [p.changes[s] EXCEPT !.status = next] ELSE p.changes[s]]
<1>1. p.changes \in ChangesType
  BY Zenon DEF ReaderProxyType
<1>2. p.changes \in [DOMAIN p.changes -> ChangeForReader]
  BY Zenon, <1>1, ChangesElim
<1>3. g \in [DOMAIN p.changes -> ChangeForReader]
  BY Zenon, <1>2 DEF ChangeForReader
<1>4. ConvertStatusOnAllChanges(p, previous, next) = [p EXCEPT !.changes = g]
  BY Zenon DEF ConvertStatusOnAllChanges
<1> HIDE DEF g
<1> QED
  BY Zenon, <1>3, <1>4, RemarkedEntries

(* perform_nack_supression() keeps the entries. *)
LEMMA NackSupressionEntries ==
    ASSUME NEW p \in ReaderProxyType
    PROVE  SameEntries(p, PerformNackSupression(p))
<1> DEFINE c == ConvertStatusOnAllChanges(p, "UNDERWAY", "UNACKNOWLEDGED")
<1>1. SameEntries(p, c)
  BY Zenon, ConvertedEntries DEF ChangeForReaderStatus
<1>2. PerformNackSupression(p) = [c EXCEPT !.nack_supression = FALSE]
  BY Zenon DEF PerformNackSupression
<1> HIDE DEF c
<1> QED
  BY Zenon, <1>1, <1>2 DEF SameEntries, ReaderProxyType

(* perform_acknack_response() keeps the entries. *)
LEMMA AcknackResponseEntries ==
    ASSUME NEW p \in ReaderProxyType
    PROVE  SameEntries(p, PerformAcknackResponse(p))
BY Zenon, ConvertedEntries DEF PerformAcknackResponse, ChangeForReaderStatus

(* requested_changes_set() keeps the entries. *)
LEMMA RequestedEntries ==
    ASSUME NEW p \in ReaderProxyType, NEW sns, NEW hist
    PROVE  SameEntries(p, RequestedChangesSet(p, sns, hist))
<1> DEFINE g == [s \in DOMAIN p.changes |->
                    IF s \in RequestedChanges(p, sns, hist)
                    THEN [p.changes[s] EXCEPT !.status = "REQUESTED"] ELSE p.changes[s]]
<1>1. p.changes \in ChangesType
  BY Zenon DEF ReaderProxyType
<1>2. p.changes \in [DOMAIN p.changes -> ChangeForReader]
  BY Zenon, <1>1, ChangesElim
<1>3. g \in [DOMAIN p.changes -> ChangeForReader]
  BY Zenon, <1>2 DEF ChangeForReader, ChangeForReaderStatus
<1>4. RequestedChangesSet(p, sns, hist) = [p EXCEPT !.changes = g]
  BY Zenon DEF RequestedChangesSet
<1> HIDE DEF g
<1> QED
  BY Zenon, <1>3, <1>4, RemarkedEntries

(* from_unsent_to_status() keeps the entries. *)
LEMMA UnderwayEntries ==
    ASSUME NEW p \in ReaderProxyType, NEW seq \in DOMAIN p.changes
    PROVE  SameEntries(p, FromUnsentToUnderway(p, seq))
<1> DEFINE g == [p.changes EXCEPT ![seq] = [status |-> "UNDERWAY", delivered |-> TRUE]]
           q == [p EXCEPT !.changes = g]
<1>1. p.changes \in ChangesType
  BY Zenon DEF ReaderProxyType
<1>2. p.changes \in [DOMAIN p.changes -> ChangeForReader]
  BY Zenon, <1>1, ChangesElim
<1>3. g \in [DOMAIN p.changes -> ChangeForReader]
  BY Zenon, <1>2 DEF ChangeForReader, ChangeForReaderStatus
<1>4. FromUnsentToUnderway(p, seq) = [q EXCEPT !.nack_supression = TRUE]
  BY Zenon DEF FromUnsentToUnderway, ReaderProxyType
<1> HIDE DEF g
<1>5. SameEntries(p, q)
  BY Zenon, <1>3, RemarkedEntries
<1> HIDE DEF q
<1> QED
  BY Zenon, <1>4, <1>5 DEF SameEntries, ReaderProxyType

(* add_change() of the next number. *)
LEMMA AddedEntry ==
    ASSUME NEW n \in Nat, NEW hist, NEW p, ReaderProxyOK(p, hist, n), p.active,
           NEW status \in ChangeForReaderStatus, NEW relevant \in BOOLEAN
    PROVE  LET q == AddChange(p, n + 1, status, relevant)
           IN  /\ ReaderProxyOK(q, hist \cup {n + 1}, n + 1)
               /\ q.active = p.active /\ q.low_mark = p.low_mark
               /\ DOMAIN p.changes \subseteq DOMAIN q.changes
               /\ relevant => n + 1 \in DOMAIN q.changes
<1> DEFINE q == AddChange(p, n + 1, status, relevant)
           g == WithChanges(p.changes, {n + 1}, status)
<1>1. p \in ReaderProxyType /\ p.low_mark \in Nat /\ p.low_mark <= n
      /\ p.changes \in ChangesType
      /\ \A s \in DOMAIN p.changes : s \in hist /\ s > p.low_mark
  BY Zenon DEF ReaderProxyOK, ReaderProxyType
<1>2. g \in ChangesType /\ DOMAIN g = DOMAIN p.changes \cup {n + 1}
  <2>1. {n + 1} \in SUBSET Nat
    OBVIOUS
  <2> QED
    BY Zenon, <1>1, <2>1, WithChangesType
<1>3. CASE relevant
  <2>1. q = [p EXCEPT !.changes = g]
    BY Zenon, <1>3 DEF AddChange
  <2> HIDE DEF g, q
  <2>2. q \in ReaderProxyType /\ q.low_mark = p.low_mark /\ q.changes = g /\ q.active = p.active
    BY Zenon, <1>1, <1>2, <2>1 DEF ReaderProxyType
  <2>3. \A s \in DOMAIN q.changes : s \in hist \cup {n + 1} /\ s > q.low_mark
    BY <1>1, <1>2, <2>2
  <2>4. q.low_mark <= n + 1
    BY <1>1, <2>2
  <2> QED
    BY Zenon, <1>2, <2>2, <2>3, <2>4 DEF ReaderProxyOK, q
<1>4. CASE ~relevant
  <2>1. q = p
    BY Zenon, <1>4 DEF AddChange
  <2>2. p.low_mark <= n + 1
    BY <1>1
  <2> QED
    BY Zenon, <1>1, <1>4, <2>1, <2>2 DEF ReaderProxyOK
<1> QED
  BY Zenon, <1>3, <1>4

(* start(): nothing of the history is acknowledged. *)
LEMMA StartedProxy ==
    ASSUME NEW n \in Nat, NEW hist \in SUBSET Nat, \A s \in hist : 0 < s /\ s <= n,
           NEW volatile \in BOOLEAN
    PROVE  LET q == StartReaderProxy(volatile, hist, n + 1)
           IN  /\ ReaderProxyOK(q, hist, n) /\ q.active
               /\ \A s \in hist : s > q.low_mark
<1> DEFINE fresh == [StoppedReaderProxy EXCEPT !.active = TRUE, !.volatile = volatile]
           q == StartReaderProxy(volatile, hist, n + 1)
<1>1. StoppedReaderProxy \in ReaderProxyType /\ DOMAIN StoppedReaderProxy.changes = {}
      /\ StoppedReaderProxy.low_mark = 0 /\ StoppedReaderProxy.active = FALSE
  BY Zenon, StoppedReaderProxyOK DEF ReaderProxyOK
<1>2. fresh \in ReaderProxyType /\ DOMAIN fresh.changes = {} /\ fresh.low_mark = 0 /\ fresh.active
      /\ fresh.volatile = volatile
  BY Zenon, <1>1 DEF ReaderProxyType
<1>3. CASE volatile
  <2> DEFINE low == (IF hist = {} THEN n + 1 ELSE Min(hist)) - 1
  <2>1. q = [fresh EXCEPT !.low_mark = low]
    BY Zenon, <1>3 DEF StartReaderProxy
  <2>2. hist # {} => Min(hist) \in hist /\ \A s \in hist : Min(hist) <= s
    BY Zenon, MinNat
  <2>3. low \in Nat /\ low <= n
    <3>1. CASE hist = {}
      BY <3>1
    <3>2. CASE hist # {}
      <4>1. Min(hist) \in Nat /\ 0 < Min(hist) /\ Min(hist) <= n
        BY Zenon, <2>2, <3>2
      <4> QED
        BY <3>2, <4>1
    <3> QED
      BY Zenon, <3>1, <3>2
  <2>4. ASSUME NEW s \in hist PROVE s > low
    <3>1. s \in Nat /\ Min(hist) \in Nat /\ Min(hist) <= s
      BY Zenon, <2>2
    <3> QED
      BY <3>1
  <2> HIDE DEF low, fresh, q
  <2>5. q \in ReaderProxyType /\ q.low_mark = low /\ DOMAIN q.changes = {} /\ q.active
    BY Zenon, <1>2, <2>1, <2>3 DEF ReaderProxyType
  <2> QED
    BY Zenon, <2>3, <2>4, <2>5 DEF ReaderProxyOK, q
<1>4. CASE ~volatile
  <2>1. q = AckedChangesSet(fresh, 0, hist, n + 1)
    BY Zenon, <1>4 DEF StartReaderProxy
  <2> HIDE DEF fresh
  <2>2. ReaderProxyOK(fresh, hist, n)
    BY <1>2 DEF ReaderProxyOK
  <2>3. ReaderProxyOK(q, hist, n) /\ Acknowledges(fresh, q, {s \in Nat : s < 0}, hist)
    BY <1>2, <2>1, <2>2, AckedChangesSetAcks
  <2>4. ASSUME NEW s \in hist PROVE s > q.low_mark
    <3>1. s \in Nat /\ 0 < s /\ q.low_mark \in Nat
      BY Zenon, <2>3 DEF ReaderProxyOK, ReaderProxyType
    <3>2. ~(s <= fresh.low_mark)
      BY <1>2, <3>1
    <3>3. ~(s <= q.low_mark)
      BY <2>3, <3>1, <3>2 DEF Acknowledges
    <3> QED
      BY <3>1, <3>3
  <2> QED
    BY Zenon, <1>2, <2>3, <2>4 DEF Acknowledges
<1> QED
  BY Zenon, <1>3, <1>4

(* The hole deliver_sample() announces before a sample has no entry.       *)
LEMMA GapSeqHole ==
    ASSUME NEW n \in Nat, NEW hist \in SUBSET Nat, \A s \in hist : s <= n,
           NEW p, ReaderProxyOK(p, hist, n), NEW seq \in Nat, NEW min_seq \in Nat,
           GapSeq(p, seq, min_seq) # 0
    PROVE  /\ GapSeq(p, seq, min_seq) \in Nat
           /\ \A s \in Nat : GapSeq(p, seq, min_seq) <= s /\ s < seq =>
                 ~(s <= p.low_mark) /\ s \notin DOMAIN p.changes
<1> DEFINE below == {s \in DOMAIN p.changes : s < seq}
           marks == {p.low_mark} \cup below
           prev == Max(marks) + 1
           gap == Max({prev, min_seq})
<1>1. /\ p.low_mark \in Nat /\ p.low_mark <= n
      /\ DOMAIN p.changes \in SUBSET Nat /\ \A s \in DOMAIN p.changes : s <= n
  <2>1. p.low_mark \in Nat /\ p.low_mark <= n /\ p.changes \in ChangesType
    BY Zenon DEF ReaderProxyOK, ReaderProxyType
  <2>2. DOMAIN p.changes \in SUBSET Nat
    BY Zenon, <2>1, ChangesElim
  <2>3. \A s \in DOMAIN p.changes : s \in hist
    BY Zenon DEF ReaderProxyOK
  <2> QED
    BY Zenon, <2>1, <2>2, <2>3
<1>2. marks \in SUBSET Nat /\ marks # {} /\ (\A s \in marks : s <= n)
  BY Zenon, <1>1
<1>3. Max(marks) \in marks /\ \A s \in marks : Max(marks) >= s
  <2> HIDE DEF marks
  <2> QED
    BY Zenon, <1>2, MaxNat
<1>4. prev \in Nat /\ \A s \in marks : prev > s
  <2>1. Max(marks) \in Nat
    BY Zenon, <1>2, <1>3
  <2>2. ASSUME NEW s \in marks PROVE prev > s
    <3>1. s \in Nat /\ Max(marks) >= s
      BY Zenon, <1>2, <1>3
    <3> QED
      BY <2>1, <3>1
  <2> QED
    BY <2>1, <2>2
<1> HIDE DEF prev
<1>5. gap \in Nat /\ gap >= prev
  <2>1. {prev, min_seq} \in SUBSET Nat /\ {prev, min_seq} # {} /\ prev + min_seq \in Nat
        /\ \A s \in {prev, min_seq} : s <= prev + min_seq
    BY <1>4
  <2>2. gap \in {prev, min_seq} /\ \A y \in {prev, min_seq} : gap >= y
    BY Zenon, <2>1, MaxNat
  <2> QED
    BY Zenon, <1>4, <2>2
<1>6. GapSeq(p, seq, min_seq) = gap
  BY Zenon DEF GapSeq, prev
<1> HIDE DEF gap
<1>7. ASSUME NEW s \in Nat, gap <= s, s < seq
      PROVE  ~(s <= p.low_mark) /\ s \notin DOMAIN p.changes
  <2>1. prev <= s
    BY <1>4, <1>5, <1>7
  <2>2. s \notin marks
    BY <1>4, <2>1
  <2>3. p.low_mark \in marks
    BY Zenon
  <2>4. p.low_mark < s
    BY <1>1, <1>4, <2>1, <2>3
  <2> QED
    BY <1>1, <1>7, <2>2, <2>4
<1> QED
  BY Zenon, <1>5, <1>6, <1>7

-----------------------------------------------------------------------------
(* Every entry of q is one of p with its status; the timer is as it was. *)
KeepsStatus(p, q) ==
    /\ q.nack_supression = p.nack_supression /\ q.volatile = p.volatile
    /\ \A s \in DOMAIN q.changes :
          s \in DOMAIN p.changes /\ q.changes[s].status = p.changes[s].status

(* convert_status_on_all_changes() changes one status into another. *)
LEMMA ConvertedStatus ==
    ASSUME NEW p \in ReaderProxyType, NEW previous, NEW next \in ChangeForReaderStatus
    PROVE  LET q == ConvertStatusOnAllChanges(p, previous, next)
           IN  /\ q.nack_supression = p.nack_supression /\ q.volatile = p.volatile
               /\ \A s \in DOMAIN p.changes : q.changes[s].status =
                     IF p.changes[s].status = previous THEN next ELSE p.changes[s].status
<1> DEFINE g == [s \in DOMAIN p.changes |->
                    IF p.changes[s].status = previous
                    THEN [p.changes[s] EXCEPT !.status = next] ELSE p.changes[s]]
           q == ConvertStatusOnAllChanges(p, previous, next)
<1>1. p.changes \in [DOMAIN p.changes -> ChangeForReader]
  BY Zenon, ChangesElim DEF ReaderProxyType
<1>2. ASSUME NEW s \in DOMAIN p.changes
      PROVE  g[s].status = IF p.changes[s].status = previous THEN next ELSE p.changes[s].status
  BY Zenon, <1>1 DEF ChangeForReader
<1> HIDE DEF g
<1>3. q.changes = g /\ q.nack_supression = p.nack_supression /\ q.volatile = p.volatile
  BY Zenon DEF ConvertStatusOnAllChanges, ReaderProxyType, g
<1> QED
  BY Zenon, <1>2, <1>3

(* requested_changes_set() marks what it finds unacknowledged. *)
LEMMA RequestedStatus ==
    ASSUME NEW p \in ReaderProxyType, NEW sns, NEW hist
    PROVE  LET q == RequestedChangesSet(p, sns, hist)
           IN  /\ q.nack_supression = p.nack_supression /\ q.volatile = p.volatile
               /\ \A s \in DOMAIN p.changes : q.changes[s].status =
                     IF s \in RequestedChanges(p, sns, hist) THEN "REQUESTED"
                                                             ELSE p.changes[s].status
<1> DEFINE g == [s \in DOMAIN p.changes |->
                    IF s \in RequestedChanges(p, sns, hist)
                    THEN [p.changes[s] EXCEPT !.status = "REQUESTED"] ELSE p.changes[s]]
           q == RequestedChangesSet(p, sns, hist)
<1>1. p.changes \in [DOMAIN p.changes -> ChangeForReader]
  BY Zenon, ChangesElim DEF ReaderProxyType
<1>2. ASSUME NEW s \in DOMAIN p.changes
      PROVE  g[s].status = IF s \in RequestedChanges(p, sns, hist) THEN "REQUESTED"
                                                                   ELSE p.changes[s].status
  BY Zenon, <1>1 DEF ChangeForReader
<1> HIDE DEF g
<1>3. q.changes = g /\ q.nack_supression = p.nack_supression /\ q.volatile = p.volatile
  BY Zenon DEF RequestedChangesSet, ReaderProxyType, g
<1> QED
  BY Zenon, <1>2, <1>3

(* from_unsent_to_status() starts the nack suppression timer. *)
LEMMA UnderwayStatus ==
    ASSUME NEW p \in ReaderProxyType, NEW seq \in DOMAIN p.changes
    PROVE  LET q == FromUnsentToUnderway(p, seq)
           IN  /\ q.nack_supression = TRUE /\ q.volatile = p.volatile
               /\ \A s \in DOMAIN p.changes : q.changes[s].status =
                     IF s = seq THEN "UNDERWAY" ELSE p.changes[s].status
<1> DEFINE g == [p.changes EXCEPT ![seq] = [status |-> "UNDERWAY", delivered |-> TRUE]]
           q == FromUnsentToUnderway(p, seq)
<1>1. p.changes \in [DOMAIN p.changes -> ChangeForReader]
  BY Zenon, ChangesElim DEF ReaderProxyType
<1>2. ASSUME NEW s \in DOMAIN p.changes
      PROVE  g[s].status = IF s = seq THEN "UNDERWAY" ELSE p.changes[s].status
  BY Zenon, <1>1 DEF ChangeForReader
<1> HIDE DEF g
<1>3. q.changes = g /\ q.nack_supression = TRUE /\ q.volatile = p.volatile
  BY Zenon DEF FromUnsentToUnderway, ReaderProxyType, g
<1> QED
  BY Zenon, <1>2, <1>3

(* acked_changes_set() only gives new entries to a durable reader that     *)
(* asks from the start, and those are unacknowledged.                      *)
LEMMA AckedStatus ==
    ASSUME NEW p \in ReaderProxyType, NEW seq \in Nat, NEW hist \in SUBSET Nat, NEW next
    PROVE  LET q == AckedChangesSet(p, seq, hist, next)
           IN  /\ q.nack_supression = p.nack_supression /\ q.volatile = p.volatile
               /\ seq # 0 \/ p.volatile => KeepsStatus(p, q)
               /\ \A s \in DOMAIN q.changes :
                     \/ s \in DOMAIN p.changes /\ q.changes[s].status = p.changes[s].status
                     \/ q.changes[s].status = "UNACKNOWLEDGED"
<1> DEFINE q == AckedChangesSet(p, seq, hist, next)
<1>0. p.low_mark \in Nat
  BY Zenon DEF ReaderProxyType
<1>1. CASE seq > p.low_mark
  <2> DEFINE S == {s \in DOMAIN p.changes : s >= seq}
             f == Restrict(p.changes, S)
  <2>1. q = [p EXCEPT !.low_mark = seq - 1, !.changes = f]
    BY Zenon, <1>1 DEF AckedChangesSet
  <2>2. DOMAIN f = S /\ \A s \in S : f[s] = p.changes[s]
    BY Zenon DEF Restrict
  <2> HIDE DEF f, q
  <2>3. q.changes = f /\ q.nack_supression = p.nack_supression /\ q.volatile = p.volatile
    BY Zenon, <2>1 DEF ReaderProxyType
  <2>4. KeepsStatus(p, q)
    BY Zenon, <2>2, <2>3 DEF KeepsStatus
  <2> QED
    BY Zenon, <2>4 DEF KeepsStatus, q
<1>2. CASE ~(seq > p.low_mark) /\ (seq # 0 \/ p.volatile)
  BY Zenon, <1>2 DEF AckedChangesSet, KeepsStatus
<1>3. CASE ~(seq > p.low_mark) /\ ~(seq # 0 \/ p.volatile) /\ hist = {}
  BY Zenon, <1>3 DEF AckedChangesSet, ReaderProxyType
<1>4. CASE ~(seq > p.low_mark) /\ ~(seq # 0 \/ p.volatile) /\ hist # {}
  <2> DEFINE f == WithChanges(p.changes, {t \in hist : t <= p.low_mark}, "UNACKNOWLEDGED")
  <2>1. q = [p EXCEPT !.low_mark = Min(hist) - 1, !.changes = f]
    BY Zenon, <1>4 DEF AckedChangesSet
  <2>2. ASSUME NEW s \in DOMAIN f
        PROVE  (s \in DOMAIN p.changes /\ f[s] = p.changes[s]) \/ f[s].status = "UNACKNOWLEDGED"
    BY Zenon DEF WithChanges, NewChange
  <2> HIDE DEF f, q
  <2>3. q.changes = f /\ q.nack_supression = p.nack_supression /\ q.volatile = p.volatile
    BY Zenon, <2>1 DEF ReaderProxyType
  <2> QED
    BY Zenon, <1>4, <2>2, <2>3 DEF q
<1> QED
  BY Zenon, <1>0, <1>1, <1>2, <1>3, <1>4

(* change_has_been_removed() leaves the other entries as they are. *)
LEMMA RemovedStatus ==
    ASSUME NEW p \in ReaderProxyType, NEW seq \in Nat, NEW hist \in SUBSET Nat, NEW next
    PROVE  KeepsStatus(p, ChangeHasBeenRemoved(p, seq, hist, next))
<1> DEFINE f == Restrict(p.changes, DOMAIN p.changes \ {seq})
           e == [p EXCEPT !.changes = f]
           q == ChangeHasBeenRemoved(p, seq, hist, next)
<1>1. CASE seq \notin DOMAIN p.changes
  BY Zenon, <1>1 DEF ChangeHasBeenRemoved, KeepsStatus
<1>2. CASE seq \in DOMAIN p.changes
  <2>1. q = IF seq = p.low_mark + 1 THEN AckedChangesSet(e, seq + 1, hist, next) ELSE e
    BY Zenon, <1>2 DEF ChangeHasBeenRemoved
  <2>2. f \in ChangesType
    BY Zenon, RestrictType DEF ReaderProxyType
  <2>3. DOMAIN f = DOMAIN p.changes \ {seq} /\ \A s \in DOMAIN f : f[s] = p.changes[s]
    BY Zenon DEF Restrict
  <2> HIDE DEF f
  <2>4. e \in ReaderProxyType /\ e.changes = f /\ e.nack_supression = p.nack_supression
        /\ e.volatile = p.volatile
    BY Zenon, <2>2 DEF ReaderProxyType
  <2>5. KeepsStatus(p, e)
    BY Zenon, <2>3, <2>4 DEF KeepsStatus
  <2> HIDE DEF e
  <2>6. KeepsStatus(e, AckedChangesSet(e, seq + 1, hist, next))
    <3>1. seq + 1 \in Nat /\ seq + 1 # 0
      OBVIOUS
    <3> QED
      BY Zenon, <2>4, <3>1, AckedStatus
  <2> QED
    BY Zenon, <2>1, <2>5, <2>6 DEF KeepsStatus
<1> QED
  BY Zenon, <1>1, <1>2

(* add_change() gives its status to the new entry only. *)
LEMMA AddedStatus ==
    ASSUME NEW p \in ReaderProxyType, NEW seq, NEW status, NEW relevant \in BOOLEAN
    PROVE  LET q == AddChange(p, seq, status, relevant)
           IN  /\ q.nack_supression = p.nack_supression /\ q.volatile = p.volatile
               /\ \A s \in DOMAIN q.changes :
                     \/ s \in DOMAIN p.changes /\ q.changes[s].status = p.changes[s].status
                     \/ relevant /\ s = seq /\ q.changes[s].status = status
<1> DEFINE q == AddChange(p, seq, status, relevant)
           f == WithChanges(p.changes, {seq}, status)
<1>1. CASE ~relevant
  BY Zenon, <1>1 DEF AddChange
<1>2. CASE relevant
  <2>1. q = [p EXCEPT !.changes = f]
    BY Zenon, <1>2 DEF AddChange
  <2>2. ASSUME NEW s \in DOMAIN f
        PROVE  \/ s \in DOMAIN p.changes /\ f[s] = p.changes[s]
               \/ s = seq /\ f[s].status = status
    BY Zenon DEF WithChanges, NewChange
  <2> HIDE DEF f, q
  <2>3. q.changes = f /\ q.nack_supression = p.nack_supression /\ q.volatile = p.volatile
    BY Zenon, <2>1 DEF ReaderProxyType
  <2> QED
    BY Zenon, <1>2, <2>2, <2>3 DEF q
<1> QED
  BY Zenon, <1>1, <1>2

=============================================================================
